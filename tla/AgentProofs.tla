---------------------------- MODULE AgentProofs ----------------------------
(***************************************************************************)
(* Theorems about an agent: its standing (AgentStanding), for any agents,  *)
(* activities, sweeps, shapes and threshold, and its public page through   *)
(* its two caches (AgentPage), for any requests and time to live.          *)
(*                                                                         *)
(* The standing.  That strike rows are exactly the standing mismatches is  *)
(* what makes the counter correct: a verdict never strikes an activity     *)
(* twice, and a reopen withdraws one row or none.                          *)
(*                                                                         *)
(* The page.  An entry expires a time to live after its load was started,  *)
(* so no later than a time to live after the load has read; whoever shares *)
(* the load therefore gets what was read less than a time to live before   *)
(* its request, however long the load takes.                               *)
(***************************************************************************)
EXTENDS AgentStanding, AgentPage, FiniteSetTheorems, TLAPS

StandingInv == TypeOK /\ StrikesAreMismatches /\ CountIsRows

-----------------------------------------------------------------------------
(* Strike rows *)

LEMMA StrikesFinite ==
    ASSUME TypeOK, NEW a \in Agents
    PROVE  IsFiniteSet(StrikesOf(a)) /\ Cardinality(StrikesOf(a)) \in Nat
<1>1. StrikesOf(a) \subseteq Activities
  BY DEF StrikesOf, OwnedBy
<1>2. IsFiniteSet(StrikesOf(a))
  BY <1>1, FS_Subset, StandingAssumption
<1>3. QED
  BY <1>2, FS_CardinalityType

\* A new row adds one to its owner's rows and leaves every other agent's.
LEMMA StrikeAddsRow ==
    ASSUME TypeOK, NEW k \in Activities, k \notin struck, struck' = struck \cup {k},
           NEW a \in Agents
    PROVE  Cardinality(StrikesOf(a)') =
              Cardinality(StrikesOf(a)) + (IF a = Owner[k] THEN 1 ELSE 0)
<1>1. CASE a = Owner[k]
  <2>1. StrikesOf(a)' = StrikesOf(a) \cup {k} /\ k \notin StrikesOf(a)
    BY <1>1 DEF StrikesOf, OwnedBy
  <2>2. QED
    BY <1>1, <2>1, StrikesFinite, FS_AddElement
<1>2. CASE a # Owner[k]
  <2>1. StrikesOf(a)' = StrikesOf(a)
    BY <1>2 DEF StrikesOf, OwnedBy
  <2>2. QED
    BY <1>2, <2>1, StrikesFinite
<1>3. QED
  BY <1>1, <1>2

\* A withdrawn row takes one from its owner's rows, of which there was one.
LEMMA ReopenRemovesRow ==
    ASSUME TypeOK, NEW k \in struck, struck' = struck \ {k}, NEW a \in Agents
    PROVE  /\ Cardinality(StrikesOf(a)') =
                 Cardinality(StrikesOf(a)) - (IF a = Owner[k] THEN 1 ELSE 0)
           /\ a = Owner[k] => Cardinality(StrikesOf(a)) > 0
<1>0. k \in Activities
  BY DEF TypeOK
<1>1. CASE a = Owner[k]
  <2>1. StrikesOf(a)' = StrikesOf(a) \ {k} /\ k \in StrikesOf(a)
    BY <1>0, <1>1 DEF StrikesOf, OwnedBy
  <2>2. Cardinality(StrikesOf(a)') = Cardinality(StrikesOf(a)) - 1
    BY <2>1, StrikesFinite, FS_RemoveElement
  <2>3. Cardinality(StrikesOf(a)) # 0
    BY <2>1, StrikesFinite, FS_EmptySet
  <2>4. QED
    BY <1>1, <2>2, <2>3, StrikesFinite
<1>2. CASE a # Owner[k]
  <2>1. StrikesOf(a)' = StrikesOf(a)
    BY <1>2 DEF StrikesOf, OwnedBy
  <2>2. QED
    BY <1>2, <2>1, StrikesFinite
<1>3. QED
  BY <1>1, <1>2

-----------------------------------------------------------------------------
(* The inductive invariant *)

LEMMA InitStanding == Init => StandingInv
<1> SUFFICES ASSUME Init PROVE StandingInv
  OBVIOUS
<1>1. TypeOK
  BY DEF Init, TypeOK, AgentStatuses, ActivityStates
<1>2. StrikesAreMismatches
  BY DEF Init, StrikesAreMismatches
<1>3. \A a \in Agents : StrikesOf(a) = {}
  BY DEF Init, StrikesOf
<1>4. CountIsRows
  BY <1>3, FS_EmptySet DEF Init, CountIsRows
<1>5. QED
  BY <1>1, <1>2, <1>4 DEF StandingInv

\* The steps that leave data, rows and counters alone.
LEMMA QuietStanding ==
    ASSUME StandingInv, TypeOK', UNCHANGED <<strikeCount, dataVars>>,
           drifted \subseteq drifted'
    PROVE  StandingInv'
BY DEF StandingInv, StrikesAreMismatches, CountIsRows, StrikesOf, dataVars

LEMMA NextStanding == StandingInv /\ [Next]_vars => StandingInv'
<1> SUFFICES ASSUME StandingInv, [Next]_vars PROVE StandingInv'
  OBVIOUS
<1> USE DEF agentVars, dataVars
<1>t. TypeOK
  BY DEF StandingInv
<1>o. \A k \in Activities : Owner[k] \in Agents
  BY StandingAssumption
<1>1. ASSUME NEW a \in Agents, Register(a) \/ Revoke(a) \/ PurgeDelayPasses(a)
      PROVE  StandingInv'
  <2>1. TypeOK'
    BY <1>1, <1>t DEF TypeOK, AgentStatuses, Register, Revoke, PurgeDelayPasses
  <2>2. QED
    BY <1>1, <2>1, QuietStanding DEF Register, Revoke, PurgeDelayPasses
<1>2. ASSUME NEW a \in Agents, Authenticate(a) \/ EndBatch(a)
      PROVE  StandingInv'
  <2>1. TypeOK'
    BY <1>2, <1>t DEF TypeOK, Authenticate, EndBatch
  <2>2. QED
    BY <1>2, <2>1, QuietStanding DEF Authenticate, EndBatch
<1>3. ASSUME NEW a \in Agents, LiftQuarantine(a)
      PROVE  StandingInv'
  <2>1. TypeOK'
    BY <1>3, <1>t DEF TypeOK, AgentStatuses, LiftQuarantine
  <2>2. QED
    BY <1>3, <1>t, <2>1 DEF LiftQuarantine, StandingInv, TypeOK, StrikesAreMismatches,
                            CountIsRows, StrikesOf
<1>4. ASSUME NEW k \in Activities,
             \/ IngestEvent(k) \/ VerifyActivity(k) \/ RetryVerification(k)
             \/ MismatchUnstruck(k)
      PROVE  StandingInv'
  <2>1. TypeOK'
    BY <1>4, <1>t DEF TypeOK, ActivityStates, IngestEvent, VerifyActivity,
                      RetryVerification, MismatchUnstruck
  <2>2. StrikesAreMismatches'
    BY <1>4, <1>t DEF StandingInv, TypeOK, StrikesAreMismatches, IngestEvent,
                      VerifyActivity, RetryVerification, MismatchUnstruck
  <2>3. CountIsRows'
    BY <1>4 DEF StandingInv, CountIsRows, StrikesOf, IngestEvent,
                VerifyActivity, RetryVerification, MismatchUnstruck
  <2>4. QED
    BY <2>1, <2>2, <2>3 DEF StandingInv
<1>5. ASSUME NEW k \in Activities, RecordStrike(k)
      PROVE  StandingInv'
  <2>1. TypeOK'
    <3>1. struck' \subseteq Activities
      BY <1>5, <1>t DEF TypeOK, RecordStrike
    <3>2. /\ activity' \in [Activities -> ActivityStates]
          /\ strikeCount' \in [Agents -> Nat] /\ status' \in [Agents -> AgentStatuses]
      BY <1>5, <1>t, <1>o DEF TypeOK, AgentStatuses, ActivityStates, RecordStrike
    <3>3. QED
      BY <1>5, <1>t, <3>1, <3>2 DEF TypeOK, RecordStrike
  <2>2. k \notin struck /\ struck' = struck \cup {k}
    BY <1>5 DEF StandingInv, StrikesAreMismatches, RecordStrike
  <2>3. StrikesAreMismatches'
    BY <1>5, <1>t DEF StandingInv, TypeOK, StrikesAreMismatches, RecordStrike
  <2>4. CountIsRows'
    <3>1. SUFFICES ASSUME NEW a \in Agents, a \notin drifted
                   PROVE  strikeCount'[a] = Cardinality(StrikesOf(a)')
      BY <1>5 DEF CountIsRows, RecordStrike, StrikesOf
    <3>2. strikeCount[a] = Cardinality(StrikesOf(a))
      BY <3>1 DEF StandingInv, CountIsRows
    <3>3. strikeCount'[a] = strikeCount[a] + (IF a = Owner[k] THEN 1 ELSE 0)
      BY <1>5, <1>t DEF RecordStrike, TypeOK
    <3>4. QED
      BY <1>t, <2>2, <3>2, <3>3, StrikeAddsRow
  <2>5. QED
    BY <2>1, <2>3, <2>4 DEF StandingInv
<1>6. ASSUME NEW k \in Activities, ReopenVerification(k)
      PROVE  StandingInv'
  <2> DEFINE withdrawn == IF k \in struck THEN 1 ELSE 0
  <2>0. RestoreAgentStanding(Owner[k], withdrawn)
    BY <1>6 DEF ReopenVerification
  <2>1. TypeOK'
    BY <1>6, <1>t, <1>o, <2>0
       DEF TypeOK, AgentStatuses, ActivityStates, ReopenVerification, RestoreAgentStanding
  <2>2. StrikesAreMismatches'
    BY <1>6, <1>t DEF StandingInv, TypeOK, StrikesAreMismatches, ReopenVerification
  <2>3. CountIsRows'
    <3>1. SUFFICES ASSUME NEW a \in Agents, a \notin drifted
                   PROVE  strikeCount'[a] = Cardinality(StrikesOf(a)')
      BY <1>6 DEF CountIsRows, ReopenVerification, StrikesOf
    <3>2. strikeCount[a] = Cardinality(StrikesOf(a)) /\ strikeCount[a] \in Nat
      BY <1>t, <3>1 DEF StandingInv, CountIsRows, TypeOK
    <3>3. CASE k \in struck
      <4>1. strikeCount'[a] = IF a = Owner[k]
               THEN IF strikeCount[a] > 1 THEN strikeCount[a] - 1 ELSE 0
               ELSE strikeCount[a]
        BY <1>t, <1>o, <2>0, <3>3 DEF RestoreAgentStanding, TypeOK
      <4>2. struck' = struck \ {k}
        BY <1>6 DEF ReopenVerification
      <4>3. QED
        BY <1>t, <3>2, <3>3, <4>1, <4>2, ReopenRemovesRow
    <3>4. CASE k \notin struck
      <4>1. strikeCount'[a] = strikeCount[a]
        BY <1>t, <1>o, <2>0, <3>4 DEF RestoreAgentStanding, TypeOK
      <4>2. StrikesOf(a)' = StrikesOf(a)
        BY <1>6, <3>4 DEF ReopenVerification, StrikesOf
      <4>3. QED
        BY <3>2, <4>1, <4>2
    <3>5. QED
      BY <3>3, <3>4
  <2>4. QED
    BY <2>1, <2>2, <2>3 DEF StandingInv
<1>7. ASSUME NEW s \in Sweepers, FindAgentsDueForPurge(s) \/ SweepFails(s)
      PROVE  StandingInv'
  <2>1. TypeOK'
    BY <1>7, <1>t DEF TypeOK, FindAgentsDueForPurge, SweepFails
  <2>2. QED
    BY <1>7, <2>1, QuietStanding DEF FindAgentsDueForPurge, SweepFails
<1>8. ASSUME NEW s \in Sweepers, NEW a \in Agents, PurgeAgentData(s, a)
      PROVE  StandingInv'
  <2>1. TypeOK'
    BY <1>8, <1>t DEF TypeOK, ActivityStates, PurgeAgentData
  <2>2. StrikesAreMismatches'
    BY <1>8 DEF StandingInv, StrikesAreMismatches, PurgeAgentData, OwnedBy
  <2>3. CountIsRows'
    <3>1. SUFFICES ASSUME NEW b \in Agents, b \notin drifted'
                   PROVE  strikeCount'[b] = Cardinality(StrikesOf(b)')
      BY DEF CountIsRows
    <3>2. b # a /\ b \notin drifted
      BY <1>8, <3>1 DEF PurgeAgentData
    <3>3. StrikesOf(b)' = StrikesOf(b)
      BY <1>8, <3>2 DEF PurgeAgentData, StrikesOf, OwnedBy
    <3>4. QED
      BY <1>8, <3>2, <3>3 DEF StandingInv, CountIsRows, PurgeAgentData
  <2>4. QED
    BY <2>1, <2>2, <2>3 DEF StandingInv
<1>9. CASE UNCHANGED vars
  BY <1>9 DEF vars, StandingInv, TypeOK, StrikesAreMismatches, CountIsRows, StrikesOf
<1>10. QED
  BY <1>1, <1>2, <1>3, <1>4, <1>5, <1>6, <1>7, <1>8, <1>9 DEF Next

LEMMA StandingInvariant == Spec => []StandingInv
BY InitStanding, NextStanding, PTL DEF Spec

-----------------------------------------------------------------------------
(* The theorems about standing *)

\* Every reachable state assigns each column and each process's memory a value
\* of its type; the clamp keeps the counter a natural number.
THEOREM StandingTypeCorrect == Spec => []TypeOK
<1>1. StandingInv => TypeOK
  BY DEF StandingInv
<1>2. QED
  BY <1>1, StandingInvariant, PTL

\* Verdict, reopen and purge never leave a strike without its mismatch or a
\* mismatch that may strike without its strike.
THEOREM StandingStrikesAreMismatches == Spec => []StrikesAreMismatches
<1>1. StandingInv => StrikesAreMismatches
  BY DEF StandingInv
<1>2. QED
  BY <1>1, StandingInvariant, PTL

\* Until a lift or a purge, the counter is the number of the agent's strikes.
THEOREM StandingCountIsRows == Spec => []CountIsRows
<1>1. StandingInv => CountIsRows
  BY DEF StandingInv
<1>2. QED
  BY <1>1, StandingInvariant, PTL

\* An agent enters quarantine only on Threshold independent shapes.
THEOREM StandingQuarantineNeedsShapes == Spec => QuarantineNeedsShapes
<1>1. TypeOK /\ [Next]_vars => [\A a \in Agents : EntersQuarantineOnShapes(a)]_vars
  <2> SUFFICES ASSUME TypeOK, Next, NEW a \in Agents,
                      status[a] # "quarantined", status'[a] = "quarantined"
               PROVE  IndependentShapes(StrikesOf(a)') >= Threshold
    BY DEF EntersQuarantineOnShapes
  <2>1. PICK k \in Activities : RecordStrike(k)
    BY DEF TypeOK, Next, agentVars, dataVars, Register, Revoke, PurgeDelayPasses,
           Authenticate, EndBatch, LiftQuarantine, IngestEvent, VerifyActivity,
           MismatchUnstruck, RetryVerification, ReopenVerification,
           RestoreAgentStanding, FindAgentsDueForPurge, SweepFails, PurgeAgentData
  <2>2. a = Owner[k] /\ IndependentShapes(StrikesOf(a) \cup {k}) >= Threshold
    BY <2>1 DEF RecordStrike, TypeOK
  <2>3. StrikesOf(a)' = StrikesOf(a) \cup {k}
    BY <2>1, <2>2 DEF RecordStrike, StrikesOf, OwnedBy
  <2>4. QED
    BY <2>2, <2>3
<1>2. QED
  BY <1>1, StandingTypeCorrect, PTL DEF Spec, QuarantineNeedsShapes

-----------------------------------------------------------------------------
(* THE AGENT'S PAGE: the invariant *)

Typed ==
    /\ clock \in Nat /\ active \in BOOLEAN /\ verified \in BOOLEAN
    /\ lastPublished \in Int /\ lastHidden \in Int
    /\ entry \in [Caches -> [owner : Requests \cup {Nobody}, expires : Nat]]
    /\ load \in [Caches -> [Requests -> LoadValues]]
    /\ request \in [Requests -> [step : RequestSteps, began : Nat,
                                 owner : Requests \cup {Nobody}]]
    /\ failures \in Nat

HistorySound ==
    /\ lastPublished <= clock /\ lastHidden <= clock
    /\ IF Published THEN lastPublished = clock ELSE lastHidden = clock

HasRead(c, q) == load[c][q].step \in {"read", "settled"}

\* What a load has read was so when it read.
LoadSound(c, q) ==
    HasRead(c, q) =>
        /\ load[c][q].value # "none" /\ load[c][q].readAt <= clock
        /\ c = "gate" /\ load[c][q].value = "found" => load[c][q].readAt <= lastPublished
        /\ load[c][q].value = "absent" => load[c][q].readAt <= lastHidden

EntrySound(c) ==
    entry[c].owner # Nobody =>
        /\ load[c][entry[c].owner].step # "none"
        /\ entry[c].expires <= clock + Ttl
        /\ HasRead(c, entry[c].owner) =>
              entry[c].expires <= load[c][entry[c].owner].readAt + Ttl

\* A request awaits, or was answered from, a load that reads recently enough.
Shares(c, q) ==
    /\ request[q].owner \in Requests
    /\ load[c][request[q].owner].step # "none"
    /\ HasRead(c, request[q].owner) =>
          load[c][request[q].owner].readAt > request[q].began - Ttl

RequestSound(q) ==
    /\ request[q].began <= clock
    /\ request[q].step = "idle" => load["gate"][q].step = "none"
    /\ request[q].step \in {"idle", "gate", "passed"} => load["page"][q].step = "none"
    /\ request[q].step = "gate" => Shares("gate", q)
    /\ request[q].step \in {"page", "served"} => Shares("page", q)
    /\ request[q].step = "served" => HasRead("page", request[q].owner)
    /\ request[q].step \in {"passed", "page"} => lastPublished > request[q].began - Ttl

PageInv ==
    /\ Typed /\ HistorySound
    /\ \A c \in Caches : EntrySound(c) /\ \A q \in Requests : LoadSound(c, q)
    /\ \A q \in Requests : RequestSound(q)

-----------------------------------------------------------------------------
LEMMA LoadFields ==
    ASSUME Typed, NEW c \in Caches, NEW q \in Requests
    PROVE  /\ load[c][q] \in LoadValues /\ load[c][q].readAt \in Nat
           /\ load[c][q].step \in {"none", "running", "read", "settled"}
           /\ load[c][q].value \in {"none", "found", "absent", "error"}
<1>1. load[c][q] \in LoadValues
  BY DEF Typed
<1>2. QED
  BY <1>1 DEF LoadValues

LEMMA EntryFields ==
    ASSUME Typed, NEW c \in Caches
    PROVE  entry[c].owner \in Requests \cup {Nobody} /\ entry[c].expires \in Nat
BY DEF Typed

LEMMA RequestFields ==
    ASSUME Typed, NEW q \in Requests
    PROVE  /\ request[q].began \in Nat /\ request[q].owner \in Requests \cup {Nobody}
           /\ request[q].step \in RequestSteps
BY DEF Typed

\* One load takes another value.
LEMMA LoadReplaced ==
    ASSUME Typed, NEW c \in Caches, NEW q \in Requests, NEW v \in LoadValues,
           load' = [load EXCEPT ![c][q] = v]
    PROVE  /\ load' \in [Caches -> [Requests -> LoadValues]] /\ load'[c][q] = v
           /\ \A d \in Caches, p \in Requests : d # c \/ p # q => load'[d][p] = load[d][p]
BY DEF Typed

\* A request moves on.
LEMMA RequestMoves ==
    ASSUME Typed, NEW q \in Requests, NEW s \in RequestSteps,
           request' = [request EXCEPT ![q].step = s]
    PROVE  /\ request' \in [Requests -> [step : RequestSteps, began : Nat,
                                         owner : Requests \cup {Nobody}]]
           /\ request'[q].step = s /\ request'[q].began = request[q].began
           /\ request'[q].owner = request[q].owner
           /\ \A p \in Requests : p # q => request'[p] = request[p]
BY DEF Typed

\* TtlCache.get, where the request has no load yet: it shares one that reads
\* later than a time to live before now, and disturbs nobody's.
LEMMA GetShares ==
    ASSUME PageInv, NEW c \in Caches, NEW q \in Requests, load[c][q].step = "none",
           CacheGet(c, q), clock' = clock, UNCHANGED historyVars
    PROVE  /\ entry' \in [Caches -> [owner : Requests \cup {Nobody}, expires : Nat]]
           /\ load' \in [Caches -> [Requests -> LoadValues]]
           /\ \A d \in Caches, p \in Requests : d # c \/ p # q => load'[d][p] = load[d][p]
           /\ load'[c][q].step \in {"none", "running"}
           /\ \A d \in Caches : EntrySound(d)' /\ \A p \in Requests : LoadSound(d, p)'
           /\ Shared(c, q) \in Requests
           /\ load'[c][Shared(c, q)].step # "none"
           /\ load'[c][Shared(c, q)].step \in {"read", "settled"} =>
                  load'[c][Shared(c, q)].readAt > clock - Ttl
<1>t. Typed /\ clock \in Nat
  BY DEF PageInv, Typed
<1>1. CASE Live(c)
  <2>1. UNCHANGED <<entry, load>> /\ Shared(c, q) = entry[c].owner
    BY <1>1 DEF CacheGet, Shared, cacheVars
  <2>2. entry[c].owner \in Requests /\ entry[c].expires > clock /\ entry[c].expires \in Nat
    BY <1>t, <1>1, EntryFields DEF Live
  <2>3. EntrySound(c)
    BY DEF PageInv
  <2>4. load[c][entry[c].owner].step # "none"
        /\ (HasRead(c, entry[c].owner) => load[c][entry[c].owner].readAt > clock - Ttl)
    BY <1>t, <2>2, <2>3, LoadFields, AgentPageAssumption DEF EntrySound
  <2>5. \A d \in Caches : EntrySound(d)' /\ \A p \in Requests : LoadSound(d, p)'
    BY <2>1 DEF PageInv, EntrySound, LoadSound, HasRead, historyVars
  <2>6. QED
    BY <1>t, <2>1, <2>2, <2>4, <2>5, LoadFields DEF Typed, HasRead
<1>2. CASE ~Live(c)
  <2> DEFINE v == [load[c][q] EXCEPT !.step = "running"]
             e == [owner |-> q, expires |-> clock + Ttl]
  <2>1. /\ entry' = [entry EXCEPT ![c] = e] /\ Shared(c, q) = q
        /\ load' = [load EXCEPT ![c][q] = v]
    BY <1>t, <1>2 DEF CacheGet, Shared, Typed
  <2>2. v \in LoadValues /\ v.step = "running"
    BY <1>t, LoadFields DEF LoadValues
  <2>3. e \in [owner : Requests \cup {Nobody}, expires : Nat]
    BY <1>t, AgentPageAssumption
  <2> HIDE DEF v
  <2>v. v \in LoadValues
    BY <2>2
  <2>4. /\ load' \in [Caches -> [Requests -> LoadValues]] /\ load'[c][q] = v
        /\ \A d \in Caches, p \in Requests : d # c \/ p # q => load'[d][p] = load[d][p]
    BY <1>t, <2>1, <2>v, LoadReplaced, ZenonT(30)
  <2>5. /\ entry' \in [Caches -> [owner : Requests \cup {Nobody}, expires : Nat]]
        /\ entry'[c] = e /\ \A d \in Caches : d # c => entry'[d] = entry[d]
    BY <1>t, <2>1, <2>3 DEF Typed
  <2>6. ~HasRead(c, q)'
    BY <2>2, <2>4 DEF HasRead
  <2>7. ASSUME NEW d \in Caches, NEW p \in Requests
        PROVE  LoadSound(d, p)'
    BY <2>4, <2>6 DEF PageInv, LoadSound, HasRead, historyVars
  <2>8. ASSUME NEW d \in Caches
        PROVE  EntrySound(d)'
    <3>1. CASE d = c
      BY <2>2, <2>4, <2>5, <2>6, <3>1 DEF EntrySound
    <3>2. CASE d # c
      <4>1. entry[d].owner \in Requests \cup {Nobody} /\ EntrySound(d)
        BY <1>t, EntryFields DEF PageInv
      <4>2. entry[d].owner # Nobody => load'[d][entry[d].owner] = load[d][entry[d].owner]
        BY <2>4, <3>2, <4>1
      <4>3. QED
        BY <2>5, <3>2, <4>1, <4>2 DEF EntrySound, HasRead
    <3>3. QED
      BY <3>1, <3>2
  <2>9. QED
    BY <2>1, <2>2, <2>4, <2>5, <2>6, <2>7, <2>8 DEF HasRead
<1>3. QED
  BY <1>1, <1>2

-----------------------------------------------------------------------------
(* Initial states and steps *)

LEMMA InitPage == PageInit => PageInv
<1> SUFFICES ASSUME PageInit PROVE PageInv
  OBVIOUS
<1>1. /\ NoLoad \in LoadValues /\ NoEntry \in [owner : Requests \cup {Nobody}, expires : Nat]
      /\ NoRequest \in [step : RequestSteps, began : Nat, owner : Requests \cup {Nobody}]
  BY DEF NoLoad, LoadValues, NoEntry, NoRequest, RequestSteps
<1>2. Typed
  <2>1. -Ttl - 1 \in Int /\ 0 \in Int /\ 0 \in Nat
    BY AgentPageAssumption
  <2>2. /\ entry \in [Caches -> [owner : Requests \cup {Nobody}, expires : Nat]]
        /\ load \in [Caches -> [Requests -> LoadValues]]
        /\ request \in [Requests -> [step : RequestSteps, began : Nat,
                                     owner : Requests \cup {Nobody}]]
    BY <1>1 DEF PageInit
  <2>3. QED
    BY <2>1, <2>2 DEF PageInit, Typed
<1>3. HistorySound
  BY AgentPageAssumption DEF PageInit, HistorySound, Published
<1>4. \A c \in Caches : EntrySound(c) /\ \A q \in Requests : LoadSound(c, q)
  BY DEF PageInit, EntrySound, LoadSound, HasRead, NoEntry, NoLoad
<1>5. \A q \in Requests : RequestSound(q)
  BY DEF PageInit, RequestSound, NoRequest, NoLoad, Caches
<1>6. QED
  BY <1>2, <1>3, <1>4, <1>5 DEF PageInv

\* Time passes or the agent changes: what was published remains so remembered.
LEMMA WorldKeeps ==
    ASSUME PageInv, ClockTicks \/ AgentChanges
    PROVE  PageInv'
<1>t. Typed /\ HistorySound
  BY DEF PageInv
<1>1. /\ clock' \in Nat /\ clock' >= clock /\ active' \in BOOLEAN /\ verified' \in BOOLEAN
      /\ UNCHANGED <<entry, load, request, failures>> /\ Remember
  <2>1. clock \in Nat /\ active \in BOOLEAN /\ verified \in BOOLEAN
    BY <1>t DEF Typed
  <2>2. CASE ClockTicks
    BY <2>1, <2>2 DEF ClockTicks, publicationVars, cacheVars
  <2>3. CASE AgentChanges
    <3>1. UNCHANGED <<clock, entry, load, request, failures>> /\ Remember
      BY <2>3 DEF AgentChanges, cacheVars
    <3>2. active' \in BOOLEAN /\ verified' \in BOOLEAN
      BY <2>1, <2>3, Zenon DEF AgentChanges
    <3>3. QED
      BY <2>1, <3>1, <3>2
  <2>4. QED
    BY <2>2, <2>3
<1>2. Typed'
  BY <1>t, <1>1 DEF Typed, Remember
<1>3. /\ HistorySound' /\ lastPublished' >= lastPublished /\ lastHidden' >= lastHidden
  <2>1. lastPublished <= clock /\ lastHidden <= clock
    BY <1>t DEF HistorySound
  <2>2. clock \in Nat /\ lastPublished \in Int /\ lastHidden \in Int
    BY <1>t DEF Typed
  <2>3. CASE Published'
    BY <1>1, <2>1, <2>2, <2>3 DEF Remember, HistorySound
  <2>4. CASE ~Published'
    BY <1>1, <2>1, <2>2, <2>4 DEF Remember, HistorySound
  <2>5. QED
    BY <2>3, <2>4
<1>n. /\ clock \in Nat /\ lastPublished \in Int /\ lastHidden \in Int
      /\ lastPublished' \in Int /\ lastHidden' \in Int
  BY <1>t, <1>2 DEF Typed
<1>4. ASSUME NEW c \in Caches, NEW q \in Requests
      PROVE  LoadSound(c, q)'
  <2>1. LoadSound(c, q) /\ load[c][q].readAt \in Nat
    BY <1>t, LoadFields DEF PageInv
  <2>2. QED
    BY <1>1, <1>3, <1>n, <2>1 DEF LoadSound, HasRead
<1>5. ASSUME NEW c \in Caches
      PROVE  EntrySound(c)'
  <2>1. EntrySound(c) /\ entry[c].expires \in Nat
    BY <1>t, EntryFields DEF PageInv
  <2>2. QED
    BY <1>1, <1>n, <2>1, AgentPageAssumption DEF EntrySound, HasRead
<1>6. ASSUME NEW q \in Requests
      PROVE  RequestSound(q)'
  <2>1. RequestSound(q) /\ request[q].began \in Nat
    BY <1>t, RequestFields DEF PageInv
  <2>2. QED
    BY <1>1, <1>3, <1>n, <2>1, AgentPageAssumption DEF RequestSound, Shares, HasRead
<1>7. QED
  BY <1>2, <1>3, <1>4, <1>5, <1>6 DEF PageInv

\* A load reads or fails to: it is then a fact about this moment.
LEMMA ReadKeeps ==
    ASSUME PageInv, NEW c \in Caches, NEW q \in Requests,
           ReadForLoad(c, q) \/ LoadFails(c, q)
    PROVE  PageInv'
<1>t. Typed /\ HistorySound /\ clock \in Nat /\ Ttl \in Nat \ {0}
  BY AgentPageAssumption DEF PageInv, Typed
<1> DEFINE v == load'[c][q]
<1>1. /\ load[c][q].step = "running"
      /\ UNCHANGED <<clock, active, verified, lastPublished, lastHidden, entry, request>>
      /\ failures' \in Nat
  BY <1>t DEF ReadForLoad, LoadFails, Typed, publicationVars, historyVars
<1>2. PICK w \in {"found", "absent", "error"} :
        /\ load' = [load EXCEPT ![c][q] = [step |-> "read", value |-> w, readAt |-> clock]]
        /\ w = "found" /\ c = "gate" => Published
        /\ w = "absent" => ~Published
  BY DEF ReadForLoad, LoadFails, Published
<1> DEFINE u == [step |-> "read", value |-> w, readAt |-> clock]
<1>3. u \in LoadValues
  BY <1>t DEF LoadValues
<1>4. /\ load' \in [Caches -> [Requests -> LoadValues]]
      /\ v = [step |-> "read", value |-> w, readAt |-> clock]
      /\ \A d \in Caches, p \in Requests : d # c \/ p # q => load'[d][p] = load[d][p]
  <2>1. load' = [load EXCEPT ![c][q] = u]
    BY <1>2
  <2>2. PICK x \in LoadValues : x = u
    BY <1>3
  <2>3. load' = [load EXCEPT ![c][q] = x]
    BY <2>1, <2>2
  <2>4. /\ load' \in [Caches -> [Requests -> LoadValues]] /\ load'[c][q] = x
        /\ \A d \in Caches, p \in Requests : d # c \/ p # q => load'[d][p] = load[d][p]
    BY <1>t, <2>3 DEF Typed
  <2>5. QED
    BY <2>2, <2>4
<1>5. Typed' /\ HistorySound'
  BY <1>t, <1>1, <1>4 DEF Typed, HistorySound, Published
<1>6. ASSUME NEW d \in Caches, NEW p \in Requests
      PROVE  LoadSound(d, p)'
  <2>1. CASE d = c /\ p = q
    <3>1. (Published => lastPublished = clock) /\ (~Published => lastHidden = clock)
      BY <1>t DEF HistorySound
    <3>2. QED
      BY <1>t, <1>1, <1>2, <1>4, <2>1, <3>1 DEF LoadSound
  <2>2. CASE d # c \/ p # q
    BY <1>1, <1>4, <2>2 DEF PageInv, LoadSound, HasRead
  <2>3. QED
    BY <2>1, <2>2
<1>7. ASSUME NEW d \in Caches
      PROVE  EntrySound(d)'
  <2>1. EntrySound(d) /\ entry[d].owner \in Requests \cup {Nobody} /\ entry[d].expires \in Nat
    BY <1>t, EntryFields DEF PageInv
  <2>2. CASE d = c /\ entry[d].owner = q
    BY <1>t, <1>1, <1>4, <2>1, <2>2 DEF EntrySound
  <2>3. CASE d # c \/ entry[d].owner # q
    BY <1>1, <1>4, <2>1, <2>3 DEF EntrySound, HasRead
  <2>4. QED
    BY <2>2, <2>3
<1>8. ASSUME NEW p \in Requests, NEW d \in Caches, Shares(d, p), request[p].began <= clock
      PROVE  Shares(d, p)' /\ (HasRead(d, request[p].owner) => HasRead(d, request[p].owner)')
  <2>1. request[p].began \in Nat /\ request[p].owner \in Requests
    BY <1>t, <1>8, RequestFields DEF Shares
  <2>2. CASE d = c /\ request[p].owner = q
    <3>1. /\ load'[d][request[p].owner].step = "read" /\ request' = request
          /\ load'[d][request[p].owner].readAt = clock
      BY <1>1, <1>4, <2>2
    <3>2. clock > request[p].began - Ttl
      BY <1>t, <1>8, <2>1
    <3>3. QED
      BY <1>8, <2>1, <3>1, <3>2 DEF Shares, HasRead
  <2>3. CASE d # c \/ request[p].owner # q
    BY <1>1, <1>4, <1>8, <2>1, <2>3 DEF Shares, HasRead
  <2>4. QED
    BY <2>2, <2>3
<1>9. ASSUME NEW p \in Requests
      PROVE  RequestSound(p)'
  <2>1. RequestSound(p)
    BY DEF PageInv
  <2>2. \A d \in Caches : load[d][p].step = "none" => load'[d][p] = load[d][p]
    BY <1>1, <1>4
  <2>3. "gate" \in Caches /\ "page" \in Caches
    BY DEF Caches
  <2>4. QED
    BY <1>1, <1>8, <2>1, <2>2, <2>3 DEF RequestSound
<1>10. QED
  BY <1>5, <1>6, <1>7, <1>9 DEF PageInv

\* A load settles; what it has read stays, and at most its entry goes.
LEMMA SettleKeeps ==
    ASSUME PageInv, NEW c \in Caches, NEW q \in Requests, SettleLoad(c, q)
    PROVE  PageInv'
<1>t. Typed /\ HistorySound /\ clock \in Nat /\ Ttl \in Nat \ {0}
  BY AgentPageAssumption DEF PageInv, Typed
<1> DEFINE v == [load[c][q] EXCEPT !.step = "settled"]
<1>1. /\ load[c][q].step = "read"
      /\ UNCHANGED <<clock, active, verified, lastPublished, lastHidden, request, failures>>
      /\ \A d \in Caches : entry'[d] = entry[d] \/ entry'[d] = NoEntry
      /\ entry' \in [Caches -> [owner : Requests \cup {Nobody}, expires : Nat]]
  <2>1. NoEntry \in [owner : Requests \cup {Nobody}, expires : Nat]
    BY DEF NoEntry
  <2>2. QED
    BY <1>t, <2>1 DEF SettleLoad, Typed, publicationVars, historyVars
<1>2. v \in LoadValues /\ v.step = "settled" /\ v.value = load[c][q].value
      /\ v.readAt = load[c][q].readAt
  BY <1>t, LoadFields DEF LoadValues
<1>3. load' = [load EXCEPT ![c][q] = v]
  BY <1>t DEF SettleLoad, Typed
<1> HIDE DEF v
<1>v. v \in LoadValues
  BY <1>2
<1>4. /\ load' \in [Caches -> [Requests -> LoadValues]] /\ load'[c][q] = v
      /\ \A d \in Caches, p \in Requests : d # c \/ p # q => load'[d][p] = load[d][p]
  BY <1>t, <1>v, <1>3, LoadReplaced, ZenonT(30)
<1>5. \A d \in Caches, p \in Requests :
        /\ load'[d][p].step \in {"read", "settled"} <=> load[d][p].step \in {"read", "settled"}
        /\ load'[d][p].step = "none" <=> load[d][p].step = "none"
        /\ load'[d][p].value = load[d][p].value
        /\ load'[d][p].readAt = load[d][p].readAt
  BY <1>1, <1>2, <1>4
<1>6. Typed' /\ HistorySound'
  BY <1>t, <1>1, <1>4 DEF Typed, HistorySound, Published
<1>7. ASSUME NEW d \in Caches, NEW p \in Requests
      PROVE  LoadSound(d, p)'
  BY <1>1, <1>5 DEF PageInv, LoadSound, HasRead
<1>8. ASSUME NEW d \in Caches
      PROVE  EntrySound(d)'
  <2>1. EntrySound(d) /\ entry[d].owner \in Requests \cup {Nobody}
    BY <1>t, EntryFields DEF PageInv
  <2>2. CASE entry'[d] = NoEntry
    BY <2>2 DEF EntrySound, NoEntry
  <2>3. CASE entry'[d] = entry[d]
    BY <1>1, <1>5, <2>1, <2>3 DEF EntrySound, HasRead
  <2>4. QED
    BY <1>1, <2>2, <2>3
<1>9. ASSUME NEW p \in Requests
      PROVE  RequestSound(p)'
  <2>1. RequestSound(p) /\ "gate" \in Caches /\ "page" \in Caches
    BY DEF PageInv, Caches
  <2>2. ASSUME NEW d \in Caches, Shares(d, p)
        PROVE  Shares(d, p)' /\ (HasRead(d, request[p].owner) => HasRead(d, request[p].owner)')
    BY <1>1, <1>5, <2>2 DEF Shares, HasRead
  <2>3. QED
    BY <1>1, <1>5, <2>1, <2>2 DEF RequestSound
<1>10. QED
  BY <1>6, <1>7, <1>8, <1>9 DEF PageInv

\* A step of one request: what the other ones share goes on untouched.
LEMMA OthersKeep ==
    ASSUME PageInv, NEW q \in Requests, NEW p \in Requests, p # q, request'[p] = request[p],
           UNCHANGED <<clock, lastPublished>>,
           NEW c \in Caches, load[c][q].step = "none" \/ UNCHANGED load,
           \A d \in Caches, r \in Requests : d # c \/ r # q => load'[d][r] = load[d][r]
    PROVE  RequestSound(p)'
<1>1. RequestSound(p) /\ "gate" \in Caches /\ "page" \in Caches
  BY DEF PageInv, Caches
<1>2. ASSUME NEW d \in Caches, Shares(d, p)
      PROVE  Shares(d, p)' /\ load'[d][request[p].owner] = load[d][request[p].owner]
  <2>1. load'[d][request[p].owner] = load[d][request[p].owner]
    BY <1>2 DEF Shares
  <2>2. QED
    BY <1>2, <2>1 DEF Shares, HasRead
<1>3. QED
  BY <1>1, <1>2 DEF RequestSound, HasRead

LEMMA BeginKeeps ==
    ASSUME PageInv, NEW q \in Requests, BeginRequest(q)
    PROVE  PageInv'
<1>t. Typed /\ HistorySound /\ clock \in Nat /\ Ttl \in Nat \ {0} /\ "gate" \in Caches
  BY AgentPageAssumption DEF PageInv, Typed, Caches
<1> DEFINE o == Shared("gate", q)
           new == [step |-> "gate", began |-> clock, owner |-> o]
<1>1. /\ request[q].step = "idle" /\ CacheGet("gate", q)
      /\ request' = [request EXCEPT ![q] = new]
      /\ UNCHANGED <<clock, active, verified, lastPublished, lastHidden, failures>>
  BY DEF BeginRequest, publicationVars, historyVars
<1>2. load["gate"][q].step = "none" /\ load["page"][q].step = "none"
  BY <1>1 DEF PageInv, RequestSound
<1>3. /\ entry' \in [Caches -> [owner : Requests \cup {Nobody}, expires : Nat]]
      /\ load' \in [Caches -> [Requests -> LoadValues]]
      /\ \A d \in Caches, p \in Requests : d # "gate" \/ p # q => load'[d][p] = load[d][p]
      /\ \A d \in Caches : EntrySound(d)' /\ \A p \in Requests : LoadSound(d, p)'
      /\ o \in Requests /\ load'["gate"][o].step # "none"
      /\ load'["gate"][o].step \in {"read", "settled"} =>
            load'["gate"][o].readAt > clock - Ttl
  BY <1>t, <1>1, <1>2, GetShares DEF historyVars
<1> HIDE DEF o
<1>4. /\ request' \in [Requests -> [step : RequestSteps, began : Nat,
                                    owner : Requests \cup {Nobody}]]
      /\ request'[q] = new /\ \A p \in Requests : p # q => request'[p] = request[p]
  BY <1>t, <1>1, <1>3 DEF Typed, RequestSteps
<1>5. Typed' /\ HistorySound'
  BY <1>t, <1>1, <1>3, <1>4 DEF Typed, HistorySound, Published
<1>6. RequestSound(q)'
  <2>1. load'["page"][q] = load["page"][q]
    BY <1>3 DEF Caches
  <2>2. QED
    BY <1>t, <1>1, <1>2, <1>3, <1>4, <2>1 DEF RequestSound, Shares, HasRead
<1>7. \A p \in Requests : p # q => RequestSound(p)'
  BY <1>t, <1>1, <1>2, <1>3, <1>4, OthersKeep
<1>8. QED
  BY <1>3, <1>5, <1>6, <1>7 DEF PageInv

LEMMA GetPageKeeps ==
    ASSUME PageInv, NEW q \in Requests, GetPage(q)
    PROVE  PageInv'
<1>t. Typed /\ HistorySound /\ clock \in Nat /\ Ttl \in Nat \ {0} /\ "page" \in Caches
  BY AgentPageAssumption DEF PageInv, Typed, Caches
<1> DEFINE o == Shared("page", q)
<1>1. /\ request[q].step = "passed" /\ CacheGet("page", q)
      /\ request' = [request EXCEPT ![q].step = "page", ![q].owner = o]
      /\ UNCHANGED <<clock, active, verified, lastPublished, lastHidden, failures>>
  BY DEF GetPage, publicationVars, historyVars
<1>2. /\ load["page"][q].step = "none" /\ lastPublished > request[q].began - Ttl
      /\ request[q].began <= clock
  BY <1>1 DEF PageInv, RequestSound
<1>3. /\ entry' \in [Caches -> [owner : Requests \cup {Nobody}, expires : Nat]]
      /\ load' \in [Caches -> [Requests -> LoadValues]]
      /\ \A d \in Caches, p \in Requests : d # "page" \/ p # q => load'[d][p] = load[d][p]
      /\ \A d \in Caches : EntrySound(d)' /\ \A p \in Requests : LoadSound(d, p)'
      /\ o \in Requests /\ load'["page"][o].step # "none"
      /\ load'["page"][o].step \in {"read", "settled"} =>
            load'["page"][o].readAt > clock - Ttl
  BY <1>t, <1>1, <1>2, GetShares DEF historyVars
<1> HIDE DEF o
<1>4. /\ request' \in [Requests -> [step : RequestSteps, began : Nat,
                                    owner : Requests \cup {Nobody}]]
      /\ request'[q].step = "page" /\ request'[q].owner = o
      /\ request'[q].began = request[q].began
      /\ \A p \in Requests : p # q => request'[p] = request[p]
  BY <1>t, <1>1, <1>3 DEF Typed, RequestSteps
<1>5. Typed' /\ HistorySound'
  BY <1>t, <1>1, <1>3, <1>4 DEF Typed, HistorySound, Published
<1>6. RequestSound(q)'
  <2>1. load'["page"][o] \in LoadValues /\ request[q].began \in Nat
    BY <1>t, <1>3, RequestFields
  <2>2. load'["page"][o].readAt \in Nat
    BY <2>1 DEF LoadValues
  <2>3. load'["page"][o].step \in {"read", "settled"} =>
            load'["page"][o].readAt > request[q].began - Ttl
    BY <1>t, <1>2, <1>3, <2>1, <2>2
  <2>4. QED
    BY <1>1, <1>2, <1>3, <1>4, <2>3 DEF RequestSound, Shares, HasRead
<1>7. \A p \in Requests : p # q => RequestSound(p)'
  BY <1>t, <1>1, <1>2, <1>3, <1>4, OthersKeep
<1>8. QED
  BY <1>3, <1>5, <1>6, <1>7 DEF PageInv

\* Leaving the gate: whoever passes has been told of a recently published agent.
LEMMA LeaveGateFacts ==
    ASSUME PageInv, NEW q \in Requests, LeaveGate(q)
    PROVE  /\ request'[q].step = "passed" => lastPublished > request[q].began - Ttl
           /\ request'[q].step = "not_found" => lastHidden > request[q].began - Ttl
           /\ request'[q].step \in {"passed", "not_found", "error"}
           /\ request[q].step = "gate"
<1>t. Typed /\ Ttl \in Nat \ {0} /\ "gate" \in Caches
  BY AgentPageAssumption DEF PageInv, Typed, Caches
<1> DEFINE o == request[q].owner
           v == load["gate"][o].value
<1>1. request[q].step = "gate" /\ load["gate"][o].step = "settled"
      /\ request' = [request EXCEPT ![q].step = StepAfter("gate", v)]
  BY DEF LeaveGate, Awaited
<1>2. /\ o \in Requests /\ load["gate"][o].readAt > request[q].began - Ttl
  BY <1>1 DEF PageInv, RequestSound, Shares, HasRead
<1>3. /\ v # "none" /\ v = "found" => load["gate"][o].readAt <= lastPublished
  BY <1>t, <1>1, <1>2 DEF PageInv, LoadSound, HasRead
<1>4. /\ v = "absent" => load["gate"][o].readAt <= lastHidden
      /\ v \in {"found", "absent", "error"}
  BY <1>t, <1>1, <1>2, LoadFields DEF PageInv, LoadSound, HasRead
<1>5. /\ load["gate"][o].readAt \in Nat /\ request[q].began \in Nat
      /\ lastPublished \in Int /\ lastHidden \in Int
  BY <1>t, <1>2, LoadFields, RequestFields DEF Typed
<1>6. request'[q].step = StepAfter("gate", v)
  BY <1>t, <1>1 DEF Typed
<1> HIDE DEF v, o
<1>7. CASE v = "found"
  BY <1>t, <1>1, <1>2, <1>3, <1>5, <1>6, <1>7 DEF StepAfter
<1>8. CASE v = "absent"
  BY <1>t, <1>1, <1>2, <1>4, <1>5, <1>6, <1>8 DEF StepAfter
<1>9. CASE v = "error"
  BY <1>1, <1>6, <1>9 DEF StepAfter
<1>10. QED
  BY <1>4, <1>7, <1>8, <1>9

LEMMA LeavePageFacts ==
    ASSUME PageInv, NEW q \in Requests, LeavePage(q)
    PROVE  /\ request'[q].step = "served" => lastPublished > request[q].began - Ttl
           /\ request'[q].step = "not_found" => lastHidden > request[q].began - Ttl
           /\ request'[q].step \in {"served", "not_found", "error"}
           /\ request[q].step = "page" /\ HasRead("page", request[q].owner)
<1>t. Typed /\ Ttl \in Nat \ {0} /\ "page" \in Caches
  BY AgentPageAssumption DEF PageInv, Typed, Caches
<1> DEFINE o == request[q].owner
           v == load["page"][o].value
<1>1. request[q].step = "page" /\ load["page"][o].step = "settled"
      /\ request' = [request EXCEPT ![q].step = StepAfter("page", v)]
  BY DEF LeavePage, Awaited
<1>2. /\ o \in Requests /\ load["page"][o].readAt > request[q].began - Ttl
      /\ lastPublished > request[q].began - Ttl
  BY <1>1 DEF PageInv, RequestSound, Shares, HasRead
<1>3. /\ v = "absent" => load["page"][o].readAt <= lastHidden
      /\ v \in {"found", "absent", "error"}
  BY <1>t, <1>1, <1>2, LoadFields DEF PageInv, LoadSound, HasRead
<1>5. /\ load["page"][o].readAt \in Nat /\ request[q].began \in Nat
      /\ lastPublished \in Int /\ lastHidden \in Int
  BY <1>t, <1>2, LoadFields, RequestFields DEF Typed
<1>6. request'[q].step = StepAfter("page", v)
  BY <1>t, <1>1 DEF Typed
<1>h. HasRead("page", request[q].owner)
  BY <1>1 DEF HasRead
<1> HIDE DEF v, o
<1>7. CASE v = "found"
  BY <1>1, <1>2, <1>6, <1>7, <1>h DEF StepAfter
<1>8. CASE v = "absent"
  BY <1>t, <1>1, <1>2, <1>3, <1>5, <1>6, <1>8, <1>h DEF StepAfter
<1>9. CASE v = "error"
  BY <1>1, <1>6, <1>9, <1>h DEF StepAfter
<1>10. QED
  BY <1>3, <1>7, <1>8, <1>9

\* A request leaves a wait and disturbs no cache.
LEMMA LeaveKeeps ==
    ASSUME PageInv, NEW q \in Requests, LeaveGate(q) \/ LeavePage(q)
    PROVE  PageInv'
<1>t. Typed /\ "gate" \in Caches /\ "page" \in Caches
  BY DEF PageInv, Caches
<1>1. UNCHANGED <<clock, active, verified, lastPublished, lastHidden, entry, load, failures>>
  BY DEF LeaveGate, LeavePage, publicationVars, historyVars, cacheVars
<1>2. PICK s \in RequestSteps : request' = [request EXCEPT ![q].step = s]
  BY DEF LeaveGate, LeavePage, StepAfter, RequestSteps
<1>3. /\ request' \in [Requests -> [step : RequestSteps, began : Nat,
                                    owner : Requests \cup {Nobody}]]
      /\ request'[q].step = s /\ request'[q].began = request[q].began
      /\ request'[q].owner = request[q].owner
      /\ \A p \in Requests : p # q => request'[p] = request[p]
  BY <1>t, <1>2, RequestMoves
<1>4. Typed' /\ HistorySound'
  BY <1>t, <1>1, <1>3 DEF Typed, PageInv, HistorySound, Published
<1>5. \A c \in Caches : EntrySound(c)' /\ \A p \in Requests : LoadSound(c, p)'
  BY <1>1 DEF PageInv, EntrySound, LoadSound, HasRead
<1>6. RequestSound(q)'
  <2>1. RequestSound(q)
    BY DEF PageInv
  <2>2. CASE LeaveGate(q)
    BY <1>1, <1>3, <2>1, <2>2, LeaveGateFacts DEF RequestSound
  <2>3. CASE LeavePage(q)
    BY <1>1, <1>3, <2>1, <2>3, LeavePageFacts DEF RequestSound, Shares, HasRead
  <2>4. QED
    BY <2>2, <2>3
<1>7. \A p \in Requests : p # q => RequestSound(p)'
  BY <1>t, <1>1, <1>3, OthersKeep
<1>8. QED
  BY <1>4, <1>5, <1>6, <1>7 DEF PageInv

-----------------------------------------------------------------------------
(* The theorems about the page *)

LEMMA StepPage == PageInv /\ [PageNext]_pageVars => PageInv'
<1> SUFFICES ASSUME PageInv, [PageNext]_pageVars PROVE PageInv'
  OBVIOUS
<1>1. CASE UNCHANGED pageVars
  BY <1>1 DEF pageVars, publicationVars, historyVars, cacheVars, PageInv, Typed, HistorySound, Published,
              EntrySound, LoadSound, RequestSound, Shares, HasRead
<1>2. QED
  BY <1>1, WorldKeeps, ReadKeeps, SettleKeeps, BeginKeeps, GetPageKeeps, LeaveKeeps DEF PageNext

LEMMA PageInvariant == PageSpec => []PageInv
BY InitPage, StepPage, PTL DEF PageSpec

\* The figures of every page were read less than a time to live before its
\* request began.
THEOREM PagesAreFresh == PageSpec => []PageIsFresh
<1>1. PageInv => PageIsFresh
  BY DEF PageInv, RequestSound, Shares, PageIsFresh
<1>2. QED
  BY <1>1, PageInvariant, PTL

\* Every answer was right at some time since a time to live before the request.
THEOREM AnswersAreRecent == PageSpec => AnsweredWithinTtl
<1>1. ASSUME PageInv, [PageNext]_pageVars, NEW q \in Requests, Answering(q)
      PROVE  /\ request'[q].step = "served" => lastPublished > request[q].began - Ttl
             /\ request'[q].step = "not_found" => lastHidden > request[q].began - Ttl
  <2>1. CASE LeaveGate(q)
    BY <1>1, <2>1, LeaveGateFacts
  <2>2. CASE LeavePage(q)
    BY <1>1, <2>2, LeavePageFacts
  <2>3. CASE request'[q] = request[q]
    BY <1>1, <2>3 DEF Answering
  <2>4. CASE BeginRequest(q) \/ GetPage(q)
    BY <1>1, <2>4 DEF Answering, BeginRequest, GetPage, Answers, PageInv, Typed
  <2>5. ASSUME NEW p \in Requests, p # q,
               BeginRequest(p) \/ GetPage(p) \/ LeaveGate(p) \/ LeavePage(p)
        PROVE  request'[q] = request[q]
    BY <1>1, <2>5 DEF BeginRequest, GetPage, LeaveGate, LeavePage, PageInv, Typed
  <2>6. QED
    BY <1>1, <2>1, <2>2, <2>3, <2>4, <2>5 DEF PageNext, pageVars, ClockTicks, AgentChanges, ReadForLoad,
       LoadFails, SettleLoad
<1>2. PageInv /\ [PageNext]_pageVars =>
        [\A q \in Requests : Answering(q) =>
            /\ request'[q].step = "served" => lastPublished > request[q].began - Ttl
            /\ request'[q].step = "not_found" => lastHidden > request[q].began - Ttl]_pageVars
  BY <1>1
<1>3. QED
  BY <1>2, PageInvariant, PTL DEF PageSpec, AnsweredWithinTtl

=============================================================================
