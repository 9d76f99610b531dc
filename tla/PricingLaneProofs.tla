------------------------- MODULE PricingLaneProofs -------------------------
(***************************************************************************)
(* Theorems about the pricing lane, for any activities, workers, tokens,   *)
(* hours, feed answers, batch and attempt limits.  Only one step publishes *)
(* an activity, and it starts from 'pending', whose volume is not booked:  *)
(* that is why the volume is right.  That no outage settles a leg needs    *)
(* the knowledge of every running pass: what it takes for a miss, and what *)
(* it is about to write as one, was answered by the feed.                  *)
(***************************************************************************)
EXTENDS PricingLane, TLAPS

\* What a worker and the cache take for a miss was a miss of the feed.
MissesWereAnswered ==
    /\ recent \cap unanswered = {}
    /\ \A w \in Workers : \A t \in pass[w].missed : <<t, pass[w].hour>> \notin unanswered
    /\ \A w \in Workers : pass[w].stage = "upsert" =>
          \A t \in pass[w].todo : pass[w].point[t] = 0 => <<t, pass[w].hour>> \notin unanswered

PricingInv == TypeOK /\ VolumeIsPublished /\ MissesWereAnswered /\ OutageSettlesNothing

Amounts == [in : Nat, out : Nat]

-----------------------------------------------------------------------------
(* Values *)

LEMMA ShapeFields ==
    ASSUME TypeOK, NEW a \in Activities
    PROVE  /\ shape[a].in \in Legs /\ shape[a].out \in Legs
           /\ shape[a].hour \in Hours /\ shape[a].dated \in BOOLEAN
           /\ shape[a].capital \in BOOLEAN
<1>1. shape[a] \in Activity
  BY PricingAssumption DEF TypeOK
<1>2. QED
  BY <1>1 DEF Activity

LEMMA PassFields ==
    ASSUME TypeOK, NEW w \in Workers
    PROVE  /\ pass[w] \in Passes
           /\ pass[w].stage \in Stages /\ pass[w].rows \subseteq Activities
           /\ pass[w].tries \in [Activities -> Nat] /\ pass[w].hour \in Hours
           /\ pass[w].price \in [Tokens -> Nat] /\ pass[w].missed \subseteq Tokens
           /\ pass[w].todo \subseteq Tokens /\ pass[w].point \in [Tokens -> Nat]
           /\ pass[w].failing \subseteq Activities
<1>1. pass[w] \in Passes
  BY DEF TypeOK
<1>2. QED
  BY <1>1 DEF Passes

LEMMA NoPassTyped == NoPass \in Passes
<1>1. (CHOOSE h \in Hours : TRUE) \in Hours
  BY PricingAssumption
<1>2. NoPrices \in [Tokens -> Nat]
  BY DEF NoPrices
<1>3. QED
  BY <1>1, <1>2 DEF NoPass, Passes, Stages

LEMMA PassReplaced ==
    ASSUME pass \in [Workers -> Passes], NEW w \in Workers, NEW p \in Passes,
           pass' = [pass EXCEPT ![w] = p]
    PROVE  pass' \in [Workers -> Passes] /\ pass'[w] = p
           /\ \A v \in Workers : v # w => pass'[v] = pass[v]
OBVIOUS

LEMMA UsdTyped ==
    ASSUME TypeOK, NEW w \in Workers, NEW a \in Activities
    PROVE  UsdOf(w, a) \in Amounts
<1>1. ASSUME NEW leg \in Legs PROVE LegUsd(pass[w], leg) \in Nat
  <2>1. CASE leg \in Tokens
    BY <2>1, PassFields DEF LegUsd
  <2>2. CASE leg \notin Tokens
    BY <2>2 DEF LegUsd, LegPricing, Legs
  <2>3. QED
    BY <2>1, <2>2
<1>2. QED
  BY <1>1, ShapeFields DEF UsdOf, Amounts

-----------------------------------------------------------------------------
(* The steps on one row *)

\* What writing an outcome does, whichever outcome: types and volumes hold,
\* a published row stays, and only 'priced' publishes.
LEMMA OutcomeApplied ==
    ASSUME TypeOK, UNCHANGED shape, NEW a \in Activities, NEW o,
           NEW u \in Amounts, ApplyOutcome(a, o, u)
    PROVE  /\ pricing_state' \in [Activities -> PricingStates]
           /\ attempts' \in [Activities -> Nat]
           /\ due' \subseteq Activities
           /\ usd' \in [Activities -> Amounts]
           /\ booked' \in [Activities -> Nat]
           /\ VolumeIsPublished => VolumeIsPublished'
           /\ \A b \in Activities : pricing_state[b] = "server_priced" =>
                 pricing_state'[b] = "server_priced" /\ usd'[b] = usd[b]
           /\ \A b \in Activities : pricing_state'[b] = "server_priced" =>
                 \/ pricing_state[b] = "server_priced" /\ usd'[b] = usd[b]
                 \/ b = a /\ o = "priced" /\ usd'[b] = u
<1> USE DEF Amounts
<1>t. /\ pricing_state \in [Activities -> PricingStates] /\ attempts \in [Activities -> Nat]
      /\ due \subseteq Activities /\ usd \in [Activities -> Amounts]
      /\ booked \in [Activities -> Nat]
  BY DEF TypeOK
<1>v. \A b \in Activities, x \in Amounts : PricedVolume(b, x) \in Nat
  BY ShapeFields DEF PricedVolume
<1>s. \A b \in Activities, x \in Amounts : PricedVolume(b, x)' = PricedVolume(b, x)
  BY DEF PricedVolume
<1>1. CASE UNCHANGED rowVars
  BY <1>t, <1>1, <1>s DEF rowVars, VolumeIsPublished, PricedVolume
<1>2. CASE o = "priced" /\ pricing_state[a] = "pending"
  <2>1. /\ pricing_state' = [pricing_state EXCEPT ![a] = "server_priced"]
        /\ usd' = [usd EXCEPT ![a] = u]
        /\ booked' = [booked EXCEPT ![a] = @ + PricedVolume(a, u)]
        /\ due' = due \ {a} /\ attempts' = attempts
    BY <1>2 DEF ApplyOutcome, Publish
  <2>2. VolumeIsPublished => VolumeIsPublished'
    <3>1. SUFFICES ASSUME VolumeIsPublished, NEW b \in Activities
                   PROVE  booked'[b] = IF pricing_state'[b] = "server_priced"
                                       THEN PricedVolume(b, usd[b])' ELSE 0
      BY DEF VolumeIsPublished, PricedVolume
    <3>2. CASE b = a
      <4>1. booked[a] = 0
        BY <1>2, <3>1 DEF VolumeIsPublished
      <4>2. booked'[a] = PricedVolume(a, u) /\ usd'[a] = u /\ pricing_state'[a] = "server_priced"
        BY <1>t, <1>v, <2>1, <4>1
      <4>3. QED
        BY <3>2, <4>2, <1>s
    <3>3. CASE b # a
      BY <1>t, <1>s, <2>1, <3>1, <3>3 DEF VolumeIsPublished
    <3>4. QED
      BY <3>2, <3>3
  <2>3. QED
    BY <1>t, <1>v, <1>2, <2>1, <2>2 DEF PricingStates
<1>3. CASE o = "reschedule" /\ pricing_state[a] = "pending"
  BY <1>t, <1>3, <1>s DEF ApplyOutcome, ReschedulePricing, VolumeIsPublished, PricedVolume
<1>4. CASE o \notin {"priced", "reschedule"} /\ pricing_state[a] = "pending"
  <2>1. PICK n \in {0, 1} : CloseUnpriced(a, n)
    BY <1>4 DEF ApplyOutcome
  <2>2. /\ pricing_state' = [pricing_state EXCEPT ![a] = "unpriced"]
        /\ attempts' = [attempts EXCEPT ![a] = @ + n]
        /\ due' = due \ {a} /\ usd' = usd /\ booked' = booked
    BY <1>4, <2>1 DEF CloseUnpriced
  <2>3. VolumeIsPublished => VolumeIsPublished'
    BY <1>t, <1>4, <2>2, <1>s DEF VolumeIsPublished
  <2>4. QED
    BY <1>t, <1>4, <2>2, <2>3 DEF PricingStates
<1>5. QED
  BY <1>1, <1>2, <1>3, <1>4 DEF ApplyOutcome, Publish, ReschedulePricing, CloseUnpriced

\* A row that its pass decides to publish has, for each leg without an
\* amount, the feed's answer that it has no price.
LEMMA PublishedIsSettled ==
    ASSUME TypeOK, MissesWereAnswered, NEW w \in Workers, NEW a \in Activities,
           RowReady(w, a), OutcomeOf(pass[w], a) = "priced"
    PROVE  /\ shape[a].dated
           /\ LegSettled(a, shape[a].in, UsdOf(w, a).in)
           /\ LegSettled(a, shape[a].out, UsdOf(w, a).out)
<1>l. shape[a].in \in Legs /\ shape[a].out \in Legs /\ shape[a].dated \in BOOLEAN
  BY ShapeFields
<1>1. shape[a].dated
  BY <1>l DEF OutcomeOf, DecidePricingOutcome
<1>2. ASSUME NEW leg \in {shape[a].in, shape[a].out}
      PROVE  LegSettled(a, leg, LegUsd(pass[w], leg))
  <2>1. SUFFICES ASSUME leg \in Tokens, LegUsd(pass[w], leg) = 0
                 PROVE  <<leg, shape[a].hour>> \notin unanswered
    BY DEF LegSettled
  <2>2. LegPricing(pass[w], leg) \in LegsOf(pass[w], a)
    BY DEF LegsOf
  <2>3. LegPricing(pass[w], leg) # "unknown"
    <3>1. SUFFICES ASSUME LegPricing(pass[w], leg) = "unknown" PROVE FALSE
      OBVIOUS
    <3>2. ~PricedSiblingSettlesEveryMiss(LegsOf(pass[w], a))
      BY <2>2, <3>1 DEF PricedSiblingSettlesEveryMiss, IsDefinitiveMiss
    <3>3. "unknown" \in LegsOf(pass[w], a)
      BY <2>2, <3>1
    <3>4. OutcomeOf(pass[w], a) # "priced"
      BY <3>2, <3>3, <1>1 DEF OutcomeOf, DecidePricingOutcome, PricingRetryOutcome
    <3>5. QED
      BY <3>4
  <2>4. LegPricing(pass[w], leg) # "priced"
    BY <2>1, PassFields DEF LegUsd, LegPricing
  <2>5. leg \in pass[w].missed
    BY <2>1, <2>3, <2>4, PassFields DEF LegPricing
  <2>6. QED
    BY <2>5 DEF MissesWereAnswered, RowReady
<1>3. QED
  BY <1>1, <1>2 DEF UsdOf

-----------------------------------------------------------------------------
(* The inductive invariant *)

LEMMA InitPricing == Init => PricingInv
<1> SUFFICES ASSUME Init PROVE PricingInv
  OBVIOUS
<1>1. \A w \in Workers : pass[w] = NoPass
  BY DEF Init
<1>2. TypeOK
  <2>1. pass \in [Workers -> Passes]
    BY NoPassTyped DEF Init
  <2>2. QED
    BY <2>1 DEF Init, TypeOK, PricingStates
<1>3. VolumeIsPublished
  BY DEF Init, VolumeIsPublished
<1>4. MissesWereAnswered
  BY <1>1 DEF Init, MissesWereAnswered, NoPass
<1>5. OutageSettlesNothing
  BY DEF Init, OutageSettlesNothing
<1>6. QED
  BY <1>2, <1>3, <1>4, <1>5 DEF PricingInv

\* The steps that decide no row.
LEMMA RowsKept ==
    ASSUME PricingInv, UNCHANGED <<shape, pricing_state, usd, booked>>,
           unanswered' \subseteq unanswered
    PROVE  VolumeIsPublished' /\ OutageSettlesNothing'
BY DEF PricingInv, VolumeIsPublished, OutageSettlesNothing, LegSettled, PricedVolume

\* The steps of a worker that give its pass the value p.
LEMMA PassMissesKept ==
    ASSUME TypeOK, MissesWereAnswered, NEW w \in Workers, NEW p \in Passes,
           pass' = [pass EXCEPT ![w] = p], unanswered' \subseteq unanswered,
           recent' \cap unanswered' = {},
           \A t \in p.missed : <<t, p.hour>> \notin unanswered',
           p.stage = "upsert" =>
              \A t \in p.todo : p.point[t] = 0 => <<t, p.hour>> \notin unanswered'
    PROVE  pass' \in [Workers -> Passes] /\ MissesWereAnswered'
<1>1. pass' \in [Workers -> Passes] /\ pass'[w] = p
      /\ \A v \in Workers : v # w => pass'[v] = pass[v]
  BY PassReplaced DEF TypeOK
<1>2. MissesWereAnswered'
  BY <1>1 DEF MissesWereAnswered
<1>3. QED
  BY <1>1, <1>2

\* A row leaves its pass.
LEMMA RowDoneKept ==
    ASSUME TypeOK, MissesWereAnswered, NEW w \in Workers, NEW a \in Activities,
           RowDone(w, a), UNCHANGED <<cacheVars, unanswered>>
    PROVE  pass' \in [Workers -> Passes] /\ MissesWereAnswered'
<1> DEFINE left == pass[w].rows \ {a}
           stage == IF \E b \in left : shape[b].hour = pass[w].hour THEN "rows" ELSE "bucket"
           next == IF left = {} THEN NoPass
                   ELSE [pass[w] EXCEPT !.rows = left, !.failing = {}, !.stage = stage]
<1>1. pass' = [pass EXCEPT ![w] = next]
  BY DEF RowDone
<1>s. stage \in {"rows", "bucket"}
  OBVIOUS
<1> HIDE DEF stage
<1>2. next \in Passes
  BY <1>s, PassFields, NoPassTyped, ZenonT(30) DEF Passes, Stages
<1>3. /\ next.stage # "upsert"
      /\ \/ next.missed = {}
         \/ next.missed = pass[w].missed /\ next.hour = pass[w].hour
  <2>1. CASE left = {}
    BY <2>1 DEF NoPass
  <2>2. CASE left # {}
    BY <1>s, <2>2, PassFields DEF Passes
  <2>3. QED
    BY <2>1, <2>2
<1> HIDE DEF next
<1>4. QED
  BY <1>1, <1>2, <1>3, PassMissesKept DEF MissesWereAnswered, cacheVars

LEMMA NextPricing == PricingInv /\ [Next]_vars => PricingInv'
<1> SUFFICES ASSUME PricingInv, [Next]_vars PROVE PricingInv'
  OBVIOUS
<1> USE DEF rowVars, cacheVars, boundVars
<1>t. TypeOK /\ MissesWereAnswered /\ VolumeIsPublished /\ OutageSettlesNothing
  BY DEF PricingInv
<1>1. CASE RequeueUnpriced
  <2>1. TypeOK'
    BY <1>1, <1>t DEF RequeueUnpriced, TypeOK, PricingStates
  <2>2. VolumeIsPublished' /\ OutageSettlesNothing'
    BY <1>1, <1>t DEF RequeueUnpriced, TypeOK, VolumeIsPublished, PricedVolume,
                      OutageSettlesNothing, LegSettled
  <2>3. MissesWereAnswered'
    BY <1>1, <1>t DEF RequeueUnpriced, MissesWereAnswered
  <2>4. QED
    BY <2>1, <2>2, <2>3 DEF PricingInv
<1>2. ASSUME NEW k \in Keys, MissAges(k)
      PROVE  PricingInv'
  <2>1. TypeOK'
    BY <1>2, <1>t DEF MissAges, TypeOK
  <2>2. MissesWereAnswered'
    BY <1>2, <1>t DEF MissAges, MissesWereAnswered
  <2>3. QED
    BY <1>2, <2>1, <2>2, RowsKept DEF MissAges, PricingInv
<1>3. ASSUME NEW a \in Activities, FinalizeVerification(a) \/ FallsDue(a)
      PROVE  PricingInv'
  <2>1. TypeOK'
    BY <1>3, <1>t DEF FinalizeVerification, FallsDue, TypeOK
  <2>2. MissesWereAnswered'
    BY <1>3, <1>t DEF FinalizeVerification, FallsDue, MissesWereAnswered
  <2>3. QED
    BY <1>3, <2>1, <2>2, RowsKept DEF FinalizeVerification, FallsDue, PricingInv
<1>4. ASSUME NEW w \in Workers, NEW K \in SUBSET Activities, ClaimDuePricingRows(w, K)
      PROVE  PricingInv'
  <2> DEFINE p == [NoPass EXCEPT !.stage = "bucket", !.rows = K,
                     !.tries = [a \in Activities |-> IF a \in K THEN attempts[a] ELSE 0]]
  <2>1. p \in Passes /\ p.missed = {} /\ p.stage # "upsert"
    BY <1>t, NoPassTyped DEF TypeOK, NoPass, Passes, Stages
  <2>2. pass' \in [Workers -> Passes] /\ MissesWereAnswered'
    BY <1>4, <1>t, <2>1, PassMissesKept DEF ClaimDuePricingRows, MissesWereAnswered
  <2>3. TypeOK'
    BY <1>4, <1>t, <2>2 DEF ClaimDuePricingRows, TypeOK
  <2>4. QED
    BY <1>4, <2>2, <2>3, RowsKept DEF ClaimDuePricingRows, PricingInv
<1>5. ASSUME NEW w \in Workers, NEW h \in Hours, ReadTokenPrices(w, h)
      PROVE  PricingInv'
  <2> DEFINE wanted == BucketTokens(w, h)
             late == {t \in wanted : cached[<<t, h>>] = 0 /\ <<t, h>> \in recent}
             ask == {t \in wanted : cached[<<t, h>>] = 0 /\ <<t, h>> \notin recent}
             price == [t \in Tokens |-> IF t \in wanted THEN cached[<<t, h>>] ELSE 0]
             p == [pass[w] EXCEPT !.hour = h, !.missed = late, !.todo = ask, !.price = price,
                                  !.stage = IF ask = {} THEN "rows" ELSE "fetch"]
  <2>1. price \in [Tokens -> Nat] /\ late \subseteq Tokens /\ ask \subseteq Tokens
    BY <1>t DEF TypeOK, Keys, BucketTokens
  <2>2. p \in Passes /\ p.missed = late /\ p.hour = h /\ p.stage # "upsert"
    BY <1>t, <2>1, PassFields, ZenonT(30) DEF Passes, Stages
  <2>3. pass' = [pass EXCEPT ![w] = p]
    BY <1>5, <1>t, PassFields DEF ReadTokenPrices, TypeOK
  <2> HIDE DEF p
  <2>4. pass' \in [Workers -> Passes] /\ MissesWereAnswered'
    BY <1>5, <1>t, <2>2, <2>3, PassMissesKept DEF ReadTokenPrices, MissesWereAnswered
  <2>5. TypeOK'
    BY <1>5, <1>t, <2>4 DEF ReadTokenPrices, TypeOK
  <2>6. QED
    BY <1>5, <2>4, <2>5, RowsKept DEF ReadTokenPrices, PricingInv
<1>6. ASSUME NEW w \in Workers, FeedUnavailable(w)
      PROVE  PricingInv'
  <2> DEFINE p == [pass[w] EXCEPT !.todo = {}, !.stage = "rows"]
  <2>1. p \in Passes /\ p.missed = pass[w].missed /\ p.hour = pass[w].hour /\ p.stage # "upsert"
    BY <1>t, PassFields DEF Passes, Stages
  <2>2. pass' = [pass EXCEPT ![w] = p]
    BY <1>6, <1>t DEF FeedUnavailable, TypeOK
  <2> HIDE DEF p
  <2>3. pass' \in [Workers -> Passes] /\ MissesWereAnswered'
    BY <1>6, <1>t, <2>1, <2>2, PassMissesKept DEF FeedUnavailable, MissesWereAnswered
  <2>4. TypeOK'
    BY <1>6, <1>t, <2>3 DEF FeedUnavailable, TypeOK
  <2>5. QED
    BY <1>6, <2>3, <2>4, RowsKept DEF FeedUnavailable, PricingInv
<1>7. ASSUME NEW w \in Workers, PassFails(w)
      PROVE  PricingInv'
  <2>1. pass' \in [Workers -> Passes] /\ MissesWereAnswered'
    BY <1>7, <1>t, NoPassTyped, PassMissesKept DEF PassFails, MissesWereAnswered, NoPass
  <2>2. TypeOK'
    BY <1>7, <1>t, <2>1 DEF PassFails, TypeOK
  <2>3. QED
    BY <1>7, <2>1, <2>2, RowsKept DEF PassFails, PricingInv
<1>8. ASSUME NEW w \in Workers, NEW points \in [Tokens -> AnyPoint], FetchPoints(w, points)
      PROVE  PricingInv'
  <2> DEFINE point == [t \in Tokens |-> IF IsPriceAcceptable(t, points[t]) THEN points[t] ELSE 0]
             p == [pass[w] EXCEPT !.stage = "upsert", !.point = point]
  <2>1. point \in [Tokens -> Nat] /\ \A t \in Tokens : point[t] = 0 => points[t] \notin Quotes[t]
    BY PricingAssumption DEF IsPriceAcceptable
  <2>2. /\ p \in Passes /\ p.missed = pass[w].missed /\ p.hour = pass[w].hour
        /\ p.todo = pass[w].todo /\ p.point = point
    BY <1>t, <2>1, PassFields DEF Passes, Stages
  <2>3. pass' = [pass EXCEPT ![w] = p]
    BY <1>8, <1>t DEF FetchPoints, TypeOK
  <2>4. /\ unanswered' \subseteq unanswered
        /\ \A t \in p.todo : p.point[t] = 0 => <<t, p.hour>> \notin unanswered'
    BY <1>8, <2>1, <2>2, PassFields, <1>t DEF FetchPoints
  <2>5. pass' \in [Workers -> Passes] /\ MissesWereAnswered'
    BY <1>8, <1>t, <2>2, <2>3, <2>4, PassMissesKept, ZenonT(30) DEF FetchPoints, MissesWereAnswered
  <2>6. TypeOK'
    BY <1>8, <1>t, <2>5, <2>4 DEF FetchPoints, TypeOK
  <2>7. QED
    BY <1>8, <2>4, <2>5, <2>6, RowsKept DEF FetchPoints, PricingInv
<1>9. ASSUME NEW w \in Workers, NEW t \in Tokens, UpsertTokenPrice(w, t)
      PROVE  PricingInv'
  <2> DEFINE price == pass[w].point[t]
             key == <<t, pass[w].hour>>
             p == [pass[w] EXCEPT !.todo = @ \ {t}, !.price[t] = price, !.point[t] = 0,
                      !.missed = IF price = 0 THEN @ \cup {t} ELSE @,
                      !.stage = IF pass[w].todo = {t} THEN "rows" ELSE "upsert"]
  <2>0. key \in Keys /\ price \in Nat
    BY <1>t, PassFields DEF Keys
  <2>1. /\ p \in Passes /\ p.todo = pass[w].todo \ {t} /\ p.hour = pass[w].hour
        /\ p.missed = IF price = 0 THEN pass[w].missed \cup {t} ELSE pass[w].missed
        /\ \A x \in p.todo : p.point[x] = pass[w].point[x]
    <3>1. pass[w] \in Passes
      BY <1>t, PassFields
    <3>2. /\ p.todo = pass[w].todo \ {t} /\ p.hour = pass[w].hour
          /\ p.missed = IF price = 0 THEN pass[w].missed \cup {t} ELSE pass[w].missed
          /\ p.price = [pass[w].price EXCEPT ![t] = price]
          /\ p.point = [pass[w].point EXCEPT ![t] = 0]
      BY <3>1 DEF Passes
    <3>3. p \in Passes
      BY <3>1, <2>0 DEF Passes, Stages
    <3>4. QED
      BY <3>1, <3>2, <3>3, ZenonT(30) DEF Passes
  <2>2. pass' = [pass EXCEPT ![w] = p]
    BY <1>9 DEF UpsertTokenPrice
  <2>3. price = 0 => key \notin unanswered
    BY <1>9, <1>t DEF UpsertTokenPrice, MissesWereAnswered
  <2>4. /\ cached' \in [Keys -> Nat]
        /\ \A k \in recent' : k \in Keys /\ cached'[k] = 0
        /\ recent' \cap unanswered = {}
    BY <1>9, <1>t, <2>0, <2>3 DEF UpsertTokenPrice, StorePrice, TypeOK, MissesWereAnswered
  <2>5. unanswered' = unanswered
    BY <1>9 DEF UpsertTokenPrice
  <2>6. /\ \A x \in p.missed : <<x, p.hour>> \notin unanswered
        /\ \A x \in p.todo : p.point[x] = 0 => <<x, p.hour>> \notin unanswered
    BY <1>9, <1>t, <2>1, <2>3 DEF UpsertTokenPrice, MissesWereAnswered
  <2> HIDE DEF p
  <2>7. pass' \in [Workers -> Passes] /\ MissesWereAnswered'
    BY <1>t, <2>1, <2>2, <2>4, <2>5, <2>6, PassMissesKept
  <2>8. TypeOK'
    BY <1>9, <1>t, <2>4, <2>7 DEF UpsertTokenPrice, TypeOK
  <2>9. QED
    BY <1>9, <2>7, <2>8, RowsKept DEF UpsertTokenPrice, PricingInv
<1>10. ASSUME NEW w \in Workers, NEW a \in Activities, NEW o,
              ApplyOutcome(a, o, UsdOf(w, a)),
              o = "priced" => RowReady(w, a) /\ OutcomeOf(pass[w], a) = "priced",
              UNCHANGED <<shape, verified, cacheVars, unanswered, requeues>>,
              failures' \in Nat, pass' \in [Workers -> Passes], MissesWereAnswered'
       PROVE  PricingInv'
  <2>0. UsdOf(w, a) \in Amounts
    BY <1>t, UsdTyped
  <2>1. TypeOK'
    BY <1>10, <1>t, <2>0, OutcomeApplied DEF TypeOK, Amounts
  <2>2. VolumeIsPublished'
    BY <1>10, <1>t, <2>0, OutcomeApplied
  <2>3. OutageSettlesNothing'
    <3>1. SUFFICES ASSUME NEW b \in Activities, pricing_state'[b] = "server_priced"
                   PROVE  /\ shape[b].dated
                          /\ LegSettled(b, shape[b].in, usd'[b].in)
                          /\ LegSettled(b, shape[b].out, usd'[b].out)
      BY <1>10 DEF OutageSettlesNothing, LegSettled
    <3>2. CASE pricing_state[b] = "server_priced" /\ usd'[b] = usd[b]
      BY <1>t, <3>2 DEF OutageSettlesNothing
    <3>3. CASE b = a /\ o = "priced" /\ usd'[b] = UsdOf(w, a)
      BY <1>10, <1>t, <3>3, PublishedIsSettled
    <3>4. QED
      BY <1>10, <1>t, <2>0, <3>1, <3>2, <3>3, OutcomeApplied
  <2>4. QED
    BY <1>10, <2>1, <2>2, <2>3 DEF PricingInv
<1>11. ASSUME NEW w \in Workers, NEW a \in Activities, PriceRow(w, a)
       PROVE  PricingInv'
  <2>1. pass' \in [Workers -> Passes] /\ MissesWereAnswered'
    BY <1>11, <1>t, RowDoneKept DEF PriceRow
  <2>2. failures' \in Nat
    BY <1>11, <1>t DEF PriceRow, TypeOK
  <2>3. QED
    BY <1>10, <1>11, <2>1, <2>2 DEF PriceRow
<1>12. ASSUME NEW w \in Workers, NEW a \in Activities, NEW committed \in BOOLEAN,
              PriceRowThrows(w, a, committed)
       PROVE  PricingInv'
  <2> DEFINE p == [pass[w] EXCEPT !.stage = "contain", !.failing = {a}]
  <2>1. p \in Passes /\ p.missed = pass[w].missed /\ p.hour = pass[w].hour /\ p.stage # "upsert"
    BY <1>t, PassFields DEF Passes, Stages
  <2>2. pass' = [pass EXCEPT ![w] = p]
    BY <1>12, <1>t DEF PriceRowThrows, TypeOK
  <2> HIDE DEF p
  <2>3. pass' \in [Workers -> Passes] /\ MissesWereAnswered'
    BY <1>12, <1>t, <2>1, <2>2, PassMissesKept DEF PriceRowThrows, MissesWereAnswered
  <2>4. failures' \in Nat
    BY <1>12, <1>t DEF PriceRowThrows, TypeOK
  <2>5. CASE committed
    BY <1>10, <1>12, <2>3, <2>4, <2>5 DEF PriceRowThrows
  <2>6. CASE ~committed
    <3>1. TypeOK'
      BY <1>12, <1>t, <2>3, <2>4, <2>6 DEF PriceRowThrows, TypeOK
    <3>2. QED
      BY <1>12, <2>3, <2>6, <3>1, RowsKept DEF PriceRowThrows, PricingInv
  <2>7. QED
    BY <2>5, <2>6
<1>13. ASSUME NEW w \in Workers, NEW a \in Activities, ContainRowFailure(w, a)
       PROVE  PricingInv'
  <2>1. pass' \in [Workers -> Passes] /\ MissesWereAnswered'
    BY <1>13, <1>t, RowDoneKept DEF ContainRowFailure
  <2>2. failures' \in Nat /\ PricingRetryOutcome(pass[w].tries[a]) # "priced"
    BY <1>13, <1>t DEF ContainRowFailure, TypeOK, PricingRetryOutcome
  <2>3. QED
    BY <1>10, <1>13, <2>1, <2>2 DEF ContainRowFailure
<1>14. ASSUME NEW w \in Workers, NEW a \in Activities, ContainFails(w, a)
       PROVE  PricingInv'
  <2>1. pass' \in [Workers -> Passes] /\ MissesWereAnswered'
    BY <1>14, <1>t, RowDoneKept DEF ContainFails
  <2>2. TypeOK'
    BY <1>14, <1>t, <2>1 DEF ContainFails, TypeOK
  <2>3. QED
    BY <1>14, <2>1, <2>2, RowsKept DEF ContainFails, PricingInv
<1>15. CASE UNCHANGED vars
  <2>1. TypeOK' /\ MissesWereAnswered'
    BY <1>15, <1>t DEF vars, TypeOK, MissesWereAnswered
  <2>2. QED
    BY <1>15, <2>1, RowsKept DEF vars, PricingInv
<1>16. QED
  BY <1>1, <1>2, <1>3, <1>4, <1>5, <1>6, <1>7, <1>8, <1>9, <1>11, <1>12, <1>13,
     <1>14, <1>15 DEF Next

\* Who writes prices and rows: one upsert, one requeue, or one outcome.
LEMMA WritesOfNext ==
    ASSUME [Next]_vars
    PROVE  \/ RequeueUnpriced /\ UNCHANGED cached
           \/ (\E w \in Workers, t \in Tokens : UpsertTokenPrice(w, t)) /\ UNCHANGED rowVars
           \/ /\ \E w \in Workers, a \in Activities : \E o :
                    ApplyOutcome(a, o, UsdOf(w, a))
              /\ UNCHANGED <<shape, cached>>
           \/ UNCHANGED <<pricing_state, usd, cached>>
<1> USE DEF rowVars, cacheVars, boundVars
<1>1. CASE RequeueUnpriced
  BY <1>1 DEF RequeueUnpriced
<1>2. ASSUME NEW k \in Keys, MissAges(k)
      PROVE  UNCHANGED <<pricing_state, usd, cached>>
  BY <1>2 DEF MissAges
<1>3. ASSUME NEW a \in Activities, FinalizeVerification(a) \/ FallsDue(a)
      PROVE  UNCHANGED <<pricing_state, usd, cached>>
  BY <1>3 DEF FinalizeVerification, FallsDue
<1>4. ASSUME NEW w \in Workers, NEW K \in SUBSET Activities, ClaimDuePricingRows(w, K)
      PROVE  UNCHANGED <<pricing_state, usd, cached>>
  BY <1>4 DEF ClaimDuePricingRows
<1>5. ASSUME NEW w \in Workers, NEW h \in Hours, ReadTokenPrices(w, h)
      PROVE  UNCHANGED <<pricing_state, usd, cached>>
  BY <1>5 DEF ReadTokenPrices
<1>6. ASSUME NEW w \in Workers, FeedUnavailable(w) \/ PassFails(w)
      PROVE  UNCHANGED <<pricing_state, usd, cached>>
  BY <1>6 DEF FeedUnavailable, PassFails
<1>7. ASSUME NEW w \in Workers, NEW points \in [Tokens -> AnyPoint], FetchPoints(w, points)
      PROVE  UNCHANGED <<pricing_state, usd, cached>>
  BY <1>7 DEF FetchPoints
<1>8. ASSUME NEW w \in Workers, NEW t \in Tokens, UpsertTokenPrice(w, t)
      PROVE  UNCHANGED rowVars
  BY <1>8 DEF UpsertTokenPrice
<1>9. ASSUME NEW w \in Workers, NEW a \in Activities, PriceRow(w, a)
      PROVE  /\ \E o : ApplyOutcome(a, o, UsdOf(w, a))
             /\ UNCHANGED <<shape, cached>>
  BY <1>9 DEF PriceRow
<1>10. ASSUME NEW w \in Workers, NEW a \in Activities, ContainRowFailure(w, a)
       PROVE  /\ \E o : ApplyOutcome(a, o, UsdOf(w, a))
              /\ UNCHANGED <<shape, cached>>
  BY <1>10 DEF ContainRowFailure
<1>11. ASSUME NEW w \in Workers, NEW a \in Activities, NEW committed \in BOOLEAN,
              PriceRowThrows(w, a, committed)
       PROVE  /\ UNCHANGED <<shape, cached>>
              /\ \/ \E o : ApplyOutcome(a, o, UsdOf(w, a))
                 \/ UNCHANGED rowVars
  BY <1>11 DEF PriceRowThrows
<1>12. ASSUME NEW w \in Workers, NEW a \in Activities, ContainFails(w, a)
       PROVE  UNCHANGED <<pricing_state, usd, cached>>
  BY <1>12 DEF ContainFails
<1>13. CASE UNCHANGED vars
  BY <1>13 DEF vars
<1>14. QED
  BY <1>1, <1>2, <1>3, <1>4, <1>5, <1>6, <1>7, <1>8, <1>9, <1>10, <1>11, <1>12,
     <1>13 DEF Next

LEMMA PricingInvariant == Spec => []PricingInv
BY InitPricing, NextPricing, PTL DEF Spec

-----------------------------------------------------------------------------
(* Theorems *)

\* Every variable has its type in every reachable state.
THEOREM PricingTypeCorrect == Spec => []TypeOK
BY PricingInvariant, PTL DEF PricingInv

\* However passes overlap, fail, retry and are requeued, the daily volume
\* holds the published amount of each activity once (activity-pricing-repo.ts
\* publishServerPrice: the volume is added by the transaction whose
\* compare-and-swap matched).
THEOREM VolumeIsRight == Spec => []VolumeIsPublished
BY PricingInvariant, PTL DEF PricingInv

\* A leg of a published activity that has no amount is one the feed answered
\* it has no price for: no silence of the feed settles a leg
\* (pricing-outcome.ts pricedSiblingSettlesEveryMiss).
THEOREM OutageNeverSettles == Spec => []OutageSettlesNothing
BY PricingInvariant, PTL DEF PricingInv

\* A price in token_prices is never replaced nor lost (token-price-repo.ts
\* upsertTokenPrice, WHERE token_prices.price_usd IS NULL).
THEOREM HitsStayForGood == Spec => HitsArePermanent
<1> DEFINE Stay == \A k \in Keys : cached[k] # 0 => cached'[k] = cached[k]
<1>1. PricingInv /\ [Next]_vars => [Stay]_cached
  <2> SUFFICES ASSUME PricingInv, [Next]_vars, cached' # cached, NEW k \in Keys, cached[k] # 0
               PROVE  cached'[k] = cached[k]
    OBVIOUS
  <2>1. cached \in [Keys -> Nat]
    BY DEF PricingInv, TypeOK
  <2>2. PICK w \in Workers, t \in Tokens : UpsertTokenPrice(w, t)
    BY WritesOfNext
  <2>3. QED
    BY <2>1, <2>2 DEF UpsertTokenPrice, StorePrice, cacheVars
<1>2. QED
  BY <1>1, PricingInvariant, PTL DEF Spec, HitsArePermanent

\* The state and the amounts of a priced activity stand against every late
\* pass, contained retry and requeue (the pricing_state = 'pending' guard of
\* every statement of activity-pricing-repo.ts).
THEOREM PricesStand == Spec => PublishedStands
<1> DEFINE Stands == \A a \in Activities : pricing_state[a] = "server_priced" =>
                        pricing_state'[a] = "server_priced" /\ usd'[a] = usd[a]
<1>1. PricingInv /\ [Next]_vars => Stands
  <2> SUFFICES ASSUME PricingInv, [Next]_vars PROVE Stands
    OBVIOUS
  <2>1. TypeOK
    BY DEF PricingInv
  <2>2. CASE RequeueUnpriced
    BY <2>1, <2>2 DEF RequeueUnpriced, TypeOK
  <2>3. CASE UNCHANGED <<pricing_state, usd>>
    BY <2>3
  <2>4. ASSUME NEW w \in Workers, NEW a \in Activities, NEW o,
               ApplyOutcome(a, o, UsdOf(w, a)), UNCHANGED shape
        PROVE  Stands
    BY <2>1, <2>4, UsdTyped, OutcomeApplied
  <2>5. QED
    BY <2>2, <2>3, <2>4, WritesOfNext DEF rowVars
<1>2. PricingInv /\ [Next]_vars => [Stands]_rowVars
  BY <1>1
<1>3. QED
  BY <1>2, PricingInvariant, PTL DEF Spec, PublishedStands

=============================================================================
