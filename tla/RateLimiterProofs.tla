------------------------- MODULE RateLimiterProofs -------------------------
(***************************************************************************)
(* Theorems about the sliding-window limiter, for any requests, limit,     *)
(* window and rates of the clock.  The row is the tail of what was let     *)
(* through: whatever was dropped from it, by a decision or by the sweep,   *)
(* had left the window.  A decision therefore counts every request of the  *)
(* window, and two that are let through Limit places apart are a window    *)
(* apart.  What a refused client is told follows from the oldest hit that  *)
(* stood in its way.                                                       *)
(***************************************************************************)
EXTENDS RateLimiter, FiniteSetTheorems, WellFoundedInduction,
        NaturalsInduction, SequenceTheorems, TLAPS

Times == Seq(Nat)
RequestRecords == [step : RequestSteps, began : Nat, read : Times, decided : Nat,
                   retryAt : Nat]

TypeOK ==
    /\ clock \in Nat /\ updatedAt \in Nat
    /\ hits \in Times /\ admitted \in Times
    /\ lock \in Requests \cup {None}
    /\ request \in [Requests -> RequestRecords]

Ascending(seq) == \A i, j \in 1 .. Len(seq) : i <= j => seq[i] <= seq[j]

\* Of what was let through, the row holds all but the first that many.
Gone == Len(admitted) - Len(hits)

\* The row is the tail of what was let through; the rest has left the window.
RowIsTheTail ==
    /\ Len(hits) <= Len(admitted)
    /\ \A i \in 1 .. Len(hits) : hits[i] = admitted[Gone + i]
    /\ \A i \in 1 .. Gone : admitted[i] <= clock - Window

\* A hit is stamped no later than now, and no later after its transaction
\* began than a transaction waits.
StampsAreRecent ==
    /\ Ascending(admitted)
    /\ \A i \in 1 .. Len(admitted) :
        admitted[i] <= clock /\ admitted[i] <= updatedAt + MaxWait

\* Who has read the row holds the lock, and the row is as it was read.
ReaderHoldsRow ==
    \A q \in Requests : request[q].step = "read" => lock = q /\ request[q].read = hits

WaitsAreBounded ==
    \A q \in Requests : request[q].step \in {"waiting", "read"} =>
        request[q].began <= clock /\ clock <= request[q].began + MaxWait

RowInv == TypeOK /\ RowIsTheTail /\ StampsAreRecent /\ ReaderHoldsRow /\ WaitsAreBounded

\* Requests let through Limit places apart are a window apart.
Spaced ==
    \A i, j \in 1 .. Len(admitted) : i + Limit <= j => admitted[i] + Window <= admitted[j]

\* A refused client waits for a hit of its window to leave it.
RefusalNamesAHit ==
    \A q \in Requests : request[q].step = "refused" =>
        \E i \in 1 .. Len(admitted) :
            /\ request[q].decided - Window < admitted[i]
            /\ admitted[i] + Window <= request[q].retryAt

-----------------------------------------------------------------------------
(* Numbers *)

LEMMA Spans ==
    /\ Window \in Nat /\ Window > 0 /\ Retain \in Nat /\ MaxWait \in Nat
    /\ Window + MaxWait <= Retain
    /\ Limit \in Nat /\ Limit > 0 /\ Second \in Nat /\ Second > 0
<1>1. /\ WindowSec \in Nat /\ WindowSec > 0 /\ Second \in Nat /\ Second > 0
      /\ RetainSec \in Nat /\ MaxWait \in Nat /\ Limit \in Nat /\ Limit > 0
      /\ Window + MaxWait <= Retain
  BY LimiterAssumption
<1>2. \A x, y \in Nat : x * y \in Nat
  OBVIOUS
<1>3. \A x, y \in Nat : x > 0 /\ y > 0 => x * y > 0
  OBVIOUS
<1>4. QED
  BY <1>1, <1>2, <1>3 DEF Window, Retain

LEMMA Least ==
    ASSUME NEW S \in SUBSET Nat, S # {}
    PROVE  \E n \in S : \A m \in S : n <= m
<1>1. PICK x \in S : \A y \in S : <<y, x>> \notin OpToRel(<, Nat)
  BY NatLessThanWellFounded, WFMin
<1>2. \A y \in S : ~(y < x)
  BY <1>1, Zenon DEF OpToRel
<1>3. QED
  BY <1>2

LEMMA TailSize ==
    ASSUME NEW m \in Nat, NEW n \in Nat, m <= n
    PROVE  IsFiniteSet(m + 1 .. n) /\ Cardinality(m + 1 .. n) = n - m
<1>1. /\ m + 1 \in Int /\ n \in Int
      /\ (IF m + 1 > n THEN 0 ELSE n - (m + 1) + 1) = n - m
  OBVIOUS
<1>2. QED
  BY <1>1, FS_Interval

\* Whole seconds rounded up are long enough.
LEMMA CeilDivCovers ==
    ASSUME NEW x \in Nat, NEW y \in Nat, y > 0
    PROVE  CeilDiv(x, y) \in Nat /\ x <= y * CeilDiv(x, y)
<1> DEFINE n == x + y - 1
<1>1. /\ n \in Nat /\ n \div y \in Nat /\ n % y \in 0 .. (y - 1)
      /\ n = y * (n \div y) + (n % y)
  OBVIOUS
<1>2. QED
  BY <1>1 DEF CeilDiv

LEMMA RetryAfterCovers ==
    ASSUME NEW x \in Nat
    PROVE  /\ AtLeastOne(CeilDiv(x, Second)) \in Nat
           /\ x <= Second * AtLeastOne(CeilDiv(x, Second))
<1>1. CeilDiv(x, Second) \in Nat /\ x <= Second * CeilDiv(x, Second)
  BY CeilDivCovers, Spans
<1>2. CASE CeilDiv(x, Second) < 1
  <2>1. CeilDiv(x, Second) = 0 /\ x <= 0
    BY <1>1, <1>2, Spans
  <2>2. QED
    BY <2>1, Spans DEF AtLeastOne
<1>3. CASE ~(CeilDiv(x, Second) < 1)
  BY <1>1, <1>3 DEF AtLeastOne
<1>4. QED
  BY <1>2, <1>3

-----------------------------------------------------------------------------
(* The filter *)

\* In ascending hits, those in the window are a tail.
LEMMA WindowIsATail ==
    ASSUME NEW seq \in Times, Ascending(seq), NEW start \in Int
    PROVE  \E m \in 0 .. Len(seq) :
               /\ \A i \in 1 .. m : seq[i] <= start
               /\ \A i \in m + 1 .. Len(seq) : seq[i] > start
<1>0. /\ Len(seq) \in Nat
      /\ \A i \in 1 .. Len(seq) : seq[i] \in Nat
  BY DEF Times
<1> DEFINE S == {i \in 1 .. Len(seq) + 1 : i = Len(seq) + 1 \/ seq[i] > start}
<1>1. S \in SUBSET Nat /\ Len(seq) + 1 \in S
  BY <1>0
<1>2. PICK n \in S : \A k \in S : n <= k
  BY <1>1, Least
<1> HIDE DEF S
<1>3. n \in 1 .. Len(seq) + 1 /\ (n = Len(seq) + 1 \/ seq[n] > start)
  BY <1>2 DEF S
<1>4. \A i \in 1 .. n - 1 : seq[i] <= start
  <2>1. TAKE i \in 1 .. n - 1
  <2>2. i \in 1 .. Len(seq) /\ i \notin S
    BY <1>0, <1>1, <1>2, <1>3
  <2>3. QED
    BY <2>2, <1>0 DEF S
<1>5. \A i \in n .. Len(seq) : seq[i] > start
  <2>1. TAKE i \in n .. Len(seq)
  <2>2. n \in 1 .. Len(seq) /\ i \in 1 .. Len(seq) /\ n <= i /\ seq[n] > start
    BY <1>0, <1>3
  <2>3. QED
    BY <2>2, <1>0 DEF Ascending
<1>6. n - 1 \in 0 .. Len(seq) /\ (n - 1) + 1 = n
  BY <1>0, <1>3
<1>7. QED
  BY <1>4, <1>5, <1>6

\* What decideSlidingWindow keeps of ascending hits is that tail.
LEMMA RecentHitsAreTheTail ==
    ASSUME NEW seq \in Times, NEW now \in Nat, NEW m \in 0 .. Len(seq),
           \A i \in 1 .. m : seq[i] <= now - Window,
           \A i \in m + 1 .. Len(seq) : seq[i] > now - Window
    PROVE  /\ RecentHits(seq, now) \in Times
           /\ Len(RecentHits(seq, now)) = Len(seq) - m
           /\ \A k \in 1 .. Len(seq) - m : RecentHits(seq, now)[k] = seq[m + k]
<1>0. /\ Len(seq) \in Nat /\ m \in Nat /\ m <= Len(seq) /\ DOMAIN seq = 1 .. Len(seq)
      /\ \A i \in 1 .. Len(seq) : seq[i] \in Nat
      /\ Window \in Nat
  BY Spans DEF Times
<1> DEFINE recent == {i \in DOMAIN seq : seq[i] > now - Window}
           Upto(i) == {j \in recent : j <= i}
           Nth(k) == CHOOSE i \in recent : Cardinality(Upto(i)) = k
<1>1. recent = m + 1 .. Len(seq)
  <2>1. \A i \in 1 .. Len(seq) : seq[i] > now - Window <=> i > m
    <3>1. TAKE i \in 1 .. Len(seq)
    <3>2. CASE i <= m
      <4>1. i \in 1 .. m /\ seq[i] <= now - Window
        BY <1>0, <3>2
      <4>2. QED
        BY <4>1, <3>2, <1>0
    <3>3. CASE ~(i <= m)
      <4>1. i \in m + 1 .. Len(seq) /\ seq[i] > now - Window
        BY <1>0, <3>3
      <4>2. QED
        BY <4>1, <3>3, <1>0
    <3>4. QED
      BY <3>2, <3>3
  <2>2. QED
    BY <2>1, <1>0
<1>2. Cardinality(recent) = Len(seq) - m
  BY <1>0, <1>1, TailSize
<1> HIDE DEF recent
<1>3. \A i \in recent : Cardinality(Upto(i)) = i - m
  <2>1. TAKE i \in recent
  <2>2. Upto(i) = m + 1 .. i /\ i \in Nat /\ m <= i
    BY <1>0, <1>1
  <2>3. QED
    BY <2>2, <1>0, TailSize
<1> HIDE DEF Upto
<1>4. \A k \in 1 .. Len(seq) - m : Nth(k) = m + k
  <2>1. TAKE k \in 1 .. Len(seq) - m
  <2>2. m + k \in recent /\ (m + k) - m = k
    BY <1>0, <1>1
  <2>3. \A i \in recent : Cardinality(Upto(i)) = k => i = m + k
    BY <1>0, <1>1, <1>3
  <2>4. Cardinality(Upto(m + k)) = k
    BY <1>3, <2>2
  <2>5. Nth(k) \in recent /\ Cardinality(Upto(Nth(k))) = k
    BY <2>2, <2>4
  <2>6. QED
    BY <2>3, <2>5
<1>5. RecentHits(seq, now) = [k \in 1 .. Cardinality(recent) |-> seq[Nth(k)]]
  BY DEF RecentHits, recent, Upto
<1> HIDE DEF Nth
<1>6. RecentHits(seq, now) = [k \in 1 .. Len(seq) - m |-> seq[m + k]]
  BY <1>2, <1>4, <1>5
<1>7. \A k \in 1 .. Len(seq) - m : seq[m + k] \in Nat
  BY <1>0
<1>8. Len(seq) - m \in Nat
  BY <1>0
<1>9. QED
  BY <1>6, <1>7, <1>8 DEF Times

-----------------------------------------------------------------------------
(* A decision *)

LEMMA RequestFields ==
    ASSUME TypeOK, NEW q \in Requests
    PROVE  /\ request[q] \in RequestRecords
           /\ request[q].step \in RequestSteps /\ request[q].began \in Nat
           /\ request[q].read \in Times /\ request[q].decided \in Nat
           /\ request[q].retryAt \in Nat
<1>1. request[q] \in RequestRecords
  BY DEF TypeOK
<1>2. QED
  BY <1>1 DEF RequestRecords

LEMMA NoRequestTyped == NoRequest \in RequestRecords /\ NoRequest.step = "idle"
<1>1. <<>> \in Times
  BY EmptySeq DEF Times
<1>2. QED
  BY <1>1 DEF NoRequest, RequestRecords, RequestSteps

LEMMA Stamps ==
    ASSUME TypeOK
    PROVE  /\ Len(admitted) \in Nat /\ Len(hits) \in Nat /\ clock \in Nat
           /\ DOMAIN admitted = 1 .. Len(admitted) /\ DOMAIN hits = 1 .. Len(hits)
           /\ \A i \in 1 .. Len(admitted) : admitted[i] \in Nat
           /\ \A i \in 1 .. Len(hits) : hits[i] \in Nat
  BY DEF TypeOK, Times

\* The row's hits ascend, as what was let through does.
LEMMA RowAscends ==
    ASSUME RowInv
    PROVE  Ascending(hits)
<1>1. TypeOK /\ RowIsTheTail /\ Ascending(admitted)
  BY DEF RowInv, StampsAreRecent
<1>2. SUFFICES ASSUME NEW i \in 1 .. Len(hits), NEW j \in 1 .. Len(hits), i <= j
               PROVE  hits[i] <= hits[j]
  BY DEF Ascending
<1>3. /\ Len(admitted) \in Nat /\ Len(hits) \in Nat /\ Gone \in Nat
      /\ Gone + Len(hits) = Len(admitted)
  BY <1>1, Stamps DEF RowIsTheTail, Gone
<1>4. /\ Gone + i \in 1 .. Len(admitted) /\ Gone + j \in 1 .. Len(admitted)
      /\ Gone + i <= Gone + j
  BY <1>2, <1>3
<1>5. admitted[Gone + i] <= admitted[Gone + j]
  BY <1>1, <1>4 DEF Ascending
<1>6. QED
  BY <1>1, <1>5 DEF RowIsTheTail

\* What is in the window of a reader is in the row it has read: the requests
\* let through after the m-th, and of these there are as many as it counts.
LEMMA DecisionCountsTheWindow ==
    ASSUME RowInv, NEW q \in Requests, request[q].step = "read"
    PROVE  \E m \in 0 .. Len(admitted) :
               /\ \A i \in 1 .. m : admitted[i] <= clock - Window
               /\ \A i \in m + 1 .. Len(admitted) : admitted[i] > clock - Window
               /\ RecentHits(request[q].read, clock) \in Times
               /\ Len(RecentHits(request[q].read, clock)) = Len(admitted) - m
               /\ \A k \in 1 .. Len(admitted) - m :
                      RecentHits(request[q].read, clock)[k] = admitted[m + k]
<1> DEFINE recent == RecentHits(hits, clock)
<1>1. TypeOK /\ RowIsTheTail /\ request[q].read = hits
  BY DEF RowInv, ReaderHoldsRow
<1>2. /\ Len(admitted) \in Nat /\ Len(hits) \in Nat /\ Gone \in Nat
      /\ Gone + Len(hits) = Len(admitted) /\ hits \in Times
      /\ clock \in Nat /\ Window \in Nat
  BY <1>1, Stamps, Spans DEF RowIsTheTail, Gone, TypeOK
<1>3. Ascending(hits) /\ clock - Window \in Int
  BY <1>2, RowAscends
<1>4. PICK n \in 0 .. Len(hits) :
          /\ \A i \in 1 .. n : hits[i] <= clock - Window
          /\ \A i \in n + 1 .. Len(hits) : hits[i] > clock - Window
  BY <1>2, <1>3, WindowIsATail
<1>5. /\ recent \in Times /\ Len(recent) = Len(hits) - n
      /\ \A k \in 1 .. Len(hits) - n : recent[k] = hits[n + k]
  BY <1>2, <1>4, RecentHitsAreTheTail
<1> HIDE DEF recent
<1>6. /\ \A i \in 1 .. Len(hits) : hits[i] = admitted[Gone + i]
      /\ \A i \in 1 .. Gone : admitted[i] <= clock - Window
  BY <1>1 DEF RowIsTheTail
<1> DEFINE m == Gone + n
<1>7. m \in 0 .. Len(admitted) /\ Len(admitted) - m = Len(hits) - n
  BY <1>2
<1>8. \A i \in 1 .. m : admitted[i] <= clock - Window
  <2>1. TAKE i \in 1 .. m
  <2>2. CASE i <= Gone
    <3>1. i \in 1 .. Gone
      BY <1>2, <2>2
    <3>2. QED
      BY <3>1, <1>6
  <2>3. CASE ~(i <= Gone)
    <3>1. i - Gone \in 1 .. n /\ i - Gone \in 1 .. Len(hits) /\ Gone + (i - Gone) = i
      BY <1>2, <2>3
    <3>2. hits[i - Gone] = admitted[i]
      BY <3>1, <1>6
    <3>3. QED
      BY <3>1, <3>2, <1>4
  <2>4. QED
    BY <2>2, <2>3
<1>9. \A i \in m + 1 .. Len(admitted) : admitted[i] > clock - Window
  <2>1. TAKE i \in m + 1 .. Len(admitted)
  <2>2. /\ i - Gone \in n + 1 .. Len(hits) /\ i - Gone \in 1 .. Len(hits)
        /\ Gone + (i - Gone) = i
    BY <1>2
  <2>3. hits[i - Gone] = admitted[i]
    BY <2>2, <1>6
  <2>4. QED
    BY <2>2, <2>3, <1>4
<1>10. \A k \in 1 .. Len(admitted) - m : recent[k] = admitted[m + k]
  <2>1. TAKE k \in 1 .. Len(admitted) - m
  <2>2. k \in 1 .. Len(hits) - n /\ n + k \in 1 .. Len(hits) /\ Gone + (n + k) = m + k
    BY <1>2, <1>7
  <2>3. recent[k] = hits[n + k] /\ hits[n + k] = admitted[Gone + (n + k)]
    BY <2>2, <1>5, <1>6
  <2>4. QED
    BY <2>2, <2>3
<1> HIDE DEF m
<1>11. recent \in Times /\ Len(recent) = Len(admitted) - m
  BY <1>5, <1>7
<1>12. QED
  BY <1>1, <1>7, <1>8, <1>9, <1>10, <1>11 DEF recent

\* The two outcomes of a decision, in terms of what was let through.
LEMMA WriteHitsCases ==
    ASSUME RowInv, NEW q \in Requests, WriteHits(q)
    PROVE  \E m \in 0 .. Len(admitted) :
        /\ \A i \in 1 .. m : admitted[i] <= clock - Window
        /\ \A i \in m + 1 .. Len(admitted) : admitted[i] > clock - Window
        /\ \/ /\ Len(admitted) - m < Limit
              /\ admitted' = Append(admitted, clock)
              /\ Len(hits') = Len(admitted) - m + 1
              /\ \A k \in 1 .. Len(hits') : hits'[k] = admitted'[m + k]
              /\ request' = [request EXCEPT ![q] =
                    [NoRequest EXCEPT !.step = "allowed", !.decided = clock,
                                      !.retryAt = 0]]
           \/ /\ Len(admitted) - m >= Limit
              /\ admitted' = admitted
              /\ Len(hits') = Len(admitted) - m
              /\ \A k \in 1 .. Len(hits') : hits'[k] = admitted'[m + k]
              /\ \E r \in Nat :
                    /\ admitted[m + 1] + Window <= r
                    /\ request' = [request EXCEPT ![q] =
                          [NoRequest EXCEPT !.step = "refused", !.decided = clock,
                                            !.retryAt = r]]
        /\ hits' \in Times
<1> DEFINE recent == RecentHits(request[q].read, clock)
           outcome == DecideSlidingWindow(request[q].read, clock)
<1>1. request[q].step = "read"
  BY DEF WriteHits
<1>2. PICK m \in 0 .. Len(admitted) :
        /\ \A i \in 1 .. m : admitted[i] <= clock - Window
        /\ \A i \in m + 1 .. Len(admitted) : admitted[i] > clock - Window
        /\ recent \in Times
        /\ Len(recent) = Len(admitted) - m
        /\ \A k \in 1 .. Len(admitted) - m : recent[k] = admitted[m + k]
  BY <1>1, DecisionCountsTheWindow
<1>3. /\ TypeOK /\ Len(admitted) \in Nat /\ clock \in Nat /\ m \in Nat
      /\ \A i \in 1 .. Len(admitted) : admitted[i] \in Nat
      /\ Window \in Nat /\ Limit \in Nat /\ Limit > 0 /\ Second \in Nat
      /\ admitted \in Seq(Nat)
  BY Stamps, Spans DEF RowInv, TypeOK, Times
<1>4. /\ outcome = IF Len(recent) >= Limit
                   THEN [ok |-> FALSE, hits |-> recent,
                         retryAt |-> clock + Second * RetryAfter(recent, clock)]
                   ELSE [ok |-> TRUE, hits |-> Append(recent, clock), retryAt |-> 0]
  BY DEF DecideSlidingWindow
<1>5. /\ hits' = outcome.hits
      /\ request' = [request EXCEPT ![q] =
            [NoRequest EXCEPT !.step = IF outcome.ok THEN "allowed" ELSE "refused",
                              !.decided = clock, !.retryAt = outcome.retryAt]]
      /\ admitted' = IF outcome.ok THEN Append(admitted, clock) ELSE admitted
  BY DEF WriteHits
<1> HIDE DEF outcome, recent
<1>6. CASE Len(recent) >= Limit
  <2>1. /\ outcome.ok = FALSE /\ outcome.hits = recent
        /\ outcome.retryAt = clock + Second * RetryAfter(recent, clock)
    BY <1>4, <1>6
  <2>2. /\ recent[1] = admitted[m + 1] /\ m + 1 \in 1 .. Len(admitted)
        /\ admitted[m + 1] > clock - Window
    BY <1>2, <1>3, <1>6
  <2> DEFINE x == recent[1] + Window - clock
  <2>3. x \in Nat /\ admitted[m + 1] + Window = clock + x
    BY <2>2, <1>3
  <2>4. RetryAfter(recent, clock) = AtLeastOne(CeilDiv(x, Second))
    BY DEF RetryAfter
  <2> HIDE DEF x
  <2>5. /\ AtLeastOne(CeilDiv(x, Second)) \in Nat
        /\ x <= Second * AtLeastOne(CeilDiv(x, Second))
    BY <2>3, RetryAfterCovers
  <2>6. Second * AtLeastOne(CeilDiv(x, Second)) \in Nat
    BY <2>5, <1>3
  <2> DEFINE wait == Second * AtLeastOne(CeilDiv(x, Second))
  <2>a. wait \in Nat /\ x <= wait /\ outcome.retryAt = clock + wait
    BY <2>1, <2>4, <2>5, <2>6
  <2> HIDE DEF wait
  <2>7. outcome.retryAt \in Nat /\ admitted[m + 1] + Window <= outcome.retryAt
    BY <2>3, <2>a, <1>3
  <2>8. /\ admitted' = admitted /\ hits' = recent
        /\ request' = [request EXCEPT ![q] =
              [NoRequest EXCEPT !.step = "refused", !.decided = clock,
                                !.retryAt = outcome.retryAt]]
    BY <1>5, <2>1
  <2>9. /\ Len(hits') = Len(admitted) - m /\ hits' \in Times
        /\ \A k \in 1 .. Len(hits') : hits'[k] = admitted'[m + k]
    BY <2>8, <1>2
  <2>10. Len(admitted) - m >= Limit
    BY <1>2, <1>6
  <2>11. \E r \in Nat :
            /\ admitted[m + 1] + Window <= r
            /\ request' = [request EXCEPT ![q] =
                  [NoRequest EXCEPT !.step = "refused", !.decided = clock,
                                    !.retryAt = r]]
    BY <2>7, <2>8
  <2>12. QED
    BY <1>2, <2>8, <2>9, <2>10, <2>11
<1>7. CASE ~(Len(recent) >= Limit)
  <2>1. outcome.ok = TRUE /\ outcome.hits = Append(recent, clock) /\ outcome.retryAt = 0
    BY <1>4, <1>7
  <2>2. Len(admitted) - m < Limit /\ Len(admitted) - m \in Nat
    BY <1>2, <1>3, <1>7
  <2>3. /\ admitted' = Append(admitted, clock) /\ hits' = Append(recent, clock)
        /\ request' = [request EXCEPT ![q] =
              [NoRequest EXCEPT !.step = "allowed", !.decided = clock, !.retryAt = 0]]
    BY <1>5, <2>1
  <2>4. /\ hits' \in Times /\ Len(hits') = Len(admitted) - m + 1
        /\ \A k \in 1 .. Len(admitted) - m : hits'[k] = recent[k]
        /\ hits'[Len(admitted) - m + 1] = clock
    BY <2>3, <1>2, <1>3 DEF Times
  <2>5. /\ \A i \in 1 .. Len(admitted) : admitted'[i] = admitted[i]
        /\ admitted'[Len(admitted) + 1] = clock
    BY <2>3, <1>3
  <2>6. \A k \in 1 .. Len(hits') : hits'[k] = admitted'[m + k]
    <3>1. TAKE k \in 1 .. Len(hits')
    <3>2. CASE k \in 1 .. Len(admitted) - m
      <4>1. m + k \in 1 .. Len(admitted)
        BY <3>2, <1>3
      <4>2. QED
        BY <4>1, <3>2, <2>4, <2>5, <1>2
    <3>3. CASE k \notin 1 .. Len(admitted) - m
      <4>1. k = Len(admitted) - m + 1 /\ m + k = Len(admitted) + 1
        BY <3>3, <2>2, <2>4, <1>3
      <4>2. QED
        BY <4>1, <2>4, <2>5
    <3>4. QED
      BY <3>2, <3>3
  <2>7. QED
    BY <1>2, <2>2, <2>3, <2>4, <2>6
<1>8. QED
  BY <1>6, <1>7

-----------------------------------------------------------------------------
(* The row and the lock *)

LEMMA RowInvInit == Init => RowInv
<1>1. SUFFICES ASSUME Init PROVE RowInv
  OBVIOUS
<1>2. /\ clock = 0 /\ updatedAt = 0 /\ lock = None /\ hits = <<>> /\ admitted = <<>>
      /\ request = [q \in Requests |-> NoRequest]
  BY <1>1 DEF Init
<1>3. NoRequest \in RequestRecords /\ NoRequest.step = "idle"
  BY NoRequestTyped
<1>4. TypeOK
  BY <1>2, <1>3 DEF TypeOK, Times
<1>5. RowIsTheTail /\ StampsAreRecent
  BY <1>2 DEF RowIsTheTail, StampsAreRecent, Ascending, Gone
<1>6. ReaderHoldsRow /\ WaitsAreBounded
  BY <1>2, <1>3 DEF ReaderHoldsRow, WaitsAreBounded
<1>7. QED
  BY <1>4, <1>5, <1>6 DEF RowInv

\* What a step that touches neither row nor admissions keeps of them.
LEMMA RowUntouched ==
    ASSUME RowIsTheTail, StampsAreRecent, UNCHANGED <<clock, rowVars, admitted>>
    PROVE  RowIsTheTail' /\ StampsAreRecent'
  BY DEF RowIsTheTail, StampsAreRecent, Ascending, Gone, rowVars

LEMMA RowInvTick ==
    ASSUME RowInv, Tick
    PROVE  RowInv'
<1>1. /\ TypeOK /\ RowIsTheTail /\ StampsAreRecent /\ ReaderHoldsRow /\ WaitsAreBounded
      /\ clock' = clock + 1 /\ hits' = hits /\ updatedAt' = updatedAt
      /\ lock' = lock /\ request' = request /\ admitted' = admitted
      /\ \A q \in Requests : request[q].step \in {"waiting", "read"} =>
            clock < request[q].began + MaxWait
  BY DEF RowInv, Tick, rowVars
<1>2. /\ clock \in Nat /\ Window \in Nat /\ MaxWait \in Nat /\ Gone \in Int
      /\ \A i \in 1 .. Len(admitted) : admitted[i] \in Nat
      /\ Len(admitted) \in Nat /\ Len(hits) \in Nat
  BY <1>1, Spans, Stamps DEF Gone
<1>3. TypeOK'
  BY <1>1, <1>2 DEF TypeOK
<1>4. Gone' = Gone
  BY <1>1 DEF Gone
<1>5. \A i \in 1 .. Gone : i \in 1 .. Len(admitted)
  BY <1>2 DEF Gone
<1>6. RowIsTheTail'
  <2>1. /\ Len(hits') <= Len(admitted')
        /\ \A i \in 1 .. Len(hits') : hits'[i] = admitted'[Gone' + i]
    BY <1>1, <1>4 DEF RowIsTheTail
  <2>2. \A i \in 1 .. Gone : admitted[i] <= (clock + 1) - Window
    BY <1>1, <1>2, <1>5 DEF RowIsTheTail
  <2>3. \A i \in 1 .. Gone' : admitted'[i] <= clock' - Window
    BY <2>2, <1>1, <1>4
  <2>4. QED
    BY <2>1, <2>3 DEF RowIsTheTail
<1>7. StampsAreRecent'
  BY <1>1, <1>2 DEF StampsAreRecent, Ascending
<1>8. ReaderHoldsRow'
  BY <1>1 DEF ReaderHoldsRow
<1>9. WaitsAreBounded'
  <2>1. SUFFICES ASSUME NEW q \in Requests, request[q].step \in {"waiting", "read"}
                 PROVE  request[q].began <= clock + 1 /\ clock + 1 <= request[q].began + MaxWait
    BY <1>1 DEF WaitsAreBounded
  <2>2. request[q].began \in Nat /\ request[q].began <= clock
    BY <1>1, <2>1, RequestFields DEF WaitsAreBounded
  <2>3. clock < request[q].began + MaxWait
    BY <1>1, <2>1
  <2>4. QED
    BY <1>2, <2>2, <2>3
<1>10. QED
  BY <1>3, <1>6, <1>7, <1>8, <1>9 DEF RowInv

LEMMA RowInvBegin ==
    ASSUME RowInv, NEW q \in Requests, Begin(q)
    PROVE  RowInv'
<1> DEFINE new == [NoRequest EXCEPT !.step = "waiting", !.began = clock]
<1>1. /\ TypeOK /\ RowIsTheTail /\ StampsAreRecent /\ ReaderHoldsRow /\ WaitsAreBounded
      /\ request' = [request EXCEPT ![q] = new]
      /\ UNCHANGED <<clock, rowVars, admitted>> /\ clock' = clock
      /\ hits' = hits /\ updatedAt' = updatedAt /\ lock' = lock /\ admitted' = admitted
  BY DEF RowInv, Begin, rowVars
<1>2. clock \in Nat /\ MaxWait \in Nat
  BY <1>1, Spans DEF TypeOK
<1>3. new \in RequestRecords /\ new.step = "waiting" /\ new.began = clock
  BY <1>2, NoRequestTyped DEF RequestRecords, RequestSteps
<1> HIDE DEF new
<1>4. TypeOK'
  BY <1>1, <1>3 DEF TypeOK
<1>5. \A p \in Requests : request'[p] = IF p = q THEN new ELSE request[p]
  BY <1>1 DEF TypeOK
<1>6. ReaderHoldsRow'
  BY <1>1, <1>3, <1>5 DEF ReaderHoldsRow
<1>7. clock <= clock /\ clock <= clock + MaxWait
  BY <1>2
<1>8. WaitsAreBounded'
  BY <1>1, <1>3, <1>5, <1>7 DEF WaitsAreBounded
<1>9. QED
  BY <1>1, <1>4, <1>6, <1>8, RowUntouched DEF RowInv

LEMMA RowInvReadHits ==
    ASSUME RowInv, NEW q \in Requests, ReadHits(q)
    PROVE  RowInv'
<1> DEFINE new == [request[q] EXCEPT !.step = "read", !.read = hits]
<1>1. /\ TypeOK /\ RowIsTheTail /\ StampsAreRecent /\ ReaderHoldsRow /\ WaitsAreBounded
      /\ request[q].step = "waiting" /\ lock = None /\ lock' = q
      /\ request' = [request EXCEPT ![q] = new]
      /\ UNCHANGED <<clock, rowVars, admitted>> /\ clock' = clock
      /\ hits' = hits /\ updatedAt' = updatedAt /\ admitted' = admitted
  BY DEF RowInv, ReadHits, rowVars
<1>2. request[q] \in RequestRecords /\ hits \in Times
  BY <1>1, RequestFields DEF TypeOK
<1>3. /\ new \in RequestRecords /\ new.step = "read" /\ new.read = hits
      /\ new.began = request[q].began
  BY <1>2 DEF RequestRecords, RequestSteps
<1> HIDE DEF new
<1>4. TypeOK'
  BY <1>1, <1>3 DEF TypeOK
<1>5. \A p \in Requests : request'[p] = IF p = q THEN new ELSE request[p]
  BY <1>1 DEF TypeOK
<1>6. ReaderHoldsRow'
  <2>1. \A p \in Requests : request[p].step # "read"
    BY <1>1, LimiterAssumption DEF ReaderHoldsRow
  <2>2. QED
    BY <1>1, <1>3, <1>5, <2>1 DEF ReaderHoldsRow
<1>7. WaitsAreBounded'
  BY <1>1, <1>3, <1>5 DEF WaitsAreBounded
<1>8. QED
  BY <1>1, <1>4, <1>6, <1>7, RowUntouched DEF RowInv

LEMMA RowInvRollBack ==
    ASSUME RowInv, NEW q \in Requests, RollBack(q)
    PROVE  RowInv'
<1>1. /\ TypeOK /\ RowIsTheTail /\ StampsAreRecent /\ ReaderHoldsRow /\ WaitsAreBounded
      /\ request' = [request EXCEPT ![q] = NoRequest]
      /\ lock' = IF lock = q THEN None ELSE lock
      /\ UNCHANGED <<clock, rowVars, admitted>> /\ clock' = clock
      /\ hits' = hits /\ updatedAt' = updatedAt /\ admitted' = admitted
  BY DEF RowInv, RollBack, Release, rowVars
<1>2. NoRequest \in RequestRecords /\ NoRequest.step = "idle"
  BY NoRequestTyped
<1>3. TypeOK'
  BY <1>1, <1>2 DEF TypeOK
<1>4. \A p \in Requests : request'[p] = IF p = q THEN NoRequest ELSE request[p]
  BY <1>1 DEF TypeOK
<1>5. ReaderHoldsRow'
  BY <1>1, <1>2, <1>4 DEF ReaderHoldsRow
<1>6. WaitsAreBounded'
  BY <1>1, <1>2, <1>4 DEF WaitsAreBounded
<1>7. QED
  BY <1>1, <1>3, <1>5, <1>6, RowUntouched DEF RowInv

LEMMA RowInvWriteHits ==
    ASSUME RowInv, NEW q \in Requests, WriteHits(q)
    PROVE  RowInv'
<1>1. /\ TypeOK /\ RowIsTheTail /\ StampsAreRecent /\ ReaderHoldsRow /\ WaitsAreBounded
      /\ request[q].step = "read" /\ updatedAt' = request[q].began
      /\ lock' = (IF lock = q THEN None ELSE lock) /\ clock' = clock
  BY DEF RowInv, WriteHits, Release
<1>2. /\ Len(admitted) \in Nat /\ clock \in Nat /\ Window \in Nat /\ MaxWait \in Nat
      /\ \A i \in 1 .. Len(admitted) : admitted[i] \in Nat
      /\ admitted \in Seq(Nat)
  BY <1>1, Stamps, Spans DEF TypeOK, Times
<1>3. /\ request[q].began \in Nat /\ request[q].began <= clock
      /\ clock <= request[q].began + MaxWait /\ lock = q
  BY <1>1, RequestFields DEF WaitsAreBounded, ReaderHoldsRow
<1>4. PICK m \in 0 .. Len(admitted), new \in RequestRecords :
        /\ \A i \in 1 .. m : admitted[i] <= clock - Window
        /\ admitted' = Append(admitted, clock) \/ admitted' = admitted
        /\ Len(hits') = Len(admitted') - m
        /\ \A k \in 1 .. Len(hits') : hits'[k] = admitted'[m + k]
        /\ new.step \in {"allowed", "refused"}
        /\ request' = [request EXCEPT ![q] = new]
        /\ hits' \in Times
  <2>1. PICK m \in 0 .. Len(admitted) :
        /\ \A i \in 1 .. m : admitted[i] <= clock - Window
        /\ \/ /\ admitted' = Append(admitted, clock)
              /\ Len(hits') = Len(admitted) - m + 1
              /\ \A k \in 1 .. Len(hits') : hits'[k] = admitted'[m + k]
              /\ request' = [request EXCEPT ![q] =
                    [NoRequest EXCEPT !.step = "allowed", !.decided = clock,
                                      !.retryAt = 0]]
           \/ /\ admitted' = admitted
              /\ Len(hits') = Len(admitted) - m
              /\ \A k \in 1 .. Len(hits') : hits'[k] = admitted'[m + k]
              /\ \E r \in Nat : request' = [request EXCEPT ![q] =
                    [NoRequest EXCEPT !.step = "refused", !.decided = clock,
                                      !.retryAt = r]]
        /\ hits' \in Times
    BY WriteHitsCases
  <2>2. \A r \in Nat, s \in {"allowed", "refused"} :
            [NoRequest EXCEPT !.step = s, !.decided = clock, !.retryAt = r]
                \in {x \in RequestRecords : x.step \in {"allowed", "refused"}}
    BY <1>2, NoRequestTyped DEF RequestRecords, RequestSteps
  <2>3. CASE /\ admitted' = Append(admitted, clock)
             /\ Len(hits') = Len(admitted) - m + 1
             /\ \A k \in 1 .. Len(hits') : hits'[k] = admitted'[m + k]
             /\ request' = [request EXCEPT ![q] =
                    [NoRequest EXCEPT !.step = "allowed", !.decided = clock,
                                      !.retryAt = 0]]
    <3>1. Len(admitted') = Len(admitted) + 1
      BY <2>3, <1>2
    <3>2. Len(hits') = Len(admitted') - m
      BY <3>1, <2>3, <1>2
    <3>3. QED
      BY <2>1, <2>2, <2>3, <3>2
  <2>4. CASE /\ admitted' = admitted
             /\ Len(hits') = Len(admitted) - m
             /\ \A k \in 1 .. Len(hits') : hits'[k] = admitted'[m + k]
             /\ \E r \in Nat : request' = [request EXCEPT ![q] =
                    [NoRequest EXCEPT !.step = "refused", !.decided = clock,
                                      !.retryAt = r]]
    BY <2>1, <2>2, <2>4
  <2>5. QED
    BY <2>1, <2>3, <2>4
<1>5. /\ admitted' \in Seq(Nat) /\ Len(admitted') \in Nat
      /\ Len(admitted) <= Len(admitted')
      /\ \A i \in 1 .. Len(admitted) : admitted'[i] = admitted[i]
      /\ \A i \in 1 .. Len(admitted') : i \notin 1 .. Len(admitted) =>
            i = Len(admitted) + 1 /\ admitted'[i] = clock
  <2>1. CASE admitted' = admitted
    BY <2>1, <1>2
  <2>2. CASE admitted' = Append(admitted, clock)
    BY <2>2, <1>2
  <2>3. QED
    BY <2>1, <2>2, <1>4
<1>6. TypeOK'
  BY <1>1, <1>3, <1>4, <1>5 DEF TypeOK, Times
<1>7. Gone' = m
  BY <1>2, <1>4, <1>5 DEF Gone
<1>8. RowIsTheTail'
  <2>1. /\ Len(hits') <= Len(admitted')
        /\ \A i \in 1 .. Len(hits') : hits'[i] = admitted'[Gone' + i]
    BY <1>2, <1>4, <1>5, <1>7
  <2>2. \A i \in 1 .. m : admitted'[i] <= clock - Window
    <3>1. TAKE i \in 1 .. m
    <3>2. i \in 1 .. Len(admitted)
      BY <1>2, <1>4
    <3>3. admitted'[i] = admitted[i]
      BY <3>2, <1>5
    <3>4. QED
      BY <3>3, <1>4
  <2>3. \A i \in 1 .. Gone' : admitted'[i] <= clock' - Window
    BY <2>2, <1>1, <1>7
  <2>4. QED
    BY <2>1, <2>3 DEF RowIsTheTail
<1>9. StampsAreRecent'
  <2>1. \A i \in 1 .. Len(admitted') :
            /\ admitted'[i] \in Nat /\ admitted'[i] <= clock
            /\ admitted'[i] <= request[q].began + MaxWait
    <3>1. TAKE i \in 1 .. Len(admitted')
    <3>2. CASE i \in 1 .. Len(admitted)
      <4>1. admitted'[i] = admitted[i] /\ admitted[i] <= clock /\ admitted[i] \in Nat
        BY <3>2, <1>1, <1>2, <1>5 DEF StampsAreRecent
      <4>2. QED
        BY <4>1, <1>2, <1>3
    <3>3. CASE i \notin 1 .. Len(admitted)
      BY <3>3, <1>2, <1>3, <1>5
    <3>4. QED
      BY <3>2, <3>3
  <2>2. ASSUME NEW i \in 1 .. Len(admitted'), NEW j \in 1 .. Len(admitted'), i <= j
        PROVE  admitted'[i] <= admitted'[j]
    <3>1. CASE j \in 1 .. Len(admitted)
      <4>1. i \in 1 .. Len(admitted)
        BY <3>1, <2>2, <1>2, <1>5
      <4>2. admitted[i] <= admitted[j]
        BY <4>1, <3>1, <2>2, <1>1 DEF StampsAreRecent, Ascending
      <4>3. QED
        BY <4>1, <4>2, <3>1, <1>5
    <3>2. CASE j \notin 1 .. Len(admitted)
      <4>1. admitted'[j] = clock /\ admitted'[i] <= clock
        BY <3>2, <2>1, <1>5
      <4>2. QED
        BY <4>1
    <3>3. QED
      BY <3>1, <3>2
  <2>3. Ascending(admitted')
    BY <2>2 DEF Ascending
  <2>4. QED
    BY <2>1, <2>3, <1>1 DEF StampsAreRecent, Ascending
<1>10. \A p \in Requests : request'[p] = IF p = q THEN new ELSE request[p]
  BY <1>1, <1>4 DEF TypeOK
<1>11. ReaderHoldsRow'
  <2>1. \A p \in Requests : p # q => request[p].step # "read"
    BY <1>1, <1>3 DEF ReaderHoldsRow
  <2>2. QED
    BY <2>1, <1>4, <1>10 DEF ReaderHoldsRow
<1>12. WaitsAreBounded'
  BY <1>1, <1>4, <1>10 DEF WaitsAreBounded
<1>13. QED
  BY <1>6, <1>8, <1>9, <1>11, <1>12 DEF RowInv

\* The sweep deletes a row only when all it held has left the window.
LEMMA RowInvDelete ==
    ASSUME RowInv, DeleteExpiredRateLimitHits
    PROVE  RowInv'
<1>1. /\ TypeOK /\ RowIsTheTail /\ StampsAreRecent /\ ReaderHoldsRow /\ WaitsAreBounded
      /\ updatedAt < clock - Retain /\ hits' = <<>>
      /\ \A q \in Requests : request[q].step # "read"
      /\ clock' = clock /\ updatedAt' = updatedAt /\ lock' = lock
      /\ request' = request /\ admitted' = admitted
  BY DEF RowInv, DeleteExpiredRateLimitHits
<1>2. /\ clock \in Nat /\ updatedAt \in Nat /\ Window \in Nat /\ MaxWait \in Nat
      /\ Retain \in Nat /\ Window + MaxWait <= Retain /\ Len(admitted) \in Nat
      /\ \A i \in 1 .. Len(admitted) : admitted[i] \in Nat
  BY <1>1, Spans, Stamps DEF TypeOK
<1>3. TypeOK'
  BY <1>1 DEF TypeOK, Times
<1>4. \A i \in 1 .. Len(admitted) : admitted[i] <= clock - Window
  <2>1. TAKE i \in 1 .. Len(admitted)
  <2>2. admitted[i] <= updatedAt + MaxWait /\ admitted[i] \in Nat
    BY <1>1, <1>2 DEF StampsAreRecent
  <2>3. QED
    BY <2>2, <1>1, <1>2
<1>5. Len(hits') = 0 /\ Gone' = Len(admitted)
  BY <1>1, <1>2 DEF Gone
<1>6. RowIsTheTail'
  <2>1. \A i \in 1 .. Gone' : admitted'[i] <= clock' - Window
    BY <1>1, <1>4, <1>5
  <2>2. Len(hits') <= Len(admitted')
    BY <1>1, <1>2, <1>5
  <2>3. \A i \in 1 .. Len(hits') : hits'[i] = admitted'[Gone' + i]
    BY <1>5
  <2>4. QED
    BY <2>1, <2>2, <2>3 DEF RowIsTheTail
<1>7. StampsAreRecent'
  BY <1>1 DEF StampsAreRecent, Ascending
<1>8. ReaderHoldsRow' /\ WaitsAreBounded'
  BY <1>1 DEF ReaderHoldsRow, WaitsAreBounded
<1>9. QED
  BY <1>3, <1>6, <1>7, <1>8 DEF RowInv

LEMMA RowInvStep == RowInv /\ [Next]_vars => RowInv'
<1>1. SUFFICES ASSUME RowInv, [Next]_vars PROVE RowInv'
  OBVIOUS
<1>2. CASE Tick
  BY <1>1, <1>2, RowInvTick
<1>3. CASE DeleteExpiredRateLimitHits
  BY <1>1, <1>3, RowInvDelete
<1>4. ASSUME NEW q \in Requests, Begin(q) PROVE RowInv'
  BY <1>1, <1>4, RowInvBegin
<1>5. ASSUME NEW q \in Requests, ReadHits(q) PROVE RowInv'
  BY <1>1, <1>5, RowInvReadHits
<1>6. ASSUME NEW q \in Requests, WriteHits(q) PROVE RowInv'
  BY <1>1, <1>6, RowInvWriteHits
<1>7. ASSUME NEW q \in Requests, RollBack(q) PROVE RowInv'
  BY <1>1, <1>7, RowInvRollBack
<1>8. CASE UNCHANGED vars
  BY <1>1, <1>8 DEF vars, rowVars, RowInv, TypeOK, RowIsTheTail, StampsAreRecent,
      Ascending, Gone, ReaderHoldsRow, WaitsAreBounded
<1>9. QED
  BY <1>1, <1>2, <1>3, <1>4, <1>5, <1>6, <1>7, <1>8 DEF Next

\* Whatever was dropped from the row had left the window, and a reader has
\* the row as it is.
THEOREM RowHoldsTheWindow == Spec => []RowInv
<1>1. Init => RowInv
  BY RowInvInit
<1>2. RowInv /\ [Next]_vars => RowInv'
  BY RowInvStep
<1>3. QED
  BY <1>1, <1>2, PTL DEF Spec

THEOREM TypeCorrect == Spec => []TypeOK
<1>1. RowInv => TypeOK
  BY DEF RowInv
<1>2. QED
  BY <1>1, RowHoldsTheWindow, PTL

-----------------------------------------------------------------------------
(* What is let through *)

\* Admissions only grow, by the time of the decision.
LEMMA AdmissionsGrow ==
    ASSUME RowInv, [Next]_vars
    PROVE  admitted' = admitted
           \/ \E q \in Requests : WriteHits(q) /\ admitted' = Append(admitted, clock)
  BY DEF Next, vars, Tick, DeleteExpiredRateLimitHits, Begin, ReadHits, WriteHits, RollBack

\* A request let through finds the one Limit places before it outside of the
\* window, or it would have counted it.
LEMMA SpacedStep == RowInv /\ Spaced /\ [Next]_vars => Spaced'
<1>1. SUFFICES ASSUME RowInv, Spaced, [Next]_vars PROVE Spaced'
  OBVIOUS
<1>2. CASE admitted' = admitted
  BY <1>1, <1>2 DEF Spaced
<1>3. ASSUME NEW q \in Requests, WriteHits(q), admitted' = Append(admitted, clock)
      PROVE  Spaced'
  <2>1. /\ Len(admitted) \in Nat /\ clock \in Nat /\ Window \in Nat /\ Limit \in Nat
        /\ Limit > 0 /\ admitted \in Seq(Nat)
        /\ \A i \in 1 .. Len(admitted) : admitted[i] \in Nat
    BY <1>1, Stamps, Spans DEF RowInv, TypeOK, Times
  <2>2. /\ Len(admitted') = Len(admitted) + 1
        /\ \A i \in 1 .. Len(admitted) : admitted'[i] = admitted[i]
        /\ admitted'[Len(admitted) + 1] = clock
    BY <1>3, <2>1
  <2>3. PICK m \in 0 .. Len(admitted) :
            /\ \A i \in 1 .. m : admitted[i] <= clock - Window
            /\ Len(admitted) - m < Limit \/ admitted' = admitted
    BY <1>1, <1>3, WriteHitsCases
  <2>4. Len(admitted) - m < Limit
    BY <2>1, <2>2, <2>3
  <2>5. SUFFICES ASSUME NEW i \in 1 .. Len(admitted'), NEW j \in 1 .. Len(admitted'),
                        i + Limit <= j
                 PROVE  admitted'[i] + Window <= admitted'[j]
    BY DEF Spaced
  <2>6. i \in 1 .. Len(admitted) /\ admitted'[i] = admitted[i]
    BY <2>1, <2>2, <2>5
  <2>7. CASE j \in 1 .. Len(admitted)
    BY <1>1, <2>2, <2>5, <2>6, <2>7 DEF Spaced
  <2>8. CASE j \notin 1 .. Len(admitted)
    <3>b. j \in 1 .. Len(admitted) + 1
      BY <2>2
    <3>c. j = Len(admitted) + 1
      BY <3>b, <2>1, <2>8
    <3>0. j = Len(admitted) + 1 /\ m \in Nat /\ i \in Nat /\ i >= 1
      BY <3>c, <2>1, <2>6
    <3>a. Len(admitted) < m + Limit /\ i + Limit <= Len(admitted) + 1
      BY <3>0, <2>1, <2>4, <2>5
    <3>1. i \in 1 .. m
      BY <3>0, <3>a, <2>1
    <3>2. admitted[i] <= clock - Window /\ admitted'[j] = clock
      BY <3>0, <3>1, <2>2, <2>3
    <3>3. QED
      BY <3>2, <2>1, <2>6
  <2>9. QED
    BY <2>7, <2>8
<1>4. QED
  BY <1>1, <1>2, <1>3, AdmissionsGrow

\* Indices that fill fewer places than there are above low.
LEMMA FewBetween ==
    ASSUME NEW low \in Nat, NEW n \in Nat, NEW S \in SUBSET (low + 1 .. low + n)
    PROVE  IsFiniteSet(S) /\ Cardinality(S) \in Nat /\ Cardinality(S) <= n
<1>1. /\ IsFiniteSet(low + 1 .. low + n)
      /\ Cardinality(low + 1 .. low + n) = n
  <2>1. low + n \in Nat /\ low <= low + n /\ (low + n) - low = n
    OBVIOUS
  <2>2. QED
    BY <2>1, TailSize
<1>2. QED
  BY <1>1, FS_Subset, FS_CardinalityType

LEMMA SpacedRespectsWindow ==
    ASSUME TypeOK, Spaced
    PROVE  WindowRespected
<1>1. /\ Len(admitted) \in Nat /\ Window \in Nat /\ Limit \in Nat /\ Limit > 0
      /\ DOMAIN admitted = 1 .. Len(admitted)
      /\ \A i \in 1 .. Len(admitted) : admitted[i] \in Nat
  BY Stamps, Spans
<1>2. SUFFICES ASSUME NEW i \in DOMAIN admitted
               PROVE  Cardinality({j \in DOMAIN admitted :
                        admitted[j] \in admitted[i] .. admitted[i] + Window - 1}) <= Limit
  BY DEF WindowRespected
<1> DEFINE S == {j \in DOMAIN admitted :
                    admitted[j] \in admitted[i] .. admitted[i] + Window - 1}
<1>3. S \in SUBSET Nat /\ S \subseteq 1 .. Len(admitted)
  BY <1>1
<1>4. \A j, k \in S : j + Limit > k
  <2>1. SUFFICES ASSUME NEW j \in S, NEW k \in S, j + Limit <= k PROVE FALSE
    BY <1>1, <1>3
  <2>2. admitted[j] + Window <= admitted[k]
    BY <1>3, <2>1 DEF Spaced
  <2>3. /\ admitted[j] >= admitted[i] /\ admitted[k] <= admitted[i] + Window - 1
        /\ admitted[j] \in Nat /\ admitted[k] \in Nat /\ admitted[i] \in Nat
    BY <1>1
  <2>4. QED
    BY <2>2, <2>3, <1>1
<1> HIDE DEF S
<1>5. CASE S = {}
  <2>1. Cardinality(S) = 0
    BY <1>5, FS_EmptySet
  <2>2. Cardinality(S) <= Limit
    BY <1>1, <2>1
  <2>3. QED
    BY <2>2 DEF S
<1>6. CASE S # {}
  <2>1. PICK n \in S : \A k \in S : n <= k
    BY <1>3, <1>6, Least
  <2>2. n - 1 \in Nat /\ S \in SUBSET ((n - 1) + 1 .. (n - 1) + Limit)
    BY <1>1, <1>3, <1>4, <2>1
  <2>3. Cardinality(S) <= Limit
    BY <1>1, <2>2, FewBetween
  <2>4. QED
    BY <2>3 DEF S
<1>7. QED
  BY <1>5, <1>6

\* WindowRespected, whatever the requests, the limit and the window, and
\* whenever the sweep runs: the conclusion the limiter is there for.
THEOREM LimitHolds == Spec => []WindowRespected
<1>1. Init => Spaced
  BY DEF Init, Spaced
<1>2. RowInv /\ Spaced /\ [Next]_vars => Spaced'
  BY SpacedStep
<1>3. RowInv /\ Spaced => WindowRespected
  BY SpacedRespectsWindow DEF RowInv
<1>4. QED
  BY <1>1, <1>2, <1>3, RowHoldsTheWindow, PTL DEF Spec

\* A step keeps what a refused request was told, and its hit stays let through.
LEMMA RefusalNamesAHitStep == RowInv /\ RefusalNamesAHit /\ [Next]_vars => RefusalNamesAHit'
<1>1. SUFFICES ASSUME RowInv, RefusalNamesAHit, [Next]_vars,
                      NEW q \in Requests, request'[q].step = "refused"
               PROVE  \E i \in 1 .. Len(admitted') :
                         /\ request'[q].decided - Window < admitted'[i]
                         /\ admitted'[i] + Window <= request'[q].retryAt
  BY DEF RefusalNamesAHit
<1>2. /\ TypeOK /\ Len(admitted) \in Nat /\ clock \in Nat /\ Window \in Nat
      /\ Limit \in Nat /\ Limit > 0 /\ admitted \in Seq(Nat)
      /\ \A i \in 1 .. Len(admitted) : admitted[i] \in Nat
  BY <1>1, Stamps, Spans DEF RowInv, TypeOK, Times
<1>3. /\ 1 .. Len(admitted) \subseteq 1 .. Len(admitted')
      /\ \A i \in 1 .. Len(admitted) : admitted'[i] = admitted[i]
  <2>1. CASE admitted' = admitted
    BY <2>1, <1>2
  <2>2. CASE admitted' = Append(admitted, clock)
    BY <2>2, <1>2
  <2>3. QED
    BY <1>1, <2>1, <2>2, AdmissionsGrow
<1>4. CASE request'[q] = request[q]
  BY <1>1, <1>3, <1>4 DEF RefusalNamesAHit
<1>5. CASE request'[q] # request[q]
  <2>1. WriteHits(q)
    <3>1. \A p \in Requests : Begin(p) => request'[q].step # "refused" \/ p # q
      BY <1>2 DEF Begin, NoRequest, TypeOK
    <3>2. \A p \in Requests : ReadHits(p) => request'[q].step # "refused" \/ p # q
      BY <1>2 DEF ReadHits, TypeOK, RequestRecords
    <3>3. \A p \in Requests : RollBack(p) => request'[q].step # "refused" \/ p # q
      BY <1>2 DEF RollBack, NoRequest, TypeOK
    <3>4. \A p \in Requests :
              Begin(p) \/ ReadHits(p) \/ WriteHits(p) \/ RollBack(p)
                  => p = q \/ request'[q] = request[q]
      BY <1>2 DEF Begin, ReadHits, WriteHits, RollBack, TypeOK
    <3>5. Tick \/ DeleteExpiredRateLimitHits \/ UNCHANGED vars => request' = request
      BY DEF Tick, DeleteExpiredRateLimitHits, vars
    <3>6. QED
      BY <1>1, <1>5, <3>1, <3>2, <3>3, <3>4, <3>5 DEF Next
  <2>2. PICK m \in 0 .. Len(admitted), r \in Nat :
            /\ \A i \in m + 1 .. Len(admitted) : admitted[i] > clock - Window
            /\ Len(admitted) - m >= Limit
            /\ admitted[m + 1] + Window <= r
            /\ request'[q].decided = clock /\ request'[q].retryAt = r
    <3>1. PICK m \in 0 .. Len(admitted) :
            /\ \A i \in m + 1 .. Len(admitted) : admitted[i] > clock - Window
            /\ \/ request' = [request EXCEPT ![q] =
                     [NoRequest EXCEPT !.step = "allowed", !.decided = clock,
                                       !.retryAt = 0]]
               \/ /\ Len(admitted) - m >= Limit
                  /\ \E r \in Nat :
                       /\ admitted[m + 1] + Window <= r
                       /\ request' = [request EXCEPT ![q] =
                             [NoRequest EXCEPT !.step = "refused", !.decided = clock,
                                               !.retryAt = r]]
      BY <1>1, <2>1, WriteHitsCases
    <3>2. request' # [request EXCEPT ![q] =
                     [NoRequest EXCEPT !.step = "allowed", !.decided = clock,
                                       !.retryAt = 0]]
      BY <1>1, <1>2, NoRequestTyped DEF TypeOK, RequestRecords
    <3>3. PICK r \in Nat :
              /\ admitted[m + 1] + Window <= r
              /\ request' = [request EXCEPT ![q] =
                    [NoRequest EXCEPT !.step = "refused", !.decided = clock,
                                      !.retryAt = r]]
      BY <3>1, <3>2
    <3>4. request'[q].decided = clock /\ request'[q].retryAt = r
      BY <3>3, <1>2, NoRequestTyped DEF TypeOK, RequestRecords
    <3>5. QED
      BY <3>1, <3>2, <3>3, <3>4
  <2>3. m + 1 \in m + 1 .. Len(admitted) /\ m + 1 \in 1 .. Len(admitted)
    BY <1>2, <2>2
  <2>4. clock - Window < admitted[m + 1] /\ admitted[m + 1] + Window <= r
    BY <1>2, <2>2, <2>3
  <2>5. QED
    BY <1>3, <2>2, <2>3, <2>4
<1>6. QED
  BY <1>4, <1>5

\* Of two hits in the window before d, none is a window after the other.
LEMMA NotAWindowApart ==
    ASSUME NEW a \in Nat, NEW b \in Nat, NEW w \in Nat, NEW d \in Nat,
           d - w < a, b <= d
    PROVE  ~(a + w <= b)
OBVIOUS

LEMMA RefusalIsLongEnough ==
    ASSUME TypeOK, Ascending(admitted), Spaced, RefusalNamesAHit
    PROVE  RetryAfterSuffices
<1>1. /\ Len(admitted) \in Nat /\ Window \in Nat /\ Limit \in Nat /\ Limit > 0
      /\ DOMAIN admitted = 1 .. Len(admitted)
      /\ \A i \in 1 .. Len(admitted) : admitted[i] \in Nat
  BY Stamps, Spans
<1>2. SUFFICES ASSUME NEW q \in Requests, request[q].step = "refused"
               PROVE  Cardinality({j \in DOMAIN admitted :
                        admitted[j] \in request[q].retryAt - Window + 1
                                            .. request[q].decided}) < Limit
  BY DEF RetryAfterSuffices
<1> DEFINE S == {j \in DOMAIN admitted :
                    admitted[j] \in request[q].retryAt - Window + 1 .. request[q].decided}
<1>3. PICK i \in 1 .. Len(admitted) :
          /\ request[q].decided - Window < admitted[i]
          /\ admitted[i] + Window <= request[q].retryAt
  BY <1>2 DEF RefusalNamesAHit
<1>4. request[q].decided \in Nat /\ request[q].retryAt \in Nat
  BY RequestFields
<1>5. \A j \in S : i < j /\ j < i + Limit
  <2>1. TAKE j \in S
  <2>2. /\ j \in 1 .. Len(admitted) /\ admitted[j] \in Nat /\ admitted[i] \in Nat
        /\ request[q].retryAt - Window < admitted[j]
        /\ admitted[j] <= request[q].decided
    BY <1>1, <1>4
  <2>3. i < j
    <3>1. ~(j <= i)
      BY <1>1, <1>3, <1>4, <2>2 DEF Ascending
    <3>2. QED
      BY <3>1, <2>2, <1>1
  <2>4. j < i + Limit
    <3>a. i + Limit <= j => admitted[i] + Window <= admitted[j]
      BY <2>2 DEF Spaced
    <3>b. Window \in Nat /\ admitted[i] \in Nat /\ admitted[j] \in Nat
      BY <1>1, <2>2
    <3>d. /\ request[q].decided \in Nat /\ request[q].decided - Window < admitted[i]
          /\ admitted[j] <= request[q].decided
      BY <1>3, <1>4, <2>2
    <3>c. ~(admitted[i] + Window <= admitted[j])
      BY <3>b, <3>d, NotAWindowApart, Zenon
    <3>1. ~(i + Limit <= j)
      BY <3>a, <3>c
    <3>2. QED
      BY <3>1, <2>2, <1>1
  <2>5. QED
    BY <2>3, <2>4
<1>6. S \subseteq 1 .. Len(admitted)
  BY <1>1
<1> HIDE DEF S
<1>7. i \in Nat /\ Limit - 1 \in Nat /\ S \in SUBSET (i + 1 .. i + (Limit - 1))
  BY <1>1, <1>3, <1>5, <1>6
<1>8. Cardinality(S) \in Nat /\ Cardinality(S) <= Limit - 1
  BY <1>7, FewBetween
<1>9. QED
  BY <1>1, <1>8 DEF S

\* RetryAfterSuffices, whatever the rounding to seconds does.
THEOREM RefusalsLastLongEnough == Spec => []RetryAfterSuffices
<1>1. Init => Spaced /\ RefusalNamesAHit
  BY NoRequestTyped DEF Init, Spaced, RefusalNamesAHit
<1>2. RowInv /\ Spaced /\ [Next]_vars => Spaced'
  BY SpacedStep
<1>3. RowInv /\ RefusalNamesAHit /\ [Next]_vars => RefusalNamesAHit'
  BY RefusalNamesAHitStep
<1>4. RowInv /\ Spaced /\ RefusalNamesAHit => RetryAfterSuffices
  BY RefusalIsLongEnough DEF RowInv, StampsAreRecent
<1>5. QED
  BY <1>1, <1>2, <1>3, <1>4, RowHoldsTheWindow, PTL DEF Spec

=============================================================================
