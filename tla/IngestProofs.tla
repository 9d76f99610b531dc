---------------------------- MODULE IngestProofs ----------------------------
(***************************************************************************)
(* Theorems about ingest, for any keys, tokens, requests, batches and      *)
(* number of failures.  The heart of it is the lock: a decision other than *)
(* "insert" is made and carried out under the row's lock, so that it still *)
(* fits the row when it is applied, and an "insert" that no longer fits is *)
(* refused by the unique key.                                              *)
(***************************************************************************)
EXTENDS Ingest, FiniteSetTheorems, TLAPS

\* Outside of inserts, the row is the one the decision was made for.
DecisionFits(q) ==
    LET e == EventOf(q) IN
    request[q].decision # "insert" =>
        /\ rowLock[e.key] = q
        /\ row[e.key].there
        /\ request[q].decision = DecideIngest(row[e.key], e.status)

RequestsSound ==
    \A q \in Requests :
        /\ request[q].step \in {"event", "apply"} => request[q].at > 0
        /\ request[q].step = "apply" =>
              /\ request[q].at <= Len(request[q].batch)
              /\ EventSchema(EventOf(q))
              /\ DecisionFits(q)
        /\ request[q].step = "answered" => request[q].at > Len(request[q].batch)

\* What a request has gone past is in the table.
HandledIsStored ==
    \A q \in Requests : \A i \in DOMAIN request[q].batch :
        LET e == request[q].batch[i] IN
        i < request[q].at /\ EventSchema(e) => e.status \in Range(row[e.key].seen)

SeenOnce(r) ==
    /\ Len(r.seen) = Cardinality(Range(r.seen))
    /\ r.there => r.status \in Range(r.seen)

RowsSound ==
    \A k \in Keys :
        /\ ~row[k].there => row[k] = NoRow
        /\ TableAdmits(row[k])
        /\ SeenOnce(row[k])

IngestInv ==
    TypeOK /\ RowsSound /\ ConfirmedIsQueued /\ RequestsSound /\ HandledIsStored

-----------------------------------------------------------------------------
(* Statuses seen *)

LEMMA SeenFinite ==
    ASSUME NEW s \in Seq(Statuses)
    PROVE  Range(s) \subseteq Statuses /\ IsFiniteSet(Range(s))
<1>1. Range(s) \subseteq Statuses
  BY DEF Range
<1>2. IsFiniteSet(Statuses)
  <2>1. Statuses = ((({} \cup {"pending"}) \cup {"confirmed"}) \cup {"definitively_failed"})
                      \cup {"superseded_unproven"}
    BY DEF Statuses
  <2>2. QED
    BY <2>1, FS_EmptySet, FS_AddElement
<1>3. QED
  BY <1>1, <1>2, FS_Subset

LEMMA SeenAppend ==
    ASSUME NEW s \in Seq(Statuses), NEW x \in Statuses
    PROVE  /\ Append(s, x) \in Seq(Statuses)
           /\ Range(Append(s, x)) = Range(s) \cup {x}
           /\ x \notin Range(s) /\ Len(s) = Cardinality(Range(s)) =>
                 Len(Append(s, x)) = Cardinality(Range(Append(s, x)))
<1>1. Append(s, x) \in Seq(Statuses) /\ Len(Append(s, x)) = Len(s) + 1
  OBVIOUS
<1>2. Range(Append(s, x)) = Range(s) \cup {x}
  <2>1. ASSUME NEW i \in DOMAIN Append(s, x)
        PROVE  Append(s, x)[i] \in Range(s) \cup {x}
    BY DEF Range
  <2>2. ASSUME NEW i \in DOMAIN s
        PROVE  s[i] \in Range(Append(s, x))
    <3>1. i \in DOMAIN Append(s, x) /\ Append(s, x)[i] = s[i]
      OBVIOUS
    <3>2. QED
      BY <3>1 DEF Range
  <2>3. x \in Range(Append(s, x))
    <3>1. Len(s) + 1 \in DOMAIN Append(s, x) /\ Append(s, x)[Len(s) + 1] = x
      OBVIOUS
    <3>2. QED
      BY <3>1 DEF Range
  <2>4. QED
    BY <2>1, <2>2, <2>3 DEF Range
<1>3. QED
  BY <1>1, <1>2, SeenFinite, FS_AddElement

LEMMA SeenSingle ==
    ASSUME NEW x \in Statuses
    PROVE  /\ <<x>> \in Seq(Statuses) /\ Range(<<x>>) = {x}
           /\ Len(<<x>>) = Cardinality(Range(<<x>>))
<1>1. <<x>> \in Seq(Statuses) /\ Len(<<x>>) = 1 /\ Range(<<x>>) = {x}
  BY DEF Range
<1>2. Cardinality({x}) = 1
  BY FS_Singleton
<1>3. Cardinality(Range(<<x>>)) = 1
  BY <1>1, <1>2, Zenon
<1>4. QED
  BY <1>1, <1>3

-----------------------------------------------------------------------------
(* The event at hand and its row *)

LEMMA RequestFields ==
    ASSUME TypeOK, NEW q \in Requests
    PROVE  /\ request[q].step \in RequestSteps /\ request[q].at \in Nat
           /\ request[q].batch \in Seq(Events) /\ request[q].decision \in Decisions
           /\ request[q] \in RequestValues
<1>1. request[q] \in RequestValues
  BY DEF TypeOK
<1>2. /\ request[q].step \in RequestSteps /\ request[q].at \in Nat
      /\ request[q].batch \in Batches \cup {<<>>} /\ request[q].decision \in Decisions
  BY <1>1 DEF RequestValues
<1>3. <<>> \in Seq(Events) /\ Batches \subseteq Seq(Events)
  BY IngestAssumption
<1>4. QED
  BY <1>1, <1>2, <1>3

LEMMA EventTyped ==
    ASSUME TypeOK, NEW q \in Requests, request[q].at > 0,
           request[q].at <= Len(request[q].batch)
    PROVE  /\ EventOf(q) \in Events /\ EventOf(q).key \in Keys
           /\ EventOf(q).status \in Statuses
           /\ request[q].at \in DOMAIN request[q].batch
<1>1. request[q].at \in DOMAIN request[q].batch
  BY RequestFields
<1>2. EventOf(q) \in Events
  BY <1>1, RequestFields DEF EventOf
<1>3. QED
  BY <1>1, <1>2 DEF Events

\* What an event makes of a row it was decided for.
LEMMA AppliedSound ==
    ASSUME NEW r \in RowValues, NEW e \in Events, NEW d,
           TableAdmits(r), SeenOnce(r), EventSchema(e),
           ~r.there => r = NoRow,
           \/ d = "insert" /\ ~r.there
           \/ r.there /\ d = DecideIngest(r, e.status)
    PROVE  LET new == Applied(r, e, d) IN
           /\ new \in RowValues /\ new.there /\ TableAdmits(new) /\ SeenOnce(new)
           /\ e.status \in Range(new.seen) /\ Range(r.seen) \subseteq Range(new.seen)
           /\ r.there /\ r.status \in Terminal =>
                 /\ new.status = r.status /\ new.hash = r.hash /\ new.out2 = r.out2
                 /\ new.executed2 = r.executed2 /\ new.verification = r.verification
           /\ d \notin {"insert", "promote"} =>
                 /\ new.status = r.status /\ new.hash = r.hash
                 /\ new.verification = r.verification
           /\ d \in {"insert", "promote"} =>
                 /\ new.verification = "queued" \/ new.verification = r.verification
                 /\ new.status = "confirmed" /\ new.hash => new.verification = "queued"
<1> DEFINE new == Applied(r, e, d)
           longer == Append(r.seen, e.status)
<1>r. /\ r.there \in BOOLEAN /\ r.status \in Statuses /\ r.seen \in Seq(Statuses)
      /\ r.hash \in BOOLEAN /\ r.failure \in BOOLEAN /\ r.out2 \in Tokens \cup {None}
      /\ r.amount2 \in BOOLEAN /\ r.executed2 \in BOOLEAN
      /\ r.verification \in {"none", "queued", "settled"}
  BY DEF RowValues
<1>e. /\ e.status \in Statuses /\ e.hash \in BOOLEAN /\ e.failure \in BOOLEAN
      /\ e.out2 \in Tokens \cup {None} /\ e.amount2 \in BOOLEAN /\ e.executed2 \in BOOLEAN
  BY DEF Events
<1>s. longer \in Seq(Statuses)
  BY <1>r, <1>e, SeenAppend
<1>1. CASE d = "insert" /\ ~r.there
  <2>1. new = Inserted(e) /\ r.seen = <<>> /\ r.verification = "none"
    BY <1>1 DEF Applied, NoRow
  <2>2. /\ Inserted(e) \in RowValues /\ Inserted(e).there
        /\ Inserted(e).status = e.status /\ Inserted(e).seen = <<e.status>>
        /\ Inserted(e).verification \in {"queued", "none"}
        /\ Inserted(e).status = "confirmed" /\ Inserted(e).hash =>
              Inserted(e).verification = "queued"
    BY <1>e, SeenSingle DEF Inserted, RowValues
  <2>3. TableAdmits(Inserted(e))
    BY DEF EventSchema, TableAdmits, Inserted
  <2>4. SeenOnce(Inserted(e)) /\ e.status \in Range(Inserted(e).seen)
    BY <1>e, <2>2, SeenSingle DEF SeenOnce
  <2>5. Range(r.seen) = {}
    BY <2>1 DEF Range
  <2>6. QED
    BY <1>1, <2>1, <2>2, <2>3, <2>4, <2>5
<1>2. CASE r.there /\ d = "promote" /\ d = DecideIngest(r, e.status)
  <2>1. /\ new = Promoted(r, e) /\ e.status \notin Range(r.seen)
        /\ r.status = "pending"
    BY <1>2 DEF Applied, DecideIngest
  <2>2. /\ Promoted(r, e) \in RowValues /\ Promoted(r, e).there
        /\ Promoted(r, e).status = e.status
        /\ Promoted(r, e).seen = Append(r.seen, e.status)
        /\ Promoted(r, e).verification \in {"queued", r.verification}
        /\ Promoted(r, e).status = "confirmed" /\ Promoted(r, e).hash =>
              Promoted(r, e).verification = "queued"
    <3> HIDE DEF longer
    <3>1. Promoted(r, e) =
            [r EXCEPT !.status = e.status, !.seen = longer, !.hash = @ \/ e.hash,
                      !.failure = @ \/ e.failure, !.out2 = Coalesce(e.out2, @),
                      !.executed2 = @ \/ e.executed2,
                      !.verification = IF e.status = "confirmed" /\ (r.hash \/ e.hash)
                                       THEN "queued" ELSE @]
      BY DEF Promoted, longer
    <3>2. Coalesce(e.out2, r.out2) \in Tokens \cup {None}
      BY <1>r, <1>e DEF Coalesce
    <3>3. Promoted(r, e) \in RowValues
      BY <1>r, <1>e, <1>s, <3>1, <3>2 DEF RowValues
    <3>4. /\ Promoted(r, e).there = r.there /\ Promoted(r, e).status = e.status
          /\ Promoted(r, e).seen = longer
          /\ Promoted(r, e).hash = (r.hash \/ e.hash)
          /\ Promoted(r, e).verification = IF e.status = "confirmed" /\ (r.hash \/ e.hash)
                                           THEN "queued" ELSE r.verification
      BY <3>1 DEF RowValues
    <3>5. QED
      BY <1>2, <3>3, <3>4 DEF longer
  <2>3. TableAdmits(Promoted(r, e))
    BY <1>r, <1>e DEF EventSchema, TableAdmits, Promoted, RowValues, Coalesce
  <2>4. /\ SeenOnce(Promoted(r, e)) /\ e.status \in Range(Promoted(r, e).seen)
        /\ Range(r.seen) \subseteq Range(Promoted(r, e).seen)
    BY <1>r, <1>e, <2>1, <2>2, SeenAppend DEF SeenOnce
  <2>5. QED
    BY <1>2, <2>1, <2>2, <2>3, <2>4 DEF Terminal
<1>3. CASE r.there /\ d = "accept_noop" /\ d = DecideIngest(r, e.status)
  <2>1. /\ new = [r EXCEPT !.seen = Append(@, e.status)] /\ e.status \notin Range(r.seen)
    BY <1>3 DEF Applied, DecideIngest
  <2>2. /\ new \in RowValues /\ new.seen = Append(r.seen, e.status)
        /\ new.there = r.there /\ new.status = r.status /\ new.hash = r.hash
        /\ new.out2 = r.out2 /\ new.amount2 = r.amount2 /\ new.executed2 = r.executed2
        /\ new.verification = r.verification
    <3> HIDE DEF longer, new
    <3>1. new = [r EXCEPT !.seen = longer]
      BY <2>1 DEF longer
    <3>2. QED
      BY <1>s, <3>1 DEF RowValues, longer
  <2>3. SeenOnce(new) /\ e.status \in Range(new.seen) /\ Range(r.seen) \subseteq Range(new.seen)
    BY <1>3, <1>r, <1>e, <2>1, <2>2, SeenAppend, ZenonT(30) DEF SeenOnce
  <2>4. QED
    BY <1>3, <2>2, <2>3 DEF TableAdmits
<1>4. CASE r.there /\ d = "duplicate" /\ d = DecideIngest(r, e.status)
  <2>1. new = r /\ e.status \in Range(r.seen)
    BY <1>4 DEF Applied, DecideIngest
  <2>2. QED
    BY <1>4, <2>1
<1>5. d \in {"insert", "promote", "accept_noop", "duplicate"}
  BY DEF DecideIngest
<1>6. QED
  BY <1>1, <1>2, <1>3, <1>4, <1>5 DEF DecideIngest

\* The premises of the lemma hold for a request that writes.
LEMMA ApplyingSound ==
    ASSUME IngestInv, NEW q \in Requests, Applying(q),
           ~(request[q].decision = "insert" /\ row[EventOf(q).key].there)
    PROVE  LET e == EventOf(q) r == row[e.key] d == request[q].decision IN
           /\ r \in RowValues /\ e \in Events /\ e.key \in Keys
           /\ TableAdmits(r) /\ SeenOnce(r) /\ EventSchema(e)
           /\ ~r.there => r = NoRow
           /\ \/ d = "insert" /\ ~r.there
              \/ r.there /\ d = DecideIngest(r, e.status) /\ rowLock[e.key] = q
<1>1. EventOf(q) \in Events /\ EventOf(q).key \in Keys
  BY EventTyped DEF IngestInv, RequestsSound, Applying
<1>2. row[EventOf(q).key] \in RowValues
  BY <1>1 DEF IngestInv, TypeOK
<1>3. QED
  BY <1>1, <1>2 DEF IngestInv, RequestsSound, RowsSound, Applying, DecisionFits

-----------------------------------------------------------------------------
(* The inductive invariant *)

LEMMA InitIngest == Init => IngestInv
<1> SUFFICES ASSUME Init PROVE IngestInv
  OBVIOUS
<1>1. NoRow \in RowValues /\ Range(<<>>) = {} /\ Cardinality({}) = 0
  BY FS_EmptySet DEF NoRow, RowValues, Statuses, Range
<1>2. TypeOK
  <2>1. IdleRequest \in RequestValues
    BY DEF IdleRequest, RequestValues, RequestSteps, Decisions
  <2>2. QED
    BY <1>1, <2>1 DEF Init, TypeOK
<1>3. SeenOnce(NoRow) /\ TableAdmits(NoRow) /\ ~NoRow.there /\ NoRow.verification = "none"
  BY <1>1 DEF SeenOnce, TableAdmits, NoRow
<1>4. RowsSound /\ ConfirmedIsQueued
  BY <1>3 DEF Init, RowsSound, ConfirmedIsQueued
<1>5. RequestsSound /\ HandledIsStored
  BY DEF Init, IdleRequest, RequestsSound, HandledIsStored
<1>6. QED
  BY <1>2, <1>4, <1>5 DEF IngestInv

\* The steps of one request that leave the table alone: it is enough to know
\* its new state, whose locks are its own.
LEMMA RequestKept ==
    ASSUME IngestInv, NEW q \in Requests, NEW v \in RequestValues,
           request' = [request EXCEPT ![q] = v], UNCHANGED tableVars,
           rowLock' \in [Keys -> Requests \cup {None}], failures' \in Nat,
           \A k \in Keys : rowLock[k] \in Requests \ {q} => rowLock'[k] = rowLock[k],
           v.step \in {"event", "apply"} => v.at > 0,
           v.step = "apply" =>
              /\ v.at <= Len(v.batch)
              /\ EventSchema(v.batch[v.at])
              /\ v.decision # "insert" =>
                    /\ rowLock'[v.batch[v.at].key] = q
                    /\ row[v.batch[v.at].key].there
                    /\ v.decision = DecideIngest(row[v.batch[v.at].key], v.batch[v.at].status),
           v.step = "answered" => v.at > Len(v.batch),
           \A i \in DOMAIN v.batch :
              i < v.at /\ EventSchema(v.batch[i]) =>
                v.batch[i].status \in Range(row[v.batch[i].key].seen)
    PROVE  IngestInv'
<1>1. request' \in [Requests -> RequestValues] /\ request'[q] = v
      /\ \A p \in Requests : p # q => request'[p] = request[p]
  BY DEF IngestInv, TypeOK
<1>2. TypeOK' /\ RowsSound' /\ ConfirmedIsQueued'
  BY <1>1 DEF IngestInv, TypeOK, RowsSound, SeenOnce, ConfirmedIsQueued, tableVars
<1>3. HandledIsStored'
  BY <1>1 DEF IngestInv, HandledIsStored, tableVars
<1>4. RequestsSound'
  <2>1. SUFFICES ASSUME NEW p \in Requests
                 PROVE  /\ request'[p].step \in {"event", "apply"} => request'[p].at > 0
                        /\ request'[p].step = "apply" =>
                              /\ request'[p].at <= Len(request'[p].batch)
                              /\ EventSchema(EventOf(p)')
                              /\ DecisionFits(p)'
                        /\ request'[p].step = "answered" =>
                              request'[p].at > Len(request'[p].batch)
    BY DEF RequestsSound, EventSchema
  <2>2. CASE p = q
    BY <1>1, <2>2 DEF EventOf, DecisionFits, tableVars
  <2>3. CASE p # q
    <3>1. request'[p] = request[p] /\ EventOf(p)' = EventOf(p) /\ row' = row
      BY <1>1, <2>3 DEF EventOf, tableVars
    <3>2. request[p].step = "apply" => EventOf(p).key \in Keys
      BY EventTyped DEF IngestInv, RequestsSound
    <3>3. request[p].step = "apply" => DecisionFits(p)'
      BY <2>3, <3>1, <3>2 DEF IngestInv, RequestsSound, DecisionFits
    <3>4. QED
      BY <3>1, <3>3 DEF IngestInv, RequestsSound
  <2>4. QED
    BY <2>2, <2>3
<1>5. QED
  BY <1>2, <1>3, <1>4 DEF IngestInv

LEMMA UnlockedKept ==
    ASSUME TypeOK, NEW q \in Requests
    PROVE  /\ Unlocked(q) \in [Keys -> Requests \cup {None}]
           /\ \A k \in Keys : rowLock[k] \in Requests \ {q} => Unlocked(q)[k] = rowLock[k]
BY DEF Unlocked, TypeOK

\* A request starts over after an error.
LEMMA StartsOver ==
    ASSUME IngestInv, NEW q \in Requests, request[q].step \in {"event", "apply"},
           request' = [request EXCEPT ![q].step = "event", ![q].at = 1, ![q].decision = "none"],
           UNCHANGED tableVars, rowLock' = Unlocked(q), failures' \in Nat
    PROVE  IngestInv'
<1> DEFINE v == [request[q] EXCEPT !.step = "event", !.at = 1, !.decision = "none"]
<1>1. request[q] \in RequestValues
  BY RequestFields DEF IngestInv
<1>2. /\ v \in RequestValues /\ v.step = "event" /\ v.at = 1
      /\ v.batch = request[q].batch
  BY <1>1 DEF RequestValues, RequestSteps, Decisions
<1>3. request' = [request EXCEPT ![q] = v]
  BY <1>1 DEF IngestInv, TypeOK
<1>4. v.batch \in Seq(Events)
  BY <1>2, RequestFields DEF IngestInv
<1>5. /\ v.at > 0 /\ v.step # "apply" /\ v.step # "answered"
      /\ \A i \in DOMAIN v.batch : ~(i < v.at)
  BY <1>2, <1>4
<1>6. /\ rowLock' \in [Keys -> Requests \cup {None}]
      /\ \A k \in Keys : rowLock[k] \in Requests \ {q} => rowLock'[k] = rowLock[k]
  BY UnlockedKept DEF IngestInv
<1> HIDE DEF v
<1>7. QED
  BY <1>2, <1>3, <1>5, <1>6, RequestKept

LEMMA ApplyEventKept ==
    ASSUME IngestInv, NEW q \in Requests, ApplyEvent(q)
    PROVE  IngestInv'
<1> DEFINE e == EventOf(q)
           d == request[q].decision
           r == row[e.key]
           new == Applied(r, e, d)
           at == request[q].at + 1
           v == [request[q] EXCEPT !.step = "event", !.at = at, !.decision = "none"]
<1>a. Applying(q) /\ ~(d = "insert" /\ r.there)
  BY DEF ApplyEvent, Refused
<1>p. /\ r \in RowValues /\ e \in Events /\ e.key \in Keys
      /\ TableAdmits(r) /\ SeenOnce(r) /\ EventSchema(e)
      /\ ~r.there => r = NoRow
      /\ \/ d = "insert" /\ ~r.there
         \/ r.there /\ d = DecideIngest(r, e.status) /\ rowLock[e.key] = q
  BY <1>a, ApplyingSound
<1>n. /\ new \in RowValues /\ new.there /\ TableAdmits(new) /\ SeenOnce(new)
      /\ e.status \in Range(new.seen) /\ Range(r.seen) \subseteq Range(new.seen)
      /\ d \notin {"insert", "promote"} =>
            /\ new.status = r.status /\ new.hash = r.hash
            /\ new.verification = r.verification
      /\ d \in {"insert", "promote"} =>
            /\ new.verification = "queued" \/ new.verification = r.verification
            /\ new.status = "confirmed" /\ new.hash => new.verification = "queued"
  BY <1>p, AppliedSound
<1>1. /\ row' = [row EXCEPT ![e.key] = new]
      /\ jobs' = IF d \in {"insert", "promote"} /\ new.verification = "queued"
                 THEN jobs \cup {e.key} ELSE jobs
      /\ rowLock' = Unlocked(q) /\ failures' = failures
  BY DEF ApplyEvent
<1>2. request[q] \in RequestValues /\ request[q].at \in Nat
  BY RequestFields DEF IngestInv
<1>3. /\ v \in RequestValues /\ v.step = "event" /\ v.at = request[q].at + 1
      /\ v.batch = request[q].batch
  <2>1. at \in Nat
    BY <1>2
  <2> HIDE DEF at
  <2>2. v \in RequestValues /\ v.step = "event" /\ v.at = at /\ v.batch = request[q].batch
    BY <1>2, <2>1 DEF RequestValues, RequestSteps, Decisions
  <2>3. QED
    BY <2>2 DEF at
<1>4. request' = [request EXCEPT ![q] = v]
  BY <1>2 DEF ApplyEvent, NextEvent, IngestInv, TypeOK
<1> HIDE DEF e, d, r, new, v
<1>5. /\ row' \in [Keys -> RowValues] /\ row'[e.key] = new
      /\ \A k \in Keys : k # e.key => row'[k] = row[k]
  BY <1>1, <1>n, <1>p DEF IngestInv, TypeOK
<1>6. /\ request' \in [Requests -> RequestValues] /\ request'[q] = v
      /\ \A p \in Requests : p # q => request'[p] = request[p]
  BY <1>3, <1>4 DEF IngestInv, TypeOK
<1>7. TypeOK'
  BY <1>1, <1>5, <1>6, <1>p, UnlockedKept DEF IngestInv, TypeOK
<1>8. RowsSound'
  BY <1>5, <1>n DEF IngestInv, RowsSound, SeenOnce, TableAdmits
<1>9. ConfirmedIsQueued'
  <2>1. SUFFICES ASSUME NEW k \in Keys
                 PROVE  /\ row'[k].there /\ row'[k].status = "confirmed" /\ row'[k].hash =>
                              row'[k].verification # "none"
                        /\ row'[k].verification = "queued" <=> k \in jobs'
    BY DEF ConfirmedIsQueued
  <2>2. CASE k # e.key
    BY <1>1, <1>5, <2>2 DEF IngestInv, ConfirmedIsQueued
  <2>3. CASE k = e.key
    <3>1. r.verification = "queued" <=> k \in jobs
      BY <2>3 DEF IngestInv, ConfirmedIsQueued, r
    <3>2. r.there /\ r.status = "confirmed" /\ r.hash => r.verification # "none"
      BY <2>3, <1>p DEF IngestInv, ConfirmedIsQueued, r
    <3>3. CASE d \in {"insert", "promote"}
      BY <1>1, <1>5, <1>n, <2>3, <3>1, <3>3
    <3>4. CASE d \notin {"insert", "promote"}
      BY <1>1, <1>5, <1>n, <1>p, <2>3, <3>1, <3>2, <3>4
    <3>5. QED
      BY <3>3, <3>4
  <2>4. QED
    BY <2>2, <2>3
<1>10. \A k \in Keys : Range(row[k].seen) \subseteq Range(row'[k].seen)
  <2>1. ASSUME NEW k \in Keys PROVE Range(row[k].seen) \subseteq Range(row'[k].seen)
    <3>1. CASE k = e.key
      BY <3>1, <1>5, <1>n DEF r
    <3>2. CASE k # e.key
      BY <3>2, <1>5
    <3>3. QED
      BY <3>1, <3>2
  <2>2. QED
    BY <2>1
<1>11. HandledIsStored'
  <2>1. SUFFICES ASSUME NEW p \in Requests, NEW i \in DOMAIN request'[p].batch,
                        i < request'[p].at, EventSchema(request'[p].batch[i])
                 PROVE  request'[p].batch[i].status
                            \in Range(row'[request'[p].batch[i].key].seen)
    BY DEF HandledIsStored, EventSchema
  <2>2. request'[p].batch = request[p].batch /\ request[p].batch \in Seq(Events)
    <3>1. request[p].batch \in Seq(Events)
      BY RequestFields DEF IngestInv
    <3>2. CASE p = q
      BY <1>3, <1>6, <3>1, <3>2
    <3>3. CASE p # q
      BY <1>6, <3>1, <3>3
    <3>4. QED
      BY <3>2, <3>3
  <2>3. request[p].batch[i] \in Events /\ request[p].batch[i].key \in Keys
    <3>1. i \in DOMAIN request[p].batch
      BY <2>1, <2>2
    <3>2. request[p].batch[i] \in Events
      BY <2>2, <3>1
    <3>3. QED
      BY <3>2 DEF Events
  <2>4. CASE i < request[p].at
    BY <1>10, <2>1, <2>2, <2>3, <2>4 DEF IngestInv, HandledIsStored
  <2>5. CASE ~(i < request[p].at)
    <3>1. p = q /\ i = request[q].at
      BY <1>3, <1>6, <2>1, <2>2, <2>5, RequestFields DEF IngestInv
    <3>2. request[p].batch[i] = e
      BY <3>1 DEF e, EventOf
    <3>3. QED
      BY <1>5, <1>n, <2>2, <3>2
  <2>6. QED
    BY <2>4, <2>5
<1>12. RequestsSound'
  <2>1. SUFFICES ASSUME NEW p \in Requests
                 PROVE  /\ request'[p].step \in {"event", "apply"} => request'[p].at > 0
                        /\ request'[p].step = "apply" =>
                              /\ request'[p].at <= Len(request'[p].batch)
                              /\ EventSchema(EventOf(p)')
                              /\ DecisionFits(p)'
                        /\ request'[p].step = "answered" =>
                              request'[p].at > Len(request'[p].batch)
    BY DEF RequestsSound, EventSchema
  <2>2. CASE p = q
    BY <1>3, <1>6, <2>2, RequestFields DEF IngestInv
  <2>3. CASE p # q
    <3>1. request'[p] = request[p] /\ EventOf(p)' = EventOf(p)
      BY <1>6, <2>3 DEF EventOf
    <3>2. ASSUME request[p].step = "apply", request[p].decision # "insert"
          PROVE  /\ rowLock'[EventOf(p).key] = p
                 /\ row'[EventOf(p).key] = row[EventOf(p).key]
      <4>1. EventOf(p).key \in Keys /\ rowLock[EventOf(p).key] = p
            /\ row[EventOf(p).key].there
        BY <3>2, EventTyped DEF IngestInv, RequestsSound, DecisionFits
      <4>2. EventOf(p).key # e.key
        BY <1>p, <2>3, <4>1 DEF r
      <4>3. QED
        BY <1>1, <1>5, <2>3, <4>1, <4>2 DEF Unlocked
    <3>3. request[p].step = "apply" => DecisionFits(p)'
      BY <3>1, <3>2 DEF IngestInv, RequestsSound, DecisionFits
    <3>4. QED
      BY <3>1, <3>3 DEF IngestInv, RequestsSound
  <2>4. QED
    BY <2>2, <2>3
<1>13. QED
  BY <1>7, <1>8, <1>9, <1>11, <1>12 DEF IngestInv

LEMMA NextIngest == IngestInv /\ [Next]_vars => IngestInv'
<1> SUFFICES ASSUME IngestInv, [Next]_vars PROVE IngestInv'
  OBVIOUS
<1>t. TypeOK
  BY DEF IngestInv
<1>l. /\ rowLock \in [Keys -> Requests \cup {None}] /\ failures \in Nat
      /\ request \in [Requests -> RequestValues]
  BY <1>t DEF TypeOK
<1>1. ASSUME NEW q \in Requests, NEW b \in Batches, PostEvents(q, b)
      PROVE  IngestInv'
  <2> DEFINE v == [step |-> "event", batch |-> b, at |-> 1, decision |-> "none"]
  <2>1. /\ v \in RequestValues /\ v.at = 1 /\ v.step # "apply" /\ v.step # "answered"
        /\ v.batch \in Seq(Events)
    BY IngestAssumption DEF RequestValues, RequestSteps, Decisions
  <2>2. \A i \in DOMAIN v.batch : ~(i < v.at)
    BY <2>1
  <2>3. /\ request' = [request EXCEPT ![q] = v] /\ UNCHANGED tableVars
        /\ rowLock' = rowLock /\ failures' = failures
    BY <1>1 DEF PostEvents
  <2>4. v.at > 0 /\ \A i \in DOMAIN v.batch : i < v.at /\ EventSchema(v.batch[i]) =>
            v.batch[i].status \in Range(row[v.batch[i].key].seen)
    BY <2>1, <2>2
  <2>5. /\ rowLock' \in [Keys -> Requests \cup {None}] /\ failures' \in Nat
        /\ \A k \in Keys : rowLock[k] \in Requests \ {q} => rowLock'[k] = rowLock[k]
    BY <1>l, <2>3
  <2> HIDE DEF v
  <2>6. QED
    BY <2>1, <2>3, <2>4, <2>5, RequestKept
<1>2. ASSUME NEW q \in Requests, RejectEvent(q)
      PROVE  IngestInv'
  <2> DEFINE at == request[q].at + 1
             v == [request[q] EXCEPT !.step = "event", !.at = at, !.decision = "none"]
  <2>1. /\ request[q] \in RequestValues /\ at \in Nat /\ at > 0
        /\ request[q].batch \in Seq(Events)
    BY <1>t, RequestFields
  <2> HIDE DEF at
  <2>2. /\ v \in RequestValues /\ v.at = at /\ v.batch = request[q].batch
        /\ v.step # "apply" /\ v.step # "answered"
    BY <2>1 DEF RequestValues, RequestSteps, Decisions
  <2>3. /\ request' = [request EXCEPT ![q] = v] /\ UNCHANGED tableVars
        /\ rowLock' = rowLock /\ failures' = failures
    BY <1>2, <1>l DEF RejectEvent, NextEvent, at
  <2>4. ASSUME NEW i \in DOMAIN v.batch, i < v.at, EventSchema(v.batch[i])
        PROVE  v.batch[i].status \in Range(row[v.batch[i].key].seen)
    <3>1. i < request[q].at
      BY <1>2, <2>1, <2>2, <2>4, RequestFields, <1>t DEF RejectEvent, EventOf, at
    <3>2. QED
      BY <2>2, <2>4, <3>1 DEF IngestInv, HandledIsStored
  <2> HIDE DEF v
  <2>5. QED
    BY <1>l, <2>1, <2>2, <2>3, <2>4, RequestKept
<1>3. ASSUME NEW q \in Requests, SelectExisting(q)
      PROVE  IngestInv'
  <2> DEFINE e == EventOf(q)
             d == DecideIngest(row[e.key], e.status)
             v == [request[q] EXCEPT !.step = "apply", !.decision = d]
  <2>1. /\ request[q] \in RequestValues /\ request[q].at > 0
        /\ request[q].at <= Len(request[q].batch) /\ request[q].at \in Nat
        /\ e = request[q].batch[request[q].at]
    BY <1>3, <1>t, RequestFields DEF SelectExisting, AtEvent, IngestInv, RequestsSound, EventOf
  <2>2. e.key \in Keys
    BY <1>t, <2>1, EventTyped
  <2>3. d \in Decisions /\ (d = "insert" <=> ~row[e.key].there)
    BY DEF DecideIngest, Decisions
  <2>4. EventSchema(e) /\ rowLock[e.key] = None /\ UNCHANGED tableVars /\ failures' = failures
        /\ rowLock' = IF row[e.key].there THEN [rowLock EXCEPT ![e.key] = q] ELSE rowLock
    BY <1>3 DEF SelectExisting
  <2>5. request' = [request EXCEPT ![q] = v]
    BY <1>3, <1>l DEF SelectExisting
  <2> HIDE DEF d, e
  <2>6. /\ v \in RequestValues /\ v.at = request[q].at /\ v.batch = request[q].batch
        /\ v.step = "apply" /\ v.decision = d
    BY <2>1, <2>3 DEF RequestValues, RequestSteps
  <2>7. /\ rowLock' \in [Keys -> Requests \cup {None}]
        /\ \A k \in Keys : rowLock[k] \in Requests \ {q} => rowLock'[k] = rowLock[k]
        /\ row[e.key].there => rowLock'[e.key] = q
    BY <1>l, <2>2, <2>4, IngestAssumption
  <2>8. \A i \in DOMAIN v.batch : i < v.at /\ EventSchema(v.batch[i]) =>
            v.batch[i].status \in Range(row[v.batch[i].key].seen)
    BY <2>6 DEF IngestInv, HandledIsStored
  <2>9. v.batch[v.at] = e
    BY <2>1, <2>6
  <2> HIDE DEF v
  <2>10. /\ v.step # "answered" /\ v.at > 0 /\ v.at <= Len(v.batch)
         /\ EventSchema(v.batch[v.at])
         /\ v.decision # "insert" =>
               /\ rowLock'[v.batch[v.at].key] = q
               /\ row[v.batch[v.at].key].there
               /\ v.decision = DecideIngest(row[v.batch[v.at].key], v.batch[v.at].status)
    BY <2>1, <2>3, <2>4, <2>6, <2>7, <2>9 DEF d
  <2>11. QED
    BY <1>l, <2>4, <2>5, <2>6, <2>7, <2>8, <2>10, RequestKept
<1>4. ASSUME NEW q \in Requests, ApplyEvent(q)
      PROVE  IngestInv'
  BY <1>4, ApplyEventKept
<1>5. ASSUME NEW q \in Requests, RefuseEvent(q)
      PROVE  IngestInv'
  BY <1>5, <1>l, StartsOver DEF RefuseEvent, Applying
<1>6. ASSUME NEW q \in Requests, RequestFails(q)
      PROVE  IngestInv'
  <2>1. failures' \in Nat
    BY <1>6, <1>l DEF RequestFails
  <2>2. QED
    BY <1>6, <2>1, StartsOver DEF RequestFails
<1>7. ASSUME NEW q \in Requests, Answer(q)
      PROVE  IngestInv'
  <2> DEFINE v == [request[q] EXCEPT !.step = "answered"]
  <2>1. request[q] \in RequestValues
    BY <1>t, RequestFields
  <2>2. /\ v \in RequestValues /\ v.at = request[q].at /\ v.batch = request[q].batch
        /\ v.step = "answered" /\ v.step # "apply" /\ v.step # "event"
    BY <2>1 DEF RequestValues, RequestSteps
  <2>3. /\ request' = [request EXCEPT ![q] = v] /\ UNCHANGED tableVars
        /\ rowLock' = rowLock /\ failures' = failures /\ v.at > Len(v.batch)
    BY <1>7, <1>l, <2>2 DEF Answer
  <2>4. \A i \in DOMAIN v.batch : i < v.at /\ EventSchema(v.batch[i]) =>
            v.batch[i].status \in Range(row[v.batch[i].key].seen)
    BY <2>2 DEF IngestInv, HandledIsStored
  <2> HIDE DEF v
  <2>5. QED
    BY <1>l, <2>2, <2>3, <2>4, RequestKept
<1>8. ASSUME NEW k \in Keys, SettleVerification(k)
      PROVE  IngestInv'
  <2>1. row[k] \in RowValues /\ row[k].verification = "queued"
    BY <1>8, <1>t DEF SettleVerification, IngestInv, TypeOK, ConfirmedIsQueued
  <2> DEFINE settled == [row[k] EXCEPT !.verification = "settled"]
  <2>2. /\ settled \in RowValues /\ settled.verification = "settled"
        /\ settled.there = row[k].there /\ settled.status = row[k].status
        /\ settled.seen = row[k].seen /\ settled.out2 = row[k].out2
        /\ settled.amount2 = row[k].amount2 /\ settled.executed2 = row[k].executed2
    BY <2>1 DEF RowValues
  <2>3. row' = [row EXCEPT ![k] = settled] /\ jobs' = jobs \ {k} /\ rowLock[k] = None
        /\ UNCHANGED <<request, rowLock, failures>>
    BY <1>8, <1>t DEF SettleVerification, TypeOK
  <2> HIDE DEF settled
  <2>4. /\ row' \in [Keys -> RowValues] /\ row'[k] = settled
        /\ \A j \in Keys : j # k => row'[j] = row[j]
    BY <1>t, <2>2, <2>3 DEF TypeOK
  <2>5. row[k].there
    BY <2>1 DEF IngestInv, RowsSound, NoRow
  <2>6. TypeOK'
    BY <1>t, <2>3, <2>4 DEF TypeOK
  <2>7. RowsSound'
    BY <2>2, <2>4, <2>5, ZenonT(40) DEF IngestInv, RowsSound, TableAdmits, SeenOnce
  <2>8. ConfirmedIsQueued'
    BY <2>2, <2>3, <2>4 DEF IngestInv, ConfirmedIsQueued
  <2>9. RequestsSound'
    <3>1. ASSUME NEW q \in Requests, request[q].step = "apply"
          PROVE  DecisionFits(q)'
      <4>1. EventOf(q).key \in Keys /\ EventOf(q)' = EventOf(q)
        BY <3>1, <1>t, <2>3, EventTyped DEF IngestInv, RequestsSound, EventOf
      <4>2. request[q].decision # "insert" => rowLock[EventOf(q).key] = q
        BY <3>1 DEF IngestInv, RequestsSound, DecisionFits
      <4>3. request[q].decision # "insert" => EventOf(q).key # k
        BY <2>3, <4>2, IngestAssumption
      <4>4. QED
        BY <3>1, <2>3, <2>4, <4>1, <4>3 DEF IngestInv, RequestsSound, DecisionFits
    <3>2. QED
      BY <2>3, <3>1 DEF IngestInv, RequestsSound, EventOf, EventSchema
  <2>10. HandledIsStored'
    <3>1. \A j \in Keys : row'[j].seen = row[j].seen
      BY <2>2, <2>4
    <3>2. ASSUME NEW q \in Requests, NEW i \in DOMAIN request[q].batch
          PROVE  request[q].batch[i].key \in Keys
      <4>1. request[q].batch[i] \in Events
        BY <1>t, RequestFields
      <4>2. QED
        BY <4>1 DEF Events
    <3>3. QED
      BY <2>3, <3>1, <3>2 DEF IngestInv, HandledIsStored, EventSchema
  <2>11. QED
    BY <2>6, <2>7, <2>8, <2>9, <2>10 DEF IngestInv
<1>9. CASE UNCHANGED vars
  <2>1. row' = row /\ jobs' = jobs /\ request' = request /\ rowLock' = rowLock
        /\ failures' = failures
    BY <1>9 DEF vars, tableVars
  <2>2. TypeOK'
    BY <2>1 DEF IngestInv, TypeOK
  <2>3. RowsSound'
    BY <2>1 DEF IngestInv, RowsSound, SeenOnce, TableAdmits
  <2>4. ConfirmedIsQueued'
    BY <2>1 DEF IngestInv, ConfirmedIsQueued
  <2>5. \A q \in Requests : EventOf(q)' = EventOf(q)
    BY <2>1 DEF EventOf
  <2>6. \A q \in Requests : DecisionFits(q)' <=> DecisionFits(q)
    BY <2>1, <2>5, Zenon DEF DecisionFits
  <2>7. RequestsSound'
    BY <2>1, <2>5, <2>6, Zenon DEF IngestInv, RequestsSound, EventSchema
  <2>8. HandledIsStored'
    BY <2>1, SMTT(30) DEF IngestInv, HandledIsStored, EventSchema
  <2>9. QED
    BY <2>2, <2>3, <2>4, <2>7, <2>8 DEF IngestInv
<1>10. QED
  BY <1>1, <1>2, <1>3, <1>4, <1>5, <1>6, <1>7, <1>8, <1>9 DEF Next, RequestStep

LEMMA IngestInvariant == Spec => []IngestInv
BY InitIngest, NextIngest, PTL DEF Spec

-----------------------------------------------------------------------------
(* Theorems *)

\* Every variable has its type in every reachable state.
THEOREM IngestTypeCorrect == Spec => []TypeOK
BY IngestInvariant, PTL DEF IngestInv

\* No answered event is lost and no status is stored twice, however requests
\* race, fail and are posted again (ingest-repo.ts ingestEvent: the decision
\* under FOR UPDATE, the unique key of the insert, one transaction per event).
THEOREM NothingAnsweredIsLost == Spec => []AnsweredIsStored
<1>1. IngestInv => AnsweredIsStored
  <2> SUFFICES ASSUME IngestInv PROVE AnsweredIsStored
    OBVIOUS
  <2>1. ASSUME NEW q \in Requests, request[q].step = "answered",
               NEW i \in DOMAIN request[q].batch, EventSchema(request[q].batch[i])
        PROVE  request[q].batch[i].status \in Range(row[request[q].batch[i].key].seen)
    <3>1. request[q].at > Len(request[q].batch)
      BY <2>1 DEF IngestInv, RequestsSound
    <3>2. i < request[q].at
      BY <3>1, RequestFields DEF IngestInv
    <3>3. QED
      BY <2>1, <3>2 DEF IngestInv, HandledIsStored
  <2>2. QED
    BY <2>1 DEF AnsweredIsStored, IngestInv, RowsSound, SeenOnce
<1>2. QED
  BY <1>1, IngestInvariant, PTL

\* An event the wire schema admits always fits the table's CHECK on a second
\* leg, in whatever order statuses arrive (event.ts eventSchema, against
\* activities_second_leg_out_amount_has_token).
THEOREM AdmittedNeverRefused == Spec => []AdmittedIsStorable
<1>1. IngestInv => AdmittedIsStorable
  <2> SUFFICES ASSUME IngestInv, NEW q \in Requests, Applying(q)
               PROVE  TableAdmits(Applied(row[EventOf(q).key], EventOf(q), request[q].decision))
    BY DEF AdmittedIsStorable
  <2>1. CASE request[q].decision = "insert" /\ row[EventOf(q).key].there
    BY <2>1 DEF IngestInv, RequestsSound, Applying, Applied, Inserted, EventSchema, TableAdmits
  <2>2. CASE ~(request[q].decision = "insert" /\ row[EventOf(q).key].there)
    BY <2>2, ApplyingSound, AppliedSound
  <2>3. QED
    BY <2>1, <2>2
<1>2. QED
  BY <1>1, IngestInvariant, PTL

\* A confirmed activity with a hash reaches the verification lane, which has a
\* job for it exactly while it is queued (ingest-repo.ts INSERT_ACTIVITY,
\* PROMOTE_PENDING_ACTIVITY and the job they enqueue).
THEOREM ConfirmedReachesVerification == Spec => []ConfirmedIsQueued
BY IngestInvariant, PTL DEF IngestInv

\* A terminal status and the evidence verification works from stand against
\* every later event (ingest-decision.ts decideIngest).
THEOREM TerminalNeverChanges == Spec => TerminalStands
<1> DEFINE Stands ==
       \A k \in Keys : row[k].there /\ row[k].status \in Terminal =>
          /\ row'[k].status = row[k].status /\ row'[k].hash = row[k].hash
          /\ row'[k].out2 = row[k].out2 /\ row'[k].executed2 = row[k].executed2
          /\ row[k].verification = "settled" => row'[k].verification = "settled"
<1>1. IngestInv /\ [Next]_vars => [Stands]_row
  <2> SUFFICES ASSUME IngestInv, [Next]_vars, row' # row,
                      NEW k \in Keys, row[k].there, row[k].status \in Terminal
               PROVE  /\ row'[k].status = row[k].status /\ row'[k].hash = row[k].hash
                      /\ row'[k].out2 = row[k].out2 /\ row'[k].executed2 = row[k].executed2
                      /\ row[k].verification = "settled" => row'[k].verification = "settled"
    OBVIOUS
  <2>t. row \in [Keys -> RowValues]
    BY DEF IngestInv, TypeOK
  <2>1. \/ \E q \in Requests : ApplyEvent(q)
        \/ \E j \in Keys : SettleVerification(j)
    BY DEF Next, RequestStep, vars, tableVars, PostEvents, RejectEvent, SelectExisting,
           RefuseEvent, RequestFails, Answer
  <2>2. CASE \E j \in Keys : SettleVerification(j)
    <3>1. PICK j \in Keys : row' = [row EXCEPT ![j].verification = "settled"]
      BY <2>2 DEF SettleVerification
    <3>2. row[k] \in RowValues
      BY <2>t
    <3>3. QED
      BY <2>t, <3>1, <3>2 DEF RowValues
  <2>3. CASE \E q \in Requests : ApplyEvent(q)
    <3>1. PICK q \in Requests : ApplyEvent(q)
      BY <2>3
    <3> DEFINE e == EventOf(q)
               new == Applied(row[e.key], e, request[q].decision)
    <3>2. Applying(q) /\ ~(request[q].decision = "insert" /\ row[e.key].there)
          /\ row' = [row EXCEPT ![e.key] = new]
      BY <3>1 DEF ApplyEvent, Refused
    <3>3. row[e.key].there /\ row[e.key].status \in Terminal =>
             /\ new.status = row[e.key].status /\ new.hash = row[e.key].hash
             /\ new.out2 = row[e.key].out2 /\ new.executed2 = row[e.key].executed2
             /\ new.verification = row[e.key].verification
      BY <3>2, ApplyingSound, AppliedSound
    <3> HIDE DEF new, e
    <3>4. CASE k = e.key
      BY <2>t, <3>2, <3>3, <3>4
    <3>5. CASE k # e.key
      BY <2>t, <3>2, <3>5
    <3>6. QED
      BY <3>4, <3>5
  <2>4. QED
    BY <2>1, <2>2, <2>3
<1>2. QED
  BY <1>1, IngestInvariant, PTL DEF Spec, TerminalStands

=============================================================================
