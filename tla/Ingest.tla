------------------------------- MODULE Ingest -------------------------------
(***************************************************************************)
(* POST /v1/events: a batch of one agent's events, validated one by one    *)
(* and applied each in a transaction of its own.  An event inserts the     *)
(* activity its sourceRowId names, promotes it from 'pending', adds its    *)
(* status to those seen, or is a duplicate.  A database error answers the  *)
(* whole request with 500, although the events before it are committed;    *)
(* the client then posts the batch again.                                  *)
(*                                                                         *)
(* SELECT ... FOR UPDATE locks the row it finds and nothing when there is  *)
(* none, so that two requests may both decide to insert.  Of the two legs  *)
(* an event may have, the second output leg stands for both second legs.   *)
(***************************************************************************)
EXTENDS Naturals, Sequences, FiniteSets, Functions

CONSTANTS
    Keys,         \* sourceRowIds of the agent
    Tokens,       \* tokens of a second leg
    None,         \* SQL NULL
    Requests,     \* requests, each on some connection of some replica
    Batches,      \* the batches clients post: a subset of Seq(Events)
    MaxFailures   \* bound: lost connections, crashes and lost answers

VARIABLES
    row,          \* activities, per key
    jobs,         \* keys with a row in verification_jobs
    request,      \* per request: its batch, how far it is, what it has read
    rowLock,      \* per key: the request whose transaction locks the row
    failures      \* failures so far

tableVars == <<row, jobs>>
vars == <<tableVars, request, rowLock, failures>>

-----------------------------------------------------------------------------
(* Values *)

Statuses == {"pending", "confirmed", "definitively_failed", "superseded_unproven"}
Terminal == Statuses \ {"pending"}

\* What the schema and the statements tell apart: the role is one of the
\* kind's, admits second legs, admits input legs; an input leg is present.
Events == [key : Keys, status : Statuses, bound : BOOLEAN, twoLegs : BOOLEAN,
           spends : BOOLEAN, inLeg : BOOLEAN, out2 : Tokens \cup {None},
           amount2 : BOOLEAN, executed2 : BOOLEAN, hash : BOOLEAN, failure : BOOLEAN]

\* "settled" stands for the three verdicts of the verification lane.
RowValues == [there : BOOLEAN, status : Statuses, seen : Seq(Statuses), hash : BOOLEAN,
              failure : BOOLEAN, out2 : Tokens \cup {None}, amount2 : BOOLEAN,
              executed2 : BOOLEAN, verification : {"none", "queued", "settled"}]
NoRow == [there |-> FALSE, status |-> "pending", seen |-> <<>>, hash |-> FALSE,
          failure |-> FALSE, out2 |-> None, amount2 |-> FALSE, executed2 |-> FALSE,
          verification |-> "none"]

Decisions == {"none", "insert", "duplicate", "promote", "accept_noop"}
RequestSteps == {"idle", "event", "apply", "answered"}
RequestValues == [step : RequestSteps, batch : Batches \cup {<<>>}, at : Nat,
                  decision : Decisions]
IdleRequest == [step |-> "idle", batch |-> <<>>, at |-> 0, decision |-> "none"]

ASSUME IngestAssumption ==
    /\ None \notin Tokens \cup Requests
    /\ Batches \subseteq Seq(Events)
    /\ MaxFailures \in Nat

-----------------------------------------------------------------------------
(* Admitting and deciding: pure *)

\* Wrong on purpose: an executed amount needs no token.
EventSchemaForgetsExecuted(e) ==
    /\ e.bound
    /\ e.out2 # None \/ e.amount2 \/ e.executed2 => e.twoLegs
    /\ e.amount2 => e.out2 # None
    /\ e.inLeg => e.spends
    /\ e.failure => e.status # "superseded_unproven"

\* The five refinements of eventSchema.
EventSchema(e) ==
    /\ e.bound
    /\ e.out2 # None \/ e.amount2 \/ e.executed2 => e.twoLegs
    /\ e.amount2 \/ e.executed2 => e.out2 # None
    /\ e.inLeg => e.spends
    /\ e.failure => e.status # "superseded_unproven"

\* activities_second_leg_out_amount_has_token
TableAdmits(r) == r.amount2 \/ r.executed2 => r.out2 # None

\* Wrong on purpose: only the current status is a duplicate.
DecideByStatus(r, status) ==
    IF ~r.there THEN "insert"
    ELSE IF status = r.status THEN "duplicate"
    ELSE IF r.status = "pending" /\ status \in Terminal THEN "promote"
    ELSE "accept_noop"

\* Wrong on purpose: any terminal status promotes.
DecidePromotesAlways(r, status) ==
    IF ~r.there THEN "insert"
    ELSE IF status \in Range(r.seen) THEN "duplicate"
    ELSE IF status \in Terminal THEN "promote"
    ELSE "accept_noop"

DecideIngest(r, status) ==
    IF ~r.there THEN "insert"
    ELSE IF status \in Range(r.seen) THEN "duplicate"
    ELSE IF r.status = "pending" /\ status \in Terminal THEN "promote"
    ELSE "accept_noop"

Coalesce(new, old) == IF new # None THEN new ELSE old

\* INSERT_ACTIVITY
Inserted(e) ==
    [there |-> TRUE, status |-> e.status, seen |-> <<e.status>>, hash |-> e.hash,
     failure |-> e.failure, out2 |-> e.out2, amount2 |-> e.amount2,
     executed2 |-> e.executed2,
     verification |-> IF e.status = "confirmed" /\ e.hash THEN "queued" ELSE "none"]

\* Wrong on purpose: the row's own hash is forgotten when it decides to queue.
PromotedByEventHash(r, e) ==
    [r EXCEPT !.status = e.status, !.seen = Append(@, e.status), !.hash = @ \/ e.hash,
              !.failure = @ \/ e.failure, !.out2 = Coalesce(e.out2, @),
              !.executed2 = @ \/ e.executed2,
              !.verification = IF e.status = "confirmed" /\ e.hash THEN "queued" ELSE @]

\* PROMOTE_PENDING_ACTIVITY: the quoted amounts are not the event's to change.
Promoted(r, e) ==
    [r EXCEPT !.status = e.status, !.seen = Append(@, e.status), !.hash = @ \/ e.hash,
              !.failure = @ \/ e.failure, !.out2 = Coalesce(e.out2, @),
              !.executed2 = @ \/ e.executed2,
              !.verification = IF e.status = "confirmed" /\ (r.hash \/ e.hash)
                               THEN "queued" ELSE @]

\* The row after an event, under the decision made when it was read.
Applied(r, e, decision) ==
    CASE decision = "insert" -> Inserted(e)
      [] decision = "promote" -> Promoted(r, e)
      [] decision = "accept_noop" -> [r EXCEPT !.seen = Append(@, e.status)]
      [] OTHER -> r

-----------------------------------------------------------------------------
Init ==
    /\ row = [k \in Keys |-> NoRow]
    /\ jobs = {}
    /\ request = [q \in Requests |-> IdleRequest]
    /\ rowLock = [k \in Keys |-> None]
    /\ failures = 0

EventOf(q) == request[q].batch[request[q].at]
AtEvent(q) == request[q].step = "event" /\ request[q].at <= Len(request[q].batch)
Applying(q) == request[q].step = "apply"

\* The lock of a transaction goes with its end.
Unlocked(q) == [k \in Keys |-> IF rowLock[k] = q THEN None ELSE rowLock[k]]

NextEvent(q) ==
    request' = [request EXCEPT ![q].step = "event", ![q].at = @ + 1,
                               ![q].decision = "none"]

\* A request passes authentication, the limiter and the checks of the batch.
PostEvents(q, b) ==
    /\ request[q].step = "idle"
    /\ request' = [request EXCEPT ![q] = [step |-> "event", batch |-> b, at |-> 1,
                                          decision |-> "none"]]
    /\ UNCHANGED <<tableVars, rowLock, failures>>

\* The event joins 'rejected' and the batch goes on.
RejectEvent(q) ==
    /\ AtEvent(q)
    /\ ~EventSchema(EventOf(q))
    /\ NextEvent(q)
    /\ UNCHANGED <<tableVars, rowLock, failures>>

\* SELECT_EXISTING_FOR_UPDATE waits for a lock, and decideIngest.
SelectExisting(q) ==
    LET e == EventOf(q) IN
    /\ AtEvent(q)
    /\ EventSchema(e)
    /\ rowLock[e.key] = None
    /\ rowLock' = IF row[e.key].there THEN [rowLock EXCEPT ![e.key] = q] ELSE rowLock
    /\ request' = [request EXCEPT ![q].step = "apply",
                                  ![q].decision = DecideIngest(row[e.key], e.status)]
    /\ UNCHANGED <<tableVars, failures>>

\* The statement meets the unique key or a CHECK: ROLLBACK, and 500.
Refused(q) ==
    LET e == EventOf(q) r == row[e.key] IN
    \/ request[q].decision = "insert" /\ r.there
    \/ ~TableAdmits(Applied(r, e, request[q].decision))

\* The write, the job it enqueues, and COMMIT.
ApplyEvent(q) ==
    LET e == EventOf(q) new == Applied(row[e.key], e, request[q].decision) IN
    /\ Applying(q)
    /\ ~Refused(q)
    /\ row' = [row EXCEPT ![e.key] = new]
    /\ jobs' = IF request[q].decision \in {"insert", "promote"} /\ new.verification = "queued"
               THEN jobs \cup {e.key} ELSE jobs
    /\ rowLock' = Unlocked(q)
    /\ NextEvent(q)
    /\ UNCHANGED failures

\* 500: the client posts the batch again, from its first event.
RefuseEvent(q) ==
    /\ Applying(q)
    /\ Refused(q)
    /\ rowLock' = Unlocked(q)
    /\ request' = [request EXCEPT ![q].step = "event", ![q].at = 1, ![q].decision = "none"]
    /\ UNCHANGED <<tableVars, failures>>

\* Wrong on purpose: the connection goes back with its transaction open.
RequestFailsUnended(q) ==
    /\ request[q].step \in {"event", "apply"}
    /\ failures < MaxFailures
    /\ failures' = failures + 1
    /\ request' = [request EXCEPT ![q].step = "event", ![q].at = 1, ![q].decision = "none"]
    /\ UNCHANGED <<tableVars, rowLock>>

\* The connection, the process or the answer is lost: as after a 500.
RequestFails(q) ==
    /\ request[q].step \in {"event", "apply"}
    /\ failures < MaxFailures
    /\ failures' = failures + 1
    /\ rowLock' = Unlocked(q)
    /\ request' = [request EXCEPT ![q].step = "event", ![q].at = 1, ![q].decision = "none"]
    /\ UNCHANGED tableVars

Answer(q) ==
    /\ request[q].step = "event" /\ request[q].at > Len(request[q].batch)
    /\ request' = [request EXCEPT ![q].step = "answered"]
    /\ UNCHANGED <<tableVars, rowLock, failures>>

\* The verification lane settles a queued activity; its UPDATE waits for the
\* row's lock.
SettleVerification(k) ==
    /\ k \in jobs
    /\ rowLock[k] = None
    /\ row' = [row EXCEPT ![k].verification = "settled"]
    /\ jobs' = jobs \ {k}
    /\ UNCHANGED <<request, rowLock, failures>>

-----------------------------------------------------------------------------
RequestStep(q) ==
    RejectEvent(q) \/ SelectExisting(q) \/ ApplyEvent(q) \/ RefuseEvent(q) \/ Answer(q)

Next ==
    \/ \E q \in Requests, b \in Batches : PostEvents(q, b)
    \/ \E q \in Requests : RequestStep(q) \/ RequestFails(q)
    \/ \E k \in Keys : SettleVerification(k)

\* A handler that may go on does, and a lock is handed on in turn.
Fairness == \A q \in Requests : SF_vars(RequestStep(q))

Spec == Init /\ [][Next]_vars /\ Fairness

-----------------------------------------------------------------------------
(* Properties *)

TypeOK ==
    /\ row \in [Keys -> RowValues]
    /\ jobs \subseteq Keys
    /\ request \in [Requests -> RequestValues]
    /\ rowLock \in [Keys -> Requests \cup {None}]
    /\ failures \in Nat

\* Every status an answered batch brought is in the row's statuses_seen, each
\* status once and the row's own among them: nothing answered is lost, nothing
\* repeated counts twice, whatever was retried, raced or rolled back.
AnsweredIsStored ==
    /\ \A q \in Requests : request[q].step = "answered" =>
        \A i \in DOMAIN request[q].batch :
            LET e == request[q].batch[i] IN
            EventSchema(e) => e.status \in Range(row[e.key].seen)
    /\ \A k \in Keys :
        /\ Len(row[k].seen) = Cardinality(Range(row[k].seen))
        /\ row[k].there => row[k].status \in Range(row[k].seen)

\* An event the wire schema admits is never refused by a CHECK of the table,
\* by itself or on top of what earlier events left in the row: it would be
\* retried for ever and hold back the rest of its batch.
AdmittedIsStorable ==
    \A q \in Requests : Applying(q) =>
        TableAdmits(Applied(row[EventOf(q).key], EventOf(q), request[q].decision))

\* A confirmed activity with a hash has been handed to verification, and is
\* queued exactly while it has a job.
ConfirmedIsQueued ==
    \A k \in Keys :
        /\ row[k].there /\ row[k].status = "confirmed" /\ row[k].hash =>
            row[k].verification # "none"
        /\ row[k].verification = "queued" <=> k \in jobs

\* A terminal status stands, and so does what verification works from: no
\* later event, of this request or a rival one, changes the row's evidence or
\* queues it again.
TerminalStands ==
    [][\A k \in Keys : row[k].there /\ row[k].status \in Terminal =>
        /\ row'[k].status = row[k].status /\ row'[k].hash = row[k].hash
        /\ row'[k].out2 = row[k].out2 /\ row'[k].executed2 = row[k].executed2
        /\ row[k].verification = "settled" => row'[k].verification = "settled"]_row

\* Every posted batch is answered in the end, although two requests may have
\* decided to insert the same row.
EventuallyAnswered ==
    \A q \in Requests : request[q].step = "event" ~> request[q].step = "answered"

=============================================================================
