------------------------------ MODULE MCIngest ------------------------------
(* A small instance of event ingest for TLC: one row that two requests race *)
(* for with retried, reordered and contradictory batches, and a second one. *)
EXTENDS Ingest, TLC

CONSTANTS k1, k2, t1, q1, q2, none

Event(k, status) ==
    [key |-> k, status |-> status, bound |-> TRUE, twoLegs |-> FALSE, spends |-> TRUE,
     inLeg |-> TRUE, out2 |-> none, amount2 |-> FALSE, executed2 |-> FALSE,
     hash |-> FALSE, failure |-> FALSE]

Pending == [Event(k1, "pending") EXCEPT !.twoLegs = TRUE, !.out2 = t1, !.amount2 = TRUE]
Broadcast == [Event(k1, "pending") EXCEPT !.hash = TRUE, !.failure = TRUE]
Confirmed == [Event(k1, "confirmed") EXCEPT !.twoLegs = TRUE, !.out2 = t1,
                                            !.executed2 = TRUE]
ConfirmedNoToken == [Event(k1, "confirmed") EXCEPT !.twoLegs = TRUE, !.executed2 = TRUE]
ConfirmedHash == [Event(k1, "confirmed") EXCEPT !.hash = TRUE]
Failed == [Event(k1, "definitively_failed") EXCEPT !.failure = TRUE]
Superseded == Event(k1, "superseded_unproven")
Unbound == [Event(k2, "pending") EXCEPT !.bound = FALSE]
Other == [Event(k2, "confirmed") EXCEPT !.hash = TRUE]

PostedBatches ==
    {<<Pending, Confirmed>>, <<Broadcast, Superseded>>, <<Broadcast, Confirmed>>,
     <<Unbound, Confirmed, Other>>, <<ConfirmedHash, Failed, Broadcast>>,
     <<Superseded, Other>>, <<Failed, ConfirmedHash>>, <<ConfirmedNoToken, Other>>}

=============================================================================
