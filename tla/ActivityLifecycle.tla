------------------------- MODULE ActivityLifecycle -------------------------
(***************************************************************************)
(* What the activity pipeline promises about one reported activity, with   *)
(* no queue, no leases and no workers: an activity is reported, settles    *)
(* once, is judged while it is queued, contributes to the public totals    *)
(* exactly when it becomes verified, and carries a strike exactly when it  *)
(* is refuted.  VerificationLane implements this specification.            *)
(***************************************************************************)
EXTENDS Naturals

CONSTANTS
    Activities,    \* the activities clients may report
    LaunchShaped   \* those whose kind and role are exempt from strikes

VARIABLES
    phase,      \* where each activity stands
    credited,   \* how often each activity was added to the daily totals
    struck      \* how many strikes of its agent each activity carries

lifecycleVars == <<phase, credited, struck>>

Phases == {"unseen", "pending", "unverified", "queued", "verified",
           "refuted", "purged"}

LifecycleTypeOK ==
    /\ phase \in [Activities -> Phases]
    /\ credited \in [Activities -> Nat]
    /\ struck \in [Activities -> Nat]

LifecycleInit ==
    /\ phase = [k \in Activities |-> "unseen"]
    /\ credited = [k \in Activities |-> 0]
    /\ struck = [k \in Activities |-> 0]

Move(k, from, to) ==
    /\ phase[k] \in from
    /\ \E p \in to : phase' = [phase EXCEPT ![k] = p]

\* A first report; a report that arrives settled may go straight to the queue.
Arrive(k) ==
    /\ Move(k, {"unseen"}, {"pending", "unverified", "queued"})
    /\ UNCHANGED <<credited, struck>>

\* A pending activity settles once, into a terminal status.
Settle(k) ==
    /\ Move(k, {"pending"}, {"unverified", "queued"})
    /\ UNCHANGED <<credited, struck>>

\* The evidence agrees: counted in the same step.
Verify(k) ==
    /\ Move(k, {"queued"}, {"verified"})
    /\ credited' = [credited EXCEPT ![k] = @ + 1]
    /\ UNCHANGED struck

\* The evidence disagrees: struck in the same step, unless exempt.
Refute(k) ==
    /\ Move(k, {"queued"}, {"refuted"})
    /\ struck' = [struck EXCEPT ![k] = IF k \in LaunchShaped THEN @ ELSE @ + 1]
    /\ UNCHANGED credited

\* No evidence to be had.
GiveUp(k) ==
    /\ Move(k, {"queued"}, {"unverified"})
    /\ UNCHANGED <<credited, struck>>

\* The operator asks for another look, withdrawing the strike if there was one.
LookAgain(k) ==
    /\ Move(k, {"unverified", "refuted"}, {"queued"})
    /\ struck' = [struck EXCEPT ![k] = 0]
    /\ UNCHANGED credited

\* The purge deletes the activity and its strikes; the totals keep its credit.
Forget(k) ==
    /\ Move(k, Phases \ {"unseen", "purged"}, {"purged"})
    /\ struck' = [struck EXCEPT ![k] = 0]
    /\ UNCHANGED credited

LifecycleNext ==
    \E k \in Activities :
        \/ Arrive(k) \/ Settle(k) \/ Verify(k) \/ Refute(k) \/ GiveUp(k)
        \/ LookAgain(k) \/ Forget(k)

LifecycleSpec == LifecycleInit /\ [][LifecycleNext]_lifecycleVars

=============================================================================
