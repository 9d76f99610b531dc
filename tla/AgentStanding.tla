---------------------------- MODULE AgentStanding ----------------------------
(***************************************************************************)
(* The standing of an agent: consent (register, revoke), strikes and       *)
(* quarantine, the operator's lift and reopen, and the sweep that purges   *)
(* the data of revoked agents.  Three parts of the program write the same  *)
(* agents row without knowing of each other: the API, the verification     *)
(* worker and the purge; the sweep and an ingest request act on a status   *)
(* they read before.                                                       *)
(*                                                                         *)
(* quarantined_at and the audit rows 'operator_lift' and 'operator_reopen' *)
(* (strike rows that name no activity) are only displayed and are left     *)
(* out.  An activity has at most one strike row (StruckIffMismatch of      *)
(* VerificationLane), so strike rows are a set of activities.              *)
(***************************************************************************)
EXTENDS Naturals, FiniteSets

CONSTANTS
    Agents,
    Activities,
    Sweepers,        \* purge sweeps: the worker's interval, the cron job, the CLI
    Owner,           \* the agent that reports an activity
    Shape,           \* reason, protocol, kind, role and chain of its failure
    LaunchShaped,    \* activities exempt from strikes
    Threshold,       \* QUARANTINE_STRIKES
    MaxCount         \* bound: strikes recorded against one agent

ASSUME StandingAssumption ==
    /\ Owner \in [Activities -> Agents]
    /\ IsFiniteSet(Activities)
    /\ LaunchShaped \subseteq Activities
    /\ Threshold \in Nat \ {0}
    /\ MaxCount \in Nat

VARIABLES
    status,        \* agents.status, or "unregistered"
    revokedAt,     \* agents.revoked_at: "null", "recent", or "due" for purge
    purgedAt,      \* agents.purged_at IS NOT NULL
    strikeCount,   \* agents.strike_count
    activity,      \* the activity's verification state, or "absent"
    struck,        \* activities named by a row of strikes
    admitted,      \* agents with an authenticated ingest request in flight
    sweeping,      \* per sweep: the agents it found due and has yet to purge
    drifted        \* history: agents lifted or purged since they registered

agentVars == <<status, revokedAt, purgedAt, strikeCount>>
dataVars == <<activity, struck>>
vars == <<agentVars, dataVars, admitted, sweeping, drifted>>

AgentStatuses == {"unregistered", "active", "revoked", "quarantined"}
ActivityStates == {"absent", "none", "queued", "verified", "mismatch"}

Init ==
    /\ status = [a \in Agents |-> "unregistered"]
    /\ revokedAt = [a \in Agents |-> "null"]
    /\ purgedAt = [a \in Agents |-> FALSE]
    /\ strikeCount = [a \in Agents |-> 0]
    /\ activity = [k \in Activities |-> "absent"]
    /\ struck = {}
    /\ admitted = {}
    /\ sweeping = [s \in Sweepers |-> {}]
    /\ drifted = {}

OwnedBy(a) == {k \in Activities : Owner[k] = a}
StrikesOf(a) == struck \cap OwnedBy(a)
HasData(a) == \E k \in OwnedBy(a) : activity[k] # "absent"

IndependentShapes(strikeRows) == Cardinality({Shape[k] : k \in strikeRows})

-----------------------------------------------------------------------------
(* Consent *)

\* INSERT ... ON CONFLICT DO UPDATE with the agent's own token: active again
\* whatever the status was.
Register(a) ==
    /\ status' = [status EXCEPT ![a] = "active"]
    /\ revokedAt' = [revokedAt EXCEPT ![a] = "null"]
    /\ UNCHANGED <<purgedAt, strikeCount, dataVars, admitted, sweeping, drifted>>

Revoke(a) ==
    /\ status[a] \in {"active", "quarantined"}
    /\ status' = [status EXCEPT ![a] = "revoked"]
    /\ revokedAt' = [revokedAt EXCEPT ![a] = "recent"]
    /\ UNCHANGED <<purgedAt, strikeCount, dataVars, admitted, sweeping, drifted>>

\* PURGE_DELAY_H pass.
PurgeDelayPasses(a) ==
    /\ revokedAt[a] = "recent"
    /\ revokedAt' = [revokedAt EXCEPT ![a] = "due"]
    /\ UNCHANGED <<status, purgedAt, strikeCount, dataVars, admitted, sweeping, drifted>>

-----------------------------------------------------------------------------
(* Ingest: the status is read once, then the batch runs event by event *)

Authenticate(a) ==
    /\ status[a] = "active"
    /\ admitted' = admitted \cup {a}
    /\ UNCHANGED <<agentVars, dataVars, sweeping, drifted>>

\* A new activity is inserted, queued or not; a pending one may be promoted.
IngestEvent(k) ==
    /\ Owner[k] \in admitted
    /\ activity[k] \in {"absent", "none"}
    /\ \E s \in {"none", "queued"} : activity' = [activity EXCEPT ![k] = s]
    /\ UNCHANGED <<agentVars, struck, admitted, sweeping, drifted>>

EndBatch(a) ==
    /\ a \in admitted
    /\ admitted' = admitted \ {a}
    /\ UNCHANGED <<agentVars, dataVars, sweeping, drifted>>

-----------------------------------------------------------------------------
(* Verdicts and the operator *)

\* Verified, or closed as unverifiable.
VerifyActivity(k) ==
    /\ activity[k] = "queued"
    /\ \E s \in {"verified", "none"} : activity' = [activity EXCEPT ![k] = s]
    /\ UNCHANGED <<agentVars, struck, admitted, sweeping, drifted>>

\* A launch is marked a mismatch without a strike.
MismatchUnstruck(k) ==
    /\ activity[k] = "queued"
    /\ k \in LaunchShaped
    /\ activity' = [activity EXCEPT ![k] = "mismatch"]
    /\ UNCHANGED <<agentVars, struck, admitted, sweeping, drifted>>

\* Wrong on purpose: strikes are counted, however alike they are.
RecordStrikeByCount(k) ==
    LET a == Owner[k] IN
    /\ activity[k] = "queued"
    /\ k \notin LaunchShaped
    /\ strikeCount[a] < MaxCount
    /\ activity' = [activity EXCEPT ![k] = "mismatch"]
    /\ struck' = struck \cup {k}
    /\ strikeCount' = [strikeCount EXCEPT ![a] = @ + 1]
    /\ status' = [status EXCEPT ![a] =
                    IF strikeCount[a] + 1 >= Threshold THEN "quarantined" ELSE @]
    /\ UNCHANGED <<revokedAt, purgedAt, admitted, sweeping, drifted>>

\* Strike, count and quarantine in one transaction that holds the agents row;
\* only the number of distinct shapes decides, never the status it replaces.
RecordStrike(k) ==
    LET a == Owner[k] IN
    /\ activity[k] = "queued"
    /\ k \notin LaunchShaped
    /\ strikeCount[a] < MaxCount
    /\ activity' = [activity EXCEPT ![k] = "mismatch"]
    /\ struck' = struck \cup {k}
    /\ strikeCount' = [strikeCount EXCEPT ![a] = @ + 1]
    /\ status' = [status EXCEPT ![a] =
                    IF IndependentShapes(StrikesOf(a) \cup {k}) >= Threshold
                    THEN "quarantined" ELSE @]
    /\ UNCHANGED <<revokedAt, purgedAt, admitted, sweeping, drifted>>

\* Wrong on purpose: the quarantine is reviewed, the count is not.
RestoreKeepsCount(a, withdrawn) ==
    /\ status' = [status EXCEPT ![a] =
                    IF @ = "quarantined" /\ withdrawn > 0 /\ strikeCount[a] < Threshold
                    THEN "active" ELSE @]
    /\ UNCHANGED strikeCount

\* The count drops by the withdrawn rows, and a quarantine with it.
RestoreAgentStanding(a, withdrawn) ==
    LET left == IF strikeCount[a] > withdrawn THEN strikeCount[a] - withdrawn ELSE 0 IN
    /\ strikeCount' = [strikeCount EXCEPT ![a] = left]
    /\ status' = [status EXCEPT ![a] =
                    IF @ = "quarantined" /\ withdrawn > 0 /\ left < Threshold
                    THEN "active" ELSE @]

\* An activity closed as unverifiable is queued again.
RetryVerification(k) ==
    /\ activity[k] = "none"
    /\ activity' = [activity EXCEPT ![k] = "queued"]
    /\ UNCHANGED <<agentVars, struck, admitted, sweeping, drifted>>

ReopenVerification(k) ==
    /\ activity[k] = "mismatch"
    /\ activity' = [activity EXCEPT ![k] = "queued"]
    /\ struck' = struck \ {k}
    /\ RestoreAgentStanding(Owner[k], IF k \in struck THEN 1 ELSE 0)
    /\ UNCHANGED <<revokedAt, purgedAt, admitted, sweeping, drifted>>

LiftQuarantine(a) ==
    /\ status[a] = "quarantined"
    /\ status' = [status EXCEPT ![a] = "active"]
    /\ strikeCount' = [strikeCount EXCEPT ![a] = 0]
    /\ drifted' = drifted \cup {a}
    /\ UNCHANGED <<revokedAt, purgedAt, dataVars, admitted, sweeping>>

-----------------------------------------------------------------------------
(* The purge: find the due agents, then purge each in its own transaction *)

\* Wrong on purpose: an agent purged before is never due again.
FindUnpurgedAgents(s) ==
    /\ sweeping[s] = {}
    /\ sweeping' = [sweeping EXCEPT ![s] =
                      {a \in Agents : /\ status[a] = "revoked"
                                      /\ revokedAt[a] = "due"
                                      /\ ~purgedAt[a]}]
    /\ UNCHANGED <<agentVars, dataVars, admitted, drifted>>

FindAgentsDueForPurge(s) ==
    /\ sweeping[s] = {}
    /\ sweeping' = [sweeping EXCEPT ![s] =
                      {a \in Agents : status[a] = "revoked" /\ revokedAt[a] = "due"}]
    /\ UNCHANGED <<agentVars, dataVars, admitted, drifted>>

\* Wrong on purpose: the strikes of the deleted activities stay.
PurgeKeepsStrikes(s, a) ==
    /\ a \in sweeping[s]
    /\ activity' = [k \in Activities |-> IF Owner[k] = a THEN "absent" ELSE activity[k]]
    /\ purgedAt' = [purgedAt EXCEPT ![a] = TRUE]
    /\ sweeping' = [sweeping EXCEPT ![s] = @ \ {a}]
    /\ drifted' = drifted \cup {a}
    /\ UNCHANGED <<status, revokedAt, strikeCount, struck, admitted>>

\* Deletes by agent hash alone: the status is not read again.
PurgeAgentData(s, a) ==
    /\ a \in sweeping[s]
    /\ activity' = [k \in Activities |-> IF Owner[k] = a THEN "absent" ELSE activity[k]]
    /\ struck' = struck \ OwnedBy(a)
    /\ purgedAt' = [purgedAt EXCEPT ![a] = TRUE]
    /\ sweeping' = [sweeping EXCEPT ![s] = @ \ {a}]
    /\ drifted' = drifted \cup {a}
    /\ UNCHANGED <<status, revokedAt, strikeCount, admitted>>

\* One agent's purge throws: the sweep ends, the rest waits for the next.
SweepFails(s) ==
    /\ sweeping[s] # {}
    /\ sweeping' = [sweeping EXCEPT ![s] = {}]
    /\ UNCHANGED <<agentVars, dataVars, admitted, drifted>>

-----------------------------------------------------------------------------
Next ==
    \/ \E a \in Agents :
          \/ Register(a) \/ Revoke(a) \/ PurgeDelayPasses(a)
          \/ Authenticate(a) \/ EndBatch(a) \/ LiftQuarantine(a)
    \/ \E k \in Activities :
          \/ IngestEvent(k) \/ VerifyActivity(k) \/ MismatchUnstruck(k)
          \/ RecordStrike(k) \/ RetryVerification(k) \/ ReopenVerification(k)
    \/ \E s \in Sweepers :
          \/ FindAgentsDueForPurge(s) \/ SweepFails(s)
          \/ \E a \in Agents : PurgeAgentData(s, a)

Spec == Init /\ [][Next]_vars

(* Time passes, an admitted request ends, and the sweep runs every hour.     *)
(* A sweep may fail, but not every time (strong fairness of the purge).      *)
Fairness ==
    /\ \A a \in Agents : WF_vars(PurgeDelayPasses(a)) /\ WF_vars(EndBatch(a))
    /\ \A s \in Sweepers :
          /\ WF_vars(FindAgentsDueForPurge(s))
          /\ \A a \in Agents : SF_vars(PurgeAgentData(s, a))

FairSpec == Spec /\ Fairness

-----------------------------------------------------------------------------
(* Properties *)

\* Every variable holds a value of its column or of a process's memory.
TypeOK ==
    /\ status \in [Agents -> AgentStatuses]
    /\ revokedAt \in [Agents -> {"null", "recent", "due"}]
    /\ purgedAt \in [Agents -> BOOLEAN]
    /\ strikeCount \in [Agents -> Nat]
    /\ activity \in [Activities -> ActivityStates]
    /\ struck \subseteq Activities
    /\ admitted \subseteq Agents
    /\ sweeping \in [Sweepers -> SUBSET Agents]
    /\ drifted \subseteq Agents

\* The strike rows are exactly the standing mismatches that may strike:
\* verdict, reopen and purge never leave one without the other.
StrikesAreMismatches ==
    struck = {k \in Activities \ LaunchShaped : activity[k] = "mismatch"}

\* As long as no lift and no purge came between, the counter an agent is
\* judged by is the number of strike rows it carries.
CountIsRows ==
    \A a \in Agents \ drifted : strikeCount[a] = Cardinality(StrikesOf(a))

EntersQuarantineOnShapes(a) ==
    status[a] # "quarantined" /\ status'[a] = "quarantined" =>
        IndependentShapes(StrikesOf(a)') >= Threshold

\* An agent is cut off only when Threshold unrelated failures line up; the
\* same failure repeated is one piece of evidence.
QuarantineNeedsShapes ==
    [][\A a \in Agents : EntersQuarantineOnShapes(a)]_vars

\* Once consent is revoked and not given again, there comes a time when no
\* data of the agent is left.
RevokedIsPurged ==
    \A a \in Agents :
        revokedAt[a] # "null" ~> (revokedAt[a] = "null" \/ ~HasData(a))

\* As long as the status says revoked, the data goes in the end: neither a
\* batch that was in flight, nor a sweep that failed, nor an earlier purge of
\* the same agent keeps it.
StillRevokedIsPurged ==
    \A a \in Agents :
        status[a] = "revoked" ~> (status[a] # "revoked" \/ ~HasData(a))

=============================================================================
