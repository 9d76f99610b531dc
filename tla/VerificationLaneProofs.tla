----------------------- MODULE VerificationLaneProofs -----------------------
(***************************************************************************)
(* Theorems about the verification lane, for any number of activities,     *)
(* workers and endpoints, any batch and any bound.                         *)
(*                                                                         *)
(* The safety invariants are not inductive: they need to know that only a  *)
(* confirmed activity has a verification state (so that an arriving report *)
(* cannot disturb the books), and that a verdict a worker still holds in   *)
(* memory was sound when it was taken.  LaneInv adds both.                 *)
(***************************************************************************)
EXTENDS VerificationLane, FiniteSetTheorems, TLAPS

Landed == {"native_off", "proven_full", "proven_basic"}

\* Only a confirmed activity is ever queued or decided.
StateNeedsConfirmation ==
    \A k \in Activities :
        verification_state[k] # "none" => status[k] = "confirmed"

\* A verdict in a worker's memory agrees with the chain, however old it is.
HeldVerdictsSound ==
    \A w \in Workers, k \in Activities :
        /\ claim[w][k].step = "strike" => fate[k] \in Disproven
        /\ claim[w][k].step \in Verified => fate[k] \in Landed

BooksInv ==
    /\ StateNeedsConfirmation
    /\ JobOnlyWhileQueued
    /\ CountedOnce
    /\ StruckIffMismatch

EvidenceInv ==
    /\ HeldVerdictsSound
    /\ StrikeProven
    /\ VerifiedLanded

LaneInv == TypeOK /\ BooksInv /\ EvidenceInv

-----------------------------------------------------------------------------
(* Resolving a job *)

\* If corroborateMissing reports a transaction missing, it is missing: the
\* endpoints that may miss a landed one are fewer than those required.
LEMMA MissingIsAbsent ==
    ASSUME NEW k \in Activities, NEW f \in Fates,
           "missing" \in CorroborateMissing(k, f)
    PROVE  f \notin Included
<1>1. PICK a \in Answers(f) : CorroborationOf(a) = "missing"
  BY DEF CorroborateMissing
<1> DEFINE Missing == {e \in Endpoints : a[e] = "absent"}
<1>2. Cardinality(Missing) >= EndpointsNeeded
  BY <1>1 DEF CorroborationOf
<1>3. SUFFICES ASSUME f \in Included PROVE FALSE
  OBVIOUS
<1>4. Missing \subseteq Lagging
  BY <1>3 DEF Answers
<1>5. IsFiniteSet(Lagging) /\ IsFiniteSet(Missing)
  BY <1>4, FS_Subset, LaneAssumption
<1>6. Cardinality(Missing) <= Cardinality(Lagging)
  BY <1>4, <1>5, FS_Subset
<1>7. Cardinality(Missing) \in Nat /\ Cardinality(Lagging) \in Nat
  BY <1>5, FS_CardinalityType
<1>8. EndpointsNeeded \in Nat /\ Cardinality(Lagging) < EndpointsNeeded
  BY LaneAssumption
<1> HIDE DEF Missing
<1>9. QED
  BY <1>2, <1>6, <1>7, <1>8

\* One reading of the receipt yields a final verdict only if it is right.
LEMMA VerdictSound ==
    ASSUME NEW f \in Fates, NEW v \in VerdictsOn(f)
    PROVE  /\ v \in Verdicts \cup {"unverifiable", "retry_error", "retry_missing"}
           /\ v = "strike" => f \in Disproven
           /\ v \in Verified => f \in Landed
BY DEF VerdictsOn, Fates, Verdicts, Verified, Disproven, Landed

\* Whatever resolveJobOutcome returns is an outcome, and its verdicts are right.
LEMMA OutcomeSound ==
    ASSUME NEW k \in Activities, NEW tx \in BOOLEAN, NEW f \in Fates,
           NEW old \in BOOLEAN, NEW o \in ResolveJobOutcome(k, tx, f, old)
    PROVE  /\ o \in Outcomes
           /\ o = "strike" => f \in Disproven
           /\ o \in Verified => f \in Landed
<1>1. CASE f = "unlisted" \/ ~tx
  BY <1>1 DEF ResolveJobOutcome, Outcomes, Verified
<1>2. CASE f # "unlisted" /\ tx
  <2>1. PICK v \in VerdictsOn(f) : o \in OutcomesOf(v, k, f, old)
    BY <1>2 DEF ResolveJobOutcome
  <2>2. CASE v \in Verdicts
    BY <2>1, <2>2, VerdictSound DEF OutcomesOf, Outcomes, Verdicts, Verified
  <2>3. CASE v \notin Verdicts /\ ~old
    BY <2>1, <2>3 DEF OutcomesOf, Outcomes, Verdicts, Verified
  <2>4. CASE v \in {"unverifiable", "retry_error"} /\ old
    BY <2>1, <2>4 DEF OutcomesOf, Outcomes, Verified, Verdicts
  <2>5. CASE v = "retry_missing" /\ old
    <3>1. PICK c \in CorroborateMissing(k, f) :
              o = IF c = "missing" THEN "strike" ELSE "close"
      BY <2>1, <2>5 DEF OutcomesOf, Verdicts, Verified
    <3>2. c = "missing" => f \notin Included
      BY MissingIsAbsent
    <3>3. f \notin Included => f \in Disproven
      BY <1>2 DEF Fates, Included, Disproven
    <3>4. QED
      BY <3>1, <3>2, <3>3 DEF Outcomes, Verdicts, Verified
  <2>6. QED
    BY <2>1, <2>2, <2>3, <2>4, <2>5, VerdictSound
<1>3. QED
  BY <1>1, <1>2

-----------------------------------------------------------------------------
(* Type correctness *)

\* Resolve leaves an outcome in the claim, and a verdict only if it is right.
LEMMA ResolveSound ==
    ASSUME TypeOK, NEW w \in Workers, NEW k \in Activities, Resolve(w, k)
    PROVE  \E o \in Outcomes :
              /\ SetStep(w, k, o)
              /\ o = "strike" => fate[k] \in Disproven
              /\ o \in Verified => fate[k] \in Landed
<1> DEFINE tx == claim[w][k].tx
           old == claim[w][k].first <= expired[k]
<1>1. tx \in BOOLEAN /\ fate[k] \in Fates
  BY DEF TypeOK, Claims
<1>2. old \in BOOLEAN
  OBVIOUS
<1>3. PICK o \in ResolveJobOutcome(k, tx, fate[k], old) : SetStep(w, k, o)
  BY DEF Resolve
<1> HIDE DEF tx, old
<1>4. QED
  BY <1>1, <1>2, <1>3, OutcomeSound

LEMMA NoClaimTyped == NoClaim \in Claims
BY DEF NoClaim, Claims, Steps

\* SetStep changes the step of one claim and nothing else in the memories.
LEMMA SetStepTyped ==
    ASSUME claim \in [Workers -> [Activities -> Claims]],
           NEW w \in Workers, NEW k \in Activities, NEW s \in Steps,
           SetStep(w, k, s)
    PROVE  /\ claim' \in [Workers -> [Activities -> Claims]]
           /\ claim'[w][k].step = s
           /\ \A v \in Workers, j \in Activities :
                 v # w \/ j # k => claim'[v][j] = claim[v][j]
<1>1. claim[w] \in [Activities -> Claims] /\ claim[w][k] \in Claims
  OBVIOUS
<1> DEFINE c == [claim[w][k] EXCEPT !.step = s]
<1>2. c \in Claims /\ c.step = s
  BY <1>1 DEF Claims
<1>3. claim' = [claim EXCEPT ![w] = [claim[w] EXCEPT ![k] = c]]
  BY DEF SetStep
<1> HIDE DEF c
<1>4. QED
  BY <1>1, <1>2, <1>3

\* Drop forgets one claim and nothing else.
LEMMA DropTyped ==
    ASSUME claim \in [Workers -> [Activities -> Claims]],
           NEW w \in Workers, NEW k \in Activities, Drop(w, k)
    PROVE  /\ claim' \in [Workers -> [Activities -> Claims]]
           /\ claim'[w][k] = NoClaim
           /\ \A v \in Workers, j \in Activities :
                 v # w \/ j # k => claim'[v][j] = claim[v][j]
BY NoClaimTyped DEF Drop

LEMMA InitTypeOK == Init => TypeOK
<1>1. Init => fate \in [Activities -> Fates]
  BY LaneAssumption DEF Init
<1>2. Init => claim \in [Workers -> [Activities -> Claims]]
  BY NoClaimTyped DEF Init
<1>3. QED
  BY <1>1, <1>2 DEF Init, TypeOK, Statuses, VerificationStates

\* Each action writes only values of the columns and of the claims.
LEMMA NextTypeOK == TypeOK /\ [Next]_vars => TypeOK'
<1> SUFFICES ASSUME TypeOK, [Next]_vars PROVE TypeOK'
  OBVIOUS
<1> USE DEF TypeOK
<1>1. ASSUME NEW k \in Activities, NEW s \in EventStatuses, NEW tx \in BOOLEAN,
             InsertActivity(k, s, tx) \/ PromotePendingActivity(k, s, tx)
      PROVE  TypeOK'
  <2> PICK t \in BOOLEAN : Settles(k, s, t)
    BY <1>1 DEF InsertActivity, PromotePendingActivity
  <2>1. CASE s = "confirmed" /\ t
    <3>1. SetState(k, "queued") /\ Enqueue(k)
      BY <2>1 DEF Settles
    <3>2. verification_state' \in [Activities -> VerificationStates]
      BY <3>1 DEF SetState, VerificationStates
    <3>3. /\ jobs' \subseteq Activities /\ due' \subseteq jobs'
          /\ enqueued' \in [Activities -> Nat]
      BY <3>1 DEF Enqueue
    <3>4. status' \in [Activities -> Statuses] /\ txHash' \in [Activities -> BOOLEAN]
      BY <1>1 DEF Settles, Statuses
    <3>5. QED
      BY <3>2, <3>3, <3>4 DEF Settles, bookVars
  <2>2. CASE ~(s = "confirmed" /\ t)
    BY <2>2 DEF Settles, queueVars, bookVars, Statuses
  <2>3. QED
    BY <2>1, <2>2
<1>2. ASSUME NEW k \in Activities, Operator(k)
      PROVE  TypeOK'
  <2>1. CASE RetryVerification(k)
    BY <2>1 DEF RetryVerification, SetState, Enqueue, bookVars, VerificationStates
  <2>2. CASE ReopenVerification(k)
    BY <2>2 DEF ReopenVerification, SetState, Enqueue, VerificationStates
  <2>3. CASE PurgeActivity(k)
    BY <2>3 DEF PurgeActivity, SetState, DeleteJob, VerificationStates, Statuses
  <2>4. QED
    BY <1>2, <2>1, <2>2, <2>3 DEF Operator
<1>3. ASSUME NEW k \in Activities, Time(k)
      PROVE  TypeOK'
  BY <1>3 DEF Time, FallsDue, WindowElapses, activityVars, queueVars, bookVars
<1>4. ASSUME NEW w \in Workers, NEW K \in SUBSET Activities, ClaimDueJobs(w, K)
      PROVE  TypeOK'
  BY <1>4, NoClaimTyped DEF ClaimDueJobs, Claims, Steps, activityVars, bookVars
<1>5. ASSUME NEW w \in Workers, PassFails(w)
      PROVE  TypeOK'
  BY <1>5, NoClaimTyped DEF PassFails, activityVars, queueVars, bookVars
<1>6. ASSUME NEW w \in Workers, NEW k \in Activities, Resolve(w, k)
      PROVE  TypeOK'
  <2>1. PICK o \in Outcomes : SetStep(w, k, o)
    BY <1>6, ResolveSound
  <2>2. claim' \in [Workers -> [Activities -> Claims]]
    BY <2>1, SetStepTyped DEF Steps
  <2>3. QED
    BY <1>6, <2>2 DEF Resolve, activityVars, queueVars, bookVars
<1>7. ASSUME NEW w \in Workers, NEW k \in Activities, Persist(w, k)
      PROVE  TypeOK'
  <2>1. CASE RescheduleJob(w, k)
    BY <2>1, DropTyped DEF RescheduleJob, activityVars, bookVars
  <2>2. CASE CloseUnverifiable(w, k)
    BY <2>2, DropTyped DEF CloseUnverifiable, SetState, DeleteJob, bookVars, VerificationStates
  <2>3. CASE CloseMisses(w, k)
    BY <2>3, SetStepTyped DEF CloseMisses, Steps, activityVars, queueVars, bookVars
  <2>4. CASE CloseDeletes(w, k)
    BY <2>4, DropTyped DEF CloseDeletes, DeleteJob, activityVars, bookVars
  <2>5. CASE FinalizeVerification(w, k)
    BY <2>5, DropTyped DEF FinalizeVerification, Persisting, BookVerdict, SetState, StateOf,
                DeleteJob, Verdicts, VerificationStates
  <2>6. CASE FinalizeMisses(w, k)
    BY <2>6, DropTyped DEF FinalizeMisses, activityVars, queueVars, bookVars
  <2>7. QED
    BY <1>7, <2>1, <2>2, <2>3, <2>4, <2>5, <2>6 DEF Persist
<1>8. ASSUME NEW w \in Workers, NEW k \in Activities, PersistFails(w, k)
      PROVE  TypeOK'
  BY <1>8, DropTyped DEF PersistFails, activityVars, queueVars, bookVars
<1>9. CASE UNCHANGED vars
  BY <1>9 DEF vars, activityVars, queueVars, bookVars
<1>10. QED
  BY <1>1, <1>2, <1>3, <1>4, <1>5, <1>6, <1>7, <1>8, <1>9 DEF Next, Ingest

\* Every reachable state assigns each column, the queue and each worker's
\* memory a value of its type.
THEOREM LaneTypeCorrect == Spec => []TypeOK
BY InitTypeOK, NextTypeOK, PTL DEF Spec

-----------------------------------------------------------------------------
(* The queue and the books *)

LEMMA InitBooks == Init => BooksInv
BY DEF Init, BooksInv, StateNeedsConfirmation, JobOnlyWhileQueued, CountedOnce,
       StruckIffMismatch, Verified

\* The steps that write neither an activity nor its job nor the books; a
\* change of what is due is harmless.
LEMMA QuietBooks ==
    ASSUME BooksInv, UNCHANGED <<activityVars, jobs, bookVars>>
    PROVE  BooksInv'
BY DEF BooksInv, StateNeedsConfirmation, JobOnlyWhileQueued, CountedOnce,
       StruckIffMismatch, activityVars, bookVars

LEMMA NextBooks == TypeOK /\ BooksInv /\ [Next]_vars => BooksInv'
<1> SUFFICES ASSUME TypeOK, BooksInv, [Next]_vars PROVE BooksInv'
  OBVIOUS
<1> USE DEF TypeOK, BooksInv, StateNeedsConfirmation, JobOnlyWhileQueued,
            CountedOnce, StruckIffMismatch, Verified
<1>1. ASSUME NEW k \in Activities, NEW s \in EventStatuses, NEW tx \in BOOLEAN,
             InsertActivity(k, s, tx) \/ PromotePendingActivity(k, s, tx)
      PROVE  BooksInv'
  <2>1. /\ verification_state[k] = "none" /\ k \notin jobs
        /\ status[k] \in {"unseen", "pending"}
    BY <1>1 DEF InsertActivity, PromotePendingActivity
  <2> PICK t \in BOOLEAN : Settles(k, s, t)
    BY <1>1 DEF InsertActivity, PromotePendingActivity
  <2>2. s # "purged"
    BY DEF EventStatuses, Terminal
  <2>3. CASE s = "confirmed" /\ t
    BY <2>1, <2>2, <2>3 DEF Settles, SetState, Enqueue, bookVars
  <2>4. CASE ~(s = "confirmed" /\ t)
    BY <2>1, <2>2, <2>4 DEF Settles, queueVars, bookVars
  <2>5. QED
    BY <2>3, <2>4
<1>2. ASSUME NEW k \in Activities, Operator(k)
      PROVE  BooksInv'
  <2>1. CASE RetryVerification(k)
    BY <2>1 DEF RetryVerification, Requeueable, SetState, Enqueue, bookVars
  <2>2. CASE ReopenVerification(k)
    BY <2>2 DEF ReopenVerification, Requeueable, SetState, Enqueue
  <2>3. CASE PurgeActivity(k)
    BY <2>3 DEF PurgeActivity, SetState, DeleteJob, EventStatuses, Terminal
  <2>4. QED
    BY <1>2, <2>1, <2>2, <2>3 DEF Operator
<1>3. ASSUME NEW k \in Activities, Time(k)
      PROVE  BooksInv'
  BY <1>3, QuietBooks DEF Time, FallsDue, WindowElapses, queueVars
<1>4. ASSUME NEW w \in Workers, NEW K \in SUBSET Activities,
             ClaimDueJobs(w, K) \/ PassFails(w)
      PROVE  BooksInv'
  BY <1>4, QuietBooks DEF ClaimDueJobs, PassFails, queueVars
<1>5. ASSUME NEW w \in Workers, NEW k \in Activities,
             Resolve(w, k) \/ PersistFails(w, k)
      PROVE  BooksInv'
  BY <1>5, QuietBooks DEF Resolve, PersistFails, queueVars
<1>6. ASSUME NEW w \in Workers, NEW k \in Activities, Persist(w, k)
      PROVE  BooksInv'
  <2>1. CASE RescheduleJob(w, k) \/ CloseMisses(w, k) \/ FinalizeMisses(w, k)
    BY <2>1, QuietBooks DEF RescheduleJob, CloseMisses, FinalizeMisses, queueVars
  <2>2. CASE CloseUnverifiable(w, k)
    BY <2>2 DEF CloseUnverifiable, SetState, DeleteJob, bookVars
  <2>3. CASE CloseDeletes(w, k)
    BY <2>3 DEF CloseDeletes, DeleteJob, activityVars, bookVars
  <2>4. CASE FinalizeVerification(w, k)
    <3>1. verification_state[k] = "queued" /\ status[k] = "confirmed"
      BY <2>4 DEF FinalizeVerification
    <3>2. claim[w][k].step \in Verdicts
      BY <2>4 DEF FinalizeVerification, Persisting
    <3>3. QED
      BY <2>4, <3>1, <3>2 DEF FinalizeVerification, BookVerdict, SetState, StateOf,
                              DeleteJob, Verdicts
  <2>5. QED
    BY <1>6, <2>1, <2>2, <2>3, <2>4 DEF Persist
<1>7. CASE UNCHANGED vars
  BY <1>7, QuietBooks DEF vars, queueVars
<1>8. QED
  BY <1>1, <1>2, <1>3, <1>4, <1>5, <1>6, <1>7 DEF Next, Ingest

\* The books, with what makes them inductive.
LEMMA BooksInvariant == Spec => []BooksInv
<1>1. Init => TypeOK /\ BooksInv
  BY InitTypeOK, InitBooks
<1>2. TypeOK /\ BooksInv /\ [Next]_vars => (TypeOK /\ BooksInv)'
  BY NextTypeOK, NextBooks
<1>3. QED
  BY <1>1, <1>2, PTL DEF Spec

\* However many workers hold copies of its job and however often it is
\* requeued, an activity is in the daily totals once, while it is verified.
THEOREM LaneCountsOnce == Spec => []CountedOnce
<1>1. BooksInv => CountedOnce
  BY DEF BooksInv
<1>2. QED
  BY <1>1, BooksInvariant, PTL

\* An activity carries one strike while it is a mismatch that may strike, and
\* none otherwise.
THEOREM LaneStrikesMismatches == Spec => []StruckIffMismatch
<1>1. BooksInv => StruckIffMismatch
  BY DEF BooksInv
<1>2. QED
  BY <1>1, BooksInvariant, PTL

\* A decided activity has no job left to be claimed again.
THEOREM LaneJobOnlyWhileQueued == Spec => []JobOnlyWhileQueued
<1>1. BooksInv => JobOnlyWhileQueued
  BY DEF BooksInv
<1>2. QED
  BY <1>1, BooksInvariant, PTL

-----------------------------------------------------------------------------
(* The evidence: what is decided agrees with the chain *)

LEMMA InitEvidence == Init => EvidenceInv
BY DEF Init, EvidenceInv, HeldVerdictsSound, StrikeProven, VerifiedLanded,
       NoClaim, Verified

\* Steps that decide nothing and leave in each memory what was there or no
\* verdict at all.
LEMMA QuietEvidence ==
    ASSUME EvidenceInv, UNCHANGED fate,
           \A k \in Activities :
              verification_state'[k] \in {verification_state[k], "none", "queued"},
           \A w \in Workers, k \in Activities :
              claim'[w][k].step = claim[w][k].step \/ claim'[w][k].step \notin Verdicts
    PROVE  EvidenceInv'
<1> USE DEF EvidenceInv
<1>1. HeldVerdictsSound'
  BY DEF HeldVerdictsSound, Verdicts
<1>2. StrikeProven'
  BY DEF StrikeProven
<1>3. VerifiedLanded'
  BY DEF VerifiedLanded, Verified
<1>4. QED
  BY <1>1, <1>2, <1>3

LEMMA NextEvidence == TypeOK /\ EvidenceInv /\ [Next]_vars => EvidenceInv'
<1> SUFFICES ASSUME TypeOK, EvidenceInv, [Next]_vars PROVE EvidenceInv'
  OBVIOUS
<1> USE DEF TypeOK
<1>a. NoClaim.step \notin Verdicts
  BY DEF NoClaim, Verdicts, Verified
<1>1. ASSUME NEW k \in Activities, NEW s \in EventStatuses, NEW tx \in BOOLEAN,
             InsertActivity(k, s, tx) \/ PromotePendingActivity(k, s, tx)
      PROVE  EvidenceInv'
  BY <1>1, QuietEvidence
     DEF InsertActivity, PromotePendingActivity, Settles, SetState
<1>2. ASSUME NEW k \in Activities, Operator(k)
      PROVE  EvidenceInv'
  BY <1>2, QuietEvidence
     DEF Operator, RetryVerification, ReopenVerification, PurgeActivity, SetState
<1>3. ASSUME NEW k \in Activities, Time(k)
      PROVE  EvidenceInv'
  BY <1>3, QuietEvidence DEF Time, FallsDue, WindowElapses, activityVars
<1>4. ASSUME NEW w \in Workers, NEW K \in SUBSET Activities, ClaimDueJobs(w, K)
      PROVE  EvidenceInv'
  <2>1. \A v \in Workers, j \in Activities :
           claim'[v][j].step \in {claim[v][j].step, NoClaim.step, "claimed"}
    BY <1>4 DEF ClaimDueJobs
  <2>2. QED
    BY <1>4, <1>a, <2>1, QuietEvidence DEF ClaimDueJobs, activityVars, Verdicts, Verified
<1>5. ASSUME NEW w \in Workers, PassFails(w)
      PROVE  EvidenceInv'
  <2>1. \A v \in Workers, j \in Activities : claim'[v][j] \in {claim[v][j], NoClaim}
    BY <1>5 DEF PassFails
  <2>2. QED
    BY <1>5, <1>a, <2>1, QuietEvidence DEF PassFails, activityVars
<1>6. ASSUME NEW w \in Workers, NEW k \in Activities, Resolve(w, k)
      PROVE  EvidenceInv'
  <2>1. PICK o \in Outcomes :
           /\ SetStep(w, k, o)
           /\ o = "strike" => fate[k] \in Disproven
           /\ o \in Verified => fate[k] \in Landed
    BY <1>6, ResolveSound
  <2>2. /\ claim'[w][k].step = o
        /\ \A v \in Workers, j \in Activities :
              v # w \/ j # k => claim'[v][j] = claim[v][j]
    BY <2>1, SetStepTyped DEF Steps
  <2>3. HeldVerdictsSound'
    BY <1>6, <2>1, <2>2 DEF EvidenceInv, HeldVerdictsSound, Resolve
  <2>4. QED
    BY <1>6, <2>3 DEF EvidenceInv, StrikeProven, VerifiedLanded, Resolve, activityVars
<1>7. ASSUME NEW w \in Workers, NEW k \in Activities, Persist(w, k)
      PROVE  EvidenceInv'
  <2>1. CASE CloseMisses(w, k)
    <3>1. \A v \in Workers, j \in Activities :
             claim'[v][j] = claim[v][j] \/ claim'[v][j].step = "closing"
      BY <2>1, SetStepTyped DEF CloseMisses, Steps
    <3>2. QED
      BY <2>1, <3>1, QuietEvidence DEF CloseMisses, activityVars, Verdicts, Verified
  <2>2. CASE ~CloseMisses(w, k)
    <3>1. Drop(w, k)
      BY <1>7, <2>2 DEF Persist, RescheduleJob, CloseUnverifiable, CloseDeletes,
                        FinalizeVerification, FinalizeMisses
    <3>2. \A v \in Workers, j \in Activities : claim'[v][j] \in {claim[v][j], NoClaim}
      BY <3>1, DropTyped
    <3>3. CASE FinalizeVerification(w, k)
      <4>1. /\ claim[w][k].step \in Verdicts
            /\ SetState(k, StateOf(claim[w][k].step))
            /\ UNCHANGED fate
        BY <3>3 DEF FinalizeVerification, Persisting, BookVerdict
      <4>2. HeldVerdictsSound'
        BY <1>a, <3>2, <4>1 DEF EvidenceInv, HeldVerdictsSound, Verdicts
      <4>3. StrikeProven' /\ VerifiedLanded'
        BY <4>1 DEF EvidenceInv, HeldVerdictsSound, StrikeProven, VerifiedLanded,
                    SetState, StateOf, Verdicts, Verified, Landed
      <4>4. QED
        BY <4>2, <4>3 DEF EvidenceInv
    <3>4. CASE ~FinalizeVerification(w, k)
      <4>1. UNCHANGED fate /\ \A j \in Activities :
               verification_state'[j] \in {verification_state[j], "none"}
        BY <1>7, <2>2, <3>4 DEF Persist, RescheduleJob, CloseUnverifiable,
           CloseDeletes, FinalizeMisses, SetState, activityVars
      <4>2. QED
        BY <1>a, <3>2, <4>1, QuietEvidence
    <3>5. QED
      BY <3>3, <3>4
  <2>3. QED
    BY <2>1, <2>2
<1>8. ASSUME NEW w \in Workers, NEW k \in Activities, PersistFails(w, k)
      PROVE  EvidenceInv'
  <2>1. \A v \in Workers, j \in Activities : claim'[v][j] \in {claim[v][j], NoClaim}
    BY <1>8, DropTyped DEF PersistFails
  <2>2. QED
    BY <1>8, <1>a, <2>1, QuietEvidence DEF PersistFails, activityVars
<1>9. CASE UNCHANGED vars
  BY <1>9, QuietEvidence DEF vars, activityVars
<1>10. QED
  BY <1>1, <1>2, <1>3, <1>4, <1>5, <1>6, <1>7, <1>8, <1>9 DEF Next, Ingest

LEMMA EvidenceInvariant == Spec => []EvidenceInv
<1>1. Init => TypeOK /\ EvidenceInv
  BY InitTypeOK, InitEvidence
<1>2. TypeOK /\ EvidenceInv /\ [Next]_vars => (TypeOK /\ EvidenceInv)'
  BY NextTypeOK, NextEvidence
<1>3. QED
  BY <1>1, <1>2, PTL DEF Spec

\* A strike is only ever a proven mismatch, whatever the lagging endpoints
\* answer and however stale the verdict a worker persists.
THEOREM LaneStrikesProven == Spec => []StrikeProven
<1>1. EvidenceInv => StrikeProven
  BY DEF EvidenceInv
<1>2. QED
  BY <1>1, EvidenceInvariant, PTL

\* No timeout, error or lapsed window makes a transaction that did not land
\* verified.
THEOREM LaneVerifiedLanded == Spec => []VerifiedLanded
<1>1. EvidenceInv => VerifiedLanded
  BY DEF EvidenceInv
<1>2. QED
  BY <1>1, EvidenceInvariant, PTL

-----------------------------------------------------------------------------
(* Steps: verdicts stand, and the lifecycle is implemented *)

\* What every step does to one activity, seen through the lifecycle: nothing,
\* or one of the moves a caller may rely on.
LEMMA StepKeepsVerdicts ==
    TypeOK /\ BooksInv /\ [Next]_vars =>
        \A k \in Activities : KeepsVerdict(k) /\ KeepsStatus(k)
<1> SUFFICES ASSUME TypeOK, BooksInv, [Next]_vars, NEW j \in Activities
             PROVE  KeepsVerdict(j) /\ KeepsStatus(j)
  OBVIOUS
<1> USE DEF TypeOK, KeepsVerdict, KeepsStatus, Verified
<1>q. ASSUME UNCHANGED activityVars PROVE KeepsVerdict(j) /\ KeepsStatus(j)
  BY <1>q DEF activityVars
<1>1. ASSUME NEW k \in Activities, NEW s \in EventStatuses, NEW tx \in BOOLEAN,
             InsertActivity(k, s, tx) \/ PromotePendingActivity(k, s, tx)
      PROVE  KeepsVerdict(j) /\ KeepsStatus(j)
  <2>1. verification_state[k] = "none" /\ status[k] \notin Terminal
    BY <1>1 DEF InsertActivity, PromotePendingActivity, BooksInv,
                StateNeedsConfirmation, Terminal
  <2> PICK t \in BOOLEAN : Settles(k, s, t)
    BY <1>1 DEF InsertActivity, PromotePendingActivity
  <2>2. /\ j # k => status'[j] = status[j]
        /\ j # k => verification_state'[j] = verification_state[j]
    BY DEF Settles, SetState
  <2>3. QED
    BY <2>1, <2>2
<1>2. ASSUME NEW k \in Activities, Operator(k)
      PROVE  KeepsVerdict(j) /\ KeepsStatus(j)
  BY <1>2 DEF Operator, RetryVerification, ReopenVerification, PurgeActivity,
              Requeueable, SetState
<1>3. ASSUME NEW w \in Workers, NEW k \in Activities,
             CloseUnverifiable(w, k) \/ FinalizeVerification(w, k)
      PROVE  KeepsVerdict(j) /\ KeepsStatus(j)
  <2>1. verification_state[k] = "queued" /\ UNCHANGED status
    BY <1>3 DEF CloseUnverifiable, FinalizeVerification
  <2>2. j # k => verification_state'[j] = verification_state[j]
    BY <1>3 DEF CloseUnverifiable, FinalizeVerification, BookVerdict, SetState
  <2>3. QED
    BY <2>1, <2>2
<1>4. QED
  BY <1>q, <1>1, <1>2, <1>3
     DEF Next, vars, Ingest, Time, FallsDue, WindowElapses, ClaimDueJobs, PassFails,
         Resolve, Persist, RescheduleJob, CloseMisses, CloseDeletes, FinalizeMisses,
         PersistFails

\* A verdict stands until the purge or the operator's reopen, and a terminal
\* status never moves.
THEOREM LaneVerdictsStand == Spec => VerdictStands
<1>1. TypeOK /\ BooksInv /\ [Next]_vars =>
          [\A k \in Activities : KeepsVerdict(k) /\ KeepsStatus(k)]_vars
  BY StepKeepsVerdicts
<1>2. QED
  BY <1>1, LaneTypeCorrect, BooksInvariant, PTL DEF Spec, VerdictStands

-----------------------------------------------------------------------------
(* One worker: what a lease that does not lapse under another pass gives *)

\* At most one verification worker process polls the queue.
OneWorker == \A v, w \in Workers : v = w

\* A job in the worker's memory is of the latest enqueueing, and its activity
\* still waits for it, unless the purge took both.
HeldJobsFresh ==
    \A w \in Workers, k \in Activities : claim[w][k].step # "none" =>
        \/ status[k] = "purged"
        \/ verification_state[k] = "queued" /\ claim[w][k].first = enqueued[k]

\* Only a purged activity makes the worker's closing miss.
ClosingIsPurged ==
    \A w \in Workers, k \in Activities :
        claim[w][k].step = "closing" => status[k] = "purged"

FreshInv == QueuedHasJob /\ HeldJobsFresh /\ ClosingIsPurged

LEMMA InitFresh == Init => FreshInv
BY NoClaimTyped DEF Init, FreshInv, QueuedHasJob, HeldJobsFresh, ClosingIsPurged, NoClaim

\* One activity's share of FreshInv, for the worker w.
Fresh(w, k) ==
    /\ verification_state[k] = "queued" => k \in jobs
    /\ claim[w][k].step # "none" =>
          \/ status[k] = "purged"
          \/ verification_state[k] = "queued" /\ claim[w][k].first = enqueued[k]
    /\ claim[w][k].step = "closing" => status[k] = "purged"

\* What a pass has not claimed, or has dropped, it cannot decide.
LEMMA FreshWithoutClaim ==
    ASSUME NEW w \in Workers, NEW k \in Activities, claim[w][k] = NoClaim,
           verification_state[k] = "queued" => k \in jobs
    PROVE  Fresh(w, k)
BY DEF Fresh, NoClaim

\* A step that leaves the activity and the claim on it alone.
LEMMA FreshUntouched ==
    ASSUME NEW w \in Workers, NEW k \in Activities, Fresh(w, k),
           claim'[w][k] = claim[w][k], status'[k] = status[k],
           verification_state'[k] = verification_state[k],
           k \in jobs => k \in jobs', enqueued'[k] = enqueued[k]
    PROVE  Fresh(w, k)'
BY DEF Fresh

LEMMA NextFresh ==
    ASSUME OneWorker, TypeOK, BooksInv, FreshInv, [Next]_vars
    PROVE  FreshInv'
<1>0. SUFFICES ASSUME \A w \in Workers, k \in Activities : Fresh(w, k),
                      \A k \in Activities : verification_state[k] = "queued" => k \in jobs,
                      NEW j \in Activities
               PROVE  /\ verification_state'[j] = "queued" => j \in jobs'
                      /\ \A v \in Workers : Fresh(v, j)'
  BY DEF FreshInv, QueuedHasJob, HeldJobsFresh, ClosingIsPurged, Fresh
<1> DEFINE Goal == /\ verification_state'[j] = "queued" => j \in jobs'
                   /\ \A v \in Workers : Fresh(v, j)'
<1>t. /\ claim \in [Workers -> [Activities -> Claims]]
      /\ status \in [Activities -> Statuses]
      /\ verification_state \in [Activities -> VerificationStates]
      /\ enqueued \in [Activities -> Nat] /\ due \subseteq jobs /\ jobs \subseteq Activities
  BY DEF TypeOK
<1>u. ASSUME \A v \in Workers : claim'[v][j] = claim[v][j], status'[j] = status[j],
             verification_state'[j] = verification_state[j],
             j \in jobs => j \in jobs', enqueued'[j] = enqueued[j]
      PROVE  Goal
  BY <1>0, <1>u, FreshUntouched
<1>1. ASSUME NEW k \in Activities, NEW s \in EventStatuses, NEW tx \in BOOLEAN,
             InsertActivity(k, s, tx) \/ PromotePendingActivity(k, s, tx)
      PROVE  Goal
  <2>1. PICK t \in BOOLEAN : Settles(k, s, t)
    BY <1>1 DEF InsertActivity, PromotePendingActivity
  <2>2. /\ verification_state[k] = "none" /\ status[k] # "purged"
    BY <1>1 DEF InsertActivity, PromotePendingActivity, BooksInv, StateNeedsConfirmation
  <2>3. claim' = claim /\ j # k => Goal
    BY <2>1, <1>t, <1>u DEF Settles, SetState, Enqueue, queueVars
  <2>4. claim' = claim
    BY <2>1 DEF Settles
  <2>5. CASE j = k
    <3>1. \A v \in Workers : claim[v][j].step = "none"
      BY <1>0, <2>2, <2>5 DEF Fresh
    <3>2. verification_state'[j] = "queued" => j \in jobs'
      BY <1>t, <2>1, <2>2, <2>5 DEF Settles, SetState, Enqueue, queueVars
    <3>3. QED
      BY <2>4, <3>1, <3>2 DEF Fresh
  <2>6. QED
    BY <2>3, <2>4, <2>5
<1>2. ASSUME NEW k \in Activities, RetryVerification(k) \/ ReopenVerification(k)
      PROVE  Goal
  <2>1. /\ verification_state[k] # "queued" /\ status[k] # "purged"
        /\ SetState(k, "queued") /\ Enqueue(k) /\ UNCHANGED <<status, claim>>
    BY <1>2 DEF RetryVerification, ReopenVerification, Requeueable
  <2>2. CASE j = k
    <3>1. \A v \in Workers : claim[v][j].step = "none"
      BY <1>0, <2>1, <2>2 DEF Fresh
    <3>2. j \in jobs'
      BY <2>1, <2>2 DEF Enqueue
    <3>3. QED
      BY <2>1, <3>1, <3>2 DEF Fresh
  <2>3. CASE j # k
    BY <1>t, <1>u, <2>1, <2>3 DEF SetState, Enqueue
  <2>4. QED
    BY <2>2, <2>3
<1>3. ASSUME NEW k \in Activities, PurgeActivity(k)
      PROVE  Goal
  <2>1. CASE j = k
    <3>1. status'[j] = "purged" /\ verification_state'[j] = "none"
      BY <1>3, <1>t, <2>1 DEF PurgeActivity, SetState
    <3>2. QED
      BY <3>1 DEF Fresh
  <2>2. CASE j # k
    BY <1>3, <1>t, <1>u, <2>2 DEF PurgeActivity, SetState, DeleteJob
  <2>3. QED
    BY <2>1, <2>2
<1>4. ASSUME NEW k \in Activities, Time(k)
      PROVE  Goal
  BY <1>4, <1>u DEF Time, FallsDue, WindowElapses, activityVars, queueVars
<1>5. ASSUME NEW w \in Workers, NEW K \in SUBSET Activities, ClaimDueJobs(w, K)
      PROVE  Goal
  <2>1. /\ UNCHANGED <<status, verification_state, jobs, enqueued>>
        /\ K \subseteq jobs
    BY <1>5, <1>t DEF ClaimDueJobs, activityVars
  <2>2. \A v \in Workers : v = w
    BY DEF OneWorker
  <2>3. CASE j \in K /\ status[j] # "superseded_unproven"
    <3>1. /\ claim'[w][j].step = "claimed" /\ claim'[w][j].first = enqueued[j]
          /\ verification_state[j] = "queued"
      BY <1>5, <1>t, <2>1, <2>3 DEF ClaimDueJobs, BooksInv, JobOnlyWhileQueued
    <3>2. QED
      BY <1>0, <2>1, <2>2, <3>1 DEF Fresh
  <2>4. CASE ~(j \in K /\ status[j] # "superseded_unproven")
    <3>1. claim'[w][j] = NoClaim
      BY <1>5, <1>t, <2>4 DEF ClaimDueJobs
    <3>2. QED
      BY <1>0, <2>1, <2>2, <3>1 DEF Fresh, NoClaim
  <2>5. QED
    BY <2>3, <2>4
<1>6. ASSUME NEW w \in Workers, PassFails(w)
      PROVE  Goal
  <2>1. /\ UNCHANGED <<status, verification_state, jobs, enqueued>>
        /\ claim'[w][j] = NoClaim
    BY <1>6, <1>t DEF PassFails, activityVars, queueVars
  <2>2. \A v \in Workers : v = w
    BY DEF OneWorker
  <2>3. QED
    BY <1>0, <2>1, <2>2 DEF Fresh, NoClaim
<1>7. ASSUME NEW w \in Workers, NEW k \in Activities, Resolve(w, k)
      PROVE  Goal
  <2>1. PICK o \in Outcomes : SetStep(w, k, o)
    BY <1>7, ResolveSound
  <2>2. /\ UNCHANGED <<status, verification_state, jobs, enqueued>>
        /\ claim[w][k].step = "claimed"
    BY <1>7 DEF Resolve, activityVars, queueVars
  <2>3. /\ claim'[w][k].step = o /\ claim'[w][k].first = claim[w][k].first
        /\ \A v \in Workers, i \in Activities :
             v # w \/ i # k => claim'[v][i] = claim[v][i]
    <3>1. claim[w][k] \in Claims
      BY <1>t
    <3>2. claim'[w][k] = [claim[w][k] EXCEPT !.step = o]
      BY <1>t, <2>1 DEF SetStep
    <3>3. claim'[w][k].first = claim[w][k].first
      BY <3>1, <3>2 DEF Claims
    <3>4. QED
      BY <1>t, <2>1, <3>3, SetStepTyped DEF Steps
  <2>4. CASE j = k
    <3>1. o # "closing"
      BY DEF Outcomes, Verdicts, Verified
    <3>2. Fresh(w, j) /\ \A v \in Workers : v = w
      BY <1>0 DEF OneWorker
    <3>3. QED
      BY <1>0, <2>2, <2>3, <2>4, <3>1, <3>2 DEF Fresh
  <2>5. CASE j # k
    BY <1>u, <2>2, <2>3, <2>5
  <2>6. QED
    BY <2>4, <2>5
<1>8. ASSUME NEW w \in Workers, NEW k \in Activities,
             \/ RescheduleJob(w, k) \/ FinalizeMisses(w, k) \/ PersistFails(w, k)
      PROVE  Goal
  <2>1. /\ UNCHANGED <<status, verification_state, jobs, enqueued>> /\ Drop(w, k)
    BY <1>8 DEF RescheduleJob, FinalizeMisses, PersistFails, activityVars, queueVars
  <2>2. /\ claim'[w][k] = NoClaim
        /\ \A v \in Workers, i \in Activities :
             v # w \/ i # k => claim'[v][i] = claim[v][i]
    BY <1>t, <2>1, DropTyped
  <2>3. CASE j = k
    <3>1. \A v \in Workers : v = w
      BY DEF OneWorker
    <3>2. QED
      BY <1>0, <2>1, <2>2, <2>3, <3>1 DEF Fresh, NoClaim
  <2>4. CASE j # k
    BY <1>u, <2>1, <2>2, <2>4
  <2>5. QED
    BY <2>3, <2>4
<1>9. ASSUME NEW w \in Workers, NEW k \in Activities, CloseMisses(w, k)
      PROVE  Goal
  <2>1. /\ UNCHANGED <<status, verification_state, jobs, enqueued>>
        /\ SetStep(w, k, "closing") /\ claim[w][k].step = "close"
        /\ verification_state[k] # "queued"
    BY <1>9 DEF CloseMisses, Persisting, activityVars, queueVars
  <2>2. /\ \A v \in Workers, i \in Activities :
             v # w \/ i # k => claim'[v][i] = claim[v][i]
    BY <1>t, <2>1, SetStepTyped DEF Steps
  <2>3. CASE j = k
    <3>1. status[k] = "purged" /\ \A v \in Workers : v = w
      BY <1>0, <2>1 DEF Fresh, OneWorker
    <3>2. QED
      BY <1>0, <2>1, <2>3, <3>1 DEF Fresh
  <2>4. CASE j # k
    BY <1>u, <2>1, <2>2, <2>4
  <2>5. QED
    BY <2>3, <2>4
<1>10. ASSUME NEW w \in Workers, NEW k \in Activities,
              CloseUnverifiable(w, k) \/ CloseDeletes(w, k) \/ FinalizeVerification(w, k)
       PROVE  Goal
  <2>1. DeleteJob(k) /\ Drop(w, k) /\ status' = status
    BY <1>10 DEF CloseUnverifiable, CloseDeletes, FinalizeVerification, activityVars
  <2>2. /\ claim'[w][k] = NoClaim
        /\ \A v \in Workers, i \in Activities :
             v # w \/ i # k => claim'[v][i] = claim[v][i]
    BY <1>t, <2>1, DropTyped
  <2>3. /\ verification_state'[k] # "queued"
        /\ \A i \in Activities : i # k => verification_state'[i] = verification_state[i]
    <3>1. CASE CloseUnverifiable(w, k)
      BY <1>t, <3>1 DEF CloseUnverifiable, SetState
    <3>2. CASE CloseDeletes(w, k)
      <4>1. status[k] = "purged"
        BY <1>0, <3>2 DEF CloseDeletes, Fresh
      <4>2. verification_state[k] # "queued"
        BY <4>1 DEF BooksInv, StateNeedsConfirmation
      <4>3. QED
        BY <3>2, <4>2 DEF CloseDeletes, activityVars
    <3>3. CASE FinalizeVerification(w, k)
      <4>1. claim[w][k].step \in Verdicts
        BY <3>3 DEF FinalizeVerification, Persisting
      <4>2. StateOf(claim[w][k].step) # "queued"
        BY <4>1 DEF StateOf, Verdicts, Verified
      <4>3. QED
        BY <1>t, <3>3, <4>2 DEF FinalizeVerification, BookVerdict, SetState
    <3>4. QED
      BY <1>10, <3>1, <3>2, <3>3
  <2>4. CASE j = k
    <3>1. \A v \in Workers : v = w
      BY DEF OneWorker
    <3>2. QED
      BY <2>2, <2>3, <2>4, <3>1 DEF Fresh, NoClaim
  <2>5. CASE j # k
    BY <1>u, <2>1, <2>2, <2>3, <2>5 DEF DeleteJob
  <2>6. QED
    BY <2>4, <2>5
<1>11. CASE UNCHANGED vars
  BY <1>u, <1>11 DEF vars, activityVars, queueVars
<1>12. QED
  BY <1>1, <1>2, <1>3, <1>4, <1>5, <1>6, <1>7, <1>8, <1>9, <1>10, <1>11
     DEF Next, Ingest, Operator, Persist

\* The lane of one worker: its passes neither lose nor outlive a job.
LEMMA FreshInvariant == ASSUME OneWorker PROVE Spec => []FreshInv
<1>1. TypeOK /\ BooksInv /\ FreshInv /\ [Next]_vars => FreshInv'
  BY NextFresh
<1>2. QED
  BY <1>1, InitFresh, LaneTypeCorrect, BooksInvariant, PTL DEF Spec

\* With one worker a queued activity always has the job that will decide it:
\* no pass deletes a job that a requeue has put there anew.
THEOREM LaneQueuedHasJob == ASSUME OneWorker PROVE Spec => []QueuedHasJob
<1>1. FreshInv => QueuedHasJob
  BY DEF FreshInv
<1>2. QED
  BY <1>1, FreshInvariant, PTL

\* With one worker no decision rests on evidence from before the latest
\* enqueueing.
THEOREM LaneDecidesOnFreshEvidence ==
    ASSUME OneWorker PROVE Spec => DecidedOnFreshEvidence
<1>1. TypeOK /\ BooksInv /\ FreshInv /\ [Next]_vars =>
          [\A w \in Workers, k \in Activities :
              CloseUnverifiable(w, k) \/ FinalizeVerification(w, k) =>
                  claim[w][k].first = enqueued[k]]_vars
  <2>1. SUFFICES ASSUME BooksInv, FreshInv, NEW w \in Workers, NEW k \in Activities,
                        CloseUnverifiable(w, k) \/ FinalizeVerification(w, k)
                 PROVE  claim[w][k].first = enqueued[k]
    OBVIOUS
  <2>2. verification_state[k] = "queued" /\ claim[w][k].step # "none"
    BY <2>1 DEF CloseUnverifiable, FinalizeVerification, Persisting, Verdicts, Verified
  <2>3. status[k] # "purged"
    BY <2>1, <2>2 DEF BooksInv, StateNeedsConfirmation
  <2>4. QED
    BY <2>1, <2>2, <2>3 DEF FreshInv, HeldJobsFresh
<1>2. QED
  BY <1>1, FreshInvariant, LaneTypeCorrect, BooksInvariant, PTL
     DEF Spec, DecidedOnFreshEvidence

-----------------------------------------------------------------------------
(* The lane implements the lifecycle *)

LEMMA PhaseTyped ==
    ASSUME NEW s \in Statuses, NEW v \in VerificationStates
    PROVE  /\ PhaseIn(s, v) \in Lifecycle!Phases
           /\ PhaseIn(s, v) = "unseen" => s = "unseen"
           /\ PhaseIn(s, v) = "purged" => s = "purged"
BY DEF PhaseIn, Lifecycle!Phases, Statuses

\* A step that touches the status and state of k alone moves k alone.
LEMMA MovesPhase ==
    ASSUME NEW k \in Activities, NEW from, NEW to,
           \A j \in Activities \ {k} :
              status'[j] = status[j] /\ verification_state'[j] = verification_state[j],
           PhaseIn(status[k], verification_state[k]) \in from,
           PhaseIn(status'[k], verification_state'[k]) \in to
    PROVE  Lifecycle!Move(k, from, to)
<1> DEFINE p == PhaseIn(status'[k], verification_state'[k])
<1>1. Phase' = [Phase EXCEPT ![k] = p]
  BY DEF Phase
<1>2. Phase[k] \in from
  BY DEF Phase
<1>3. QED
  BY <1>1, <1>2 DEF Lifecycle!Move

LEMMA InitLifecycle == Init => Lifecycle!LifecycleInit
BY DEF Init, Lifecycle!LifecycleInit, Phase, PhaseIn

LEMMA StepLifecycle ==
    TypeOK /\ BooksInv /\ [Next]_vars =>
        [Lifecycle!LifecycleNext]_(Lifecycle!lifecycleVars)
<1> DEFINE Lift == [Lifecycle!LifecycleNext]_(Lifecycle!lifecycleVars)
<1> SUFFICES ASSUME TypeOK, BooksInv, [Next]_vars PROVE Lift
  OBVIOUS
<1> USE DEF TypeOK
<1>q. ASSUME UNCHANGED <<activityVars, bookVars>> PROVE Lift
  BY <1>q DEF activityVars, bookVars, Phase, Lifecycle!lifecycleVars
<1>1. ASSUME NEW k \in Activities, NEW s \in EventStatuses, NEW tx \in BOOLEAN,
             InsertActivity(k, s, tx) \/ PromotePendingActivity(k, s, tx)
      PROVE  Lift
  <2> PICK t \in BOOLEAN : Settles(k, s, t)
    BY <1>1 DEF InsertActivity, PromotePendingActivity
  <2>1. /\ \A j \in Activities \ {k} :
              status'[j] = status[j] /\ verification_state'[j] = verification_state[j]
        /\ status'[k] = s
        /\ verification_state'[k] \in {verification_state[k], "queued"}
        /\ UNCHANGED bookVars
    BY DEF Settles, SetState
  <2>2. verification_state[k] = "none"
    BY <1>1 DEF InsertActivity, PromotePendingActivity, BooksInv, StateNeedsConfirmation
  <2>3. PhaseIn(status'[k], verification_state'[k]) \in
            IF s = "pending" THEN {"pending"} ELSE {"unverified", "queued"}
    BY <2>1, <2>2 DEF PhaseIn, EventStatuses, Terminal, Verified
  <2>4. CASE InsertActivity(k, s, tx)
    <3>1. PhaseIn(status[k], verification_state[k]) \in {"unseen"}
      BY <2>4 DEF InsertActivity, PhaseIn
    <3>2. Lifecycle!Move(k, {"unseen"}, {"pending", "unverified", "queued"})
      BY <2>1, <2>3, <3>1, MovesPhase
    <3>3. QED
      BY <2>1, <3>2 DEF Lifecycle!Arrive, Lifecycle!LifecycleNext, bookVars
  <2>5. CASE PromotePendingActivity(k, s, tx)
    <3>1. PhaseIn(status[k], verification_state[k]) \in {"pending"} /\ s # "pending"
      BY <2>5 DEF PromotePendingActivity, PhaseIn, Terminal
    <3>2. Lifecycle!Move(k, {"pending"}, {"unverified", "queued"})
      BY <2>1, <2>3, <3>1, MovesPhase
    <3>3. QED
      BY <2>1, <3>2 DEF Lifecycle!Settle, Lifecycle!LifecycleNext, bookVars
  <2>6. QED
    BY <1>1, <2>4, <2>5
<1>2. ASSUME NEW k \in Activities, RetryVerification(k) \/ ReopenVerification(k)
      PROVE  Lift
  <2>1. /\ \A j \in Activities \ {k} :
              status'[j] = status[j] /\ verification_state'[j] = verification_state[j]
        /\ status[k] = "confirmed" /\ status'[k] = "confirmed"
        /\ verification_state[k] \in {"none", "mismatch"}
        /\ verification_state'[k] = "queued"
    BY <1>2 DEF RetryVerification, ReopenVerification, Requeueable, SetState
  <2>2. Lifecycle!Move(k, {"unverified", "refuted"}, {"queued"})
    <3>1. PhaseIn(status[k], verification_state[k]) \in {"unverified", "refuted"}
      BY <2>1 DEF PhaseIn, Verified
    <3>2. PhaseIn(status'[k], verification_state'[k]) \in {"queued"}
      BY <2>1 DEF PhaseIn
    <3>3. QED
      BY <2>1, <3>1, <3>2, MovesPhase
  <2>3. strikes' = [strikes EXCEPT ![k] = 0] /\ UNCHANGED counted
    <3>1. CASE RetryVerification(k)
      <4>1. strikes[k] = 0
        BY <3>1 DEF RetryVerification, Requeueable, BooksInv, StruckIffMismatch
      <4>2. QED
        BY <3>1, <4>1 DEF RetryVerification, bookVars
    <3>2. CASE ReopenVerification(k)
      BY <3>2 DEF ReopenVerification
    <3>3. QED
      BY <1>2, <3>1, <3>2
  <2>4. QED
    BY <2>2, <2>3 DEF Lifecycle!LookAgain, Lifecycle!LifecycleNext
<1>3. ASSUME NEW k \in Activities, PurgeActivity(k)
      PROVE  Lift
  <2>1. /\ \A j \in Activities \ {k} :
              status'[j] = status[j] /\ verification_state'[j] = verification_state[j]
        /\ status[k] \in EventStatuses /\ status'[k] = "purged"
    BY <1>3 DEF PurgeActivity, SetState
  <2>2. PhaseIn(status[k], verification_state[k]) \in Lifecycle!Phases \ {"unseen", "purged"}
    BY <2>1, PhaseTyped DEF EventStatuses, Terminal
  <2>3. PhaseIn(status'[k], verification_state'[k]) \in {"purged"}
    BY <2>1 DEF PhaseIn
  <2>4. Lifecycle!Move(k, Lifecycle!Phases \ {"unseen", "purged"}, {"purged"})
    BY <2>1, <2>2, <2>3, MovesPhase
  <2>5. QED
    BY <1>3, <2>4 DEF PurgeActivity, Lifecycle!Forget, Lifecycle!LifecycleNext
<1>4. ASSUME NEW w \in Workers, NEW k \in Activities, CloseUnverifiable(w, k)
      PROVE  Lift
  <2>1. /\ \A j \in Activities \ {k} :
              status'[j] = status[j] /\ verification_state'[j] = verification_state[j]
        /\ status[k] = "confirmed" /\ status'[k] = "confirmed"
        /\ verification_state[k] = "queued" /\ verification_state'[k] = "none"
    BY <1>4 DEF CloseUnverifiable, SetState, BooksInv, StateNeedsConfirmation
  <2>2. Lifecycle!Move(k, {"queued"}, {"unverified"})
    BY <2>1, MovesPhase DEF PhaseIn, Verified
  <2>3. QED
    BY <1>4, <2>2 DEF CloseUnverifiable, Lifecycle!GiveUp, Lifecycle!LifecycleNext,
                      bookVars
<1>5. ASSUME NEW w \in Workers, NEW k \in Activities, FinalizeVerification(w, k)
      PROVE  Lift
  <2> DEFINE verdict == claim[w][k].step
  <2>1. verdict \in Verdicts /\ BookVerdict(k, verdict)
    BY <1>5 DEF FinalizeVerification, Persisting
  <2>2. /\ \A j \in Activities \ {k} :
              status'[j] = status[j] /\ verification_state'[j] = verification_state[j]
        /\ status[k] = "confirmed" /\ status'[k] = "confirmed"
        /\ verification_state[k] = "queued" /\ verification_state'[k] = StateOf(verdict)
    BY <1>5, <2>1 DEF FinalizeVerification, BookVerdict, SetState, BooksInv,
                      StateNeedsConfirmation
  <2> HIDE DEF verdict
  <2>3. PhaseIn(status[k], verification_state[k]) \in {"queued"}
    BY <2>2 DEF PhaseIn
  <2>4. CASE verdict = "strike"
    <3>1. PhaseIn(status'[k], verification_state'[k]) \in {"refuted"}
      BY <2>2, <2>4 DEF PhaseIn, StateOf, Verified
    <3>2. Lifecycle!Move(k, {"queued"}, {"refuted"})
      BY <2>2, <2>3, <3>1, MovesPhase
    <3>3. /\ strikes' = [strikes EXCEPT ![k] = IF k \in LaunchShaped THEN @ ELSE @ + 1]
          /\ UNCHANGED counted
      BY <2>1, <2>4 DEF BookVerdict
    <3>4. QED
      BY <3>2, <3>3 DEF Lifecycle!Refute, Lifecycle!LifecycleNext
  <2>5. CASE verdict # "strike"
    <3>1. PhaseIn(status'[k], verification_state'[k]) \in {"verified"}
      BY <2>1, <2>2, <2>5 DEF PhaseIn, StateOf, Verdicts, Verified
    <3>2. Lifecycle!Move(k, {"queued"}, {"verified"})
      BY <2>2, <2>3, <3>1, MovesPhase
    <3>3. counted' = [counted EXCEPT ![k] = @ + 1] /\ UNCHANGED strikes
      BY <2>1, <2>5 DEF BookVerdict
    <3>4. QED
      BY <3>2, <3>3 DEF Lifecycle!Verify, Lifecycle!LifecycleNext
  <2>6. QED
    BY <2>4, <2>5
<1>6. QED
  BY <1>q, <1>1, <1>2, <1>3, <1>4, <1>5
     DEF Next, vars, Ingest, Operator, Time, FallsDue, WindowElapses, ClaimDueJobs,
         PassFails, Resolve, Persist, RescheduleJob, CloseMisses, CloseDeletes,
         FinalizeMisses, PersistFails

\* The lane, with its queue, leases, stale claims and failures, does to an
\* activity only what the lifecycle allows.
THEOREM LaneImplementsLifecycle == Spec => ImplementsLifecycle
<1>1. QED
  BY InitLifecycle, StepLifecycle, LaneTypeCorrect, BooksInvariant, PTL
     DEF Spec, ImplementsLifecycle, Lifecycle!LifecycleSpec

=============================================================================
