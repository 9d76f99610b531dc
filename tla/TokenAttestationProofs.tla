----------------------- MODULE TokenAttestationProofs -----------------------
(***************************************************************************)
(* Theorems about token attestations, for any signers, transactions,       *)
(* requests, workers, caps and number of failures.  A claimed job carries  *)
(* the hint its row had; that the row still has it when the verdict is     *)
(* written, because a hint is given once, makes the verdict one about the  *)
(* row.  That the caps hold rests on the advisory lock: the request that   *)
(* found room is the only one that can take it.                            *)
(***************************************************************************)
EXTENDS TokenAttestation, FiniteSetTheorems, WellFoundedInduction,
        NaturalsInduction, TLAPS

\* x is a confirmed creation of the token by s, from an allowlisted factory.
Proven(x, s) ==
    /\ x \in Txs /\ x \in confirmed /\ ~truth[x].reverted
    /\ \E e \in truth[x].events : e.named /\ e.emitter \in Allowlist /\ e.creator = s

\* A job is for a stored row, speaks of its hint, and only of a proven one as
\* verified.
JobsSound ==
    \A w \in Workers, s \in Signers :
        /\ job[w][s].step # "none" => row[s].there
        /\ job[w][s].hint # None => row[s].hint = job[w][s].hint
        /\ job[w][s].step = "verified" => Proven(job[w][s].hint, s)

\* A request that holds the lock has its signer.
SubmissionsCarry ==
    \A q \in Requests : submission[q].step \in {"locked", "inserting"} =>
        submission[q].signer \in Signers

AbsentIsEmpty == \A s \in Signers : ~row[s].there => row[s] = NoRow

EvidenceInv == TypeOK /\ AbsentIsEmpty /\ JobsSound /\ VerifiedIsProven

\* One request at a time is between its count and its insert.
LockIsHeld ==
    \A q \in Requests : submission[q].step \in {"locked", "inserting"} => submitLock = q

RoomIsKept ==
    \A q \in Requests : submission[q].step = "inserting" => ~CapReached(submission[q].ip)

CapsInv == LockIsHeld /\ RoomIsKept /\ PendingWithinCaps

-----------------------------------------------------------------------------
(* Fields of the stored records *)

LEMMA RowFields ==
    ASSUME TypeOK, NEW s \in Signers
    PROVE  /\ row[s] \in RowValues /\ row[s].there \in BOOLEAN
           /\ row[s].status \in VerifyStatuses /\ row[s].hint \in Txs \cup {None}
           /\ row[s].derived \in Txs \cup {None} /\ row[s].ip \in Ips \cup {None}
           /\ row[s].revoked \in BOOLEAN
<1>1. row[s] \in RowValues
  BY DEF TypeOK
<1>2. QED
  BY <1>1 DEF RowValues

LEMMA JobFields ==
    ASSUME TypeOK, NEW w \in Workers, NEW s \in Signers
    PROVE  /\ job[w][s] \in Jobs /\ job[w][s].hint \in Txs \cup {None}
           /\ job[w][s].step \in {"none", "claimed"} \cup Outcomes
<1>1. job[w][s] \in Jobs
  BY DEF TypeOK
<1>2. QED
  BY <1>1 DEF Jobs

LEMMA SubmissionFields ==
    ASSUME TypeOK, NEW q \in Requests
    PROVE  /\ submission[q] \in Submissions
           /\ submission[q].signer \in Signers \cup {None}
           /\ submission[q].ip \in Ips \cup {None}
           /\ submission[q].hint \in Txs \cup {None}
<1>1. submission[q] \in Submissions
  BY DEF TypeOK
<1>2. QED
  BY <1>1 DEF Submissions

LEMMA FinishTyped ==
    ASSUME TypeOK, NEW q \in Requests, Finish(q)
    PROVE  /\ submission' \in [Requests -> Submissions]
           /\ submitLock' \in Requests \cup {None}
           /\ submission'[q].step = "done"
           /\ \A p \in Requests : p # q => submission'[p] = submission[p]
           /\ submitLock' = IF submitLock = q THEN None ELSE submitLock
<1> DEFINE done == [NoSubmission EXCEPT !.step = "done"]
<1>1. done \in Submissions /\ done.step = "done"
  BY DEF NoSubmission, Submissions, SubmissionSteps
<1>2. submission' = [submission EXCEPT ![q] = done]
  BY DEF Finish
<1> HIDE DEF done
<1>3. QED
  BY <1>1, <1>2 DEF Finish, TypeOK

\* A job of one worker for one signer takes another value.
LEMMA JobReplaced ==
    ASSUME TypeOK, NEW w \in Workers, NEW s \in Signers, NEW j \in Jobs,
           job' = [job EXCEPT ![w][s] = j]
    PROVE  /\ job' \in [Workers -> [Signers -> Jobs]] /\ job'[w][s] = j
           /\ \A v \in Workers, u \in Signers : v # w \/ u # s => job'[v][u] = job[v][u]
BY DEF TypeOK

-----------------------------------------------------------------------------
(* Evidence *)

\* A verdict is reached on a confirmed receipt only.
LEMMA VerdictIsProven ==
    ASSUME TypeOK, NEW s \in Signers, NEW x \in Txs \cup {None},
           "verified" \in OutcomesOf(s, x)
    PROVE  Proven(x, s)
<1>1. x \in confirmed /\ EvaluateAttestation(truth[x], s) = "verified"
  BY DEF OutcomesOf
<1>2. x \in Txs
  BY <1>1 DEF TypeOK
<1>3. ~truth[x].reverted /\ \E e \in FromFactory(truth[x]) : e.creator = s
  BY <1>1 DEF EvaluateAttestation
<1>4. QED
  BY <1>1, <1>2, <1>3 DEF Proven, FromFactory, NamingToken

LEMMA OutcomesTyped ==
    ASSUME NEW s, NEW x
    PROVE  OutcomesOf(s, x) \subseteq Outcomes
BY DEF OutcomesOf, Outcomes, EvaluateAttestation

LEMMA InitEvidence == Init => EvidenceInv
<1> SUFFICES ASSUME Init PROVE EvidenceInv
  OBVIOUS
<1>1. NoRow \in RowValues /\ NoSubmission \in Submissions /\ NoJob \in Jobs
  BY DEF NoRow, RowValues, VerifyStatuses, NoSubmission, Submissions, SubmissionSteps, NoJob, Jobs
<1>2. TypeOK
  BY <1>1 DEF Init, TypeOK
<1>3. JobsSound /\ AbsentIsEmpty /\ VerifiedIsProven
  BY DEF Init, JobsSound, AbsentIsEmpty, VerifiedIsProven, NoJob, NoRow
<1>4. QED
  BY <1>2, <1>3 DEF EvidenceInv

\* The steps that write no row: jobs are as they were, or forgotten, or sound.
LEMMA EvidenceKept ==
    ASSUME EvidenceInv, TypeOK', row' = row, truth' = truth, confirmed \subseteq confirmed',
           \A w \in Workers, s \in Signers :
              \/ job'[w][s] = job[w][s]
              \/ job'[w][s] = NoJob
              \/ /\ row[s].there
                 /\ job'[w][s].hint # None => row[s].hint = job'[w][s].hint
                 /\ job'[w][s].step = "verified" => Proven(job'[w][s].hint, s)
    PROVE  EvidenceInv'
<1>1. ASSUME NEW x, NEW s, Proven(x, s) PROVE Proven(x, s)'
  BY <1>1 DEF Proven
<1>2. JobsSound'
  <2>1. SUFFICES ASSUME NEW w \in Workers, NEW s \in Signers
                 PROVE  /\ job'[w][s].step # "none" => row'[s].there
                        /\ job'[w][s].hint # None => row'[s].hint = job'[w][s].hint
                        /\ job'[w][s].step = "verified" => Proven(job[w][s].hint, s)'
    BY DEF JobsSound
  <2>2. CASE job'[w][s] = job[w][s]
    BY <1>1, <2>2 DEF EvidenceInv, JobsSound
  <2>3. CASE job'[w][s] = NoJob
    BY <2>3 DEF NoJob
  <2>4. CASE /\ row[s].there
             /\ job'[w][s].hint # None => row[s].hint = job'[w][s].hint
             /\ job'[w][s].step = "verified" => Proven(job'[w][s].hint, s)
    BY <1>1, <2>4 DEF Proven
  <2>5. QED
    BY <2>2, <2>3, <2>4
<1>3. AbsentIsEmpty' /\ VerifiedIsProven'
  BY DEF EvidenceInv, AbsentIsEmpty, VerifiedIsProven
<1>4. QED
  BY <1>2, <1>3 DEF EvidenceInv

\* The steps that write the row of one signer: its hint is given once.
LEMMA EvidenceOfRow ==
    ASSUME EvidenceInv, TypeOK', NEW s \in Signers, UNCHANGED chainVars,
           \A u \in Signers : u # s => row'[u] = row[u],
           row'[s].there, row[s].hint # None => row'[s].hint = row[s].hint,
           row'[s].status = "verified" => row'[s].derived = row'[s].hint /\ Proven(row'[s].derived, s),
           \A w \in Workers, u \in Signers :
              job'[w][u] = job[w][u] \/ job'[w][u] = NoJob
    PROVE  EvidenceInv'
<1>1. JobsSound'
  <2>1. SUFFICES ASSUME NEW w \in Workers, NEW u \in Signers, job'[w][u] = job[w][u]
                 PROVE  /\ job'[w][u].step # "none" => row'[u].there
                        /\ job'[w][u].hint # None => row'[u].hint = job'[w][u].hint
                        /\ job'[w][u].step = "verified" => Proven(job[w][u].hint, u)'
    BY DEF JobsSound, NoJob
  <2>2. QED
    BY <2>1 DEF EvidenceInv, JobsSound, Proven, chainVars
<1>2. AbsentIsEmpty' /\ VerifiedIsProven'
  BY DEF EvidenceInv, AbsentIsEmpty, VerifiedIsProven, Proven, chainVars
<1>3. QED
  BY <1>1, <1>2 DEF EvidenceInv

LEMMA NextEvidence == EvidenceInv /\ SubmissionsCarry /\ [Next]_vars => EvidenceInv'
<1> SUFFICES ASSUME EvidenceInv, SubmissionsCarry, [Next]_vars PROVE EvidenceInv'
  OBVIOUS
<1> USE DEF chainVars, rowVars, requestVars
<1>t. TypeOK
  BY DEF EvidenceInv
<1>j. NoJob \in Jobs /\ NoRow \in RowValues
  BY DEF NoJob, Jobs, NoRow, RowValues, VerifyStatuses
<1>1. ASSUME NEW x \in Txs, Confirm(x)
      PROVE  EvidenceInv'
  <2>1. TypeOK'
    BY <1>1, <1>t DEF Confirm, TypeOK
  <2>2. QED
    BY <1>1, <2>1, EvidenceKept DEF Confirm
<1>2. ASSUME NEW s \in Signers, FallsDue(s) \/ RowAges(s)
      PROVE  EvidenceInv'
  <2>1. TypeOK'
    BY <1>2, <1>t DEF FallsDue, RowAges, TypeOK
  <2>2. QED
    BY <1>2, <2>1, EvidenceKept DEF FallsDue, RowAges
<1>3. ASSUME NEW q \in Requests, NEW s \in Signers, NEW ip \in Ips,
             NEW h \in Txs \cup {None}, LockSubmission(q, s, ip, h)
      PROVE  EvidenceInv'
  <2>1. [step |-> "locked", signer |-> s, ip |-> ip, hint |-> h] \in Submissions
    BY DEF Submissions, SubmissionSteps
  <2>2. TypeOK'
    BY <1>3, <1>t, <2>1 DEF LockSubmission, TypeOK
  <2>3. QED
    BY <1>3, <2>2, EvidenceKept DEF LockSubmission
<1>4. ASSUME NEW q \in Requests, CountPending(q)
      PROVE  EvidenceInv'
  <2>1. submission' \in [Requests -> Submissions] /\ submitLock' \in Requests \cup {None}
    <3>1. CASE CapReached(submission[q].ip)
      BY <1>4, <1>t, <3>1, FinishTyped DEF CountPending
    <3>2. CASE ~CapReached(submission[q].ip)
      <4>1. [submission[q] EXCEPT !.step = "inserting"] \in Submissions
        BY <1>t, SubmissionFields DEF Submissions, SubmissionSteps
      <4>2. QED
        BY <1>4, <1>t, <3>2, <4>1 DEF CountPending, TypeOK
    <3>3. QED
      BY <3>1, <3>2
  <2>2. TypeOK'
    BY <1>4, <1>t, <2>1 DEF CountPending, TypeOK
  <2>3. QED
    BY <1>4, <2>2, EvidenceKept DEF CountPending
<1>5. ASSUME NEW q \in Requests, SubmissionFails(q)
      PROVE  EvidenceInv'
  <2>1. TypeOK'
    BY <1>5, <1>t, FinishTyped DEF SubmissionFails, TypeOK
  <2>2. QED
    BY <1>5, <2>1, EvidenceKept DEF SubmissionFails
<1>6. ASSUME NEW q \in Requests, RefreshExistingRow(q)
      PROVE  EvidenceInv'
  <2> DEFINE s == submission[q].signer
             hint == IF row[s].status = "unverified" /\ row[s].hint = None
                     THEN submission[q].hint ELSE row[s].hint
             new == [row[s] EXCEPT !.hint = hint]
  <2>1. row[s].there /\ s \in Signers /\ row' = [row EXCEPT ![s].hint = hint]
    BY <1>6 DEF RefreshExistingRow, SubmissionsCarry
  <2>2. /\ new \in RowValues /\ new.hint = hint /\ new.there /\ new.status = row[s].status
        /\ new.derived = row[s].derived
    BY <1>t, <2>1, RowFields, SubmissionFields DEF RowValues
  <2>3. row' = [row EXCEPT ![s] = new]
    BY <1>t, <2>1 DEF TypeOK
  <2> HIDE DEF new, s
  <2>4. row' \in [Signers -> RowValues] /\ row'[s] = new
        /\ \A u \in Signers : u # s => row'[u] = row[u]
    BY <1>t, <2>1, <2>2, <2>3 DEF TypeOK
  <2>5. TypeOK'
    BY <1>6, <1>t, <2>4, FinishTyped DEF RefreshExistingRow, TypeOK
  <2>6. row'[s].status = "verified" =>
           row'[s].derived = row'[s].hint /\ Proven(row'[s].derived, s)
    BY <2>1, <2>2, <2>4 DEF EvidenceInv, VerifiedIsProven, Proven
  <2>7. row[s].hint # None => row'[s].hint = row[s].hint
    BY <2>2, <2>4
  <2>8. QED
    BY <1>6, <2>1, <2>2, <2>4, <2>5, <2>6, <2>7, EvidenceOfRow DEF RefreshExistingRow
<1>7. ASSUME NEW q \in Requests, InsertRow(q)
      PROVE  EvidenceInv'
  <2> DEFINE s == submission[q].signer
             new == [NoRow EXCEPT !.there = TRUE, !.hint = submission[q].hint,
                                  !.ip = submission[q].ip]
  <2>1. /\ new \in RowValues /\ new.there /\ new.status = "unverified"
        /\ new.hint = submission[q].hint
    BY <1>t, <1>j, SubmissionFields DEF NoRow, RowValues, VerifyStatuses
  <2>2. row' = [row EXCEPT ![s] = new] /\ ~row[s].there
        /\ seen' = Append(seen, s) /\ due' = due \cup {s}
    BY <1>7 DEF InsertRow
  <2>3. s \in Signers
    BY <1>7 DEF InsertRow, SubmissionsCarry
  <2> HIDE DEF new, s
  <2>4. row' \in [Signers -> RowValues] /\ row'[s] = new
        /\ \A u \in Signers : u # s => row'[u] = row[u]
    BY <1>t, <2>1, <2>2, <2>3 DEF TypeOK
  <2>5. TypeOK'
    BY <1>7, <1>t, <2>2, <2>3, <2>4, FinishTyped DEF InsertRow, TypeOK
  <2>6. row[s].hint = None
    BY <2>2, <2>3 DEF EvidenceInv, AbsentIsEmpty, NoRow
  <2>7. QED
    BY <1>7, <2>1, <2>3, <2>4, <2>5, <2>6, EvidenceOfRow DEF InsertRow
<1>8. ASSUME NEW w \in Workers, NEW S \in SUBSET Signers, ClaimDueAttestations(w, S)
      PROVE  EvidenceInv'
  <2> DEFINE jobs == [s \in Signers |->
                IF s \in S THEN [step |-> "claimed", hint |-> row[s].hint] ELSE NoJob]
  <2>1. jobs \in [Signers -> Jobs]
    BY <1>t, <1>j, RowFields DEF Jobs
  <2>2. job' = [job EXCEPT ![w] = jobs]
    BY <1>8 DEF ClaimDueAttestations
  <2>3. TypeOK'
    BY <1>8, <1>t, <2>1, <2>2 DEF ClaimDueAttestations, TypeOK
  <2>4. ASSUME NEW v \in Workers, NEW s \in Signers
        PROVE  \/ job'[v][s] = job[v][s] \/ job'[v][s] = NoJob
               \/ /\ row[s].there /\ job'[v][s].hint = row[s].hint
                  /\ job'[v][s].step # "verified"
    BY <1>8, <1>t, <2>2 DEF TypeOK, ClaimDueAttestations, DueRows, Pending
  <2>5. QED
    BY <1>8, <2>3, <2>4, EvidenceKept DEF ClaimDueAttestations
<1>9. ASSUME NEW w \in Workers, NEW s \in Signers, ResolveAttestation(w, s)
      PROVE  EvidenceInv'
  <2>1. PICK o \in OutcomesOf(s, job[w][s].hint) : job' = [job EXCEPT ![w][s].step = o]
    BY <1>9 DEF ResolveAttestation
  <2> DEFINE new == [job[w][s] EXCEPT !.step = o]
  <2>2. new \in Jobs /\ new.step = o /\ new.hint = job[w][s].hint
    BY <1>t, <2>1, JobFields, OutcomesTyped DEF Jobs
  <2>3. job' = [job EXCEPT ![w][s] = new]
    BY <1>t, <2>1 DEF TypeOK
  <2> HIDE DEF new
  <2>n. new \in Jobs
    BY <2>2
  <2>4. /\ job' \in [Workers -> [Signers -> Jobs]] /\ job'[w][s] = new
        /\ \A v \in Workers, u \in Signers : v # w \/ u # s => job'[v][u] = job[v][u]
    BY <1>t, <2>n, <2>3, JobReplaced, ZenonT(30)
  <2>5. TypeOK'
    BY <1>9, <1>t, <2>4 DEF ResolveAttestation, TypeOK
  <2>6. /\ row[s].there
        /\ new.hint # None => row[s].hint = new.hint
        /\ new.step = "verified" => Proven(new.hint, s)
    BY <1>9, <1>t, <2>1, <2>2, JobFields, VerdictIsProven
       DEF EvidenceInv, JobsSound, ResolveAttestation
  <2>7. ASSUME NEW v \in Workers, NEW u \in Signers
        PROVE  \/ job'[v][u] = job[v][u]
               \/ /\ row[u].there
                  /\ job'[v][u].hint # None => row[u].hint = job'[v][u].hint
                  /\ job'[v][u].step = "verified" => Proven(job'[v][u].hint, u)
    BY <2>4, <2>6
  <2>8. QED
    BY <1>9, <2>5, <2>7, EvidenceKept DEF ResolveAttestation
<1>10. ASSUME NEW w \in Workers, NEW s \in Signers,
              RescheduleAttestation(w, s) \/ PersistFails(w, s)
       PROVE  EvidenceInv'
  <2>1. job' = [job EXCEPT ![w][s] = NoJob]
    BY <1>10 DEF RescheduleAttestation, PersistFails, Drop
  <2>2. /\ job' \in [Workers -> [Signers -> Jobs]] /\ job'[w][s] = NoJob
        /\ \A v \in Workers, u \in Signers : v # w \/ u # s => job'[v][u] = job[v][u]
    BY <1>t, <1>j, <2>1, JobReplaced, ZenonT(30)
  <2>3. TypeOK'
    BY <1>10, <1>t, <2>2 DEF RescheduleAttestation, PersistFails, TypeOK
  <2>4. \A v \in Workers, u \in Signers : job'[v][u] = job[v][u] \/ job'[v][u] = NoJob
    BY <2>2
  <2>5. QED
    BY <1>10, <2>3, <2>4, EvidenceKept DEF RescheduleAttestation, PersistFails
<1>11. ASSUME NEW w \in Workers, WorkerDies(w)
       PROVE  EvidenceInv'
  <2>1. job' = [job EXCEPT ![w] = [s \in Signers |-> NoJob]]
    BY <1>11 DEF WorkerDies
  <2>2. TypeOK'
    BY <1>11, <1>t, <1>j, <2>1 DEF WorkerDies, TypeOK
  <2>3. \A v \in Workers, u \in Signers : job'[v][u] = job[v][u] \/ job'[v][u] = NoJob
    BY <1>t, <2>1 DEF TypeOK
  <2>4. QED
    BY <1>11, <2>2, <2>3, EvidenceKept DEF WorkerDies
<1>12. ASSUME NEW w \in Workers, NEW s \in Signers, FinalizeAttestation(w, s)
       PROVE  EvidenceInv'
  <2> DEFINE o == job[w][s].step
             derived == IF o = "verified" THEN job[w][s].hint ELSE row[s].derived
             new == [row[s] EXCEPT !.status = o, !.derived = derived]
  <2>1. job' = [job EXCEPT ![w][s] = NoJob]
    BY <1>12 DEF FinalizeAttestation, Drop
  <2>2. /\ job' \in [Workers -> [Signers -> Jobs]]
        /\ \A v \in Workers, u \in Signers : job'[v][u] = job[v][u] \/ job'[v][u] = NoJob
    <3>1. /\ job' \in [Workers -> [Signers -> Jobs]] /\ job'[w][s] = NoJob
          /\ \A v \in Workers, u \in Signers : v # w \/ u # s => job'[v][u] = job[v][u]
      BY <1>t, <1>j, <2>1, JobReplaced, ZenonT(30)
    <3>2. QED
      BY <3>1
  <2>3. CASE row' = row
    <3>1. TypeOK'
      BY <1>12, <1>t, <2>2, <2>3 DEF FinalizeAttestation, TypeOK
    <3>2. QED
      BY <1>12, <2>2, <2>3, <3>1, EvidenceKept DEF FinalizeAttestation
  <2>4. CASE row' # row
    <3>1. row[s].status = "unverified" /\ o \in VerifyStatuses /\ o # "unverified"
          /\ row' = [row EXCEPT ![s].status = o, ![s].derived = derived]
      BY <1>12, <2>4 DEF FinalizeAttestation, Persisting, Outcomes, VerifyStatuses
    <3>2. derived \in Txs \cup {None}
      BY <1>t, JobFields, RowFields
    <3> HIDE DEF derived, o
    <3>3. /\ new \in RowValues /\ new.status = o /\ new.derived = derived
          /\ new.there = row[s].there /\ new.hint = row[s].hint
      BY <1>t, <3>1, <3>2, RowFields DEF RowValues
    <3>4. row' = [row EXCEPT ![s] = new]
      BY <1>t, <3>1 DEF TypeOK
    <3> HIDE DEF new
    <3>5. row' \in [Signers -> RowValues] /\ row'[s] = new
          /\ \A u \in Signers : u # s => row'[u] = row[u]
      BY <1>t, <3>3, <3>4 DEF TypeOK
    <3>6. TypeOK'
      BY <1>12, <1>t, <2>2, <3>5 DEF FinalizeAttestation, TypeOK
    <3>7. new.status = "verified" => new.derived = new.hint /\ Proven(new.derived, s)
      <4>1. SUFFICES ASSUME o = "verified" PROVE derived = row[s].hint /\ Proven(derived, s)
        BY <3>3
      <4>2. derived = job[w][s].hint /\ Proven(job[w][s].hint, s)
        BY <4>1 DEF derived, o, EvidenceInv, JobsSound
      <4>3. job[w][s].hint # None
        BY <4>2, AttestationAssumption DEF Proven
      <4>4. QED
        BY <4>2, <4>3 DEF EvidenceInv, JobsSound
    <3>8. new.there
      BY <1>12, <3>3 DEF FinalizeAttestation, Persisting, Outcomes, EvidenceInv, JobsSound
    <3>9. QED
      BY <1>12, <2>2, <3>3, <3>5, <3>6, <3>7, <3>8, EvidenceOfRow, ZenonT(30)
         DEF FinalizeAttestation
  <2>5. QED
    BY <2>3, <2>4
<1>13. CASE RevokeAttestations
  <2>1. ASSUME NEW s \in Signers
        PROVE  /\ row'[s] \in RowValues /\ row'[s].there = row[s].there
               /\ row'[s].hint = row[s].hint /\ row'[s].derived = row[s].derived
               /\ row'[s].status = row[s].status
               /\ ~row[s].there => row'[s].revoked = FALSE
    <3>1. row'[s] = [row[s] EXCEPT !.revoked = row[s].there]
      BY <1>13 DEF RevokeAttestations
    <3>2. QED
      BY <1>t, <3>1, RowFields DEF RowValues
  <2>2. row' \in [Signers -> RowValues]
    BY <1>13, <2>1 DEF RevokeAttestations
  <2>3. TypeOK'
    BY <1>13, <1>t, <2>2 DEF RevokeAttestations, TypeOK
  <2>p. UNCHANGED <<truth, confirmed, job>>
    BY <1>13 DEF RevokeAttestations
  <2>j. JobsSound'
    BY <2>1, <2>p, ZenonT(30) DEF EvidenceInv, JobsSound, Proven
  <2>v. VerifiedIsProven'
    BY <2>1, <2>p DEF EvidenceInv, VerifiedIsProven
  <2>4. JobsSound' /\ VerifiedIsProven'
    BY <2>j, <2>v
  <2>5. AbsentIsEmpty'
    <3>1. SUFFICES ASSUME NEW s \in Signers, ~row'[s].there PROVE row'[s] = NoRow
      BY DEF AbsentIsEmpty
    <3>2. row[s] = NoRow /\ row'[s] = [NoRow EXCEPT !.revoked = NoRow.there]
      BY <1>13, <2>1, <3>1 DEF RevokeAttestations, EvidenceInv, AbsentIsEmpty
    <3>3. QED
      BY <3>2 DEF NoRow
  <2>6. QED
    BY <2>3, <2>4, <2>5 DEF EvidenceInv
<1>14. CASE UNCHANGED vars
  <2>1. TypeOK'
    BY <1>14, <1>t DEF vars, TypeOK
  <2>2. QED
    BY <1>14, <2>1, EvidenceKept DEF vars
<1>15. QED
  BY <1>1, <1>2, <1>3, <1>4, <1>5, <1>6, <1>7, <1>8, <1>9, <1>10, <1>11, <1>12, <1>13,
     <1>14 DEF Next, SubmissionStep, PassStep

-----------------------------------------------------------------------------
(* The caps *)

LEMMA PendingFinite ==
    ASSUME NEW ip
    PROVE  /\ IsFiniteSet({s \in Signers : Pending(s)})
           /\ IsFiniteSet({s \in Signers : Pending(s) /\ row[s].ip = ip})
           /\ PendingCount \in Nat /\ PendingOf(ip) \in Nat
<1>1. /\ {s \in Signers : Pending(s)} \subseteq Signers
      /\ {s \in Signers : Pending(s) /\ row[s].ip = ip} \subseteq Signers
  OBVIOUS
<1>2. /\ IsFiniteSet({s \in Signers : Pending(s)})
      /\ IsFiniteSet({s \in Signers : Pending(s) /\ row[s].ip = ip})
  BY <1>1, FS_Subset, AttestationAssumption
<1>3. QED
  BY <1>2, FS_CardinalityType DEF PendingCount, PendingOf

\* No row becomes pending: the counts do not grow.
LEMMA FewerPending ==
    ASSUME \A s \in Signers : Pending(s)' => Pending(s) /\ row'[s].ip = row[s].ip, NEW ip
    PROVE  /\ PendingCount' \in Nat /\ PendingCount' <= PendingCount
           /\ PendingOf(ip)' \in Nat /\ PendingOf(ip)' <= PendingOf(ip)
<1> DEFINE all == {s \in Signers : Pending(s)}
           own == {s \in Signers : Pending(s) /\ row[s].ip = ip}
<1>1. all' \subseteq all /\ own' \subseteq own
  OBVIOUS
<1>2. /\ PendingCount = Cardinality(all) /\ PendingCount' = Cardinality(all')
      /\ PendingOf(ip) = Cardinality(own) /\ PendingOf(ip)' = Cardinality(own')
  BY DEF PendingCount, PendingOf
<1>3. IsFiniteSet(all) /\ IsFiniteSet(own)
  BY PendingFinite
<1> HIDE DEF all, own
<1>4. IsFiniteSet(all') /\ IsFiniteSet(own')
      /\ Cardinality(all') <= Cardinality(all) /\ Cardinality(own') <= Cardinality(own)
  BY <1>1, <1>3, FS_Subset
<1>5. QED
  BY <1>2, <1>4, FS_CardinalityType

\* Where there was room there still is.
LEMMA RoomStays ==
    ASSUME \A s \in Signers : Pending(s)' => Pending(s) /\ row'[s].ip = row[s].ip, NEW ip,
           ~CapReached(ip)
    PROVE  ~CapReached(ip)'
<1>1. /\ PendingCount' \in Nat /\ PendingCount' <= PendingCount
      /\ PendingOf(ip)' \in Nat /\ PendingOf(ip)' <= PendingOf(ip)
  BY FewerPending
<1>2. PendingCount \in Nat /\ PendingOf(ip) \in Nat
  BY PendingFinite
<1>3. ~(PendingOf(ip) >= MaxPendingPerIp) /\ ~(PendingCount >= MaxPending)
  BY DEF CapReached
<1>4. ~(PendingOf(ip)' >= MaxPendingPerIp) /\ ~(PendingCount' >= MaxPending)
  BY <1>1, <1>2, <1>3, AttestationAssumption
<1>5. QED
  BY <1>4 DEF CapReached

\* A step after which no more rows wait, and only the holder of the lock is
\* inside, with room for its row.
LEMMA CapsKept ==
    ASSUME CapsInv, \A s \in Signers : Pending(s)' => Pending(s) /\ row'[s].ip = row[s].ip,
           LockIsHeld', RoomIsKept'
    PROVE  CapsInv'
<1>1. PendingCount' <= MaxPending
  <2>1. PendingCount' \in Nat /\ PendingCount' <= PendingCount
    BY FewerPending
  <2>2. PendingCount \in Nat
    BY PendingFinite
  <2>3. QED
    BY <2>1, <2>2, AttestationAssumption DEF CapsInv, PendingWithinCaps
<1>2. ASSUME NEW ip \in Ips PROVE PendingOf(ip)' <= MaxPendingPerIp
  <2>1. PendingOf(ip)' \in Nat /\ PendingOf(ip)' <= PendingOf(ip)
    BY FewerPending
  <2>2. PendingOf(ip) \in Nat
    BY PendingFinite
  <2>3. QED
    BY <2>1, <2>2, AttestationAssumption DEF CapsInv, PendingWithinCaps
<1>3. QED
  BY <1>1, <1>2 DEF CapsInv, PendingWithinCaps

\* The same where requests stand still or one of them ends.
LEMMA CapsKeptOutside ==
    ASSUME TypeOK, CapsInv,
           \A s \in Signers : Pending(s)' => Pending(s) /\ row'[s].ip = row[s].ip,
           UNCHANGED requestVars \/ \E q \in Requests : Finish(q)
    PROVE  CapsInv'
<1>1. \A p \in Requests : submission'[p].step \in {"locked", "inserting"} =>
          submission'[p] = submission[p] /\ submitLock' = p
  <2>1. CASE UNCHANGED requestVars
    BY <2>1 DEF requestVars, CapsInv, LockIsHeld
  <2>2. ASSUME NEW q \in Requests, Finish(q), NEW p \in Requests,
               submission'[p].step \in {"locked", "inserting"}
        PROVE  submission'[p] = submission[p] /\ submitLock' = p
    <3>1. p # q /\ submission'[p] = submission[p]
      BY <2>2, FinishTyped
    <3>2. submitLock = p /\ submitLock' = p
      BY <2>2, <3>1, FinishTyped DEF CapsInv, LockIsHeld
    <3>3. QED
      BY <3>1, <3>2
  <2>3. QED
    BY <2>1, <2>2
<1>2. LockIsHeld'
  BY <1>1 DEF LockIsHeld
<1>3. RoomIsKept'
  <2>1. SUFFICES ASSUME NEW p \in Requests, submission'[p].step = "inserting"
                 PROVE  ~CapReached(submission[p].ip)'
    BY DEF RoomIsKept
  <2>2. submission'[p] = submission[p]
    BY <1>1, <2>1
  <2> DEFINE ip == submission[p].ip
  <2>3. ~CapReached(ip)
    BY <2>1, <2>2 DEF CapsInv, RoomIsKept
  <2>4. PICK i : i = submission[p].ip
    OBVIOUS
  <2>5. ~CapReached(i)'
    BY <2>3, <2>4, RoomStays
  <2>6. QED
    BY <2>2, <2>4, <2>5 DEF CapReached, PendingOf
<1>4. QED
  BY <1>2, <1>3, CapsKept

LEMMA InitCaps == Init => CapsInv /\ SubmissionsCarry
<1> SUFFICES ASSUME Init PROVE CapsInv /\ SubmissionsCarry
  OBVIOUS
<1>1. \A s \in Signers : ~Pending(s)
  BY DEF Init, Pending, NoRow
<1>2. PendingCount = 0 /\ \A ip : PendingOf(ip) = 0
  <2>1. {s \in Signers : Pending(s)} = {}
        /\ \A ip : {s \in Signers : Pending(s) /\ row[s].ip = ip} = {}
    BY <1>1
  <2>2. QED
    BY <2>1, FS_EmptySet DEF PendingCount, PendingOf
<1>3. PendingWithinCaps
  BY <1>2, AttestationAssumption DEF PendingWithinCaps
<1>4. LockIsHeld /\ RoomIsKept /\ SubmissionsCarry
  BY DEF Init, LockIsHeld, RoomIsKept, SubmissionsCarry, NoSubmission
<1>5. QED
  BY <1>3, <1>4 DEF CapsInv

\* A request takes its signer along.
LEMMA NextCarry == TypeOK /\ SubmissionsCarry /\ [Next]_vars => SubmissionsCarry'
<1> SUFFICES ASSUME TypeOK, SubmissionsCarry, [Next]_vars PROVE SubmissionsCarry'
  OBVIOUS
<1>1. ASSUME NEW q \in Requests, Finish(q)
      PROVE  SubmissionsCarry'
  BY <1>1, FinishTyped DEF SubmissionsCarry
<1>2. CASE UNCHANGED submission
  BY <1>2 DEF SubmissionsCarry
<1>3. ASSUME NEW q \in Requests, NEW s \in Signers, NEW ip \in Ips,
             NEW h \in Txs \cup {None}, LockSubmission(q, s, ip, h)
      PROVE  SubmissionsCarry'
  BY <1>3 DEF LockSubmission, SubmissionsCarry, TypeOK
<1>4. ASSUME NEW q \in Requests, CountPending(q)
      PROVE  SubmissionsCarry'
  <2>1. CASE CapReached(submission[q].ip)
    BY <1>1, <1>4, <2>1 DEF CountPending
  <2>2. CASE ~CapReached(submission[q].ip)
    <3>1. /\ submission[q].step = "locked"
          /\ submission'[q].signer = submission[q].signer
          /\ \A p \in Requests \ {q} : submission'[p] = submission[p]
      BY <1>4, <2>2, SubmissionFields DEF CountPending, TypeOK, Submissions
    <3>2. QED
      BY <3>1 DEF SubmissionsCarry
  <2>3. QED
    BY <2>1, <2>2
<1>5. QED
  BY <1>1, <1>2, <1>3, <1>4 DEF Next, vars, requestVars, SubmissionStep, PassStep,
     RevokeAttestations, Confirm, FallsDue, RowAges, SubmissionFails, RefreshExistingRow,
     InsertRow, ClaimDueAttestations, ResolveAttestation, RescheduleAttestation,
     FinalizeAttestation, WorkerDies, PersistFails

LEMMA NextCaps == EvidenceInv /\ SubmissionsCarry /\ CapsInv /\ [Next]_vars => CapsInv'
<1> SUFFICES ASSUME EvidenceInv, SubmissionsCarry, CapsInv, [Next]_vars PROVE CapsInv'
  OBVIOUS
<1> USE DEF rowVars
<1>t. TypeOK
  BY DEF EvidenceInv
<1>1. CASE row' = row /\ (UNCHANGED requestVars \/ \E q \in Requests : Finish(q))
  BY <1>t, <1>1, CapsKeptOutside DEF Pending
<1>2. ASSUME NEW q \in Requests, NEW s \in Signers, NEW ip \in Ips,
             NEW h \in Txs \cup {None}, LockSubmission(q, s, ip, h)
      PROVE  CapsInv'
  <2>1. submitLock = None /\ submitLock' = q /\ row' = row
        /\ submission'[q].step = "locked"
        /\ \A p \in Requests \ {q} : submission'[p] = submission[p]
    BY <1>2, <1>t DEF LockSubmission, TypeOK
  <2>2. \A p \in Requests : submission[p].step \notin {"locked", "inserting"}
    BY <2>1, AttestationAssumption DEF CapsInv, LockIsHeld
  <2>3. LockIsHeld' /\ RoomIsKept'
    BY <2>1, <2>2 DEF LockIsHeld, RoomIsKept
  <2>4. QED
    BY <2>1, <2>3, CapsKept DEF Pending
<1>3. ASSUME NEW q \in Requests, CountPending(q)
      PROVE  CapsInv'
  <2>1. row' = row
    BY <1>3 DEF CountPending
  <2>2. CASE CapReached(submission[q].ip)
    BY <1>1, <1>3, <2>1, <2>2 DEF CountPending
  <2>3. CASE ~CapReached(submission[q].ip)
    <3>1. /\ submission[q].step = "locked" /\ submitLock' = submitLock
          /\ submission'[q].ip = submission[q].ip
          /\ \A p \in Requests \ {q} : submission'[p] = submission[p]
      BY <1>3, <1>t, <2>3, SubmissionFields DEF CountPending, TypeOK, Submissions
    <3>2. LockIsHeld'
      BY <3>1 DEF CapsInv, LockIsHeld
    <3>3. \A p \in Requests : submission'[p].step = "inserting" =>
              /\ submission'[p].ip = submission[p].ip
              /\ ~CapReached(submission[p].ip)
      BY <2>3, <3>1 DEF CapsInv, RoomIsKept
    <3>4. RoomIsKept'
      BY <2>1, <3>3, ZenonT(30) DEF RoomIsKept, CapReached, PendingOf, PendingCount, Pending
    <3>5. QED
      BY <2>1, <3>2, <3>4, CapsKept DEF Pending
  <2>4. QED
    BY <2>2, <2>3
<1>4. ASSUME NEW q \in Requests, RefreshExistingRow(q)
      PROVE  CapsInv'
  <2>1. \A u \in Signers : row'[u].there = row[u].there /\ row'[u].status = row[u].status
                           /\ row'[u].revoked = row[u].revoked /\ row'[u].ip = row[u].ip
    BY <1>4, <1>t DEF RefreshExistingRow, TypeOK, RowValues
  <2>2. \A u \in Signers : Pending(u)' => Pending(u) /\ row'[u].ip = row[u].ip
    BY <2>1 DEF Pending
  <2>3. QED
    BY <1>4, <1>t, <2>2, CapsKeptOutside DEF RefreshExistingRow
<1>5. ASSUME NEW w \in Workers, NEW s \in Signers, FinalizeAttestation(w, s)
      PROVE  CapsInv'
  <2>1. job[w][s].step # "unverified"
    BY <1>5 DEF FinalizeAttestation, Persisting, Outcomes
  <2>2. \A u \in Signers : /\ row'[u].there = row[u].there /\ row'[u].ip = row[u].ip
                           /\ row'[u].revoked = row[u].revoked
                           /\ row'[u].status = "unverified" => row[u].status = "unverified"
    BY <1>5, <1>t, <2>1 DEF FinalizeAttestation, TypeOK, RowValues
  <2>3. \A u \in Signers : Pending(u)' => Pending(u) /\ row'[u].ip = row[u].ip
    BY <2>2 DEF Pending
  <2>4. QED
    BY <1>5, <1>t, <2>3, CapsKeptOutside DEF FinalizeAttestation
<1>6. CASE RevokeAttestations
  <2>1. ASSUME NEW u \in Signers
        PROVE  /\ row'[u].there = row[u].there /\ row'[u].ip = row[u].ip
               /\ row'[u].revoked = row[u].there /\ row'[u].status = row[u].status
    <3>1. row'[u] = [row[u] EXCEPT !.revoked = row[u].there]
      BY <1>6 DEF RevokeAttestations
    <3>2. QED
      BY <1>t, <3>1, RowFields DEF RowValues
  <2>2. \A u \in Signers : Pending(u)' => Pending(u) /\ row'[u].ip = row[u].ip
    BY <2>1 DEF Pending
  <2>3. QED
    BY <1>6, <1>t, <2>2, CapsKeptOutside DEF RevokeAttestations
<1>7. ASSUME NEW q \in Requests, InsertRow(q)
      PROVE  CapsInv'
  <2> DEFINE s == submission[q].signer
             own(ip) == {u \in Signers : Pending(u) /\ row[u].ip = ip}
             all == {u \in Signers : Pending(u)}
  <2>1. /\ s \in Signers /\ submission[q].step = "inserting" /\ ~row[s].there
        /\ row' = [row EXCEPT ![s] = [NoRow EXCEPT !.there = TRUE, !.hint = submission[q].hint,
                                                   !.ip = submission[q].ip]]
        /\ Finish(q)
    BY <1>7 DEF InsertRow, SubmissionsCarry
  <2>2. /\ row'[s].ip = submission[q].ip
        /\ \A u \in Signers : u # s => row'[u] = row[u]
    BY <2>1, <1>t DEF TypeOK, NoRow
  <2> HIDE DEF s
  <2>3. /\ all' \subseteq all \cup {s} /\ own(submission[q].ip)' \subseteq all'
        /\ \A ip : own(ip)' \subseteq own(ip) \cup {s}
        /\ \A ip : ip # submission[q].ip => own(ip)' \subseteq own(ip)
    BY <2>2 DEF Pending
  <2>4. /\ IsFiniteSet(all) /\ Cardinality(all) \in Nat /\ PendingCount = Cardinality(all)
        /\ PendingCount' = Cardinality(all')
    BY PendingFinite DEF PendingCount
  <2>5. \A ip : /\ IsFiniteSet(own(ip)) /\ Cardinality(own(ip)) \in Nat
                /\ PendingOf(ip) = Cardinality(own(ip))
                /\ PendingOf(ip)' = Cardinality(own(ip)')
    BY PendingFinite DEF PendingOf
  <2>6. Cardinality(all) < MaxPending /\ Cardinality(own(submission[q].ip)) < MaxPendingPerIp
    <3>1. ~CapReached(submission[q].ip)
      BY <2>1 DEF CapsInv, RoomIsKept
    <3>2. QED
      BY <2>4, <2>5, <3>1, AttestationAssumption DEF CapReached
  <2> HIDE DEF own, all
  <2>7. ASSUME NEW A, NEW B, IsFiniteSet(A), B \subseteq A \cup {s}
        PROVE  Cardinality(B) \in Nat /\ Cardinality(B) <= Cardinality(A) + 1
               /\ (B \subseteq A => Cardinality(B) <= Cardinality(A))
    <3>1. /\ IsFiniteSet(A \cup {s}) /\ Cardinality(A) \in Nat
          /\ Cardinality(A \cup {s}) \in {Cardinality(A), Cardinality(A) + 1}
      BY <2>7, FS_AddElement, FS_CardinalityType
    <3>2. IsFiniteSet(B) /\ Cardinality(B) <= Cardinality(A \cup {s})
      BY <2>7, <3>1, FS_Subset
    <3>3. B \subseteq A => Cardinality(B) <= Cardinality(A)
      BY <2>7, FS_Subset
    <3>4. Cardinality(B) \in Nat
      BY <3>2, FS_CardinalityType
    <3>5. QED
      BY <3>1, <3>2, <3>3, <3>4
  <2>8. PendingCount' <= MaxPending
    <3>1. Cardinality(all') \in Nat /\ Cardinality(all') <= Cardinality(all) + 1
      BY <2>3, <2>4, <2>7
    <3>2. QED
      BY <2>4, <2>6, <3>1, AttestationAssumption
  <2>9. ASSUME NEW ip \in Ips PROVE PendingOf(ip)' <= MaxPendingPerIp
    <3>1. /\ Cardinality(own(ip)') \in Nat /\ Cardinality(own(ip)') <= Cardinality(own(ip)) + 1
          /\ ip # submission[q].ip => Cardinality(own(ip)') <= Cardinality(own(ip))
      BY <2>3, <2>5, <2>7
    <3>2. CASE ip = submission[q].ip
      BY <2>5, <2>6, <3>1, <3>2, AttestationAssumption
    <3>3. CASE ip # submission[q].ip
      BY <2>5, <3>1, <3>3, AttestationAssumption DEF CapsInv, PendingWithinCaps
    <3>4. QED
      BY <3>2, <3>3
  <2>10. \A p \in Requests : submission'[p].step \notin {"locked", "inserting"}
    BY <1>t, <2>1, FinishTyped DEF CapsInv, LockIsHeld
  <2>11. LockIsHeld' /\ RoomIsKept'
    BY <2>10 DEF LockIsHeld, RoomIsKept
  <2>12. QED
    BY <2>8, <2>9, <2>11 DEF CapsInv, PendingWithinCaps
<1>8. QED
  BY <1>1, <1>2, <1>3, <1>4, <1>5, <1>6, <1>7 DEF Next, vars, requestVars, SubmissionStep,
     PassStep, Confirm, FallsDue, RowAges, SubmissionFails, ClaimDueAttestations,
     ResolveAttestation, RescheduleAttestation, WorkerDies, PersistFails

-----------------------------------------------------------------------------
(* The theorems *)

AttestInv == EvidenceInv /\ SubmissionsCarry /\ CapsInv

LEMMA InvariantHolds == Spec => []AttestInv
<1>1. Init => AttestInv
  BY InitEvidence, InitCaps DEF AttestInv
<1>2. AttestInv /\ [Next]_vars => AttestInv'
  BY NextEvidence, NextCarry, NextCaps DEF AttestInv, EvidenceInv
<1>3. QED
  BY <1>1, <1>2, PTL DEF Spec

\* Every variable keeps its type.
THEOREM AttestTypeCorrect == Spec => []TypeOK
<1>1. AttestInv => TypeOK
  BY DEF AttestInv, EvidenceInv
<1>2. QED
  BY <1>1, InvariantHolds, PTL

\* Whatever is submitted, reorganised, revoked or resubmitted, a verified row
\* names a confirmed creation of the token by its signer.
THEOREM VerifiedIsTrue == Spec => []VerifiedIsProven
<1>1. AttestInv => VerifiedIsProven
  BY DEF AttestInv, EvidenceInv
<1>2. QED
  BY <1>1, InvariantHolds, PTL

\* However many requests race, the rows that wait stay within both caps.
THEOREM CapsHold == Spec => []PendingWithinCaps
<1>1. AttestInv => PendingWithinCaps
  BY DEF AttestInv, CapsInv
<1>2. QED
  BY <1>1, InvariantHolds, PTL

\* No step of any actor changes a verdict once it is there.
LEMMA StepKeepsVerdict ==
    AttestInv /\ [Next]_vars =>
        [\A s \in Signers : row[s].status # "unverified" =>
            row'[s].status = row[s].status /\ row'[s].derived = row[s].derived]_rowVars
<1> SUFFICES ASSUME AttestInv, [Next]_vars, NEW s \in Signers, row[s].status # "unverified"
             PROVE  row'[s].status = row[s].status /\ row'[s].derived = row[s].derived
  OBVIOUS
<1>t. TypeOK
  BY DEF AttestInv, EvidenceInv
<1>1. CASE row' = row
  BY <1>1
<1>2. ASSUME NEW q \in Requests, RefreshExistingRow(q)
      PROVE  row'[s].status = row[s].status /\ row'[s].derived = row[s].derived
  BY <1>2, <1>t DEF RefreshExistingRow, TypeOK, RowValues
<1>3. ASSUME NEW q \in Requests, InsertRow(q)
      PROVE  row'[s].status = row[s].status /\ row'[s].derived = row[s].derived
  <2>1. row[s].there
    BY DEF AttestInv, EvidenceInv, AbsentIsEmpty, NoRow
  <2>2. s # submission[q].signer
    BY <1>3, <2>1 DEF InsertRow
  <2>3. QED
    BY <1>3, <1>t, <2>2 DEF InsertRow, TypeOK
<1>4. ASSUME NEW w \in Workers, NEW u \in Signers, FinalizeAttestation(w, u)
      PROVE  row'[s].status = row[s].status /\ row'[s].derived = row[s].derived
  BY <1>4, <1>t DEF FinalizeAttestation, TypeOK
<1>5. CASE RevokeAttestations
  <2>1. row'[s] = [row[s] EXCEPT !.revoked = row[s].there]
    BY <1>5 DEF RevokeAttestations
  <2>2. QED
    BY <1>t, <2>1, RowFields DEF RowValues
<1>6. QED
  BY <1>1, <1>2, <1>3, <1>4, <1>5 DEF Next, vars, rowVars, SubmissionStep, PassStep, Confirm,
     FallsDue, RowAges, LockSubmission, CountPending, SubmissionFails, ClaimDueAttestations,
     ResolveAttestation, RescheduleAttestation, WorkerDies, PersistFails

THEOREM VerdictIsFinal == Spec => VerdictStands
<1>1. QED
  BY InvariantHolds, StepKeepsVerdict, PTL DEF Spec, VerdictStands

-----------------------------------------------------------------------------
(* The public page *)

LEMMA Least ==
    ASSUME NEW S \in SUBSET Nat, S # {}
    PROVE  \E n \in S : \A m \in S : n <= m
<1>1. PICK x \in S : \A y \in S : <<y, x>> \notin OpToRel(<, Nat)
  BY NatLessThanWellFounded, WFMin
<1>2. \A y \in S : ~(y < x)
  BY <1>1, Zenon DEF OpToRel
<1>3. QED
  BY <1>2

\* The rank the query computes is the one the code computes.
LEMMA RanksAgree ==
    ASSUME TypeOK, NEW s \in Signers
    PROVE  RankSql(s) \in Nat /\ RankOf(DisplayStatus(s)) = RankSql(s)
<1>1. row[s].status \in VerifyStatuses /\ row[s].revoked \in BOOLEAN
  BY RowFields
<1>2. QED
  BY <1>1 DEF RankSql, RankOf, DisplayStatus, VerifyStatuses

LEMMA Positions ==
    ASSUME TypeOK, NEW s \in Range(seen)
    PROVE  s \in Signers /\ Position(s) \in Nat /\ seen[Position(s)] = s
<1>1. DOMAIN seen = 1 .. Len(seen) /\ Len(seen) \in Nat
      /\ \A i \in 1 .. Len(seen) : seen[i] \in Signers
  BY DEF TypeOK
<1>2. \E i \in DOMAIN seen : seen[i] = s
  BY DEF Range
<1>3. Position(s) \in DOMAIN seen /\ seen[Position(s)] = s
  BY <1>2 DEF Position
<1>4. QED
  BY <1>1, <1>3

\* Ahead in the query is better in the code, and not both ways.
LEMMA AheadIsBetter ==
    ASSUME TypeOK, NEW s \in Range(seen), NEW u \in Range(seen)
    PROVE  /\ Ahead(s, u) <=> Better(s, u)
           /\ ~(Ahead(s, u) /\ Ahead(u, s))
<1>1. /\ RankSql(s) \in Nat /\ RankOf(DisplayStatus(s)) = RankSql(s)
      /\ RankSql(u) \in Nat /\ RankOf(DisplayStatus(u)) = RankSql(u)
      /\ Position(s) \in Nat /\ Position(u) \in Nat
  BY RanksAgree, Positions
<1>2. QED
  BY <1>1 DEF Ahead, Better

\* Of the rows of the token one is ahead of all others: the earliest among
\* those of the least rank.
LEMMA OneIsAhead ==
    ASSUME TypeOK, seen # <<>>
    PROVE  \E b \in Range(seen) : \A u \in Range(seen) \ {b} : Ahead(b, u)
<1> DEFINE ranks == {RankSql(s) : s \in Range(seen)}
<1>0. \A s \in Range(seen) :
          RankSql(s) \in Nat /\ Position(s) \in Nat /\ seen[Position(s)] = s
  BY RanksAgree, Positions
<1>1. ranks \in SUBSET Nat /\ ranks # {}
  <2>1. 1 \in DOMAIN seen
    BY DEF TypeOK
  <2>2. seen[1] \in Range(seen)
    BY <2>1 DEF Range
  <2>3. QED
    BY <2>2, <1>0
<1>2. PICK r \in ranks : \A x \in ranks : r <= x
  BY <1>1, Least
<1> DEFINE first == {s \in Range(seen) : RankSql(s) = r}
           places == {Position(s) : s \in first}
<1>3. places \in SUBSET Nat /\ places # {}
  BY <1>0
<1>4. PICK p \in places : \A x \in places : p <= x
  BY <1>3, Least
<1>5. PICK b \in first : Position(b) = p
  OBVIOUS
<1>6. ASSUME NEW u \in Range(seen), u # b
      PROVE  Ahead(b, u)
  <2>1. /\ RankSql(b) = r /\ RankSql(b) \in Nat /\ RankSql(u) \in Nat
        /\ r <= RankSql(u) /\ Position(b) \in Nat /\ Position(u) \in Nat
        /\ Position(b) # Position(u)
    BY <1>0, <1>2, <1>5, <1>6
  <2>2. CASE RankSql(u) = r
    <3>1. Position(u) \in places
      BY <2>2
    <3>2. Position(b) <= Position(u)
      BY <3>1, <1>4, <1>5
    <3>3. QED
      BY <3>2, <2>1, <2>2 DEF Ahead
  <2>3. CASE RankSql(u) # r
    BY <2>1, <2>3 DEF Ahead
  <2>4. QED
    BY <2>2, <2>3
<1>7. QED
  BY <1>5, <1>6

\* Among rows one of which is ahead of all others, that one is shown.
LEMMA AheadIsShown ==
    ASSUME TypeOK, NEW b \in Range(seen),
           \A u \in Range(seen) \ {b} : Ahead(b, u),
           NEW S \in SUBSET Range(seen), b \in S
    PROVE  BestOf(S) = b
<1>1. \A u \in S \ {b} : Better(b, u)
  BY AheadIsBetter
<1>2. \A c \in S : (\A u \in S \ {c} : Better(c, u)) => c = b
  BY AheadIsBetter
<1>3. QED
  BY <1>1, <1>2 DEF BestOf

LEMMA TypedShowsBest == TypeOK => ShownIsBest
<1>1. SUFFICES ASSUME TypeOK, seen # <<>>, NEW n \in 1 .. Len(seen)
               PROVE  BestOf(Candidates(n)) = BestOf(Range(seen))
  BY DEF ShownIsBest
<1>2. PICK b \in Range(seen) : \A u \in Range(seen) \ {b} : Ahead(b, u)
  BY <1>1, OneIsAhead
<1>3. b \in Candidates(n)
  <2>1. \A u \in Range(seen) : ~Ahead(u, b)
    BY <1>1, <1>2, Positions, AheadIsBetter
  <2>2. {u \in Range(seen) : Ahead(u, b)} = {}
    BY <2>1
  <2>3. Cardinality({u \in Range(seen) : Ahead(u, b)}) = 0
    BY <2>2, FS_EmptySet
  <2>4. QED
    BY <2>3 DEF Candidates
<1>4. Candidates(n) \in SUBSET Range(seen)
  BY DEF Candidates
<1>5. QED
  BY <1>1, <1>2, <1>3, <1>4, AheadIsShown

\* However few candidates the page asks for, it shows the row that the rank of
\* the code and the age put first.
THEOREM PageShowsBest == Spec => []ShownIsBest
<1>1. QED
  BY AttestTypeCorrect, TypedShowsBest, PTL

=============================================================================
