----------------------------- MODULE Handshake -----------------------------
(***************************************************************************)
(* The handshake by which an agent proves its wallets: a challenge is      *)
(* started, claimed once by a completion, and the completion then binds    *)
(* the wallets, a new ingest token and a name in one transaction.          *)
(*                                                                         *)
(* Completions run at the same time, so an action here is one SQL          *)
(* statement.  A statement of an open transaction writes the row and keeps *)
(* its lock; the lock also stands for the unique key that makes a second   *)
(* insert of the row wait.  Rolling back restores what the transaction     *)
(* found.  A request that needs a lock another one holds simply has no     *)
(* step, until Postgres breaks a cycle of waiting requests.                *)
(***************************************************************************)
EXTENDS Naturals, Sequences, FiniteSets

CONSTANTS
    Agents,          \* agent hashes
    Wallets,         \* (chain family, address) pairs
    Challenges,      \* ids of handshake_challenges
    Requests,        \* completion requests, each of which draws its own token
    Names,           \* agent names
    Candidates,      \* per agent: the names it may get, shortest first
    None,            \* no row, no name, no holder
    MaxFailures      \* bound: database errors and process deaths

VARIABLES
    opened,          \* handshake_challenges: agent and wallets, or none
    expired,         \* challenges whose expires_at is past
    request,         \* per request: how far it is, for whom, what is left
    token,           \* agents.ingest_token_sha256: the request that drew it
    name,            \* agents.name
    status,          \* agents.status
    owner,           \* agent_wallets: the agent a wallet is bound to
    agentLock,       \* the transaction that holds the agent's row
    walletLock,      \* the transaction that holds the wallet's row or key
    claims,          \* history: completions that claimed each challenge
    committed,       \* history: the bindings in the order of their commits
    failures         \* database errors and process deaths so far

challengeVars == <<opened, expired, claims>>
rowVars == <<token, name, status, owner>>
lockVars == <<agentLock, walletLock>>
vars == <<challengeVars, request, rowVars, lockVars, committed, failures>>

-----------------------------------------------------------------------------
(* Values *)

Statuses == {"active", "quarantined", "revoked"}
InTransaction == {"binding", "wallets", "naming", "committing"}
Ended == {"bound", "refused", "failed"}
Steps == {"idle", "claimed"} \cup InTransaction \cup Ended

\* todo: the wallets still to claim, in the order of the request's proofs.
\* named: the name its transaction has written.
RequestStates == [step : Steps, agent : Agents \cup {None},
                  wallets : SUBSET Wallets, todo : Seq(Wallets),
                  named : Names \cup {None}]
Idle == [step |-> "idle", agent |-> None, wallets |-> {}, todo |-> <<>>, named |-> None]

NoChallenge == [agent |-> None, wallets |-> {}]

\* The orders in which the proofs may list a set of wallets.
Orders(W) ==
    {s \in [1 .. Cardinality(W) -> W] : \A i, j \in DOMAIN s : i # j => s[i] # s[j]}

ASSUME HandshakeAssumption ==
    /\ None \notin Agents \cup Requests \cup Names
    /\ IsFiniteSet(Wallets) /\ IsFiniteSet(Requests)
    /\ Candidates \in [Agents -> Seq(Names)]
    /\ MaxFailures \in Nat

-----------------------------------------------------------------------------
Init ==
    /\ opened = [c \in Challenges |-> NoChallenge]
    /\ expired = {}
    /\ request = [r \in Requests |-> Idle]
    /\ token = [a \in Agents |-> None]
    /\ name = [a \in Agents |-> None]
    /\ status = [a \in Agents |-> None]
    /\ owner = [w \in Wallets |-> None]
    /\ agentLock = [a \in Agents |-> None]
    /\ walletLock = [w \in Wallets |-> None]
    /\ claims = [c \in Challenges |-> {}]
    /\ committed = <<>>
    /\ failures = 0

\* POST /v1/agents/session/start; a challenge id is never drawn twice.
StartSession(c, a, W) ==
    /\ opened[c] = NoChallenge /\ c \notin expired /\ claims[c] = {}
    /\ W # {}
    /\ opened' = [opened EXCEPT ![c] = [agent |-> a, wallets |-> W]]
    /\ UNCHANGED <<expired, claims, request, rowVars, lockVars, committed, failures>>

ChallengeExpires(c) ==
    /\ opened[c] # NoChallenge
    /\ expired' = expired \cup {c}
    /\ UNCHANGED <<opened, claims, request, rowVars, lockVars, committed, failures>>

\* The sweep deletes a challenge an hour old: it has long expired.
DeleteExpiredHandshakeChallenges(c) ==
    /\ c \in expired
    /\ opened' = [opened EXCEPT ![c] = NoChallenge]
    /\ UNCHANGED <<expired, claims, request, rowVars, lockVars, committed, failures>>

-----------------------------------------------------------------------------
(* A completion, up to its transaction *)

SetStep(r, s) == request' = [request EXCEPT ![r].step = s]

Claims(r, c, a) ==
    /\ claims' = [claims EXCEPT ![c] = @ \cup {r}]
    /\ request' = [request EXCEPT ![r].step = "claimed", ![r].agent = a,
                                  ![r].wallets = opened[c].wallets]

\* Wrong on purpose: an accepted challenge stays in the table.
ClaimKeepsChallenge(r, c, a) ==
    /\ request[r].step = "idle"
    /\ opened[c].agent = a /\ c \notin expired
    /\ Claims(r, c, a)
    /\ UNCHANGED <<opened, expired, rowVars, lockVars, committed, failures>>

\* SELECT ... FOR UPDATE and DELETE: the challenge is burnt as it is claimed.
ClaimChallenge(r, c, a) ==
    /\ request[r].step = "idle"
    /\ opened[c].agent = a /\ c \notin expired
    /\ opened' = [opened EXCEPT ![c] = NoChallenge]
    /\ Claims(r, c, a)
    /\ UNCHANGED <<expired, rowVars, lockVars, committed, failures>>

\* Missing, of another agent, or expired: only its own agent burns it.
ClaimInvalid(r, c, a) ==
    /\ request[r].step = "idle"
    /\ opened[c].agent # a \/ c \in expired
    /\ opened' = [opened EXCEPT ![c] = IF @.agent = a THEN NoChallenge ELSE @]
    /\ SetStep(r, "refused")
    /\ UNCHANGED <<expired, claims, rowVars, lockVars, committed, failures>>

\* existingAgentGate and the proofs: the agent's row is read, not locked.  An
\* agent that exists must be active and present its token; the proofs must
\* cover the challenge's wallets and verify.
PassGate(r, order) ==
    LET a == request[r].agent IN
    /\ request[r].step = "claimed"
    /\ status[a] \in {None, "active"}
    /\ request' = [request EXCEPT ![r].step = "binding", ![r].todo = order]
    /\ UNCHANGED <<challengeVars, rowVars, lockVars, committed, failures>>

RefuseCompletion(r) ==
    /\ request[r].step = "claimed"
    /\ SetStep(r, "refused")
    /\ UNCHANGED <<challengeVars, rowVars, lockVars, committed, failures>>

-----------------------------------------------------------------------------
(* The binding transaction, statement by statement *)

Free(lock, r) == lock \in {None, r}

\* INSERT INTO agents ... ON CONFLICT DO UPDATE takes the agent's row; its
\* writes show at the commit.
UpsertAgentForHandshake(r) ==
    LET a == request[r].agent IN
    /\ request[r].step = "binding"
    /\ Free(agentLock[a], r)
    /\ agentLock' = [agentLock EXCEPT ![a] = r]
    /\ SetStep(r, "wallets")
    /\ UNCHANGED <<challengeVars, rowVars, walletLock, committed, failures>>

NextWallet(r) == Head(request[r].todo)

AfterWallet(r) ==
    request' = [request EXCEPT ![r].todo = Tail(@),
                    ![r].step = IF Len(request[r].todo) = 1 THEN "naming" ELSE "wallets"]

\* Wrong on purpose: every wallet is claimed in a transaction of its own.
ClaimWalletAlone(r) ==
    /\ request[r].step = "wallets"
    /\ Free(walletLock[NextWallet(r)], r)
    /\ owner' = [owner EXCEPT ![NextWallet(r)] = request[r].agent]
    /\ AfterWallet(r)
    /\ UNCHANGED <<challengeVars, token, name, status, lockVars, committed, failures>>

\* claimWallet: the row is locked and reassigned, or inserted; an insert that
\* meets one in flight waits for its end and, if that committed, reassigns.
ClaimWallet(r) ==
    /\ request[r].step = "wallets"
    /\ Free(walletLock[NextWallet(r)], r)
    /\ walletLock' = [walletLock EXCEPT ![NextWallet(r)] = r]
    /\ AfterWallet(r)
    /\ UNCHANGED <<challengeVars, rowVars, agentLock, committed, failures>>

TakenByOther(n, a) == \E b \in Agents \ {a} : name[b] = n

\* The i-th candidate is the first whose unique key no other agent holds.
FirstOpen(i, a) ==
    /\ ~TakenByOther(Candidates[a][i], a)
    /\ \A j \in 1 .. i - 1 : TakenByOther(Candidates[a][j], a)

\* Another transaction is writing this name: the update waits for its end.
NameInFlight(n, r) == \E q \in Requests \ {r} : request[q].named = n

KeepName(r) ==
    /\ request[r].step = "naming"
    /\ name[request[r].agent] # None
    /\ SetStep(r, "committing")
    /\ UNCHANGED <<challengeVars, rowVars, lockVars, committed, failures>>

\* Wrong on purpose: the shortest candidate, taken or not.
AssignFirstName(r) ==
    LET a == request[r].agent IN
    /\ request[r].step = "naming"
    /\ name[a] = None
    /\ request' = [request EXCEPT ![r].step = "committing", ![r].named = Head(Candidates[a])]
    /\ UNCHANGED <<challengeVars, rowVars, lockVars, committed, failures>>

\* assignAgentName: the first candidate whose update meets no unique violation.
AssignAgentName(r) ==
    LET a == request[r].agent IN
    /\ request[r].step = "naming"
    /\ name[a] = None
    /\ \E i \in DOMAIN Candidates[a] :
        /\ FirstOpen(i, a)
        /\ ~NameInFlight(Candidates[a][i], r)
        /\ request' = [request EXCEPT ![r].step = "committing", ![r].named = Candidates[a][i]]
    /\ UNCHANGED <<challengeVars, rowVars, lockVars, committed, failures>>

Release(r) ==
    /\ agentLock' = [a \in Agents |-> IF agentLock[a] = r THEN None ELSE agentLock[a]]
    /\ walletLock' = [w \in Wallets |-> IF walletLock[w] = r THEN None ELSE walletLock[w]]

End(r, s) == request' = [request EXCEPT ![r].step = s, ![r].todo = <<>>, ![r].named = None]

Commit(r) ==
    LET a == request[r].agent IN
    /\ request[r].step = "committing"
    /\ token' = [token EXCEPT ![a] = r]
    /\ name' = [name EXCEPT ![a] = IF request[r].named = None THEN @ ELSE request[r].named]
    /\ status' = [status EXCEPT ![a] = IF @ = None THEN "active" ELSE @]
    /\ owner' = [w \in Wallets |-> IF walletLock[w] = r THEN a ELSE owner[w]]
    /\ committed' = Append(committed, r)
    /\ Release(r)
    /\ End(r, "bound")
    /\ UNCHANGED <<challengeVars, failures>>

\* Wrong on purpose: the connection is returned without a ROLLBACK.
AbandonTransaction(r) ==
    /\ End(r, "failed")
    /\ UNCHANGED <<challengeVars, rowVars, lockVars, committed>>

Rollback(r) ==
    /\ Release(r)
    /\ End(r, "failed")
    /\ UNCHANGED <<challengeVars, rowVars, committed>>

\* Every candidate is taken: the error rolls the binding back.
NoNameLeft(r) ==
    /\ request[r].step = "naming"
    /\ name[request[r].agent] = None
    /\ \A i \in DOMAIN Candidates[request[r].agent] :
            TakenByOther(Candidates[request[r].agent][i], request[r].agent)
    /\ Rollback(r)
    /\ UNCHANGED failures

\* A statement fails, or the process dies and its connection with it.
BindingFails(r) ==
    /\ request[r].step \in InTransaction
    /\ failures < MaxFailures
    /\ failures' = failures + 1
    /\ Rollback(r)

\* The transaction that holds what the request's next statement needs.
Blockers(r) ==
    CASE request[r].step = "binding" -> {agentLock[request[r].agent]} \ {None, r}
      [] request[r].step = "wallets" -> {walletLock[NextWallet(r)]} \ {None, r}
      [] OTHER -> {}

\* Postgres ends a cycle of waiting transactions by failing one of them.
DeadlockDetected(r) ==
    /\ \E R \in SUBSET Requests : r \in R /\ UNION {Blockers(q) : q \in R} = R
    /\ Rollback(r)
    /\ UNCHANGED failures

-----------------------------------------------------------------------------
\* Consent revoked or agent quarantined meanwhile: the update waits for the row.
LeaveActive(a, s) ==
    /\ status[a] = "active" /\ s # "active"
    /\ agentLock[a] = None
    /\ status' = [status EXCEPT ![a] = s]
    /\ UNCHANGED <<challengeVars, request, token, name, owner, lockVars, committed, failures>>

BindingStep(r) ==
    \/ UpsertAgentForHandshake(r) \/ ClaimWallet(r)
    \/ KeepName(r) \/ AssignAgentName(r) \/ NoNameLeft(r) \/ Commit(r)
    \/ DeadlockDetected(r)

Answer(r) ==
    \/ RefuseCompletion(r) \/ BindingStep(r)
    \/ \E order \in Orders(request[r].wallets) : PassGate(r, order)

Next ==
    \/ \E c \in Challenges :
        \/ ChallengeExpires(c) \/ DeleteExpiredHandshakeChallenges(c)
        \/ \E a \in Agents, W \in SUBSET Wallets : StartSession(c, a, W)
        \/ \E r \in Requests, a \in Agents : ClaimChallenge(r, c, a) \/ ClaimInvalid(r, c, a)
    \/ \E r \in Requests : Answer(r) \/ BindingFails(r)
    \/ \E a \in Agents, s \in Statuses : LeaveActive(a, s)

\* A request that has claimed its challenge keeps running; Postgres answers
\* every statement whose locks are free and breaks every deadlock.
Fairness == \A r \in Requests : WF_vars(Answer(r))

Spec == Init /\ [][Next]_vars /\ Fairness

-----------------------------------------------------------------------------
(* Properties *)

\* Every variable has its type, and a transaction holds only what it touched.
TypeOK ==
    /\ opened \in [Challenges -> {NoChallenge} \cup [agent : Agents, wallets : SUBSET Wallets]]
    /\ expired \subseteq Challenges
    /\ request \in [Requests -> RequestStates]
    /\ token \in [Agents -> Requests \cup {None}]
    /\ name \in [Agents -> Names \cup {None}]
    /\ status \in [Agents -> Statuses \cup {None}]
    /\ owner \in [Wallets -> Agents \cup {None}]
    /\ agentLock \in [Agents -> Requests \cup {None}]
    /\ walletLock \in [Wallets -> Requests \cup {None}]
    /\ \A r \in Requests :
        (\E a \in Agents : agentLock[a] = r) \/ (\E w \in Wallets : walletLock[w] = r)
            => request[r].step \in InTransaction
    /\ claims \in [Challenges -> SUBSET Requests]
    /\ committed \in Seq(Requests)
    /\ failures \in Nat

\* A challenge serves at most one completion, although several may present it
\* at once (the claim locks and deletes the row).
ChallengeServesOnce == \A c \in Challenges : Cardinality(claims[c]) <= 1

\* What the committed bindings give when they run one after the other.
LastOf(I) == CHOOSE i \in I : \A j \in I : j <= i
WinnerOf(I) == IF I = {} THEN None ELSE committed[LastOf(I)]
Binding(w) == {i \in DOMAIN committed : w \in request[committed[i]].wallets}
Of(a) == {i \in DOMAIN committed : request[committed[i]].agent = a}

\* Bindings are serialisable: whatever completions overlap, fail or deadlock,
\* each wallet belongs to the agent, and each agent carries the token, of the
\* last committed binding that covers it, so two rival bindings never share
\* out a set of wallets between them.
BindingsSerialise ==
    /\ \A w \in Wallets :
        owner[w] = IF Binding(w) = {} THEN None ELSE request[WinnerOf(Binding(w))].agent
    /\ \A a \in Agents : token[a] = WinnerOf(Of(a))

\* Names identify agents: no two share one and every bound agent has one,
\* although the candidates are truncated hashes that may collide.
NamesIdentify ==
    \A a \in Agents : token[a] # None =>
        name[a] # None /\ \A b \in Agents \ {a} : name[b] # name[a]

\* Every completion that claimed its challenge is answered, also when two of
\* them want each other's wallets in opposite orders.
EventuallyAnswered ==
    \A r \in Requests : request[r].step = "claimed" ~> request[r].step \in Ended

=============================================================================
