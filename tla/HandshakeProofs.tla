--------------------------- MODULE HandshakeProofs ---------------------------
(***************************************************************************)
(* Theorems about the handshake, for any agents, wallets, challenges,      *)
(* requests and candidate names.  The binding transaction is serialisable  *)
(* because, when it commits, the wallets it holds locked are exactly those *)
(* of its challenge: it has claimed each of them once, and nobody could    *)
(* take a lock from it.  Names are unique because a name in flight is free *)
(* of every other agent and of every other transaction.                    *)
(***************************************************************************)
EXTENDS Handshake, FunctionTheorems, FiniteSetTheorems, TLAPS

\* The wallets a request has still to claim.
Left(q) == {request[q].todo[i] : i \in DOMAIN request[q].todo}

\* A request in its transaction holds what it has claimed and nothing else.
Fits(q) ==
    /\ request[q].step \notin {"idle", "refused", "failed"} =>
        request[q].agent \in Agents /\ request[q].wallets # {}
    /\ request[q].step \in InTransaction =>
        /\ \A i, j \in DOMAIN request[q].todo :
              i # j => request[q].todo[i] # request[q].todo[j]
        /\ Left(q) \subseteq request[q].wallets
        /\ \A w \in Wallets :
              walletLock[w] = q <=> w \in request[q].wallets /\ w \notin Left(q)
        /\ request[q].step \in {"binding", "wallets"} => request[q].todo # <<>>
        /\ request[q].step \in {"naming", "committing"} => request[q].todo = <<>>

\* A claimed challenge is gone for good; one that is open has wallets.
ChallengesSound ==
    \A c \in Challenges :
        /\ opened[c] # NoChallenge => opened[c].wallets # {}
        /\ claims[c] = {} \/ (opened[c] = NoChallenge /\ \E r \in Requests : claims[c] = {r})

NamesUnique ==
    /\ \A a, b \in Agents : a # b /\ name[a] # None => name[a] # name[b]
    /\ \A a \in Agents : token[a] # None => name[a] # None

\* The name a transaction has written is nobody else's, committed or not.
NameHeld(q) ==
    /\ request[q].named # None =>
        /\ request[q].step = "committing"
        /\ ~TakenByOther(request[q].named, request[q].agent)
        /\ ~NameInFlight(request[q].named, q)
    /\ request[q].step = "committing" /\ request[q].named = None => name[request[q].agent] # None

HasLast(I) == I = {} \/ \E i \in I : \A j \in I : j <= i

HistorySound ==
    /\ \A i \in DOMAIN committed : request[committed[i]].step = "bound"
    /\ \A w \in Wallets : HasLast(Binding(w))
    /\ \A a \in Agents : HasLast(Of(a))

HandshakeInv ==
    /\ TypeOK /\ ChallengesSound /\ NamesUnique /\ HistorySound /\ BindingsSerialise
    /\ \A q \in Requests : Fits(q) /\ NameHeld(q)

-----------------------------------------------------------------------------
(* How a step changes a request *)

LEMMA RequestFields ==
    ASSUME TypeOK, NEW r \in Requests
    PROVE  /\ request[r] \in RequestStates /\ request[r].step \in Steps
           /\ request[r].agent \in Agents \cup {None} /\ request[r].wallets \in SUBSET Wallets
           /\ request[r].todo \in Seq(Wallets) /\ request[r].named \in Names \cup {None}
<1>1. request[r] \in RequestStates
  BY DEF TypeOK
<1>2. QED
  BY <1>1 DEF RequestStates

LEMMA RequestReplaced ==
    ASSUME TypeOK, NEW r \in Requests, NEW v \in RequestStates,
           request' = [request EXCEPT ![r] = v]
    PROVE  /\ request' \in [Requests -> RequestStates] /\ request'[r] = v
           /\ \A q \in Requests : q # r => request'[q] = request[q]
BY DEF TypeOK

LEMMA SetStepTyped ==
    ASSUME TypeOK, NEW r \in Requests, NEW s \in Steps, SetStep(r, s)
    PROVE  /\ request' \in [Requests -> RequestStates]
           /\ request'[r].step = s /\ request'[r].agent = request[r].agent
           /\ request'[r].wallets = request[r].wallets /\ request'[r].todo = request[r].todo
           /\ request'[r].named = request[r].named
           /\ \A q \in Requests : q # r => request'[q] = request[q]
<1> DEFINE v == [request[r] EXCEPT !.step = s]
<1>1. /\ v \in RequestStates /\ v.step = s /\ v.agent = request[r].agent
      /\ v.wallets = request[r].wallets /\ v.todo = request[r].todo /\ v.named = request[r].named
  BY RequestFields DEF RequestStates
<1>2. request' = [request EXCEPT ![r] = v]
  BY DEF SetStep, TypeOK
<1> HIDE DEF v
<1>v. v \in RequestStates
  BY <1>1
<1>3. QED
  BY <1>1, <1>v, <1>2, RequestReplaced

LEMMA EndTyped ==
    ASSUME TypeOK, NEW r \in Requests, NEW s \in Steps, End(r, s)
    PROVE  /\ request' \in [Requests -> RequestStates]
           /\ request'[r].step = s /\ request'[r].agent = request[r].agent
           /\ request'[r].wallets = request[r].wallets /\ request'[r].todo = <<>>
           /\ request'[r].named = None
           /\ \A q \in Requests : q # r => request'[q] = request[q]
<1> DEFINE v == [request[r] EXCEPT !.step = s, !.todo = <<>>, !.named = None]
<1>0. <<>> \in Seq(Wallets)
  OBVIOUS
<1>f. /\ request[r] \in RequestStates /\ request[r].agent \in Agents \cup {None}
      /\ request[r].wallets \in SUBSET Wallets
  BY RequestFields
<1>1. /\ v \in RequestStates /\ v.step = s /\ v.agent = request[r].agent
      /\ v.wallets = request[r].wallets /\ v.todo = <<>> /\ v.named = None
  BY <1>0, <1>f DEF RequestStates
<1>2. request' = [request EXCEPT ![r] = v]
  BY DEF End, TypeOK
<1> HIDE DEF v
<1>v. v \in RequestStates
  BY <1>1
<1>3. QED
  BY <1>1, <1>v, <1>2, RequestReplaced

LEMMA ReleaseTyped ==
    ASSUME TypeOK, NEW r \in Requests, Release(r)
    PROVE  /\ agentLock' \in [Agents -> Requests \cup {None}]
           /\ walletLock' \in [Wallets -> Requests \cup {None}]
           /\ \A a \in Agents, q \in Requests : agentLock'[a] = q <=> agentLock[a] = q /\ q # r
           /\ \A w \in Wallets, q \in Requests : walletLock'[w] = q <=> walletLock[w] = q /\ q # r
BY HandshakeAssumption DEF Release, TypeOK

\* The type of the locks: only a transaction holds one.
LocksTyped ==
    \A r \in Requests :
        (\E a \in Agents : agentLock[a] = r) \/ (\E w \in Wallets : walletLock[w] = r)
            => request[r].step \in InTransaction

-----------------------------------------------------------------------------
(* The last of a set of positions *)

LEMMA LastIn ==
    ASSUME NEW I, I # {}, HasLast(I)
    PROVE  LastOf(I) \in I
BY DEF LastOf, HasLast

LEMMA LastNew ==
    ASSUME NEW n \in Nat, NEW I, I \subseteq 1 .. n
    PROVE  LastOf(I \cup {n + 1}) = n + 1 /\ HasLast(I \cup {n + 1})
<1>1. \A j \in I \cup {n + 1} : j <= n + 1
  OBVIOUS
<1>2. \A i \in I \cup {n + 1} : (\A j \in I \cup {n + 1} : j <= i) => i = n + 1
  OBVIOUS
<1>3. QED
  BY <1>1, <1>2 DEF LastOf, HasLast

-----------------------------------------------------------------------------
(* What most steps leave alone *)

\* A step of one request that does not commit: the others keep what they hold.
LEMMA KeptByRequest ==
    ASSUME HandshakeInv, TypeOK', ChallengesSound', NEW r \in Requests,
           request[r].step # "bound",
           \A q \in Requests : q # r => request'[q] = request[q],
           \A q \in Requests, w \in Wallets :
              q # r => (walletLock'[w] = q <=> walletLock[w] = q),
           UNCHANGED <<token, name, owner, committed>>,
           Fits(r)', NameHeld(r)',
           request'[r].named \in {None, request[r].named}
              \/ \A q \in Requests : q # r => request[q].named # request'[r].named
    PROVE  HandshakeInv'
<1>1. ASSUME NEW q \in Requests
      PROVE  Fits(q)' /\ NameHeld(q)'
  <2>1. CASE q = r
    BY <2>1 DEF Fits, NameHeld, Left, TakenByOther, NameInFlight
  <2>2. CASE q # r
    <3>1. Fits(q)'
      BY <2>2 DEF HandshakeInv, Fits, Left
    <3>2. NameHeld(q)'
      BY <2>2 DEF HandshakeInv, NameHeld, TakenByOther, NameInFlight
    <3>3. QED
      BY <3>1, <3>2
  <2>3. QED
    BY <2>1, <2>2
<1>2. NamesUnique'
  BY DEF HandshakeInv, NamesUnique
<1>3. \A i \in DOMAIN committed : /\ committed[i] \in Requests
                                  /\ request'[committed[i]] = request[committed[i]]
  BY DEF HandshakeInv, HistorySound, TypeOK
<1>4. /\ \A w : Binding(w)' = Binding(w)
      /\ \A a : Of(a)' = Of(a)
  BY <1>3 DEF Binding, Of
<1>5. HistorySound'
  BY <1>3, <1>4 DEF HandshakeInv, HistorySound
<1>6. BindingsSerialise'
  <2>1. ASSUME NEW w \in Wallets
        PROVE  owner'[w] = IF Binding(w) = {} THEN None
                           ELSE request'[WinnerOf(Binding(w))].agent
    <3>1. CASE Binding(w) = {}
      BY <3>1 DEF HandshakeInv, BindingsSerialise
    <3>2. CASE Binding(w) # {}
      <4>1. LastOf(Binding(w)) \in DOMAIN committed
        BY <3>2, LastIn DEF HandshakeInv, HistorySound, Binding
      <4>2. QED
        BY <1>3, <3>2, <4>1 DEF HandshakeInv, BindingsSerialise, WinnerOf
    <3>3. QED
      BY <3>1, <3>2
  <2>2. \A I : WinnerOf(I)' = WinnerOf(I)
    BY DEF WinnerOf
  <2>3. QED
    BY <1>4, <2>1, <2>2 DEF HandshakeInv, BindingsSerialise
<1>7. QED
  BY <1>1, <1>2, <1>5, <1>6 DEF HandshakeInv

\* A step of nobody's completion.
LEMMA KeptOutside ==
    ASSUME HandshakeInv, TypeOK', ChallengesSound',
           UNCHANGED <<request, token, name, owner, walletLock, committed>>
    PROVE  HandshakeInv'
<1>1. \A q \in Requests : Fits(q)' /\ NameHeld(q)'
  BY DEF HandshakeInv, Fits, NameHeld, Left, TakenByOther, NameInFlight
<1>2. NamesUnique'
  BY DEF HandshakeInv, NamesUnique
<1>3. /\ \A w : Binding(w)' = Binding(w)
      /\ \A a : Of(a)' = Of(a)
      /\ \A I : WinnerOf(I)' = WinnerOf(I)
  BY DEF Binding, Of, WinnerOf
<1>4. HistorySound' /\ BindingsSerialise'
  BY <1>3 DEF HandshakeInv, HistorySound, BindingsSerialise
<1>5. QED
  BY <1>1, <1>2, <1>4 DEF HandshakeInv

LEMMA InitHandshake == Init => HandshakeInv
<1> SUFFICES ASSUME Init PROVE HandshakeInv
  OBVIOUS
<1>0. <<>> \in Seq(Wallets) /\ <<>> \in Seq(Requests) /\ DOMAIN <<>> = {}
  OBVIOUS
<1>1. Idle \in RequestStates
  BY <1>0 DEF Idle, RequestStates, Steps
<1>2. TypeOK
  BY <1>0, <1>1, HandshakeAssumption DEF Init, TypeOK
<1>3. ChallengesSound /\ NamesUnique
  BY DEF Init, ChallengesSound, NamesUnique
<1>4. \A q \in Requests : Fits(q) /\ NameHeld(q)
  BY DEF Init, Fits, NameHeld, Idle, InTransaction
<1>5. \A w : Binding(w) = {} /\ Of(w) = {}
  BY <1>0 DEF Init, Binding, Of
<1>6. HistorySound /\ BindingsSerialise
  BY <1>0, <1>5 DEF Init, HistorySound, HasLast, BindingsSerialise, WinnerOf
<1>7. QED
  BY <1>2, <1>3, <1>4, <1>6 DEF HandshakeInv

-----------------------------------------------------------------------------
(* Steps before the transaction *)

LEMMA ClaimChallengeKeeps ==
    ASSUME HandshakeInv, NEW r \in Requests, NEW c \in Challenges, NEW a \in Agents,
           ClaimChallenge(r, c, a)
    PROVE  HandshakeInv'
<1>t. TypeOK
  BY DEF HandshakeInv
<1> DEFINE v == [request[r] EXCEPT !.step = "claimed", !.agent = a,
                                   !.wallets = opened[c].wallets]
<1>1. /\ opened[c] # NoChallenge /\ opened[c].wallets \in SUBSET Wallets
      /\ opened[c].wallets # {} /\ claims[c] = {} /\ request[r].step = "idle"
  <2>1. request[r].step = "idle" /\ opened[c].agent = a
    BY DEF ClaimChallenge
  <2>2. opened[c] # NoChallenge
    BY <2>1, HandshakeAssumption DEF NoChallenge
  <2>3. opened[c].wallets \in SUBSET Wallets
    BY <1>t, <2>2 DEF TypeOK
  <2>4. opened[c].wallets # {} /\ claims[c] = {}
    BY <2>2 DEF HandshakeInv, ChallengesSound
  <2>5. QED
    BY <2>1, <2>2, <2>3, <2>4
<1>2. request[r].named = None
  BY <1>1 DEF HandshakeInv, NameHeld
<1>3. /\ v \in RequestStates /\ v.step = "claimed" /\ v.agent = a
      /\ v.wallets = opened[c].wallets /\ v.named = request[r].named
  BY <1>t, <1>1, RequestFields DEF RequestStates, Steps
<1>4. request' = [request EXCEPT ![r] = v]
  BY <1>t DEF ClaimChallenge, Claims, TypeOK
<1> HIDE DEF v
<1>v. v \in RequestStates
  BY <1>3
<1>5. /\ request' \in [Requests -> RequestStates] /\ request'[r] = v
      /\ \A q \in Requests : q # r => request'[q] = request[q]
  BY <1>t, <1>v, <1>4, RequestReplaced
<1>6. LocksTyped'
  <2>1. LocksTyped
    BY <1>t DEF TypeOK, LocksTyped
  <2>2. UNCHANGED lockVars /\ request[r].step \notin InTransaction
    BY <1>1 DEF ClaimChallenge, InTransaction
  <2>3. QED
    BY <1>5, <2>1, <2>2 DEF LocksTyped, lockVars
<1>7. TypeOK'
  <2>1. claims' \in [Challenges -> SUBSET Requests]
    BY <1>t DEF ClaimChallenge, Claims, TypeOK
  <2>2. QED
    BY <1>t, <1>5, <1>6, <2>1 DEF ClaimChallenge, TypeOK, LocksTyped, rowVars, lockVars
<1>8. ChallengesSound'
  BY <1>t, <1>1 DEF ClaimChallenge, Claims, HandshakeInv, ChallengesSound, TypeOK
<1>9. Fits(r)' /\ NameHeld(r)'
  BY <1>1, <1>2, <1>3, <1>5 DEF Fits, NameHeld, InTransaction
<1>10. QED
  BY <1>1, <1>3, <1>5, <1>7, <1>8, <1>9, KeptByRequest
     DEF ClaimChallenge, rowVars, lockVars

LEMMA ClaimInvalidKeeps ==
    ASSUME HandshakeInv, NEW r \in Requests, NEW c \in Challenges, NEW a \in Agents,
           ClaimInvalid(r, c, a)
    PROVE  HandshakeInv'
<1>t. TypeOK
  BY DEF HandshakeInv
<1>1. "refused" \in Steps /\ SetStep(r, "refused") /\ request[r].step = "idle"
  BY DEF Steps, Ended, ClaimInvalid
<1>2. request[r].named = None
  BY <1>1 DEF HandshakeInv, NameHeld
<1>3. /\ request' \in [Requests -> RequestStates] /\ request'[r].step = "refused"
      /\ request'[r].named = None
      /\ \A q \in Requests : q # r => request'[q] = request[q]
  BY <1>t, <1>1, <1>2, SetStepTyped
<1>4. LocksTyped'
  <2>1. LocksTyped /\ UNCHANGED lockVars /\ request[r].step \notin InTransaction
    BY <1>t, <1>1 DEF TypeOK, LocksTyped, ClaimInvalid, InTransaction
  <2>2. QED
    BY <1>3, <2>1 DEF LocksTyped, lockVars
<1>5. opened' \in [Challenges -> {NoChallenge} \cup [agent : Agents, wallets : SUBSET Wallets]]
  BY <1>t DEF ClaimInvalid, TypeOK
<1>6. TypeOK'
  BY <1>t, <1>3, <1>4, <1>5 DEF ClaimInvalid, TypeOK, LocksTyped, rowVars, lockVars
<1>7. ChallengesSound'
  BY <1>t DEF ClaimInvalid, HandshakeInv, ChallengesSound, TypeOK
<1>8. Fits(r)' /\ NameHeld(r)'
  BY <1>3 DEF Fits, NameHeld, InTransaction
<1>9. QED
  BY <1>1, <1>3, <1>6, <1>7, <1>8, KeptByRequest DEF ClaimInvalid, rowVars, lockVars

LEMMA RefuseKeeps ==
    ASSUME HandshakeInv, NEW r \in Requests, RefuseCompletion(r)
    PROVE  HandshakeInv'
<1>t. TypeOK
  BY DEF HandshakeInv
<1>1. "refused" \in Steps /\ SetStep(r, "refused") /\ request[r].step = "claimed"
  BY DEF Steps, Ended, RefuseCompletion
<1>2. request[r].named = None
  BY <1>1 DEF HandshakeInv, NameHeld
<1>3. /\ request' \in [Requests -> RequestStates] /\ request'[r].step = "refused"
      /\ request'[r].named = None
      /\ \A q \in Requests : q # r => request'[q] = request[q]
  BY <1>t, <1>1, <1>2, SetStepTyped
<1>4. LocksTyped'
  <2>1. LocksTyped /\ UNCHANGED lockVars /\ request[r].step \notin InTransaction
    BY <1>t, <1>1 DEF TypeOK, LocksTyped, RefuseCompletion, InTransaction
  <2>2. QED
    BY <1>3, <2>1 DEF LocksTyped, lockVars
<1>6. TypeOK'
  BY <1>t, <1>3, <1>4
     DEF RefuseCompletion, TypeOK, LocksTyped, rowVars, lockVars, challengeVars
<1>7. ChallengesSound'
  BY DEF RefuseCompletion, HandshakeInv, ChallengesSound, challengeVars
<1>8. Fits(r)' /\ NameHeld(r)'
  BY <1>3 DEF Fits, NameHeld, InTransaction
<1>9. QED
  BY <1>1, <1>3, <1>6, <1>7, <1>8, KeptByRequest
     DEF RefuseCompletion, rowVars, lockVars

\* An order lists every wallet of the challenge once.
LEMMA OrderCovers ==
    ASSUME NEW W, W \subseteq Wallets, W # {}, NEW order \in Orders(W)
    PROVE  /\ order \in Seq(Wallets) /\ order # <<>>
           /\ {order[i] : i \in DOMAIN order} = W
           /\ \A i, j \in DOMAIN order : i # j => order[i] # order[j]
<1> DEFINE n == Cardinality(W)
<1>1. IsFiniteSet(W) /\ n \in Nat /\ n # 0
  BY FS_Subset, FS_CardinalityType, FS_EmptySet, HandshakeAssumption
<1>2. order \in [1 .. n -> W] /\ \A i, j \in DOMAIN order : i # j => order[i] # order[j]
  BY DEF Orders
<1> HIDE DEF n
<1>3. order \in Seq(Wallets) /\ order # <<>>
  BY <1>1, <1>2
<1>4. {order[i] : i \in DOMAIN order} = W
  <2>1. order \in Injection(1 .. n, W) /\ DOMAIN order = 1 .. n
    BY <1>2, Fun_IsInj
  <2>2. Cardinality(1 .. n) = Cardinality(W)
    BY <1>1, FS_Interval DEF n
  <2>3. order \in Surjection(1 .. n, W)
    BY <1>1, <2>1, <2>2, FS_Injection, Zenon
  <2>4. \A w \in W : \E i \in 1 .. n : order[i] = w
    BY <2>3 DEF Surjection
  <2>5. QED
    BY <1>2, <2>1, <2>4
<1>5. QED
  BY <1>2, <1>3, <1>4

LEMMA PassGateKeeps ==
    ASSUME HandshakeInv, NEW r \in Requests, NEW order \in Orders(request[r].wallets),
           PassGate(r, order)
    PROVE  HandshakeInv'
<1>t. TypeOK
  BY DEF HandshakeInv
<1> DEFINE v == [request[r] EXCEPT !.step = "binding", !.todo = order]
<1>1. /\ request[r].step = "claimed" /\ request[r].named = None
      /\ request[r].agent \in Agents /\ request[r].wallets # {}
      /\ request[r].wallets \in SUBSET Wallets
  BY <1>t, RequestFields DEF PassGate, HandshakeInv, NameHeld, Fits
<1>2. /\ order \in Seq(Wallets) /\ order # <<>>
      /\ {order[i] : i \in DOMAIN order} = request[r].wallets
      /\ \A i, j \in DOMAIN order : i # j => order[i] # order[j]
  BY <1>1, OrderCovers
<1>3. /\ v \in RequestStates /\ v.step = "binding" /\ v.agent = request[r].agent
      /\ v.wallets = request[r].wallets /\ v.named = None /\ v.todo = order
  BY <1>t, <1>1, <1>2, RequestFields DEF RequestStates, Steps, InTransaction
<1>4. request' = [request EXCEPT ![r] = v]
  BY <1>t DEF PassGate, TypeOK
<1> HIDE DEF v
<1>v. v \in RequestStates
  BY <1>3
<1>5. /\ request' \in [Requests -> RequestStates] /\ request'[r] = v
      /\ \A q \in Requests : q # r => request'[q] = request[q]
  BY <1>t, <1>v, <1>4, RequestReplaced
<1>6. LocksTyped /\ UNCHANGED lockVars
  BY <1>t DEF TypeOK, LocksTyped, PassGate
<1>7. LocksTyped'
  BY <1>3, <1>5, <1>6 DEF LocksTyped, lockVars, InTransaction
<1>8. TypeOK'
  BY <1>t, <1>5, <1>7 DEF PassGate, TypeOK, LocksTyped, rowVars, lockVars, challengeVars
<1>9. ChallengesSound'
  BY DEF PassGate, HandshakeInv, ChallengesSound, challengeVars
<1>10. \A w \in Wallets : walletLock'[w] # r
  BY <1>1, <1>6 DEF LocksTyped, InTransaction, lockVars
<1>11. Fits(r)' /\ NameHeld(r)'
  BY <1>1, <1>2, <1>3, <1>5, <1>10 DEF Fits, NameHeld, InTransaction, Left
<1>12. QED
  BY <1>1, <1>3, <1>5, <1>6, <1>8, <1>9, <1>11, KeptByRequest
     DEF PassGate, rowVars, lockVars

-----------------------------------------------------------------------------
(* Steps of the transaction *)

\* Taking the first of a list of distinct elements leaves the others.
LEMMA HeadTaken ==
    ASSUME NEW S, NEW s \in Seq(S), s # <<>>,
           \A i, j \in DOMAIN s : i # j => s[i] # s[j]
    PROVE  /\ Head(s) \in S /\ Tail(s) \in Seq(S)
           /\ Len(s) = 1 <=> Tail(s) = <<>>
           /\ {s[i] : i \in DOMAIN s} = {Tail(s)[i] : i \in DOMAIN Tail(s)} \cup {Head(s)}
           /\ Head(s) \notin {Tail(s)[i] : i \in DOMAIN Tail(s)}
           /\ \A i, j \in DOMAIN Tail(s) : i # j => Tail(s)[i] # Tail(s)[j]
<1> DEFINE n == Len(s)
<1>1. n \in Nat \ {0} /\ DOMAIN s = 1 .. n /\ Head(s) = s[1]
  OBVIOUS
<1>2. Head(s) \in S /\ Tail(s) \in Seq(S) /\ Len(Tail(s)) = n - 1
  OBVIOUS
<1>3. DOMAIN Tail(s) = 1 .. n - 1
  BY <1>2
<1>4. \A i \in 1 .. n - 1 : Tail(s)[i] = s[i + 1] /\ i + 1 \in 1 .. n /\ i + 1 # 1
  OBVIOUS
<1>5. n = 1 <=> Tail(s) = <<>>
  <2>1. Len(Tail(s)) = 0 <=> Tail(s) = <<>>
    BY <1>2
  <2>2. n = 1 <=> Len(Tail(s)) = 0
    BY <1>1, <1>2
  <2>3. QED
    BY <2>1, <2>2
<1> HIDE DEF n
<1>6. \A i \in 1 .. n : i # 1 => i - 1 \in 1 .. n - 1 /\ (i - 1) + 1 = i
  BY <1>1
<1>7. \A i \in 1 .. n : i # 1 => \E j \in 1 .. n - 1 : s[i] = Tail(s)[j]
  BY <1>4, <1>6
<1>8. 1 \in 1 .. n
  BY <1>1
<1>9. {s[i] : i \in 1 .. n} = {Tail(s)[i] : i \in 1 .. n - 1} \cup {s[1]}
  <2>1. \A i \in 1 .. n : s[i] \in {Tail(s)[j] : j \in 1 .. n - 1} \cup {s[1]}
    BY <1>7
  <2>2. \A j \in 1 .. n - 1 : Tail(s)[j] \in {s[i] : i \in 1 .. n}
    BY <1>4
  <2>3. s[1] \in {s[i] : i \in 1 .. n}
    BY <1>8
  <2>4. {s[i] : i \in 1 .. n} \subseteq {Tail(s)[j] : j \in 1 .. n - 1} \cup {s[1]}
    BY <2>1
  <2>5. {Tail(s)[j] : j \in 1 .. n - 1} \subseteq {s[i] : i \in 1 .. n}
    BY <2>2
  <2>6. QED
    BY <2>3, <2>4, <2>5
<1>10. s[1] \notin {Tail(s)[i] : i \in 1 .. n - 1}
  BY <1>1, <1>4, <1>8
<1>11. ASSUME NEW i \in 1 .. n - 1, NEW j \in 1 .. n - 1, i # j
       PROVE  Tail(s)[i] # Tail(s)[j]
  <2>1. i + 1 # j + 1
    BY <1>1, <1>11
  <2>2. QED
    BY <1>1, <1>4, <2>1
<1>12. QED
  BY <1>1, <1>2, <1>3, <1>5, <1>9, <1>10, <1>11 DEF n

\* A lock that is taken was free or the request's own.
LEMMA LockTaken ==
    ASSUME NEW K, NEW lock \in [K -> Requests \cup {None}], NEW k \in K, NEW r \in Requests,
           Free(lock[k], r)
    PROVE  /\ [lock EXCEPT ![k] = r] \in [K -> Requests \cup {None}]
           /\ \A x \in K, q \in Requests :
                q # r => ([lock EXCEPT ![k] = r][x] = q <=> lock[x] = q)
           /\ \A x \in K : [lock EXCEPT ![k] = r][x] = r <=> x = k \/ lock[x] = r
BY HandshakeAssumption DEF Free

LEMMA UpsertKeeps ==
    ASSUME HandshakeInv, NEW r \in Requests, UpsertAgentForHandshake(r)
    PROVE  HandshakeInv'
<1>t. TypeOK
  BY DEF HandshakeInv
<1>1. /\ "wallets" \in Steps /\ SetStep(r, "wallets") /\ request[r].step = "binding"
  BY DEF Steps, InTransaction, UpsertAgentForHandshake
<1>2. request[r].agent \in Agents /\ request[r].named = None /\ request[r].todo # <<>>
  BY <1>1 DEF HandshakeInv, NameHeld, Fits, InTransaction
<1>3. /\ request' \in [Requests -> RequestStates] /\ request'[r].step = "wallets"
      /\ request'[r].agent = request[r].agent /\ request'[r].named = None
      /\ request'[r].wallets = request[r].wallets /\ request'[r].todo = request[r].todo
      /\ \A q \in Requests : q # r => request'[q] = request[q]
  BY <1>t, <1>1, <1>2, SetStepTyped
<1>4. /\ agentLock' \in [Agents -> Requests \cup {None}]
      /\ \A a \in Agents, q \in Requests : q # r => (agentLock'[a] = q <=> agentLock[a] = q)
  <2> DEFINE a == request[r].agent
  <2>1. /\ a \in Agents /\ agentLock \in [Agents -> Requests \cup {None}]
        /\ Free(agentLock[a], r) /\ agentLock' = [agentLock EXCEPT ![a] = r]
    BY <1>t, <1>2 DEF UpsertAgentForHandshake, TypeOK
  <2> HIDE DEF a
  <2>2. QED
    BY <2>1, LockTaken
<1>5. LocksTyped'
  <2>1. LocksTyped /\ UNCHANGED walletLock
    BY <1>t DEF TypeOK, LocksTyped, UpsertAgentForHandshake
  <2>2. QED
    BY <1>3, <1>4, <2>1 DEF LocksTyped, InTransaction
<1>6. TypeOK'
  BY <1>t, <1>3, <1>4, <1>5
     DEF UpsertAgentForHandshake, TypeOK, LocksTyped, rowVars, challengeVars
<1>7. ChallengesSound'
  BY DEF UpsertAgentForHandshake, HandshakeInv, ChallengesSound, challengeVars
<1>8. Fits(r)' /\ NameHeld(r)'
  BY <1>1, <1>2, <1>3
     DEF UpsertAgentForHandshake, HandshakeInv, Fits, NameHeld, InTransaction, Left
<1>9. QED
  BY <1>1, <1>3, <1>6, <1>7, <1>8, KeptByRequest DEF UpsertAgentForHandshake, rowVars

LEMMA ClaimWalletKeeps ==
    ASSUME HandshakeInv, NEW r \in Requests, ClaimWallet(r)
    PROVE  HandshakeInv'
<1>t. TypeOK
  BY DEF HandshakeInv
<1> DEFINE todo == request[r].todo
           s == IF Len(todo) = 1 THEN "naming" ELSE "wallets"
           v == [request[r] EXCEPT !.todo = Tail(todo), !.step = s]
<1>1. /\ request[r].step = "wallets" /\ request[r].named = None
      /\ request[r].agent \in Agents /\ request[r].wallets # {}
      /\ todo \in Seq(Wallets) /\ todo # <<>>
      /\ \A i, j \in DOMAIN todo : i # j => todo[i] # todo[j]
      /\ Left(r) \subseteq request[r].wallets
      /\ \A w \in Wallets : walletLock[w] = r <=> w \in request[r].wallets /\ w \notin Left(r)
  BY <1>t, RequestFields DEF ClaimWallet, HandshakeInv, NameHeld, Fits, InTransaction
<1> DEFINE rest == {Tail(todo)[i] : i \in DOMAIN Tail(todo)}
<1>2. /\ Head(todo) \in Wallets /\ Tail(todo) \in Seq(Wallets)
      /\ Len(todo) = 1 <=> Tail(todo) = <<>>
      /\ Left(r) = rest \cup {Head(todo)} /\ Head(todo) \notin rest
      /\ \A i, j \in DOMAIN Tail(todo) : i # j => Tail(todo)[i] # Tail(todo)[j]
  <2> HIDE DEF todo
  <2>1. Left(r) = {todo[i] : i \in DOMAIN todo}
    BY DEF Left, todo
  <2>2. /\ Head(todo) \in Wallets /\ Tail(todo) \in Seq(Wallets)
        /\ Len(todo) = 1 <=> Tail(todo) = <<>>
        /\ {todo[i] : i \in DOMAIN todo} = rest \cup {Head(todo)} /\ Head(todo) \notin rest
        /\ \A i, j \in DOMAIN Tail(todo) : i # j => Tail(todo)[i] # Tail(todo)[j]
    <3>1. todo \in Seq(Wallets) /\ todo # <<>>
          /\ \A i, j \in DOMAIN todo : i # j => todo[i] # todo[j]
      BY <1>1
    <3>2. QED
      BY <3>1, HeadTaken, Zenon
  <2>3. QED
    BY <2>1, <2>2
<1>3. /\ v \in RequestStates /\ v.step = s /\ v.agent = request[r].agent
      /\ v.wallets = request[r].wallets /\ v.named = None /\ v.todo = Tail(todo)
  BY <1>t, <1>1, <1>2, RequestFields, ZenonT(30) DEF RequestStates, Steps, InTransaction
<1>4. request' = [request EXCEPT ![r] = v]
  BY <1>t DEF ClaimWallet, AfterWallet, TypeOK
<1> HIDE DEF v
<1>v. v \in RequestStates
  BY <1>3
<1>5. /\ request' \in [Requests -> RequestStates] /\ request'[r] = v
      /\ \A q \in Requests : q # r => request'[q] = request[q]
  BY <1>t, <1>v, <1>4, RequestReplaced
<1>6. /\ walletLock' \in [Wallets -> Requests \cup {None}]
      /\ \A w \in Wallets, q \in Requests : q # r => (walletLock'[w] = q <=> walletLock[w] = q)
      /\ \A w \in Wallets : walletLock'[w] = r <=> w = Head(todo) \/ walletLock[w] = r
  BY <1>t, <1>2, LockTaken DEF ClaimWallet, NextWallet, TypeOK
<1>7. LocksTyped'
  <2>1. LocksTyped /\ UNCHANGED agentLock
    BY <1>t DEF TypeOK, LocksTyped, ClaimWallet
  <2>2. QED
    BY <1>3, <1>5, <1>6, <2>1 DEF LocksTyped, InTransaction
<1>8. TypeOK'
  BY <1>t, <1>5, <1>6, <1>7 DEF ClaimWallet, TypeOK, LocksTyped, rowVars, challengeVars
<1>9. ChallengesSound'
  BY DEF ClaimWallet, HandshakeInv, ChallengesSound, challengeVars
<1>10. Left(r)' = rest
  BY <1>3, <1>5 DEF Left
<1> HIDE DEF todo, rest
<1>11. Fits(r)' /\ NameHeld(r)'
  <2>1. \A w \in Wallets : walletLock'[w] = r <=> w \in request[r].wallets /\ w \notin Left(r)'
    BY <1>1, <1>2, <1>6, <1>10
  <2>2. Left(r)' \subseteq request[r].wallets
    BY <1>1, <1>2, <1>10
  <2>3. QED
    <3>1. /\ request'[r].step = s /\ request'[r].agent \in Agents
          /\ request'[r].wallets = request[r].wallets /\ request[r].wallets # {}
          /\ request'[r].named = None /\ request'[r].todo = Tail(todo)
      BY <1>1, <1>3, <1>5
    <3>2. /\ s = "naming" => Tail(todo) = <<>>
          /\ s = "wallets" => Tail(todo) # <<>>
          /\ s \in {"naming", "wallets"}
      BY <1>2
    <3> HIDE DEF s
    <3>3. NameHeld(r)'
      BY <3>1, <3>2 DEF NameHeld
    <3>4. Fits(r)'
      BY <1>2, <2>1, <2>2, <3>1, <3>2 DEF Fits
    <3>5. QED
      BY <3>3, <3>4
<1>12. QED
  BY <1>1, <1>3, <1>5, <1>6, <1>8, <1>9, <1>11, KeptByRequest DEF ClaimWallet, rowVars

LEMMA KeepNameKeeps ==
    ASSUME HandshakeInv, NEW r \in Requests, KeepName(r)
    PROVE  HandshakeInv'
<1>t. TypeOK
  BY DEF HandshakeInv
<1>1. /\ "committing" \in Steps /\ SetStep(r, "committing") /\ request[r].step = "naming"
      /\ name[request[r].agent] # None
  BY DEF Steps, InTransaction, KeepName
<1>2. request[r].agent \in Agents /\ request[r].named = None
  BY <1>1 DEF HandshakeInv, NameHeld, Fits, InTransaction
<1>3. /\ request' \in [Requests -> RequestStates] /\ request'[r].step = "committing"
      /\ request'[r].agent = request[r].agent /\ request'[r].named = None
      /\ request'[r].wallets = request[r].wallets /\ request'[r].todo = request[r].todo
      /\ \A q \in Requests : q # r => request'[q] = request[q]
  BY <1>t, <1>1, <1>2, SetStepTyped
<1>4. LocksTyped /\ UNCHANGED lockVars /\ UNCHANGED rowVars
  BY <1>t DEF TypeOK, LocksTyped, KeepName
<1>5. LocksTyped'
  BY <1>3, <1>4 DEF LocksTyped, InTransaction, lockVars
<1>6. TypeOK'
  BY <1>t, <1>3, <1>4, <1>5 DEF KeepName, TypeOK, LocksTyped, rowVars, lockVars, challengeVars
<1>7. ChallengesSound'
  BY DEF KeepName, HandshakeInv, ChallengesSound, challengeVars
<1>8. Fits(r)'
  BY <1>1, <1>2, <1>3, <1>4 DEF HandshakeInv, Fits, InTransaction, Left, lockVars
<1>9. NameHeld(r)'
  BY <1>1, <1>3, <1>4 DEF NameHeld, rowVars
<1>10. QED
  BY <1>1, <1>3, <1>4, <1>6, <1>7, <1>8, <1>9, KeptByRequest DEF KeepName, rowVars, lockVars

\* The name that is written is free of the committed and of the others in flight.
LEMMA AssignKeeps ==
    ASSUME HandshakeInv, NEW r \in Requests, AssignAgentName(r)
    PROVE  HandshakeInv'
<1>t. TypeOK
  BY DEF HandshakeInv
<1> DEFINE a == request[r].agent
<1>1. /\ request[r].step = "naming" /\ request[r].named = None /\ a \in Agents
      /\ request[r].wallets # {}
  BY DEF HandshakeInv, NameHeld, Fits, InTransaction, AssignAgentName
<1>2. PICK i \in DOMAIN Candidates[a] :
        /\ FirstOpen(i, a)
        /\ ~NameInFlight(Candidates[a][i], r)
        /\ request' = [request EXCEPT ![r].step = "committing", ![r].named = Candidates[a][i]]
  BY DEF AssignAgentName
<1> DEFINE n == Candidates[a][i]
           v == [request[r] EXCEPT !.step = "committing", !.named = n]
<1>3. n \in Names /\ n # None
  BY <1>1, HandshakeAssumption
<1>4. ~TakenByOther(n, a) /\ ~NameInFlight(n, r)
  BY <1>2 DEF FirstOpen
<1>5. /\ v \in RequestStates /\ v.step = "committing" /\ v.agent = a
      /\ v.wallets = request[r].wallets /\ v.named = n /\ v.todo = request[r].todo
  BY <1>t, <1>3, RequestFields DEF RequestStates, Steps, InTransaction
<1>6. request' = [request EXCEPT ![r] = v]
  BY <1>t, <1>2 DEF TypeOK
<1> HIDE DEF v, n
<1>v. v \in RequestStates
  BY <1>5
<1>7. /\ request' \in [Requests -> RequestStates] /\ request'[r] = v
      /\ \A q \in Requests : q # r => request'[q] = request[q]
  BY <1>t, <1>v, <1>6, RequestReplaced
<1>8. LocksTyped /\ UNCHANGED lockVars /\ UNCHANGED rowVars
  BY <1>t DEF TypeOK, LocksTyped, AssignAgentName
<1>9. LocksTyped'
  BY <1>5, <1>7, <1>8 DEF LocksTyped, InTransaction, lockVars
<1>10. TypeOK'
  BY <1>t, <1>7, <1>8, <1>9
     DEF AssignAgentName, TypeOK, LocksTyped, rowVars, lockVars, challengeVars
<1>11. ChallengesSound'
  BY DEF AssignAgentName, HandshakeInv, ChallengesSound, challengeVars
<1>12. Fits(r)'
  BY <1>1, <1>5, <1>7, <1>8 DEF HandshakeInv, Fits, InTransaction, Left, lockVars
<1>13. \A q \in Requests : q # r => request[q].named # n
  BY <1>4 DEF NameInFlight
<1>14. NameHeld(r)'
  BY <1>3, <1>4, <1>5, <1>7, <1>8, <1>13 DEF NameHeld, TakenByOther, NameInFlight, rowVars
<1>15. QED
  BY <1>1, <1>5, <1>7, <1>8, <1>10, <1>11, <1>12, <1>13, <1>14, KeptByRequest
     DEF AssignAgentName, rowVars, lockVars

\* A rolled back transaction leaves its locks and nothing else behind.
LEMMA RollbackKeeps ==
    ASSUME HandshakeInv, NEW r \in Requests, request[r].step \in InTransaction, Rollback(r),
           failures' \in Nat
    PROVE  HandshakeInv'
<1>t. TypeOK
  BY DEF HandshakeInv
<1>1. "failed" \in Steps /\ End(r, "failed") /\ Release(r)
  BY DEF Steps, Ended, Rollback
<1>2. /\ request' \in [Requests -> RequestStates] /\ request'[r].step = "failed"
      /\ request'[r].named = None
      /\ \A q \in Requests : q # r => request'[q] = request[q]
  BY <1>t, <1>1, EndTyped
<1>3. /\ agentLock' \in [Agents -> Requests \cup {None}]
      /\ walletLock' \in [Wallets -> Requests \cup {None}]
      /\ \A b \in Agents, q \in Requests : agentLock'[b] = q <=> agentLock[b] = q /\ q # r
      /\ \A w \in Wallets, q \in Requests : walletLock'[w] = q <=> walletLock[w] = q /\ q # r
  BY <1>t, <1>1, ReleaseTyped
<1>4. LocksTyped'
  <2>1. LocksTyped
    BY <1>t DEF TypeOK, LocksTyped
  <2>2. QED
    BY <1>2, <1>3, <2>1 DEF LocksTyped
<1>5. TypeOK'
  BY <1>t, <1>2, <1>3, <1>4 DEF Rollback, TypeOK, LocksTyped, rowVars, challengeVars
<1>6. ChallengesSound'
  BY DEF Rollback, HandshakeInv, ChallengesSound, challengeVars
<1>7. Fits(r)' /\ NameHeld(r)'
  BY <1>2 DEF Fits, NameHeld, InTransaction
<1>8. request[r].step # "bound"
  BY DEF InTransaction
<1>9. QED
  BY <1>2, <1>3, <1>5, <1>6, <1>7, <1>8, KeptByRequest DEF Rollback, rowVars

\* Only a transaction stands in another one's way.
LEMMA BlockersInside ==
    ASSUME HandshakeInv, NEW q \in Requests, NEW r \in Requests, r \in Blockers(q)
    PROVE  request[r].step \in InTransaction
<1>t. TypeOK
  BY DEF HandshakeInv
<1>1. LocksTyped
  BY <1>t DEF TypeOK, LocksTyped
<1>2. CASE request[q].step = "binding"
  <2>1. request[q].agent \in Agents
    BY <1>2 DEF HandshakeInv, Fits
  <2>2. agentLock[request[q].agent] = r
    BY <1>2 DEF Blockers
  <2>3. QED
    BY <1>1, <2>1, <2>2 DEF LocksTyped
<1>3. CASE request[q].step = "wallets"
  <2>1. request[q].todo # <<>> /\ request[q].todo \in Seq(Wallets)
    BY <1>t, <1>3, RequestFields DEF HandshakeInv, Fits, InTransaction
  <2>2. NextWallet(q) \in Wallets
    BY <2>1 DEF NextWallet
  <2>3. walletLock[NextWallet(q)] = r
    BY <1>3 DEF Blockers
  <2>4. QED
    BY <1>1, <2>2, <2>3 DEF LocksTyped
<1>4. QED
  BY <1>2, <1>3 DEF Blockers

-----------------------------------------------------------------------------
(* The commit *)

\* Every variable but the history after a commit.
LEMMA CommitRows ==
    ASSUME HandshakeInv, NEW r \in Requests, Commit(r)
    PROVE  /\ TypeOK' /\ ChallengesSound' /\ NamesUnique'
           /\ \A q \in Requests : Fits(q)' /\ NameHeld(q)'
           /\ request[r].step = "committing" /\ request[r].agent \in Agents
           /\ committed \in Seq(Requests) /\ committed' = Append(committed, r)
           /\ token' = [token EXCEPT ![request[r].agent] = r]
           /\ \A w \in Wallets :
                owner'[w] = IF w \in request[r].wallets THEN request[r].agent ELSE owner[w]
           /\ request'[r].step = "bound" /\ request'[r].agent = request[r].agent
           /\ request'[r].wallets = request[r].wallets
           /\ \A q \in Requests : q # r => request'[q] = request[q]
<1>t. TypeOK
  BY DEF HandshakeInv
<1> DEFINE a == request[r].agent
           n == request[r].named
<1>1. /\ request[r].step = "committing" /\ a \in Agents /\ request[r].wallets # {}
      /\ \A w \in Wallets : walletLock[w] = r <=> w \in request[r].wallets
  BY DEF HandshakeInv, Fits, InTransaction, Commit, Left
<1>2. "bound" \in Steps /\ End(r, "bound") /\ Release(r)
  BY DEF Steps, Ended, Commit
<1>3. /\ request' \in [Requests -> RequestStates] /\ request'[r].step = "bound"
      /\ request'[r].named = None /\ request'[r].agent = a
      /\ request'[r].wallets = request[r].wallets
      /\ \A q \in Requests : q # r => request'[q] = request[q]
  BY <1>t, <1>2, EndTyped
<1>4. /\ agentLock' \in [Agents -> Requests \cup {None}]
      /\ walletLock' \in [Wallets -> Requests \cup {None}]
      /\ \A b \in Agents, q \in Requests : agentLock'[b] = q <=> agentLock[b] = q /\ q # r
      /\ \A w \in Wallets, q \in Requests : walletLock'[w] = q <=> walletLock[w] = q /\ q # r
  BY <1>t, <1>2, ReleaseTyped
<1>5. /\ token' = [token EXCEPT ![a] = r]
      /\ name' = [name EXCEPT ![a] = IF n = None THEN @ ELSE n]
      /\ status' = [status EXCEPT ![a] = IF @ = None THEN "active" ELSE @]
      /\ owner' = [w \in Wallets |-> IF walletLock[w] = r THEN a ELSE owner[w]]
      /\ committed' = Append(committed, r)
      /\ UNCHANGED <<challengeVars, failures>>
  BY DEF Commit
<1>6. n \in Names \cup {None} /\ committed \in Seq(Requests)
  BY <1>t, RequestFields DEF TypeOK
<1> HIDE DEF a, n
<1>7. LocksTyped'
  <2>1. LocksTyped
    BY <1>t DEF TypeOK, LocksTyped
  <2>2. QED
    BY <1>3, <1>4, <2>1 DEF LocksTyped
<1>8. TypeOK'
  <2>1. /\ token' \in [Agents -> Requests \cup {None}]
        /\ name' \in [Agents -> Names \cup {None}]
        /\ status' \in [Agents -> Statuses \cup {None}]
        /\ owner' \in [Wallets -> Agents \cup {None}]
    BY <1>t, <1>1, <1>5, <1>6 DEF TypeOK, Statuses
  <2>2. committed' \in Seq(Requests)
    BY <1>5, <1>6
  <2>3. QED
    BY <1>t, <1>3, <1>4, <1>5, <1>7, <2>1, <2>2 DEF TypeOK, LocksTyped, challengeVars
<1>9. ChallengesSound'
  BY <1>5 DEF HandshakeInv, ChallengesSound, challengeVars
<1>10. /\ \A b \in Agents : b # a => name'[b] = name[b]
       /\ name'[a] = IF n = None THEN name[a] ELSE n
       /\ name'[a] # None
       /\ n # None => \A b \in Agents : b # a => name[b] # n
  <2>1. /\ n = None => name[a] # None
        /\ n # None => ~TakenByOther(n, a)
    BY <1>1 DEF HandshakeInv, NameHeld, n, a
  <2>2. QED
    BY <1>t, <1>1, <1>5, <2>1 DEF TypeOK, TakenByOther
<1>11. NamesUnique'
  <2>1. \A b, c \in Agents : b # c /\ name'[b] # None => name'[b] # name'[c]
    BY <1>1, <1>10 DEF HandshakeInv, NamesUnique
  <2>2. \A b \in Agents : token'[b] # None => name'[b] # None
    BY <1>t, <1>1, <1>5, <1>10 DEF HandshakeInv, NamesUnique, TypeOK
  <2>3. QED
    BY <2>1, <2>2 DEF NamesUnique
<1>12. ASSUME NEW q \in Requests
       PROVE  Fits(q)' /\ NameHeld(q)'
  <2>1. CASE q = r
    BY <1>1, <1>3, <2>1 DEF Fits, NameHeld, InTransaction
  <2>2. CASE q # r
    <3>1. Fits(q)'
      BY <1>3, <1>4, <2>2 DEF HandshakeInv, Fits, Left
    <3>2. request[q].named # None =>
            /\ request[q].step = "committing"
            /\ \A b \in Agents \ {request[q].agent} : name[b] # request[q].named
            /\ \A p \in Requests \ {q} : request[p].named # request[q].named
      BY DEF HandshakeInv, NameHeld, TakenByOther, NameInFlight
    <3>3. request[q].named # None =>
            /\ ~TakenByOther(request[q].named, request[q].agent)'
            /\ ~NameInFlight(request[q].named, q)'
      BY <1>1, <1>3, <1>10, <2>2, <3>2 DEF TakenByOther, NameInFlight, n
    <3>4. request[q].step = "committing" /\ request[q].named = None =>
            name'[request[q].agent] # None
      <4>1. SUFFICES ASSUME request[q].step = "committing", request[q].named = None
                     PROVE  name'[request[q].agent] # None
        OBVIOUS
      <4>2. request[q].agent \in Agents /\ name[request[q].agent] # None
        BY <4>1 DEF HandshakeInv, Fits, NameHeld
      <4>3. QED
        BY <1>10, <4>2
    <3>5. NameHeld(q)'
      <4>1. request'[q] = request[q]
        BY <1>3, <2>2
      <4>2. QED
        BY <3>2, <3>3, <3>4, <4>1 DEF NameHeld, TakenByOther, NameInFlight
    <3>6. QED
      BY <3>1, <3>5
  <2>3. QED
    BY <2>1, <2>2
<1>13. \A w \in Wallets : owner'[w] = IF w \in request[r].wallets THEN a ELSE owner[w]
  BY <1>1, <1>5
<1>14. QED
  BY <1>1, <1>3, <1>5, <1>6, <1>8, <1>9, <1>11, <1>12, <1>13 DEF a

\* What one more commit does to the positions of a set of requests.
At(s, P) == {i \in DOMAIN s : s[i] \in P}
LastAt(s, P) == IF At(s, P) = {} THEN None ELSE s[LastOf(At(s, P))]

Grows(t, s, r) == t = Append(s, r)

LEMMA PositionsGrow ==
    ASSUME NEW s \in Seq(Requests), NEW r \in Requests, NEW t, Grows(t, s, r), NEW P,
           HasLast(At(s, P))
    PROVE  /\ HasLast(At(t, P))
           /\ r \in P => Len(s) + 1 \in At(t, P) /\ LastAt(t, P) = r
           /\ r \notin P => At(t, P) = At(s, P) /\ LastAt(t, P) = LastAt(s, P)
<1> DEFINE n == Len(s)
<1>1. /\ n \in Nat /\ DOMAIN s = 1 .. n /\ DOMAIN t = 1 .. n + 1
      /\ t[n + 1] = r /\ \A i \in 1 .. n : t[i] = s[i]
  BY DEF Grows
<1> HIDE DEF n
<1>2. \A i \in 1 .. n + 1 : i \in 1 .. n \/ i = n + 1
  BY <1>1
<1>3. \A i \in 1 .. n : i \in 1 .. n + 1 /\ (t[i] \in P <=> s[i] \in P)
  BY <1>1
<1>4. n + 1 \in 1 .. n + 1 /\ At(s, P) \subseteq 1 .. n
  BY <1>1 DEF At
<1>5. At(t, P) = At(s, P) \cup (IF r \in P THEN {n + 1} ELSE {})
  BY <1>1, <1>2, <1>3, <1>4 DEF At
<1>6. CASE r \in P
  <2>1. At(t, P) = At(s, P) \cup {n + 1}
    BY <1>5, <1>6
  <2>2. LastOf(At(t, P)) = n + 1 /\ HasLast(At(t, P))
    BY <1>1, <1>4, <2>1, LastNew
  <2>3. QED
    BY <1>1, <1>6, <2>1, <2>2 DEF n, LastAt
<1>7. CASE r \notin P
  <2>1. At(t, P) = At(s, P)
    BY <1>5, <1>7
  <2>2. At(s, P) # {} => LastOf(At(s, P)) \in 1 .. n
    BY <1>4, LastIn
  <2>3. QED
    BY <1>1, <1>7, <2>1, <2>2 DEF LastAt
<1>8. QED
  BY <1>6, <1>7

LEMMA CommitKeeps ==
    ASSUME HandshakeInv, NEW r \in Requests, Commit(r)
    PROVE  HandshakeInv'
<1> DEFINE a == request[r].agent
           Covering(w) == {q \in Requests : w \in request[q].wallets}
           For(b) == {q \in Requests : request[q].agent = b}
<1>1. /\ request[r].step = "committing" /\ a \in Agents
      /\ committed \in Seq(Requests) /\ committed' = Append(committed, r)
      /\ token' = [token EXCEPT ![a] = r]
      /\ \A w \in Wallets : owner'[w] = IF w \in request[r].wallets THEN a ELSE owner[w]
      /\ request'[r].step = "bound" /\ request'[r].agent = a
      /\ request'[r].wallets = request[r].wallets
      /\ \A q \in Requests : q # r => request'[q] = request[q]
  BY CommitRows
<1> HIDE DEF a
<1>2. /\ committed' \in Seq(Requests)
      /\ \A i \in DOMAIN committed : committed[i] \in Requests
      /\ \A i \in DOMAIN committed' : committed'[i] \in Requests
  BY <1>1
<1>3. \A q \in Requests : request'[q].agent = request[q].agent
                          /\ request'[q].wallets = request[q].wallets
  BY <1>1 DEF a
<1>4. ASSUME NEW w
      PROVE  Binding(w) = At(committed, Covering(w)) /\ Binding(w)' = At(committed', Covering(w))
  BY <1>2, <1>3 DEF Binding, At
<1>5. ASSUME NEW b
      PROVE  Of(b) = At(committed, For(b)) /\ Of(b)' = At(committed', For(b))
  BY <1>2, <1>3 DEF Of, At
<1>6. ASSUME NEW w \in Wallets
      PROVE  /\ HasLast(Binding(w)')
             /\ w \in request[r].wallets => WinnerOf(Binding(w))' = r
             /\ w \notin request[r].wallets =>
                    /\ Binding(w)' = Binding(w)
                    /\ Binding(w) # {} => /\ WinnerOf(Binding(w)) \in Requests
                                          /\ WinnerOf(Binding(w))' = WinnerOf(Binding(w))
             /\ w \in request[r].wallets => Binding(w)' # {}
  <2> DEFINE P == Covering(w)
  <2>1. HasLast(At(committed, P)) /\ (r \in P <=> w \in request[r].wallets)
    BY <1>4 DEF HandshakeInv, HistorySound
  <2> HIDE DEF P
  <2>2. /\ HasLast(At(committed', P))
        /\ r \in P => Len(committed) + 1 \in At(committed', P) /\ LastAt(committed', P) = r
        /\ r \notin P => /\ At(committed', P) = At(committed, P)
                         /\ LastAt(committed', P) = LastAt(committed, P)
    <3>1. committed \in Seq(Requests) /\ Grows(committed', committed, r)
      BY <1>1 DEF Grows
    <3>2. HasLast(At(committed, P))
      BY <2>1
    <3>3. QED
      BY <3>1, <3>2, PositionsGrow
  <2>3. Binding(w) = At(committed, P) /\ Binding(w)' = At(committed', P)
    BY <1>4 DEF P
  <2>4. /\ WinnerOf(Binding(w)) = LastAt(committed, P)
        /\ WinnerOf(Binding(w))' = LastAt(committed', P)
    BY <2>3 DEF WinnerOf, LastAt
  <2>5. Binding(w) # {} => WinnerOf(Binding(w)) \in Requests
    <3>1. HasLast(Binding(w))
      BY <2>1, <2>3
    <3>2. Binding(w) # {} => LastOf(Binding(w)) \in DOMAIN committed
      BY <3>1, LastIn DEF Binding
    <3>3. QED
      BY <1>2, <3>2 DEF WinnerOf
  <2>6. QED
    BY <2>1, <2>2, <2>3, <2>4, <2>5
<1>7. ASSUME NEW b \in Agents
      PROVE  /\ HasLast(Of(b)')
             /\ b = a => WinnerOf(Of(b))' = r
             /\ b # a => WinnerOf(Of(b))' = WinnerOf(Of(b))
  <2> DEFINE P == For(b)
  <2>1. HasLast(At(committed, P)) /\ (r \in P <=> b = a)
    BY <1>5 DEF HandshakeInv, HistorySound, a
  <2> HIDE DEF P
  <2>2. /\ HasLast(At(committed', P))
        /\ r \in P => Len(committed) + 1 \in At(committed', P) /\ LastAt(committed', P) = r
        /\ r \notin P => /\ At(committed', P) = At(committed, P)
                         /\ LastAt(committed', P) = LastAt(committed, P)
    <3>1. committed \in Seq(Requests) /\ Grows(committed', committed, r)
      BY <1>1 DEF Grows
    <3>2. HasLast(At(committed, P))
      BY <2>1
    <3>3. QED
      BY <3>1, <3>2, PositionsGrow
  <2>3. Of(b) = At(committed, P) /\ Of(b)' = At(committed', P)
    BY <1>5 DEF P
  <2>4. /\ WinnerOf(Of(b)) = LastAt(committed, P)
        /\ WinnerOf(Of(b))' = LastAt(committed', P)
    BY <2>3 DEF WinnerOf, LastAt
  <2>5. QED
    BY <2>1, <2>2, <2>3, <2>4
<1>8. HistorySound'
  <2>1. \A i \in DOMAIN committed' : committed'[i] = r \/ \E j \in DOMAIN committed :
                                        committed'[i] = committed[j]
    BY <1>1
  <2>2. \A i \in DOMAIN committed' : request'[committed'[i]].step = "bound"
    BY <1>1, <1>2, <2>1 DEF HandshakeInv, HistorySound
  <2>3. QED
    BY <1>6, <1>7, <2>2 DEF HistorySound
<1>9. ASSUME NEW w \in Wallets
      PROVE  owner'[w] = IF Binding(w)' = {} THEN None
                         ELSE request'[WinnerOf(Binding(w))'].agent
  <2>1. CASE w \in request[r].wallets
    BY <1>1, <1>6, <2>1
  <2>2. CASE w \notin request[r].wallets
    BY <1>1, <1>3, <1>6, <2>2 DEF HandshakeInv, BindingsSerialise
  <2>3. QED
    BY <2>1, <2>2
<1>10. \A b \in Agents : token'[b] = WinnerOf(Of(b))'
  BY <1>1, <1>7 DEF HandshakeInv, BindingsSerialise, TypeOK
<1>11. BindingsSerialise'
  BY <1>9, <1>10 DEF BindingsSerialise
<1>12. QED
  BY <1>8, <1>11, CommitRows DEF HandshakeInv

-----------------------------------------------------------------------------
(* The theorems *)

LEMMA NextHandshake == HandshakeInv /\ [Next]_vars => HandshakeInv'
<1> SUFFICES ASSUME HandshakeInv, [Next]_vars PROVE HandshakeInv'
  OBVIOUS
<1> USE DEF rowVars, lockVars, challengeVars
<1>t. TypeOK
  BY DEF HandshakeInv
<1>1. ASSUME NEW c \in Challenges, NEW b \in Agents, NEW W \in SUBSET Wallets,
             StartSession(c, b, W)
      PROVE  HandshakeInv'
  <2>1. TypeOK'
    BY <1>1, <1>t DEF StartSession, TypeOK
  <2>2. ChallengesSound'
    BY <1>1, <1>t DEF StartSession, HandshakeInv, ChallengesSound, TypeOK
  <2>3. QED
    BY <1>1, <2>1, <2>2, KeptOutside DEF StartSession
<1>2. ASSUME NEW c \in Challenges,
             ChallengeExpires(c) \/ DeleteExpiredHandshakeChallenges(c)
      PROVE  HandshakeInv'
  <2>1. TypeOK'
    BY <1>2, <1>t DEF ChallengeExpires, DeleteExpiredHandshakeChallenges, TypeOK
  <2>2. ChallengesSound'
    BY <1>2, <1>t DEF ChallengeExpires, DeleteExpiredHandshakeChallenges, HandshakeInv,
                      ChallengesSound, TypeOK
  <2>3. QED
    BY <1>2, <2>1, <2>2, KeptOutside DEF ChallengeExpires, DeleteExpiredHandshakeChallenges
<1>3. ASSUME NEW b \in Agents, NEW s \in Statuses, LeaveActive(b, s)
      PROVE  HandshakeInv'
  <2>1. TypeOK'
    BY <1>3, <1>t DEF LeaveActive, TypeOK
  <2>2. ChallengesSound'
    BY <1>3 DEF LeaveActive, HandshakeInv, ChallengesSound
  <2>3. QED
    BY <1>3, <2>1, <2>2, KeptOutside DEF LeaveActive
<1>4. ASSUME NEW r \in Requests, NoNameLeft(r) \/ BindingFails(r)
      PROVE  HandshakeInv'
  <2>1. request[r].step \in InTransaction /\ Rollback(r) /\ failures' \in Nat
    BY <1>4, <1>t DEF NoNameLeft, BindingFails, InTransaction, TypeOK
  <2>2. QED
    BY <2>1, RollbackKeeps
<1>5. ASSUME NEW r \in Requests, DeadlockDetected(r)
      PROVE  HandshakeInv'
  <2>1. PICK q \in Requests : r \in Blockers(q)
    BY <1>5 DEF DeadlockDetected
  <2>2. Rollback(r) /\ failures' \in Nat
    BY <1>5, <1>t DEF DeadlockDetected, TypeOK
  <2>3. QED
    BY <2>1, <2>2, BlockersInside, RollbackKeeps
<1>6. CASE UNCHANGED vars
  <2>1. TypeOK' /\ ChallengesSound'
    BY <1>6, <1>t DEF vars, TypeOK, HandshakeInv, ChallengesSound
  <2>2. QED
    BY <1>6, <2>1, KeptOutside DEF vars
<1>7. ASSUME NEW r \in Requests, BindingStep(r)
      PROVE  HandshakeInv'
  BY <1>4, <1>5, <1>7, UpsertKeeps, ClaimWalletKeeps, KeepNameKeeps, AssignKeeps, CommitKeeps
     DEF BindingStep
<1>8. ASSUME NEW r \in Requests, Answer(r)
      PROVE  HandshakeInv'
  BY <1>7, <1>8, RefuseKeeps, PassGateKeeps DEF Answer
<1>9. QED
  BY <1>1, <1>2, <1>3, <1>4, <1>6, <1>8, ClaimChallengeKeeps, ClaimInvalidKeeps DEF Next

LEMMA HandshakeInvariant == Spec => []HandshakeInv
BY InitHandshake, NextHandshake, PTL DEF Spec

\* Every variable keeps its type, and only a transaction holds a lock.
THEOREM HandshakeTypeCorrect == Spec => []TypeOK
<1>1. HandshakeInv => TypeOK
  BY DEF HandshakeInv
<1>2. QED
  BY <1>1, HandshakeInvariant, PTL

\* However many completions present it, a challenge serves one at most.
THEOREM ChallengeIsBurnt == Spec => []ChallengeServesOnce
<1>1. HandshakeInv => ChallengeServesOnce
  <2>1. SUFFICES ASSUME HandshakeInv, NEW c \in Challenges
                 PROVE  Cardinality(claims[c]) <= 1
    BY DEF ChallengeServesOnce
  <2>2. ChallengesSound
    BY <2>1 DEF HandshakeInv
  <2>3. claims[c] = {} \/ \E r \in Requests : claims[c] = {r}
    BY <2>2 DEF ChallengesSound
  <2>4. QED
    BY <2>3, FS_EmptySet, FS_Singleton
<1>2. QED
  BY <1>1, HandshakeInvariant, PTL

\* Bindings that overlap, fail or deadlock leave what the committed ones would
\* have left one after the other.
THEOREM BindingsAreSerial == Spec => []BindingsSerialise
<1>1. HandshakeInv => BindingsSerialise
  BY DEF HandshakeInv
<1>2. QED
  BY <1>1, HandshakeInvariant, PTL

\* Every bound agent has a name and no two agents share one.
THEOREM NamesAreUnique == Spec => []NamesIdentify
<1>1. HandshakeInv => NamesIdentify
  BY DEF HandshakeInv, NamesUnique, NamesIdentify
<1>2. QED
  BY <1>1, HandshakeInvariant, PTL

=============================================================================
