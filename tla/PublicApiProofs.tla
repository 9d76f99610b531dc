------------------------- MODULE PublicApiProofs -------------------------
(***************************************************************************)
(* Theorems about what the public API tells its readers: the pages of the  *)
(* activity feed while the tables change under the walk, and the figures   *)
(* of the leaderboard, charts, tokens and networks, each of which is read  *)
(* from the rows, from the daily aggregates, or from both, and of an       *)
(* agent's page, which the server computes from the agent's latest rows.   *)
(*                                                                         *)
(* The feed.  A cursor marks a place in the feed's order, which is total   *)
(* because ids break the ties of times.  A page shows the first rows after *)
(* its cursor; so a row that stays where it was is either ahead of the     *)
(* cursor, and not shown yet, or behind it, and shown once.  That a page   *)
(* holds the first rows rests on RankedInOrder: a finite set of rows, each *)
(* placed by the number of rows before it, fills every place.              *)
(*                                                                         *)
(* The aggregates.  BooksInv says which entries of agent_daily exist and   *)
(* that each counts the rows of its agent, day and protocol and adds up    *)
(* what the pricing passes published of them.  Every writer adds to one    *)
(* entry what it changes of one row.                                       *)
(*                                                                         *)
(* The reads.  With the books right, each figure is a sum or a count over  *)
(* a set of rows, and two figures agree because one set is the disjoint    *)
(* union of the others (SumOfParts, CountOfParts, Shares), or because one  *)
(* sum renames the terms of the other (SumRenamed).                        *)
(*                                                                         *)
(* The lots.  An agent's trades are matched first in, first out, in the    *)
(* order of their times.  Balanced says of the books after some of them    *)
(* that each dollar paid for a lot has been matched by a sale or is still  *)
(* on hand, and that a sale finds lots only of tokens bought before; one   *)
(* trade keeps that (TradeBalances), because what ConsumeLot takes of a    *)
(* lot and what it leaves cost what the lot did (Consumption).             *)
(*                                                                         *)
(* Sums are folds over finite sets.  AddsUpToExists unfolds one to its     *)
(* recursion equation, and what holds of every finite set is shown by its  *)
(* smallest counterexample (Least, Smallest), for want of an induction     *)
(* theorem that takes an operator.                                         *)
(***************************************************************************)
EXTENDS PublicReads, TLAPS, FiniteSetTheorems, SequenceTheorems, NaturalsInduction, WellFoundedInduction

-----------------------------------------------------------------------------
(* SUMS, COUNTS AND LEAST MEMBERS *)

LEMMA Least ==
    ASSUME NEW S \in SUBSET Nat, S # {}
    PROVE  \E n \in S : \A m \in S : n <= m
<1>1. PICK x \in S : \A y \in S : <<y, x>> \notin OpToRel(<, Nat)
  BY NatLessThanWellFounded, WFMin
<1>2. \A y \in S : ~(y < x)
  BY <1>1, Zenon DEF OpToRel
<1>3. QED
  BY <1>2

Pick(s) == CHOOSE x \in s : TRUE

\* The equation that defines the sum of f over the subsets of T.
Adds(f, T, g) ==
    g = [s \in SUBSET T |-> IF s = {} THEN 0 ELSE f[Pick(s)] + g[s \ {Pick(s)}]]

UpTo(T, n) == {s \in SUBSET T : Cardinality(s) <= n}

AddsUpTo(f, T, n, g) ==
    g = [s \in UpTo(T, n) |-> IF s = {} THEN 0 ELSE f[Pick(s)] + g[s \ {Pick(s)}]]

LEMMA PickOne ==
    ASSUME NEW s, IsFiniteSet(s), s # {}
    PROVE  /\ Pick(s) \in s
           /\ IsFiniteSet(s \ {Pick(s)})
           /\ Cardinality(s \ {Pick(s)}) = Cardinality(s) - 1
           /\ Cardinality(s) \in Nat \ {0}
<1>1. Pick(s) \in s
  BY DEF Pick
<1>2. QED
  BY <1>1, FS_RemoveElement, FS_CardinalityType, FS_EmptySet

LEMMA AddsUpToExists ==
    ASSUME NEW f, NEW T, IsFiniteSet(T)
    PROVE  \A n \in Nat : \E g : AddsUpTo(f, T, n, g)
<1> DEFINE Bad == {n \in Nat : ~ \E g : AddsUpTo(f, T, n, g)}
<1>1. SUFFICES ASSUME Bad # {} PROVE FALSE
  OBVIOUS
<1>2. PICK n \in Bad : \A m \in Bad : n <= m
  <2>1. Bad \in SUBSET Nat
    OBVIOUS
  <2> HIDE DEF Bad
  <2>2. QED
    BY <1>1, <2>1, Least
<1>3. \A s \in SUBSET T : IsFiniteSet(s) /\ Cardinality(s) \in Nat
  BY FS_Subset, FS_CardinalityType
<1>4. CASE n = 0
  <2> DEFINE g == [s \in UpTo(T, 0) |-> 0]
  <2>1. \A s \in UpTo(T, 0) : s = {}
    BY <1>3, FS_EmptySet DEF UpTo
  <2>2. AddsUpTo(f, T, 0, g)
    BY <2>1 DEF AddsUpTo
  <2>3. QED
    BY <1>4, <2>2
<1>5. CASE n # 0
  <2>1. n \in Nat /\ n - 1 \in Nat /\ n - 1 \notin Bad
    BY <1>2, <1>5
  <2>2. PICK g : AddsUpTo(f, T, n - 1, g)
    BY <2>1
  <2> DEFINE h == [s \in UpTo(T, n) |->
                      IF s = {} THEN 0 ELSE f[Pick(s)] + g[s \ {Pick(s)}]]
  <2>3. \A s \in UpTo(T, n - 1) : h[s] = g[s]
    <3>1. \A s \in UpTo(T, n - 1) : s \in UpTo(T, n)
      BY <2>1, <1>3 DEF UpTo
    <3>2. QED
      BY <2>2, <3>1 DEF AddsUpTo
  <2>4. ASSUME NEW s \in UpTo(T, n), s # {}
        PROVE  s \ {Pick(s)} \in UpTo(T, n - 1)
    <3>1. s \in SUBSET T /\ Cardinality(s) <= n /\ IsFiniteSet(s)
      BY <1>3 DEF UpTo
    <3>2. Cardinality(s \ {Pick(s)}) = Cardinality(s) - 1 /\ Cardinality(s) \in Nat
      BY <3>1, <2>4, PickOne
    <3>3. s \ {Pick(s)} \in SUBSET T
      BY <3>1
    <3>4. QED
      BY <3>1, <3>2, <3>3, <2>1 DEF UpTo
  <2>5. h = [s \in UpTo(T, n) |-> IF s = {} THEN 0 ELSE f[Pick(s)] + h[s \ {Pick(s)}]]
    BY <2>3, <2>4
  <2>6. AddsUpTo(f, T, n, h)
    BY <2>5 DEF AddsUpTo
  <2>7. QED
    BY <2>6
<1>6. QED
  BY <1>4, <1>5

LEMMA SumIsDefined ==
    ASSUME NEW f, NEW T, IsFiniteSet(T)
    PROVE  \E g : Adds(f, T, g) /\ SumFunctionOnSet(f, T) = g[T]
<1>1. Cardinality(T) \in Nat
  BY FS_CardinalityType
<1>2. PICK g : AddsUpTo(f, T, Cardinality(T), g)
  BY <1>1, AddsUpToExists
<1>3. UpTo(T, Cardinality(T)) = SUBSET T
  BY FS_Subset DEF UpTo
<1>4. Adds(f, T, g)
  BY <1>2, <1>3 DEF Adds, AddsUpTo
<1> DEFINE it == CHOOSE h : h = [s \in SUBSET T |-> IF s = {} THEN 0 ELSE f[Pick(s)] + h[s \ {Pick(s)}]]
<1>5. Adds(f, T, it)
  BY <1>4 DEF Adds
<1>6. SumFunctionOnSet(f, T) = it[T]
  BY DEF SumFunctionOnSet, FoldFunctionOnSet, MapThenFoldSet, Pick
<1>7. QED
  BY <1>5, <1>6

\* A finite set that fails has a smallest one that fails.
LEMMA Smallest ==
    ASSUME NEW T, IsFiniteSet(T), NEW B \in SUBSET (SUBSET T), B # {}
    PROVE  \E s \in B : /\ IsFiniteSet(s) /\ Cardinality(s) \in Nat
                        /\ \A t \in SUBSET s : t # s => t \notin B
<1>1. \A s \in SUBSET T : IsFiniteSet(s) /\ Cardinality(s) \in Nat
  BY FS_Subset, FS_CardinalityType
<1> DEFINE sizes == {Cardinality(s) : s \in B}
<1>2. PICK n \in sizes : \A m \in sizes : n <= m
  <2>1. sizes \in SUBSET Nat /\ sizes # {}
    BY <1>1
  <2> HIDE DEF sizes
  <2>2. QED
    BY <2>1, Least
<1>3. PICK s \in B : Cardinality(s) = n
  OBVIOUS
<1>4. ASSUME NEW t \in SUBSET s, t # s PROVE t \notin B
  <2>1. IsFiniteSet(s) /\ Cardinality(s) \in Nat /\ Cardinality(t) \in Nat
    BY <1>1
  <2>2. Cardinality(t) < Cardinality(s)
    <3>1. Cardinality(t) <= Cardinality(s) /\ (Cardinality(t) = Cardinality(s) => t = s)
      BY <2>1, FS_Subset
    <3>2. QED
      BY <3>1, <2>1, <1>4
  <2>3. ~(n <= Cardinality(t))
    BY <2>1, <2>2, <1>3
  <2>4. QED
    BY <2>3, <1>2
<1>5. QED
  BY <1>1, <1>3, <1>4

LEMMA AddsAgree ==
    ASSUME NEW f, NEW h, NEW T, IsFiniteSet(T), NEW U \in SUBSET T,
           NEW g, NEW k, Adds(f, T, g), Adds(h, U, k), \A x \in U : f[x] = h[x]
    PROVE  g[U] = k[U]
<1> DEFINE B == {s \in SUBSET U : g[s] # k[s]}
<1>1. SUFFICES ASSUME B # {} PROVE FALSE
  OBVIOUS
<1>2. IsFiniteSet(U)
  BY FS_Subset
<1>3. PICK s \in B : IsFiniteSet(s) /\ \A t \in SUBSET s : t # s => t \notin B
  <2>1. B \in SUBSET (SUBSET U)
    OBVIOUS
  <2> HIDE DEF B
  <2>2. QED
    BY <1>1, <1>2, <2>1, Smallest
<1>4. s \in SUBSET U /\ s \in SUBSET T /\ g[s] # k[s]
  OBVIOUS
<1>5. CASE s = {}
  BY <1>4, <1>5 DEF Adds
<1>6. CASE s # {}
  <2>1. Pick(s) \in s
    BY <1>6 DEF Pick
  <2> DEFINE t == s \ {Pick(s)}
  <2>2. t \in SUBSET U /\ t \in SUBSET T /\ t # s /\ t \in SUBSET s
    BY <1>4, <2>1
  <2>3. g[t] = k[t]
    BY <1>3, <2>2
  <2>4. g[s] = f[Pick(s)] + g[t]
    BY <1>4, <1>6 DEF Adds
  <2>5. k[s] = h[Pick(s)] + k[t]
    BY <1>4, <1>6 DEF Adds
  <2>6. f[Pick(s)] = h[Pick(s)]
    BY <1>4, <2>1
  <2> HIDE DEF t
  <2>7. QED
    BY <1>4, <2>3, <2>4, <2>5, <2>6
<1>7. QED
  BY <1>5, <1>6

\* Only what a function is on the set counts.
LEMMA SumLocal ==
    ASSUME NEW f, NEW h, NEW T, IsFiniteSet(T), \A x \in T : f[x] = h[x]
    PROVE  SumFunctionOnSet(f, T) = SumFunctionOnSet(h, T)
<1>1. PICK g : Adds(f, T, g) /\ SumFunctionOnSet(f, T) = g[T]
  BY SumIsDefined
<1>2. PICK k : Adds(h, T, k) /\ SumFunctionOnSet(h, T) = k[T]
  BY SumIsDefined
<1>3. T \in SUBSET T
  OBVIOUS
<1>4. QED
  BY <1>1, <1>2, <1>3, AddsAgree

LEMMA SumEmpty ==
    ASSUME NEW f
    PROVE  SumFunctionOnSet(f, {}) = 0
<1>1. PICK g : Adds(f, {}, g) /\ SumFunctionOnSet(f, {}) = g[{}]
  BY SumIsDefined, FS_EmptySet
<1>2. QED
  BY <1>1 DEF Adds

LEMMA SumPick ==
    ASSUME NEW f, NEW T, IsFiniteSet(T), T # {}
    PROVE  SumFunctionOnSet(f, T) = f[Pick(T)] + SumFunctionOnSet(f, T \ {Pick(T)})
<1>1. PICK g : Adds(f, T, g) /\ SumFunctionOnSet(f, T) = g[T]
  BY SumIsDefined
<1> DEFINE U == T \ {Pick(T)}
<1>2. IsFiniteSet(U) /\ U \in SUBSET T
  BY PickOne
<1>3. PICK k : Adds(f, U, k) /\ SumFunctionOnSet(f, U) = k[U]
  BY <1>2, SumIsDefined
<1>4. g[U] = k[U]
  BY <1>1, <1>2, <1>3, AddsAgree
<1>5. g[T] = f[Pick(T)] + g[U]
  BY <1>1 DEF Adds
<1>6. QED
  BY <1>1, <1>3, <1>4, <1>5

LEMMA SumInt ==
    ASSUME NEW T, IsFiniteSet(T), NEW f, \A x \in T : f[x] \in Int
    PROVE  SumFunctionOnSet(f, T) \in Int
<1> DEFINE B == {s \in SUBSET T : SumFunctionOnSet(f, s) \notin Int}
<1>1. SUFFICES ASSUME B # {} PROVE FALSE
  OBVIOUS
<1>2. PICK s \in B : IsFiniteSet(s) /\ \A t \in SUBSET s : t # s => t \notin B
  <2>1. B \in SUBSET (SUBSET T)
    OBVIOUS
  <2> HIDE DEF B
  <2>2. QED
    BY <1>1, <2>1, Smallest
<1>3. s # {}
  BY SumEmpty
<1>4. Pick(s) \in s /\ Pick(s) \in T
  BY <1>2, <1>3, PickOne
<1>5. SumFunctionOnSet(f, s \ {Pick(s)}) \in Int
  BY <1>2, <1>4
<1>6. SumFunctionOnSet(f, s) = f[Pick(s)] + SumFunctionOnSet(f, s \ {Pick(s)})
  BY <1>2, <1>3, SumPick
<1>7. QED
  BY <1>4, <1>5, <1>6

\* The sum may be taken one member at a time, whichever comes first.
LEMMA SumRemove ==
    ASSUME NEW T, IsFiniteSet(T), NEW f, \A x \in T : f[x] \in Int, NEW a \in T
    PROVE  SumFunctionOnSet(f, T) = f[a] + SumFunctionOnSet(f, T \ {a})
<1> DEFINE Sum(s) == SumFunctionOnSet(f, s)
           B == {s \in SUBSET T : \E x \in s : Sum(s) # f[x] + Sum(s \ {x})}
<1>1. SUFFICES ASSUME B # {} PROVE FALSE
  OBVIOUS
<1>2. PICK s \in B : IsFiniteSet(s) /\ \A t \in SUBSET s : t # s => t \notin B
  <2>1. B \in SUBSET (SUBSET T)
    OBVIOUS
  <2> HIDE DEF B
  <2>2. QED
    BY <1>1, <2>1, Smallest
<1>3. PICK x \in s : Sum(s) # f[x] + Sum(s \ {x})
  OBVIOUS
<1> DEFINE p == Pick(s)
<1>4. s # {} /\ p \in s /\ s \in SUBSET T
  BY <1>3, PickOne DEF Pick
<1>5. Sum(s) = f[p] + Sum(s \ {p})
  BY <1>2, <1>4, SumPick
<1>6. p # x
  BY <1>3, <1>5
<1>7. \A t \in SUBSET s : t # s => \A y \in t : Sum(t) = f[y] + Sum(t \ {y})
  BY <1>2, <1>4
<1> HIDE DEF p
<1>8. Sum(s \ {p}) = f[x] + Sum((s \ {p}) \ {x})
  BY <1>4, <1>6, <1>7
<1>9. Sum(s \ {x}) = f[p] + Sum((s \ {x}) \ {p})
  <2>1. s \ {x} \in SUBSET s /\ s \ {x} # s /\ p \in s \ {x}
    BY <1>3, <1>4, <1>6
  <2> HIDE DEF Sum
  <2>2. QED
    BY <2>1, <1>7
<1>10. Sum((s \ {p}) \ {x}) = Sum((s \ {x}) \ {p})
  <2>1. (s \ {p}) \ {x} = (s \ {x}) \ {p}
    OBVIOUS
  <2>2. QED
    BY <2>1, Zenon
<1>11. f[p] \in Int /\ f[x] \in Int /\ Sum((s \ {p}) \ {x}) \in Int
  <2>1. (s \ {p}) \ {x} \in SUBSET T /\ IsFiniteSet((s \ {p}) \ {x})
    BY <1>2, <1>4, FS_Subset
  <2>2. QED
    BY <2>1, <1>4, SumInt
<1> HIDE DEF B, Sum
<1>12. QED
  BY <1>3, <1>5, <1>8, <1>9, <1>10, <1>11

LEMMA SumUnion ==
    ASSUME NEW S, IsFiniteSet(S), NEW T, IsFiniteSet(T), S \cap T = {},
           NEW f, \A x \in S \cup T : f[x] \in Int
    PROVE  SumFunctionOnSet(f, S \cup T) = SumFunctionOnSet(f, S) + SumFunctionOnSet(f, T)
<1> DEFINE Sum(s) == SumFunctionOnSet(f, s)
           B == {s \in SUBSET T : Sum(S \cup s) # Sum(S) + Sum(s)}
<1>1. SUFFICES ASSUME B # {} PROVE FALSE
  <2>1. T \in SUBSET T
    OBVIOUS
  <2>2. QED
    BY <2>1
<1>2. PICK s \in B : IsFiniteSet(s) /\ \A t \in SUBSET s : t # s => t \notin B
  <2>1. B \in SUBSET (SUBSET T)
    OBVIOUS
  <2> HIDE DEF B
  <2>2. QED
    BY <1>1, <2>1, Smallest
<1>3. s \in SUBSET T /\ Sum(S \cup s) # Sum(S) + Sum(s)
  OBVIOUS
<1>4. Sum(S) \in Int
  BY SumInt
<1>5. CASE s = {}
  <2>1. Sum(s) = 0
    BY <1>5, SumEmpty
  <2>2. Sum(S \cup s) = Sum(S)
    <3>1. S \cup s = S
      BY <1>5
    <3>2. QED
      BY <3>1, Zenon
  <2> HIDE DEF Sum
  <2>3. QED
    BY <1>3, <1>4, <2>1, <2>2
<1>6. ASSUME NEW x \in s PROVE FALSE
  <2>1. s \ {x} \in SUBSET s /\ s \ {x} # s /\ s \ {x} \in SUBSET T /\ x \in T /\ x \notin S
    BY <1>3
  <2>2. Sum(S \cup (s \ {x})) = Sum(S) + Sum(s \ {x})
    BY <2>1, <1>2
  <2>3. Sum(s) = f[x] + Sum(s \ {x})
    <3>1. \A y \in s : f[y] \in Int
      BY <1>3
    <3>2. QED
      BY <3>1, <1>2, SumRemove
  <2>4. IsFiniteSet(S \cup s) /\ x \in S \cup s /\ \A y \in S \cup s : f[y] \in Int
    BY <1>2, <1>3, FS_Union
  <2>5. Sum(S \cup s) = f[x] + Sum((S \cup s) \ {x})
    BY <2>4, SumRemove
  <2>6. Sum((S \cup s) \ {x}) = Sum(S \cup (s \ {x}))
    <3>1. (S \cup s) \ {x} = S \cup (s \ {x})
      BY <2>1
    <3>2. QED
      BY <3>1, Zenon
  <2>7. f[x] \in Int /\ Sum(s \ {x}) \in Int
    <3>1. IsFiniteSet(s \ {x}) /\ \A y \in s \ {x} : f[y] \in Int
      BY <1>2, <2>1, FS_Subset
    <3>2. QED
      BY <3>1, <2>1, SumInt
  <2> HIDE DEF Sum
  <2>8. QED
    BY <1>3, <1>4, <2>2, <2>3, <2>5, <2>6, <2>7
<1>7. QED
  BY <1>5, <1>6

LEMMA SumNat ==
    ASSUME NEW T, IsFiniteSet(T), NEW f, \A x \in T : f[x] \in Nat,
           NEW S \in SUBSET T
    PROVE  /\ SumFunctionOnSet(f, T) \in Nat
           /\ SumFunctionOnSet(f, S) \in Nat
           /\ SumFunctionOnSet(f, S) <= SumFunctionOnSet(f, T)
<1>1. ASSUME NEW U \in SUBSET T PROVE SumFunctionOnSet(f, U) \in Nat
  <2> DEFINE B == {s \in SUBSET U : SumFunctionOnSet(f, s) \notin Nat}
  <2>1. SUFFICES ASSUME B # {} PROVE FALSE
    OBVIOUS
  <2>2. PICK s \in B : IsFiniteSet(s) /\ \A t \in SUBSET s : t # s => t \notin B
    <3>1. B \in SUBSET (SUBSET U) /\ IsFiniteSet(U)
      BY FS_Subset
    <3> HIDE DEF B
    <3>2. QED
      BY <2>1, <3>1, Smallest
  <2>3. s # {}
    BY SumEmpty
  <2>4. Pick(s) \in s /\ Pick(s) \in T
    BY <2>2, <2>3, PickOne
  <2>5. SumFunctionOnSet(f, s \ {Pick(s)}) \in Nat
    BY <2>2, <2>4
  <2>6. SumFunctionOnSet(f, s) = f[Pick(s)] + SumFunctionOnSet(f, s \ {Pick(s)})
    BY <2>2, <2>3, SumPick
  <2>7. QED
    BY <2>4, <2>5, <2>6
<1>2. /\ SumFunctionOnSet(f, T) \in Nat /\ SumFunctionOnSet(f, S) \in Nat
      /\ SumFunctionOnSet(f, T \ S) \in Nat
  BY <1>1
<1>3. SumFunctionOnSet(f, T) = SumFunctionOnSet(f, S) + SumFunctionOnSet(f, T \ S)
  <2>1. IsFiniteSet(S) /\ IsFiniteSet(T \ S) /\ S \cap (T \ S) = {}
    BY FS_Subset
  <2>2. SumFunctionOnSet(f, S \cup (T \ S)) = SumFunctionOnSet(f, S) + SumFunctionOnSet(f, T \ S)
    <3>1. \A x \in S \cup (T \ S) : f[x] \in Int
      OBVIOUS
    <3>2. QED
      BY <2>1, <3>1, SumUnion
  <2>3. S \cup (T \ S) = T
    OBVIOUS
  <2>4. QED
    BY <2>2, <2>3, Zenon
<1>4. QED
  BY <1>2, <1>3

\* Terms no larger give a sum no larger.
LEMMA SumLeq ==
    ASSUME NEW T, IsFiniteSet(T), NEW f, NEW h,
           \A x \in T : f[x] \in Int /\ h[x] \in Int /\ f[x] <= h[x]
    PROVE  SumFunctionOnSet(f, T) <= SumFunctionOnSet(h, T)
<1> DEFINE B == {s \in SUBSET T : ~(SumFunctionOnSet(f, s) <= SumFunctionOnSet(h, s))}
<1>1. SUFFICES ASSUME B # {} PROVE FALSE
  OBVIOUS
<1>2. PICK s \in B : IsFiniteSet(s) /\ \A t \in SUBSET s : t # s => t \notin B
  <2>1. B \in SUBSET (SUBSET T)
    OBVIOUS
  <2> HIDE DEF B
  <2>2. QED
    BY <1>1, <2>1, Smallest
<1>3. s # {}
  BY SumEmpty
<1>4. Pick(s) \in s /\ s \in SUBSET T /\ Pick(s) \in T /\ IsFiniteSet(s \ {Pick(s)})
  BY <1>2, <1>3, PickOne
<1>5. SumFunctionOnSet(f, s \ {Pick(s)}) <= SumFunctionOnSet(h, s \ {Pick(s)})
  BY <1>2, <1>4
<1>6. /\ SumFunctionOnSet(f, s) = f[Pick(s)] + SumFunctionOnSet(f, s \ {Pick(s)})
      /\ SumFunctionOnSet(h, s) = h[Pick(s)] + SumFunctionOnSet(h, s \ {Pick(s)})
  BY <1>2, <1>3, SumPick
<1>7. SumFunctionOnSet(f, s \ {Pick(s)}) \in Int /\ SumFunctionOnSet(h, s \ {Pick(s)}) \in Int
  <2>1. \A x \in s \ {Pick(s)} : f[x] \in Int /\ h[x] \in Int
    BY <1>4
  <2>2. QED
    BY <2>1, <1>4, SumInt
<1>8. f[Pick(s)] \in Int /\ h[Pick(s)] \in Int /\ f[Pick(s)] <= h[Pick(s)]
  BY <1>4
<1>9. ~(SumFunctionOnSet(f, s) <= SumFunctionOnSet(h, s))
  OBVIOUS
<1>10. QED
  BY <1>5, <1>6, <1>7, <1>8, <1>9

\* Cardinality counts by ones.
LEMMA SumOfOnes ==
    ASSUME NEW T, IsFiniteSet(T), NEW f, \A x \in T : f[x] = 1
    PROVE  SumFunctionOnSet(f, T) = Cardinality(T)
<1> DEFINE B == {s \in SUBSET T : SumFunctionOnSet(f, s) # Cardinality(s)}
<1>1. SUFFICES ASSUME B # {} PROVE FALSE
  <2>1. T \in SUBSET T
    OBVIOUS
  <2>2. QED
    BY <2>1
<1>2. PICK s \in B : IsFiniteSet(s) /\ \A t \in SUBSET s : t # s => t \notin B
  <2>1. B \in SUBSET (SUBSET T)
    OBVIOUS
  <2> HIDE DEF B
  <2>2. QED
    BY <1>1, <2>1, Smallest
<1>3. s # {}
  BY SumEmpty, FS_EmptySet
<1>4. /\ Pick(s) \in s /\ Pick(s) \in T /\ Cardinality(s) \in Nat
      /\ Cardinality(s \ {Pick(s)}) = Cardinality(s) - 1
  BY <1>2, <1>3, PickOne
<1>5. SumFunctionOnSet(f, s \ {Pick(s)}) = Cardinality(s \ {Pick(s)})
  BY <1>2, <1>4
<1>6. SumFunctionOnSet(f, s) = f[Pick(s)] + SumFunctionOnSet(f, s \ {Pick(s)})
  BY <1>2, <1>3, SumPick
<1>7. f[Pick(s)] = 1 /\ SumFunctionOnSet(f, s) # Cardinality(s)
  BY <1>4
<1>8. QED
  BY <1>4, <1>5, <1>6, <1>7

\* The groups of S named by E: each member is in the group of one name.
Partition(group, S, E) ==
    /\ \A e \in E : group[e] \in SUBSET S
    /\ \A x \in S : \E e \in E : x \in group[e]
    /\ \A d, e \in E : \A x \in group[d] : x \in group[e] => d = e

\* A sum may be taken group by group.
LEMMA SumGroups ==
    ASSUME NEW S, IsFiniteSet(S), NEW f, \A x \in S : f[x] \in Int,
           NEW E, IsFiniteSet(E), NEW group, Partition(group, S, E),
           NEW v, \A e \in E : v[e] = SumFunctionOnSet(f, group[e])
    PROVE  SumFunctionOnSet(v, E) = SumFunctionOnSet(f, S)
<1> DEFINE Of(K) == {x \in S : \E e \in K : x \in group[e]}
           B == {K \in SUBSET E : SumFunctionOnSet(v, K) # SumFunctionOnSet(f, Of(K))}
<1>1. SUFFICES ASSUME B # {} PROVE FALSE
  <2>1. E \in SUBSET E /\ Of(E) = S
    BY DEF Partition
  <2>2. SumFunctionOnSet(v, E) = SumFunctionOnSet(f, Of(E))
    BY <2>1
  <2> HIDE DEF Of
  <2>3. QED
    BY <2>1, <2>2, Zenon
<1>2. PICK K \in B : IsFiniteSet(K) /\ \A t \in SUBSET K : t # K => t \notin B
  <2>1. B \in SUBSET (SUBSET E)
    OBVIOUS
  <2> HIDE DEF B
  <2>2. QED
    BY <1>1, <2>1, Smallest
<1>3. K \in SUBSET E /\ SumFunctionOnSet(v, K) # SumFunctionOnSet(f, Of(K))
  OBVIOUS
<1>4. K # {}
  <2>1. ASSUME K = {} PROVE FALSE
    <3>1. Of(K) = {}
      BY <2>1
    <3>2. SumFunctionOnSet(v, K) = 0
      BY <2>1, SumEmpty
    <3>3. SumFunctionOnSet(f, Of(K)) = 0
      BY <3>1, SumEmpty, Zenon
    <3>4. QED
      BY <1>3, <3>2, <3>3
  <2>2. QED
    BY <2>1
<1> DEFINE e == Pick(K)
           J == K \ {e}
           G == group[e]
<1>5. e \in K /\ e \in E
  BY <1>2, <1>3, <1>4, PickOne
<1>6. SumFunctionOnSet(v, K) = v[e] + SumFunctionOnSet(v, J)
  BY <1>2, <1>4, SumPick
<1>7. SumFunctionOnSet(v, J) = SumFunctionOnSet(f, Of(J))
  <2>1. J \in SUBSET K /\ J # K /\ J \in SUBSET E
    BY <1>3, <1>5
  <2>2. J \notin B
    BY <2>1, <1>2
  <2>3. QED
    BY <2>1, <2>2
<1>8. v[e] = SumFunctionOnSet(f, G)
  BY <1>5
<1>9. /\ Of(K) = G \cup Of(J) /\ G \cap Of(J) = {}
      /\ G \in SUBSET S /\ Of(J) \in SUBSET S
  <2>1. G \in SUBSET S /\ \A d \in J : d \in E /\ d # e /\ group[d] \in SUBSET S
    BY <1>3, <1>5 DEF Partition
  <2>2. \A d \in J : \A x \in G : x \notin group[d]
    BY <1>5, <2>1 DEF Partition
  <2>3. \A x : x \in Of(K) <=> x \in G \/ x \in Of(J)
    BY <1>5, <2>1
  <2>4. Of(J) \in SUBSET S /\ \A x \in G : x \notin Of(J)
    BY <2>2
  <2> HIDE DEF Of, G, J
  <2>5. QED
    BY <2>1, <2>3, <2>4
<1>10. SumFunctionOnSet(f, Of(K)) = SumFunctionOnSet(f, G \cup Of(J))
  <2> HIDE DEF Of, G, J
  <2>1. QED
    BY <1>9, Zenon
<1> HIDE DEF Of, G, J, e
<1>11. IsFiniteSet(G) /\ IsFiniteSet(Of(J)) /\ \A x \in G \cup Of(J) : f[x] \in Int
  BY <1>9, FS_Subset
<1>12. SumFunctionOnSet(f, G \cup Of(J))
         = SumFunctionOnSet(f, G) + SumFunctionOnSet(f, Of(J))
  BY <1>9, <1>11, SumUnion
<1>13. QED
  BY <1>3, <1>6, <1>7, <1>8, <1>10, <1>12

\* Sums add up term by term.
LEMMA SumPlus ==
    ASSUME NEW T, IsFiniteSet(T), NEW f, NEW h, NEW e,
           \A x \in T : f[x] \in Int /\ h[x] \in Int /\ e[x] = f[x] + h[x]
    PROVE  SumFunctionOnSet(e, T) = SumFunctionOnSet(f, T) + SumFunctionOnSet(h, T)
<1> DEFINE B == {s \in SUBSET T : SumFunctionOnSet(e, s) # SumFunctionOnSet(f, s) + SumFunctionOnSet(h, s)}
<1>1. SUFFICES ASSUME B # {} PROVE FALSE
  OBVIOUS
<1>2. PICK s \in B : IsFiniteSet(s) /\ \A t \in SUBSET s : t # s => t \notin B
  <2>1. B \in SUBSET (SUBSET T)
    OBVIOUS
  <2> HIDE DEF B
  <2>2. QED
    BY <1>1, <2>1, Smallest
<1>3. s # {}
  <2>1. SumFunctionOnSet(e, {}) = 0 /\ SumFunctionOnSet(f, {}) = 0 /\ SumFunctionOnSet(h, {}) = 0
    BY SumEmpty
  <2>2. ASSUME s = {} PROVE FALSE
    <3>1. /\ SumFunctionOnSet(e, s) = 0 /\ SumFunctionOnSet(f, s) = 0
          /\ SumFunctionOnSet(h, s) = 0
      BY <2>1, <2>2, Zenon
    <3>2. QED
      BY <3>1
  <2>3. QED
    BY <2>2
<1>4. Pick(s) \in s /\ s \in SUBSET T /\ Pick(s) \in T /\ IsFiniteSet(s \ {Pick(s)})
  BY <1>2, <1>3, PickOne
<1> DEFINE t == s \ {Pick(s)}
<1>5. SumFunctionOnSet(e, t) = SumFunctionOnSet(f, t) + SumFunctionOnSet(h, t)
  BY <1>2, <1>4
<1>6. /\ SumFunctionOnSet(f, s) = f[Pick(s)] + SumFunctionOnSet(f, t)
      /\ SumFunctionOnSet(h, s) = h[Pick(s)] + SumFunctionOnSet(h, t)
      /\ SumFunctionOnSet(e, s) = e[Pick(s)] + SumFunctionOnSet(e, t)
  BY <1>2, <1>3, SumPick
<1>7. SumFunctionOnSet(f, t) \in Int /\ SumFunctionOnSet(h, t) \in Int
  <2>1. \A x \in t : f[x] \in Int /\ h[x] \in Int
    BY <1>4
  <2> HIDE DEF t
  <2>2. QED
    BY <2>1, <1>4, SumInt DEF t
<1>8. f[Pick(s)] \in Int /\ h[Pick(s)] \in Int /\ e[Pick(s)] = f[Pick(s)] + h[Pick(s)]
  BY <1>4
<1>9. SumFunctionOnSet(e, s) # SumFunctionOnSet(f, s) + SumFunctionOnSet(h, s)
  OBVIOUS
<1> HIDE DEF t, B
<1>10. QED
  BY <1>5, <1>6, <1>7, <1>8, <1>9

LEMMA SumOfZeros ==
    ASSUME NEW T, IsFiniteSet(T), NEW f, \A x \in T : f[x] = 0
    PROVE  SumFunctionOnSet(f, T) = 0
<1>1. SumFunctionOnSet(f, T) = SumFunctionOnSet(f, T) + SumFunctionOnSet(f, T)
  <2>1. \A x \in T : f[x] \in Int /\ f[x] \in Int /\ f[x] = f[x] + f[x]
    OBVIOUS
  <2>2. QED
    BY <2>1, SumPlus
<1>2. SumFunctionOnSet(f, T) \in Int
  <2>1. \A x \in T : f[x] \in Int
    OBVIOUS
  <2>2. QED
    BY <2>1, SumInt
<1>3. \A c \in Int : c = c + c => c = 0
  OBVIOUS
<1>4. QED
  BY <1>1, <1>2, <1>3

\* Where the terms are not zero is all that counts.
LEMMA SumWhere ==
    ASSUME NEW T, IsFiniteSet(T), NEW Q \in SUBSET T, NEW f, NEW h,
           \A x \in T : f[x] \in Int, \A x \in Q : h[x] = f[x], \A x \in T \ Q : f[x] = 0
    PROVE  SumFunctionOnSet(f, T) = SumFunctionOnSet(h, Q)
<1> DEFINE U == T \ Q
<1>1. /\ IsFiniteSet(Q) /\ IsFiniteSet(U) /\ Q \cap U = {} /\ Q \cup U = T
      /\ \A x \in U : f[x] = 0
      /\ \A x \in Q \cup U : f[x] \in Int
  BY FS_Subset
<1> HIDE DEF U
<1>2. SumFunctionOnSet(f, Q \cup U) = SumFunctionOnSet(f, Q) + SumFunctionOnSet(f, U)
  BY <1>1, SumUnion
<1>3. SumFunctionOnSet(f, Q \cup U) = SumFunctionOnSet(f, T)
  BY <1>1, Zenon
<1>4. SumFunctionOnSet(f, U) = 0
  BY <1>1, SumOfZeros
<1>5. SumFunctionOnSet(f, Q) \in Int
  BY <1>1, SumInt
<1>6. SumFunctionOnSet(f, Q) = SumFunctionOnSet(h, Q)
  BY <1>1, SumLocal
<1>7. QED
  BY <1>2, <1>3, <1>4, <1>5, <1>6

LEMMA SumSingle ==
    ASSUME NEW a, NEW f, f[a] \in Int
    PROVE  SumFunctionOnSet(f, {a}) = f[a]
<1>1. IsFiniteSet({a}) /\ a \in {a} /\ \A x \in {a} : f[x] \in Int
  BY FS_Singleton
<1>2. SumFunctionOnSet(f, {a}) = f[a] + SumFunctionOnSet(f, {a} \ {a})
  BY <1>1, SumRemove
<1>3. {a} \ {a} = {}
  OBVIOUS
<1>4. SumFunctionOnSet(f, {a} \ {a}) = SumFunctionOnSet(f, {})
  BY <1>3, Zenon
<1>5. QED
  BY <1>2, <1>4, SumEmpty

LEMMA FiniteImage ==
    ASSUME NEW S, IsFiniteSet(S), NEW f
    PROVE  IsFiniteSet({f[x] : x \in S})
<1> DEFINE g == [x \in S |-> f[x]]
<1>1. g \in Surjection(S, {f[x] : x \in S})
  BY DEF Surjection
<1> HIDE DEF g
<1>2. QED
  BY <1>1, FS_Surjection

\* Each member of E has one name in S.
Renames(b, S, E) ==
    /\ \A x \in S : b[x] \in E
    /\ \A e \in E : \E x \in S : b[x] = e
    /\ \A x, y \in S : b[x] = b[y] => x = y

\* Renaming what a sum runs over changes nothing.
LEMMA SumRenamed ==
    ASSUME NEW S, IsFiniteSet(S), NEW f, \A x \in S : f[x] \in Int,
           NEW E, NEW b, Renames(b, S, E),
           NEW h, \A x \in S : h[b[x]] = f[x]
    PROVE  /\ IsFiniteSet(E) /\ SumFunctionOnSet(h, E) = SumFunctionOnSet(f, S)
           /\ Cardinality(E) = Cardinality(S)
<1>1. IsFiniteSet(E)
  <2>1. {b[x] : x \in S} = E
    BY DEF Renames
  <2>2. IsFiniteSet({b[x] : x \in S})
    BY FiniteImage
  <2>3. QED
    BY <2>1, <2>2
<1> DEFINE group == [e \in E |-> {x \in S : b[x] = e}]
<1>g. Partition(group, S, E) /\ \A e \in E : \A x : x \in group[e] <=> x \in S /\ b[x] = e
  BY DEF Renames, Partition
<1> HIDE DEF group
<1>2. ASSUME NEW e \in E, NEW g, \A x \in S : g[x] \in Int,
             NEW k, \A x \in S : k[b[x]] = g[x]
      PROVE  k[e] = SumFunctionOnSet(g, group[e])
  <2>1. PICK x \in S : b[x] = e
    BY DEF Renames
  <2>2. group[e] = {x}
    BY <1>g, <2>1 DEF Renames
  <2>3. SumFunctionOnSet(g, group[e]) = SumFunctionOnSet(g, {x})
    BY <2>2, Zenon
  <2>4. SumFunctionOnSet(g, {x}) = g[x]
    BY <1>2, SumSingle
  <2>5. QED
    BY <1>2, <2>1, <2>3, <2>4
<1>3. \A e \in E : h[e] = SumFunctionOnSet(f, group[e])
  BY <1>2
<1>4. SumFunctionOnSet(h, E) = SumFunctionOnSet(f, S)
  BY <1>1, <1>3, <1>g, SumGroups
<1> DEFINE ones == [x \in S |-> 1]
           each == [e \in E |-> 1]
<1>5. /\ \A x \in S : ones[x] = 1 /\ ones[x] \in Int /\ each[b[x]] = ones[x]
      /\ \A e \in E : each[e] = 1
  BY DEF Renames
<1> HIDE DEF ones, each
<1>6. \A e \in E : each[e] = SumFunctionOnSet(ones, group[e])
  BY <1>2, <1>5
<1>7. SumFunctionOnSet(each, E) = SumFunctionOnSet(ones, S)
  BY <1>1, <1>5, <1>6, <1>g, SumGroups
<1>8. QED
  BY <1>1, <1>4, <1>5, <1>7, SumOfOnes

\* Counting group by group.
LEMMA CountGroups ==
    ASSUME NEW S, IsFiniteSet(S), NEW E, IsFiniteSet(E), NEW group, Partition(group, S, E),
           NEW v, \A e \in E : v[e] = Cardinality(group[e])
    PROVE  SumFunctionOnSet(v, E) = Cardinality(S)
<1> DEFINE ones == [x \in S |-> 1]
<1>1. \A x \in S : ones[x] = 1 /\ ones[x] \in Int
  OBVIOUS
<1> HIDE DEF ones
<1>2. \A e \in E : v[e] = SumFunctionOnSet(ones, group[e])
  <2>1. ASSUME NEW e \in E PROVE v[e] = SumFunctionOnSet(ones, group[e])
    <3>1. IsFiniteSet(group[e]) /\ \A x \in group[e] : ones[x] = 1
      BY <1>1, FS_Subset DEF Partition
    <3>2. SumFunctionOnSet(ones, group[e]) = Cardinality(group[e])
      BY <3>1, SumOfOnes
    <3>3. QED
      BY <3>2
  <2>2. QED
    BY <2>1
<1>3. \A x \in S : ones[x] \in Int
  BY <1>1
<1>4. SumFunctionOnSet(v, E) = SumFunctionOnSet(ones, S)
  BY <1>2, <1>3, SumGroups
<1>5. QED
  BY <1>1, <1>4, SumOfOnes

\* What is shared out among entries, one for each name of a group, is all there.
LEMMA Shares ==
    ASSUME NEW S, IsFiniteSet(S), NEW f, \A x \in S : f[x] \in Int,
           NEW P, IsFiniteSet(P), NEW group, Partition(group, S, P),
           NEW E, NEW entry, Renames(entry, P, E),
           NEW v, \A p \in P : v[entry[p]] = SumFunctionOnSet(f, group[p])
    PROVE  IsFiniteSet(E) /\ SumFunctionOnSet(v, E) = SumFunctionOnSet(f, S)
<1> DEFINE u == [p \in P |-> SumFunctionOnSet(f, group[p])]
<1>1. \A p \in P : u[p] = SumFunctionOnSet(f, group[p])
  OBVIOUS
<1> HIDE DEF u
<1>2. \A p \in P : u[p] \in Int
  <2>1. ASSUME NEW p \in P PROVE SumFunctionOnSet(f, group[p]) \in Int
    <3>1. group[p] \in SUBSET S
      BY DEF Partition
    <3>2. IsFiniteSet(group[p]) /\ \A x \in group[p] : f[x] \in Int
      BY <3>1, FS_Subset
    <3>3. QED
      BY <3>2, SumInt
  <2>2. QED
    BY <1>1, <2>1
<1>3. SumFunctionOnSet(u, P) = SumFunctionOnSet(f, S)
  BY <1>1, SumGroups
<1>4. \A p \in P : v[entry[p]] = u[p]
  BY <1>1
<1>5. IsFiniteSet(E) /\ SumFunctionOnSet(v, E) = SumFunctionOnSet(u, P)
  BY <1>2, <1>4, SumRenamed
<1>6. QED
  BY <1>3, <1>5

LEMMA CountShares ==
    ASSUME NEW S, IsFiniteSet(S),
           NEW P, IsFiniteSet(P), NEW group, Partition(group, S, P),
           NEW E, NEW entry, Renames(entry, P, E),
           NEW v, \A p \in P : v[entry[p]] = Cardinality(group[p])
    PROVE  IsFiniteSet(E) /\ SumFunctionOnSet(v, E) = Cardinality(S)
<1> DEFINE ones == [x \in S |-> 1]
<1>1. \A x \in S : ones[x] = 1 /\ ones[x] \in Int
  OBVIOUS
<1> HIDE DEF ones
<1>2. \A p \in P : v[entry[p]] = SumFunctionOnSet(ones, group[p])
  <2>1. ASSUME NEW p \in P PROVE SumFunctionOnSet(ones, group[p]) = Cardinality(group[p])
    <3>1. IsFiniteSet(group[p]) /\ \A x \in group[p] : ones[x] = 1
      BY <1>1, FS_Subset DEF Partition
    <3>2. QED
      BY <3>1, SumOfOnes
  <2>2. QED
    BY <2>1
<1>3. \A x \in S : ones[x] \in Int
  BY <1>1
<1>4. IsFiniteSet(E) /\ SumFunctionOnSet(v, E) = SumFunctionOnSet(ones, S)
  BY <1>2, <1>3, Shares
<1>5. SumFunctionOnSet(ones, S) = Cardinality(S)
  BY <1>1, SumOfOnes
<1>6. QED
  BY <1>4, <1>5

LEMMA SameCount ==
    ASSUME NEW S, IsFiniteSet(S), NEW E, NEW b, Renames(b, S, E)
    PROVE  IsFiniteSet(E) /\ Cardinality(E) = Cardinality(S)
<1> DEFINE f == [x \in S |-> 0]
           h == [e \in E |-> 0]
<1>1. /\ \A x \in S : f[x] \in Int
      /\ \A x \in S : h[b[x]] = f[x]
  BY DEF Renames
<1> HIDE DEF f, h
<1>2. QED
  BY <1>1, SumRenamed

\* Groups of members of S that share none.
Disjoint(group, S, E) ==
    /\ \A e \in E : group[e] \in SUBSET S
    /\ \A d, e \in E : \A x \in group[d] : x \in group[e] => d = e

\* Disjoint parts are no more than the whole.
LEMMA SumOfParts ==
    ASSUME NEW S, IsFiniteSet(S), NEW f, \A x \in S : f[x] \in Nat,
           NEW E, IsFiniteSet(E), NEW group, Disjoint(group, S, E),
           NEW v, \A e \in E : v[e] = SumFunctionOnSet(f, group[e])
    PROVE  SumFunctionOnSet(v, E) <= SumFunctionOnSet(f, S)
<1> DEFINE T == {x \in S : \E e \in E : x \in group[e]}
<1>1. T \in SUBSET S /\ Partition(group, T, E)
  BY DEF Disjoint, Partition
<1> HIDE DEF T
<1>2. IsFiniteSet(T) /\ \A x \in T : f[x] \in Int
  BY <1>1, FS_Subset
<1>3. SumFunctionOnSet(v, E) = SumFunctionOnSet(f, T)
  BY <1>1, <1>2, SumGroups
<1>4. SumFunctionOnSet(f, T) <= SumFunctionOnSet(f, S)
  BY <1>1, SumNat
<1>5. QED
  BY <1>3, <1>4

LEMMA CountOfParts ==
    ASSUME NEW S, IsFiniteSet(S),
           NEW E, IsFiniteSet(E), NEW group, Disjoint(group, S, E),
           NEW v, \A e \in E : v[e] = Cardinality(group[e])
    PROVE  SumFunctionOnSet(v, E) <= Cardinality(S)
<1> DEFINE T == {x \in S : \E e \in E : x \in group[e]}
<1>1. T \in SUBSET S /\ Partition(group, T, E)
  BY DEF Disjoint, Partition
<1> HIDE DEF T
<1>2. IsFiniteSet(T) /\ Cardinality(T) <= Cardinality(S)
  BY <1>1, FS_Subset
<1>3. SumFunctionOnSet(v, E) = Cardinality(T)
  BY <1>1, <1>2, CountGroups
<1>4. QED
  BY <1>2, <1>3

-----------------------------------------------------------------------------
(* PLACES: rankings, sequences and pages *)

LEMMA FunctionIsSeq ==
    ASSUME NEW S, NEW n \in Nat, NEW f \in [1 .. n -> S]
    PROVE  f \in Seq(S) /\ Len(f) = n
BY LenProperties, SeqDef

LEMMA CountUpTo ==
    ASSUME NEW k \in Nat
    PROVE  IsFiniteSet(0 .. k - 1) /\ Cardinality(0 .. k - 1) = k
<1>1. k - 1 \in Int /\ 0 \in Int
  OBVIOUS
<1>2. QED
  BY <1>1, FS_Interval

\* An injection into a finite set of as many members takes all of them.
LEMMA OntoByCount ==
    ASSUME NEW S, NEW T, NEW f \in Injection(S, T), IsFiniteSet(T),
           Cardinality(S) = Cardinality(T)
    PROVE  f \in Surjection(S, T)
BY FS_Injection


-----------------------------------------------------------------------------
(* Rankings *)

\* B orders the members of S, leaving no two of them tied.
Orders(B, S) ==
    /\ \A x \in S : <<x, x>> \notin B
    /\ \A x, y, z \in S : <<x, y>> \in B /\ <<y, z>> \in B => <<x, z>> \in B
    /\ \A x, y \in S : x # y => <<x, y>> \in B \/ <<y, x>> \in B

Before(B, S, x) == {y \in S : <<y, x>> \in B}

PlaceIn(B, S) == [x \in S |-> Cardinality(Before(B, S, x))]

\* A row's place is the number of rows before it, no two rows share one, and as
\* many places as rows are then all taken.
LEMMA PlacesAreTaken ==
    ASSUME NEW S, IsFiniteSet(S), NEW B, Orders(B, S)
    PROVE  /\ \A x \in S : PlaceIn(B, S)[x] \in 0 .. Cardinality(S) - 1
           /\ \A x, y \in S : <<x, y>> \in B => PlaceIn(B, S)[x] < PlaceIn(B, S)[y]
           /\ \A a \in 0 .. Cardinality(S) - 1 : \E x \in S : PlaceIn(B, S)[x] = a
<1> DEFINE n == Cardinality(S)
           Ahead(x) == Before(B, S, x)
           place == PlaceIn(B, S)
<1>1. n \in Nat
  BY FS_CardinalityType
<1>a. \A x \in S : Ahead(x) \in SUBSET S /\ \A y \in S : y \in Ahead(x) <=> <<y, x>> \in B
  BY DEF Before
<1>2. ASSUME NEW x \in S
      PROVE  /\ IsFiniteSet(Ahead(x)) /\ place[x] \in Nat /\ x \notin Ahead(x)
             /\ place[x] = Cardinality(Ahead(x))
  <2>1. IsFiniteSet(Ahead(x)) /\ Cardinality(Ahead(x)) \in Nat
    BY <1>a, FS_Subset, FS_CardinalityType
  <2>2. place[x] = Cardinality(Ahead(x))
    BY DEF PlaceIn
  <2>3. x \notin Ahead(x)
    BY <1>a DEF Orders
  <2>4. QED
    BY <2>1, <2>2, <2>3
<1>p. place \in [S -> Nat]
  <2>1. place = [x \in S |-> place[x]]
    BY DEF PlaceIn
  <2> HIDE DEF place
  <2>2. QED
    BY <2>1, <1>2
<1> HIDE DEF place, Ahead
<1>3. ASSUME NEW x \in S, NEW y \in S, <<x, y>> \in B
      PROVE  place[x] < place[y]
  <2>1. Ahead(x) \cup {x} \in SUBSET Ahead(y)
    BY <1>3, <1>a DEF Orders
  <2>2. Cardinality(Ahead(x) \cup {x}) = place[x] + 1
    BY <1>2, FS_AddElement
  <2>3. IsFiniteSet(Ahead(y)) /\ Cardinality(Ahead(y)) = place[y]
    BY <1>2
  <2>4. Cardinality(Ahead(x) \cup {x}) <= Cardinality(Ahead(y))
    BY <2>1, <2>3, FS_Subset
  <2>5. QED
    BY <1>2, <2>2, <2>3, <2>4
<1>4. ASSUME NEW x \in S
      PROVE  place[x] \in 0 .. n - 1
  <2>1. Ahead(x) \in SUBSET (S \ {x})
    BY <1>2, <1>a
  <2>2. IsFiniteSet(S \ {x}) /\ Cardinality(S \ {x}) = n - 1
    BY <1>1, FS_RemoveElement
  <2>3. place[x] <= n - 1
    BY <1>2, <2>1, <2>2, FS_Subset
  <2>4. QED
    BY <1>1, <1>2, <2>3
<1>5. place \in Injection(S, 0 .. n - 1)
  <2>1. place \in [S -> 0 .. n - 1]
    BY <1>4, <1>p
  <2>2. ASSUME NEW x \in S, NEW y \in S, place[x] = place[y]
        PROVE  x = y
    <3>1. <<x, y>> \notin B /\ <<y, x>> \notin B
      BY <1>2, <1>3, <2>2
    <3>2. QED
      BY <3>1 DEF Orders
  <2>3. QED
    BY <2>1, <2>2 DEF Injection, IsInjective
<1>6. \A a \in 0 .. n - 1 : \E x \in S : place[x] = a
  <2> DEFINE T == 0 .. n - 1
  <2>1. IsFiniteSet(T) /\ Cardinality(T) = n
    BY <1>1, CountUpTo
  <2>2. place \in Injection(S, T)
    BY <1>5
  <2> HIDE DEF T
  <2>3. place \in Surjection(S, T)
    BY <2>1, <2>2, OntoByCount, Zenon
  <2>4. \A a \in T : \E x \in S : place[x] = a
    BY <2>3 DEF Surjection
  <2>5. QED
    BY <2>4 DEF T
<1>7. QED
  BY <1>3, <1>4, <1>6 DEF place

LEMMA PlacedInOrder ==
    ASSUME NEW S, IsFiniteSet(S), NEW B, Orders(B, S), NEW L, L = Placed(S, PlaceIn(B, S))
    PROVE  /\ Cardinality(S) \in Nat
           /\ L \in Seq(S) /\ Len(L) = Cardinality(S)
           /\ \A x \in S : PlaceIn(B, S)[x] + 1 \in 1 .. Cardinality(S)
                           /\ L[PlaceIn(B, S)[x] + 1] = x
           /\ \A a \in 1 .. Cardinality(S) : PlaceIn(B, S)[L[a]] = a - 1
           /\ \A a, b \in 1 .. Cardinality(S) : a < b => <<L[a], L[b]>> \in B
<1> DEFINE n == Cardinality(S)
           place == PlaceIn(B, S)
           At(a) == CHOOSE x \in S : place[x] = a - 1
<1>1. n \in Nat
  BY FS_CardinalityType
<1>2. /\ \A x \in S : place[x] \in 0 .. n - 1
      /\ \A x, y \in S : <<x, y>> \in B => place[x] < place[y]
      /\ \A a \in 0 .. n - 1 : \E x \in S : place[x] = a
  BY PlacesAreTaken
<1>3. L = [a \in 1 .. n |-> At(a)]
  BY DEF Placed
<1> HIDE DEF place, n
<1>4. ASSUME NEW a \in 1 .. n
      PROVE  L[a] \in S /\ place[L[a]] = a - 1
  <2>1. PICK x \in S : place[x] = a - 1
    <3>1. a - 1 \in 0 .. n - 1
      BY <1>1
    <3>2. QED
      BY <3>1, <1>2
  <2>2. At(a) \in S /\ place[At(a)] = a - 1
    BY <2>1
  <2>3. L[a] = At(a)
    BY <1>3
  <2>4. QED
    BY <2>2, <2>3
<1> HIDE DEF At
<1>5. L \in Seq(S) /\ Len(L) = n
  <2>1. L \in [1 .. n -> S]
    <3>1. \A a \in 1 .. n : L[a] = At(a)
      BY <1>3
    <3>2. QED
      BY <1>3, <1>4, <3>1
  <2>2. QED
    BY <1>1, <2>1, FunctionIsSeq
<1>6. ASSUME NEW x \in S, NEW y \in S, place[x] = place[y]
      PROVE  x = y
  <2>1. <<x, y>> \notin B /\ <<y, x>> \notin B
    BY <1>2, <1>6
  <2>2. QED
    BY <2>1 DEF Orders
<1>7. ASSUME NEW x \in S
      PROVE  place[x] + 1 \in 1 .. n /\ L[place[x] + 1] = x
  <2>1. place[x] + 1 \in 1 .. n /\ place[x] \in Nat
    BY <1>1, <1>2
  <2>2. L[place[x] + 1] \in S /\ place[L[place[x] + 1]] = place[x]
    BY <2>1, <1>4
  <2>3. QED
    BY <2>1, <2>2, <1>6
<1>8. ASSUME NEW a \in 1 .. n, NEW b \in 1 .. n, a < b
      PROVE  <<L[a], L[b]>> \in B
  <2>1. L[a] \in S /\ L[b] \in S /\ place[L[a]] = a - 1 /\ place[L[b]] = b - 1
    BY <1>4
  <2>2. L[a] # L[b]
    BY <2>1, <1>1, <1>8
  <2>3. <<L[b], L[a]>> \notin B
    <3>1. ~(b - 1 < a - 1)
      BY <1>1, <1>8
    <3>2. QED
      BY <2>1, <3>1, <1>2
  <2>4. QED
    BY <2>1, <2>2, <2>3 DEF Orders
<1>9. QED
  BY <1>1, <1>4, <1>5, <1>7, <1>8 DEF place, n

\* What comes after one member of a ranking is the rest of the ranking.
LEMMA RestOfRanking ==
    ASSUME NEW S, IsFiniteSet(S), NEW B, Orders(B, S), NEW k \in 1 .. Cardinality(S),
           NEW L, L = Placed(S, PlaceIn(B, S)),
           NEW Q \in SUBSET S, \A x \in S : x \in Q <=> <<L[k], x>> \in B,
           NEW M, M = Placed(Q, PlaceIn(B, Q))
    PROVE  /\ M \in Seq(S) /\ Len(M) = Len(L) - k
           /\ \A j \in 1 .. Len(M) : M[j] = L[k + j]
<1> DEFINE n == Cardinality(S)
<1>1. /\ n \in Nat /\ L \in Seq(S) /\ Len(L) = n
      /\ \A x \in S : PlaceIn(B, S)[x] + 1 \in 1 .. n /\ L[PlaceIn(B, S)[x] + 1] = x
      /\ \A a \in 1 .. n : PlaceIn(B, S)[L[a]] = a - 1
      /\ \A a, b \in 1 .. n : a < b => <<L[a], L[b]>> \in B
  BY PlacedInOrder
<1>2. L[k] \in S
  BY <1>1, ElementOfSeq
<1>3. Q \in SUBSET S /\ IsFiniteSet(Q) /\ Orders(B, Q)
  BY FS_Subset DEF Orders
<1>4. /\ Cardinality(Q) \in Nat /\ M \in Seq(Q) /\ Len(M) = Cardinality(Q)
      /\ \A x \in Q : PlaceIn(B, Q)[x] + 1 \in 1 .. Cardinality(Q)
                      /\ M[PlaceIn(B, Q)[x] + 1] = x
      /\ \A a \in 1 .. Cardinality(Q) : PlaceIn(B, Q)[M[a]] = a - 1
  <2>1. IsFiniteSet(Q) /\ Orders(B, Q)
    BY <1>3
  <2>2. QED
    BY <2>1, PlacedInOrder, SMT
\* The members up to the k-th are those before it and itself.
<1> DEFINE P == Before(B, S, L[k]) \cup {L[k]}
<1>5. IsFiniteSet(P) /\ Cardinality(P) = k
  <2>1. /\ IsFiniteSet(Before(B, S, L[k])) /\ L[k] \notin Before(B, S, L[k])
        /\ Cardinality(Before(B, S, L[k])) = PlaceIn(B, S)[L[k]]
    BY <1>2, FS_Subset DEF Before, PlaceIn, Orders
  <2>2. PlaceIn(B, S)[L[k]] = k - 1
    BY <1>1
  <2>3. IsFiniteSet(P) /\ Cardinality(P) = PlaceIn(B, S)[L[k]] + 1
    BY <2>1, FS_AddElement
  <2>4. QED
    BY <2>2, <2>3
<1>6. P \in SUBSET S /\ P \cap Q = {} /\ P \cup Q = S
  <2>1. \A x \in S : x \in P <=> x = L[k] \/ <<x, L[k]>> \in B
    BY <1>2 DEF Before
  <2>2. P \in SUBSET S
    BY <1>2 DEF Before
  <2>3. \A x \in S : x \in Q <=> <<L[k], x>> \in B
    OBVIOUS
  <2>4. \A x \in S : ~(x \in P /\ x \in Q) /\ (x \in P \/ x \in Q)
    BY <1>2, <2>1, <2>3 DEF Orders
  <2> HIDE DEF P
  <2>5. QED
    BY <2>2, <2>4, <1>3
<1>7. ASSUME NEW x \in Q
      PROVE  PlaceIn(B, S)[x] = k + PlaceIn(B, Q)[x]
  <2>1. x \in S /\ <<L[k], x>> \in B
    OBVIOUS
  <2>2. Before(B, S, x) = P \cup Before(B, Q, x) /\ P \cap Before(B, Q, x) = {}
    <3>1. \A y \in P : y \in S /\ <<y, x>> \in B
      BY <2>1, <1>2 DEF Before, Orders
    <3> HIDE DEF P
    <3>2. QED
      BY <3>1, <1>3, <1>6 DEF Before
  <2>3. IsFiniteSet(Before(B, Q, x)) /\ Cardinality(Before(B, Q, x)) \in Nat
    BY <1>3, FS_Subset, FS_CardinalityType DEF Before
  <2> HIDE DEF P
  <2>4. Cardinality(P \cup Before(B, Q, x)) = k + Cardinality(Before(B, Q, x))
    <3>1. P \cap Before(B, Q, x) = {}
      BY <2>2
    <3>2. Cardinality(P \cup Before(B, Q, x))
            = Cardinality(P) + Cardinality(Before(B, Q, x)) - Cardinality(P \cap Before(B, Q, x))
      BY <1>5, <2>3, FS_Union
    <3>3. Cardinality(P \cap Before(B, Q, x)) = 0
      BY <3>1, FS_EmptySet, Zenon
    <3>4. QED
      BY <3>2, <3>3, <1>5, <2>3
  <2>5. Cardinality(Before(B, S, x)) = k + Cardinality(Before(B, Q, x))
    BY <2>2, <2>4, Zenon
  <2>6. QED
    BY <2>1, <2>5 DEF PlaceIn
<1>8. Cardinality(Q) = n - k
  <2> HIDE DEF P
  <2>1. Cardinality(P \cup Q) = k + Cardinality(Q) - Cardinality(P \cap Q)
    BY <1>3, <1>5, FS_Union
  <2>2. Cardinality(P \cap Q) = 0
    BY <1>6, FS_EmptySet, Zenon
  <2>3. Cardinality(P \cup Q) = n
    BY <1>6, Zenon
  <2>4. QED
    BY <2>1, <2>2, <2>3, <1>1, <1>4
<1>9. ASSUME NEW j \in 1 .. Len(M)
      PROVE  M[j] = L[k + j]
  <2>1. M[j] \in Q /\ PlaceIn(B, Q)[M[j]] = j - 1
    BY <1>4, ElementOfSeq
  <2>2. M[j] \in S /\ PlaceIn(B, S)[M[j]] = k + (j - 1)
    BY <1>3, <1>7, <2>1
  <2>3. L[PlaceIn(B, S)[M[j]] + 1] = M[j]
    BY <1>1, <2>2
  <2>4. PlaceIn(B, S)[M[j]] + 1 = k + j
    BY <2>2, <1>4
  <2>5. QED
    BY <2>3, <2>4
<1>10. M \in Seq(S)
  BY <1>3, <1>4, SeqMonotonic
<1>11. QED
  BY <1>1, <1>4, <1>8, <1>9, <1>10
-----------------------------------------------------------------------------
(* The pages of a ranking *)

LEMMA FirstRowsAre ==
    ASSUME NEW S, NEW s \in Seq(S), NEW k \in Nat
    PROVE  /\ FirstRows(s, k) \in Seq(S)
           /\ Len(FirstRows(s, k)) = IF k <= Len(s) THEN k ELSE Len(s)
           /\ \A i \in 1 .. Len(FirstRows(s, k)) : FirstRows(s, k)[i] = s[i]
<1> DEFINE m == IF k <= Len(s) THEN k ELSE Len(s)
<1>1. m \in {k, Len(s)} /\ \A x \in {k, Len(s)} : m <= x
  OBVIOUS
<1>2. Min({k, Len(s)}) = m
  <2>1. \A y \in {k, Len(s)} : (\A x \in {k, Len(s)} : y <= x) => y = m
    BY <1>1
  <2> HIDE DEF m
  <2>2. QED
    BY <1>1, <2>1 DEF Min
<1>3. FirstRows(s, k) = SubSeq(s, 1, m)
  BY <1>2 DEF FirstRows
<1>4. m \in Nat /\ m <= Len(s)
  OBVIOUS
<1> HIDE DEF m
<1>5. \A i \in 1 .. m : s[i] \in S
  BY <1>4
<1>6. /\ SubSeq(s, 1, m) \in Seq(S) /\ Len(SubSeq(s, 1, m)) = m
      /\ \A i \in 1 .. m : SubSeq(s, 1, m)[i] = s[i]
  BY <1>4, <1>5, SubSeqProperties
<1>7. QED
  BY <1>3, <1>6 DEF m

LEMMA PageMore ==
    ASSUME NEW s, NEW size
    PROVE  PageOf(s, size).more \in BOOLEAN
BY DEF PageOf


\* What a reader has after each of the first n pages.
Reads(query, cursorOf, size, n, g) ==
    g = [m \in 0 .. n |-> IF m = 0 THEN NothingRead ELSE ReadOn(query, cursorOf, size, g[m - 1])]

LEMMA ReadsExist ==
    ASSUME NEW query, NEW cursorOf, NEW size
    PROVE  \A n \in Nat : \E g : Reads(query, cursorOf, size, n, g)
<1> DEFINE On(read) == ReadOn(query, cursorOf, size, read)
           Bad == {n \in Nat : ~ \E g : Reads(query, cursorOf, size, n, g)}
<1>1. SUFFICES ASSUME Bad # {} PROVE FALSE
  OBVIOUS
<1>2. PICK n \in Bad : \A m \in Bad : n <= m
  <2>1. Bad \in SUBSET Nat
    OBVIOUS
  <2> HIDE DEF Bad
  <2>2. QED
    BY <1>1, <2>1, Least
<1>3. CASE n = 0
  <2>1. Reads(query, cursorOf, size, 0, [m \in 0 .. 0 |-> NothingRead])
    BY DEF Reads
  <2>2. QED
    BY <1>3, <2>1
<1>4. CASE n # 0
  <2>1. n \in Nat /\ n - 1 \in Nat /\ n - 1 \notin Bad
    BY <1>2, <1>4
  <2>2. PICK g : Reads(query, cursorOf, size, n - 1, g)
    BY <2>1
  <2> DEFINE h == [m \in 0 .. n |-> IF m = 0 THEN NothingRead ELSE On(g[m - 1])]
  <2> HIDE DEF On
  <2>3. \A m \in 0 .. n - 1 : h[m] = g[m]
    <3>1. \A m \in 0 .. n - 1 : g[m] = IF m = 0 THEN NothingRead ELSE On(g[m - 1])
      BY <2>2 DEF Reads, On
    <3>2. QED
      BY <2>1, <3>1
  <2>4. h = [m \in 0 .. n |-> IF m = 0 THEN NothingRead ELSE On(h[m - 1])]
    <3>1. \A m \in 0 .. n : m # 0 => h[m - 1] = g[m - 1]
      BY <2>1, <2>3
    <3> DEFINE k == [m \in 0 .. n |-> IF m = 0 THEN NothingRead ELSE On(h[m - 1])]
    <3>2. \A m \in 0 .. n : h[m] = k[m]
      BY <3>1
    <3>3. QED
      BY <3>2
  <2>5. Reads(query, cursorOf, size, n, h)
    <3> HIDE DEF h
    <3>1. QED
      BY <2>4 DEF Reads, On
  <2>6. QED
    BY <2>5
<1>5. QED
  BY <1>3, <1>4

LEMMA PagesReadIs ==
    ASSUME NEW query, NEW cursorOf, NEW size, NEW n \in Nat
    PROVE  \E g : /\ Reads(query, cursorOf, size, n, g)
                  /\ PagesRead(query, cursorOf, size, n) = g[n]
<1>1. PICK g : Reads(query, cursorOf, size, n, g)
  BY ReadsExist
<1> DEFINE it == CHOOSE h : h = [m \in 0 .. n |-> IF m = 0 THEN NothingRead
                                                  ELSE ReadOn(query, cursorOf, size, h[m - 1])]
<1>2. Reads(query, cursorOf, size, n, it)
  BY <1>1 DEF Reads
<1>3. PagesRead(query, cursorOf, size, n) = it[n]
  BY DEF PagesRead
<1>4. QED
  BY <1>2, <1>3

\* A reader of the ranking L has the whole of it, or its first k rows and the
\* cursor of the last of them.
Progress(L, cursorOf, read, m) ==
    /\ read.done \in BOOLEAN
    /\ read.done => read.items = L
    /\ ~read.done =>
        \E k \in m .. Len(L) :
            /\ read.items \in Seq(Range(L)) /\ Len(read.items) = k
            /\ \A j \in 1 .. k : read.items[j] = L[j]
            /\ read.cursor = IF k = 0 THEN None ELSE cursorOf[L[k]]

\* What the query returns from a cursor is what follows in the ranking.
Continues(L, query, cursorOf) ==
    /\ L \in Seq(Range(L))
    /\ query[None] = L
    /\ \A k \in 1 .. Len(L) :
        LET rest == query[cursorOf[L[k]]] IN
        /\ rest \in Seq(Range(L)) /\ Len(rest) = Len(L) - k
        /\ \A j \in 1 .. Len(rest) : rest[j] = L[k + j]


\* One more page is more of the ranking, or the end of it.
LEMMA OnePageMore ==
    ASSUME NEW L, NEW query, NEW cursorOf, Continues(L, query, cursorOf),
           NEW size \in Nat \ {0}, NEW m \in Nat, NEW read, Progress(L, cursorOf, read, m)
    PROVE  Progress(L, cursorOf, ReadOn(query, cursorOf, size, read), m + 1)
<1> DEFINE rest == query[read.cursor]
           asked == FirstRows(rest, size + 1)
           page == PageOf(asked, size)
           next == ReadOn(query, cursorOf, size, read)
<1>1. CASE read.done
  <2>1. next = read
    BY <1>1 DEF ReadOn
  <2>2. QED
    BY <1>1, <2>1 DEF Progress
<1>2. CASE ~read.done
  <2>1. PICK k \in m .. Len(L) :
            /\ read.items \in Seq(Range(L)) /\ Len(read.items) = k
            /\ \A j \in 1 .. k : read.items[j] = L[j]
            /\ read.cursor = IF k = 0 THEN None ELSE cursorOf[L[k]]
    BY <1>2 DEF Progress
  <2>2. L \in Seq(Range(L)) /\ Len(L) \in Nat /\ k \in Nat /\ k <= Len(L) /\ m <= k
    BY <2>1, LenProperties DEF Continues
  <2>3. /\ rest \in Seq(Range(L)) /\ Len(rest) = Len(L) - k
        /\ \A j \in 1 .. Len(rest) : rest[j] = L[k + j]
    <3>1. CASE k = 0
      <4>1. rest = L
        BY <2>1, <3>1 DEF Continues
      <4> HIDE DEF rest
      <4>2. QED
        BY <2>2, <3>1, <4>1
    <3>2. CASE k # 0
      <4>1. k \in 1 .. Len(L) /\ read.cursor = cursorOf[L[k]]
        BY <2>1, <2>2, <3>2
      <4>2. rest = query[cursorOf[L[k]]]
        BY <4>1, Zenon
      <4> HIDE DEF rest
      <4>3. QED
        BY <4>1, <4>2 DEF Continues
    <3>3. QED
      BY <3>1, <3>2
  <2> HIDE DEF rest
  <2>4. /\ asked \in Seq(Range(L))
        /\ Len(asked) = IF size + 1 <= Len(rest) THEN size + 1 ELSE Len(rest)
        /\ \A j \in 1 .. Len(asked) : asked[j] = rest[j]
    <3>1. size + 1 \in Nat
      OBVIOUS
    <3>2. QED
      BY <2>3, <3>1, FirstRowsAre
  <2>5. /\ page.items = FirstRows(asked, size) /\ page.more \in BOOLEAN
        /\ page.more <=> Len(asked) > size
        /\ ReadOn(query, cursorOf, size, read) =
             [items |-> read.items \o page.items, done |-> ~page.more,
              cursor |-> IF page.more THEN cursorOf[Last(page.items)] ELSE None]
    <3>1. /\ page.items = FirstRows(asked, size) /\ page.more \in BOOLEAN
          /\ page.more <=> Len(asked) > size
      <4>1. page.items = FirstRows(asked, size)
        BY Zenon DEF PageOf
      <4>2. page.more = (Len(asked) > size)
        BY Zenon DEF PageOf
      <4>3. page.more \in BOOLEAN
        BY PageMore
      <4> HIDE DEF page, asked
      <4>4. QED
        BY <4>1, <4>2, <4>3
    <3>2. QED
      BY <1>2, <3>1 DEF ReadOn, rest
  <2> HIDE DEF asked
  <2> DEFINE shown == FirstRows(asked, size)
  <2>6. /\ shown \in Seq(Range(L))
        /\ Len(shown) = IF size <= Len(asked) THEN size ELSE Len(asked)
        /\ \A j \in 1 .. Len(shown) : shown[j] = asked[j]
    BY <2>4, FirstRowsAre
  <2> HIDE DEF shown
  <2>7. /\ next.items = read.items \o shown /\ next.done = ~page.more
        /\ next.cursor = IF page.more THEN cursorOf[Last(shown)] ELSE None
    BY <2>5 DEF shown
  <2> HIDE DEF next, page
  <2>8. /\ Len(rest) \in Nat /\ Len(asked) \in Nat /\ Len(shown) \in Nat
        /\ Len(shown) = IF size <= Len(rest) THEN size ELSE Len(rest)
        /\ page.more <=> Len(rest) > size
        /\ \A j \in 1 .. Len(shown) : shown[j] = L[k + j]
    <3>1. Len(rest) \in Nat /\ Len(asked) \in Nat /\ Len(shown) \in Nat
      BY <2>3, <2>4, <2>6, LenProperties
    <3>2. /\ Len(shown) = IF size <= Len(rest) THEN size ELSE Len(rest)
          /\ page.more <=> Len(rest) > size
      BY <3>1, <2>4, <2>5, <2>6
    <3>3. \A j \in 1 .. Len(shown) : j \in 1 .. Len(asked) /\ j \in 1 .. Len(rest)
      BY <3>1, <2>4, <2>6
    <3>4. \A j \in 1 .. Len(shown) : shown[j] = L[k + j]
      BY <3>3, <2>3, <2>4, <2>6
    <3>5. QED
      BY <3>1, <3>2, <3>4
  <2>9. /\ next.items \in Seq(Range(L)) /\ Len(next.items) = k + Len(shown)
        /\ \A j \in 1 .. k + Len(shown) : next.items[j] = L[j]
    <3>1. /\ next.items \in Seq(Range(L)) /\ Len(next.items) = Len(read.items) + Len(shown)
          /\ \A j \in 1 .. Len(read.items) + Len(shown) :
                next.items[j] = IF j <= Len(read.items) THEN read.items[j]
                                ELSE shown[j - Len(read.items)]
      <4>1. read.items \in Seq(Range(L)) /\ shown \in Seq(Range(L))
        BY <2>1, <2>6
      <4>2. next.items = read.items \o shown
        BY <2>7
      <4>3. QED
        BY <4>1, <4>2, ConcatProperties
    <3>2. ASSUME NEW j \in 1 .. k + Len(shown)
          PROVE  next.items[j] = L[j]
      <4>1. CASE j <= k
        <5>1. j \in 1 .. k
          BY <4>1
        <5>2. QED
          BY <2>1, <3>1, <4>1, <5>1
      <4>2. CASE ~(j <= k)
        <5>1. j - k \in 1 .. Len(shown) /\ k + (j - k) = j
          BY <2>2, <2>8, <4>2
        <5>2. next.items[j] = shown[j - k]
          BY <2>1, <3>1, <4>2
        <5>3. shown[j - k] = L[k + (j - k)]
          BY <2>8, <5>1
        <5>4. QED
          BY <5>1, <5>2, <5>3
      <4>3. QED
        BY <4>1, <4>2
    <3>3. QED
      BY <2>1, <3>1, <3>2
  <2>10. CASE page.more
    <3>1. Len(shown) = size /\ k + size \in m + 1 .. Len(L)
      BY <2>2, <2>3, <2>8, <2>10
    <3>2. Last(shown) = L[k + size]
      <4>1. size \in 1 .. Len(shown)
        BY <3>1
      <4>2. QED
        BY <3>1, <4>1, <2>8 DEF Last
    <3>3. next.cursor = IF k + size = 0 THEN None ELSE cursorOf[L[k + size]]
      BY <2>2, <2>7, <2>10, <3>2
    <3>4. next.done = FALSE
      BY <2>7, <2>10
    <3>5. QED
      BY <2>9, <3>1, <3>3, <3>4 DEF Progress, next
  <2>11. CASE ~page.more
    <3>1. k + Len(shown) = Len(L)
      BY <2>2, <2>3, <2>8, <2>11
    <3>2. next.items = L
      <4>1. Len(next.items) = Len(L) /\ \A j \in 1 .. Len(L) : next.items[j] = L[j]
        BY <2>9, <3>1
      <4>2. QED
        BY <2>2, <2>9, <4>1, SeqEqual
    <3>3. next.done = TRUE
      BY <2>7, <2>11
    <3>4. QED
      BY <3>2, <3>3 DEF Progress, next
  <2>12. QED
    BY <2>10, <2>11
<1>3. QED
  BY <1>1, <1>2 DEF Progress

\* Reading one page more than the ranking has rows reads the ranking.
LEMMA PagesAreTheRanking ==
    ASSUME NEW L, NEW query, NEW cursorOf, Continues(L, query, cursorOf),
           NEW size \in Nat \ {0}
    PROVE  PagesRead(query, cursorOf, size, Len(L) + 1).items = L
<1> DEFINE n == Len(L) + 1
<1>1. n \in Nat /\ Len(L) \in Nat /\ L \in Seq(Range(L))
  BY LenProperties DEF Continues
<1>2. PICK g : Reads(query, cursorOf, size, n, g) /\ PagesRead(query, cursorOf, size, n) = g[n]
  BY <1>1, PagesReadIs
<1> HIDE DEF n
<1>3. \A m \in 0 .. n : g[m] = IF m = 0 THEN NothingRead ELSE ReadOn(query, cursorOf, size, g[m - 1])
  BY <1>2 DEF Reads
<1> DEFINE Bad == {m \in 0 .. n : ~Progress(L, cursorOf, g[m], m)}
<1>4. Bad = {}
  <2>1. SUFFICES ASSUME Bad # {} PROVE FALSE
    OBVIOUS
  <2>2. PICK m \in Bad : \A p \in Bad : m <= p
    <3>1. Bad \in SUBSET Nat
      OBVIOUS
    <3> HIDE DEF Bad
    <3>2. QED
      BY <2>1, <3>1, Least
  <2>3. CASE m = 0
    <3>1. g[0] = NothingRead
      BY <1>1, <1>3
    <3>2. NothingRead.done = FALSE /\ NothingRead.items = << >> /\ NothingRead.cursor = None
      BY DEF NothingRead
    <3>3. << >> \in Seq(Range(L)) /\ Len(<< >>) = 0
      OBVIOUS
    <3>4. Progress(L, cursorOf, NothingRead, 0)
      <4>1. /\ 0 \in 0 .. Len(L)
            /\ NothingRead.items \in Seq(Range(L)) /\ Len(NothingRead.items) = 0
            /\ \A j \in 1 .. 0 : NothingRead.items[j] = L[j]
            /\ NothingRead.cursor = IF 0 = 0 THEN None ELSE cursorOf[L[0]]
        BY <1>1, <3>2, <3>3
      <4>2. QED
        BY <3>2, <4>1 DEF Progress
    <3>5. QED
      BY <2>2, <2>3, <3>1, <3>4
  <2>4. CASE m # 0
    <3>1. m - 1 \in Nat /\ m - 1 \in 0 .. n /\ m - 1 \notin Bad /\ m \in 0 .. n /\ (m - 1) + 1 = m
      BY <1>1, <2>2, <2>4
    <3>2. Progress(L, cursorOf, g[m - 1], m - 1)
      BY <3>1
    <3>3. g[m] = ReadOn(query, cursorOf, size, g[m - 1])
      BY <1>3, <2>4, <3>1
    <3>4. Progress(L, cursorOf, g[m], (m - 1) + 1)
      BY <3>1, <3>2, <3>3, OnePageMore
    <3>5. QED
      BY <2>2, <3>1, <3>4
  <2>5. QED
    BY <2>3, <2>4
<1>5. Progress(L, cursorOf, g[n], n)
  BY <1>1, <1>4
<1>6. \A k \in n .. Len(L) : FALSE
  BY <1>1 DEF n
<1>7. QED
  BY <1>2, <1>5, <1>6 DEF Progress, n


After(B, S, x) == {y \in S : <<x, y>> \in B}

LEMMA RankingRange ==
    ASSUME NEW S, IsFiniteSet(S), NEW B, Orders(B, S), NEW L, L = Placed(S, PlaceIn(B, S))
    PROVE  Range(L) = S
<1>1. /\ Cardinality(S) \in Nat /\ L \in Seq(S) /\ Len(L) = Cardinality(S)
      /\ \A x \in S : PlaceIn(B, S)[x] + 1 \in 1 .. Cardinality(S)
                      /\ L[PlaceIn(B, S)[x] + 1] = x
  BY PlacedInOrder
<1>2. DOMAIN L = 1 .. Cardinality(S)
  BY <1>1
<1>3. \A x \in S : \E k \in DOMAIN L : L[k] = x
  BY <1>1, <1>2
<1>4. \A k \in DOMAIN L : L[k] \in S
  BY <1>1, ElementOfSeq
<1>5. QED
  BY <1>3, <1>4 DEF Range

\* If a cursor made of a row asks for the ranking of the rows after it, the
\* pages join to the whole ranking.
LEMMA RankingByPages ==
    ASSUME NEW S, IsFiniteSet(S), NEW B, Orders(B, S), NEW size \in Nat \ {0},
           NEW query, NEW cursorOf, NEW L, L = Placed(S, PlaceIn(B, S)), query[None] = L,
           \A x \in S : query[cursorOf[x]] = Placed(After(B, S, x), PlaceIn(B, After(B, S, x)))
    PROVE  PagesRead(query, cursorOf, size, Len(L) + 1).items = L
<1>1. /\ Cardinality(S) \in Nat /\ L \in Seq(S) /\ Len(L) = Cardinality(S)
      /\ \A x \in S : PlaceIn(B, S)[x] + 1 \in 1 .. Cardinality(S)
                      /\ L[PlaceIn(B, S)[x] + 1] = x
  BY PlacedInOrder
<1>2. Range(L) = S
  BY RankingRange
<1>3. ASSUME NEW k \in 1 .. Len(L), NEW M, M = query[cursorOf[L[k]]]
      PROVE  /\ M \in Seq(S) /\ Len(M) = Len(L) - k
             /\ \A j \in 1 .. Len(M) : M[j] = L[k + j]
  <2>1. L[k] \in S /\ k \in 1 .. Cardinality(S)
    BY <1>1, ElementOfSeq
  <2> DEFINE Q == After(B, S, L[k])
  <2>2. Q \in SUBSET S /\ \A x \in S : x \in Q <=> <<L[k], x>> \in B
    BY DEF After
  <2>3. M = Placed(Q, PlaceIn(B, Q))
    BY <1>3, <2>1
  <2> HIDE DEF Q
  <2>4. QED
    BY <2>1, <2>2, <2>3, RestOfRanking
<1>4. L \in Seq(Range(L))
  BY <1>1, <1>2
<1>5. Continues(L, query, cursorOf)
  <2>1. ASSUME NEW k \in 1 .. Len(L)
        PROVE  LET rest == query[cursorOf[L[k]]] IN
               /\ rest \in Seq(Range(L)) /\ Len(rest) = Len(L) - k
               /\ \A j \in 1 .. Len(rest) : rest[j] = L[k + j]
    BY <1>2, <1>3
  <2>2. QED
    BY <1>4, <2>1 DEF Continues
<1>6. QED
  BY <1>5, PagesAreTheRanking

-----------------------------------------------------------------------------
(* THE ACTIVITY FEED: the invariant *)

Cursors == [eventTime : Int, id : Nat]

Families == {"eip155", "solana"}

RowColumns ==
    {"id", "name", "agent", "kind", "role", "protocol", "family", "chain", "from", "to", "in", "out",
     "paid", "got", "created", "confirmed", "status", "state", "block", "verified", "pricing",
     "usdIn", "usdOut"}

\* A row as the reads look at it.
RowReads(r) ==
    /\ RowColumns \subseteq DOMAIN r
    /\ r.id \in Nat /\ r.agent \in Int /\ r.family \in Families /\ r.chain \in Int
    /\ r.in \in Int \cup {None} /\ r.out \in Int \cup {None}
    /\ r.paid \in Nat \cup {None} /\ r.got \in Nat \cup {None}
    /\ r.created \in Int /\ r.confirmed \in Int \cup {None}
    /\ r.block \in Int \cup {None} /\ r.verified \in Int \cup {None}
    /\ Verified(r) => r.verified \in Int
    /\ r.pricing \in {"pending", "server_priced", "unpriced"}
    /\ r.usdIn \in Nat \cup {None} /\ r.usdOut \in Nat \cup {None}
    /\ r.usdIn # None => r.in # None
    /\ r.usdOut # None => r.out # None

\* A row as the steps leave it: pending ones are not judged, judged ones are
\* priced once, and from the prices of their own legs.
RowSteps(r) ==
    /\ r.status = "pending" => r.state # "queued" /\ ~Verified(r)
    /\ r.pricing # "pending" => Verified(r)
    /\ \A p \in PricesOf[r.name] :
        /\ {p[1], p[2]} \subseteq Nat \cup {None}
        /\ p[1] # None => r.in # None
        /\ p[2] # None => r.out # None

\* A row of the table under the id i.
RowSound(r, i) == r.id = i /\ RowReads(r) /\ RowSteps(r)

RowsSound ==
    /\ rows \in Seq(Table)
    /\ \A i \in DOMAIN rows : RowSound(rows[i], i)

Shown(i) == {k \in DOMAIN walk.seen : walk.seen[k] = i}

WalkTyped ==
    /\ walk \in [filter : FeedFilters \cup {"any"}, cursor : Cursors \cup {None},
                 seen : Seq(Nat), open : BOOLEAN]
    /\ steady \subseteq DOMAIN rows

\* A steady row is still to come if it lies after the cursor of an open walk,
\* and has been shown once otherwise.
SteadySound(i) ==
    /\ OnFeed(rows[i], walk.filter)
    /\ IF walk.open /\ AfterCursor(rows[i], walk.cursor) THEN Shown(i) = {}
       ELSE \E k \in DOMAIN walk.seen : Shown(i) = {k}

FeedInv ==
    /\ now \in Nat /\ RowsSound /\ WalkTyped
    /\ \A i \in steady : SteadySound(i)

-----------------------------------------------------------------------------
(* Rows and their order *)

LEMMA RowIds ==
    ASSUME RowsSound
    PROVE  /\ Len(rows) \in Nat /\ DOMAIN rows = 1 .. Len(rows)
           /\ \A i \in DOMAIN rows : rows[i] \in Table /\ rows[i].id = i /\ i \in Nat
           /\ \A r \in Table : r.id \in DOMAIN rows /\ rows[r.id] = r /\ RowSound(r, r.id)
<1>1. Len(rows) \in Nat /\ DOMAIN rows = 1 .. Len(rows)
  BY DEF RowsSound
<1>2. QED
  BY <1>1 DEF RowsSound, RowSound, Table

\* The table is finite.
LEMMA TableFinite == RowsSound => IsFiniteSet(Table)
<1> SUFFICES ASSUME RowsSound PROVE IsFiniteSet(Table)
  OBVIOUS
<1>1. IsFiniteSet(1 .. Len(rows))
  BY RowIds, FS_Interval
<1> DEFINE f == [i \in 1 .. Len(rows) |-> rows[i]]
<1>2. f \in Surjection(1 .. Len(rows), Table)
  BY RowIds DEF Surjection, Table
<1> HIDE DEF f
<1>3. QED
  BY <1>1, <1>2, FS_Surjection

LEMMA RowTimes ==
    ASSUME NEW r, NEW i \in Nat, RowSound(r, i)
    PROVE  /\ EventTimeCursor(r) \in Int
           /\ EncodeCursor(r) = [eventTime |-> EventTimeCursor(r), id |-> i]
           /\ EncodeCursor(r) \in Cursors
<1>1. EventTime(r) \in Int
  BY DEF RowSound, RowReads, EventTime, SettledAt, Coalesce
<1>2. MsTicks \in Nat \ {0}
  BY FeedAssumption
<1>3. EventTimeCursor(r) \in Int
  <2>1. EventTime(r) \div MsTicks \in Int
    BY <1>1, <1>2
  <2>2. QED
    BY <1>2, <2>1 DEF EventTimeCursor, TruncMs
<1>4. QED
  BY <1>3 DEF EncodeCursor, EventTimeCursor, RowSound, Cursors

\* The feed's order is total, and a cursor marks a place in it.
LEMMA FeedOrder ==
    ASSUME RowsSound
    PROVE  /\ \A x, y \in Table :
                /\ FeedBefore(x, y) => x # y /\ ~FeedBefore(y, x)
                /\ x # y => FeedBefore(x, y) \/ FeedBefore(y, x)
                /\ AfterCursor(y, EncodeCursor(x)) <=> FeedBefore(x, y)
                /\ \A c \in Cursors \cup {None} :
                      AfterCursor(x, c) /\ FeedBefore(x, y) => AfterCursor(y, c)
           /\ \A x, y, z \in Table :
                FeedBefore(x, y) /\ FeedBefore(y, z) => FeedBefore(x, z)
<1>1. \A x \in Table : EventTimeCursor(x) \in Int /\ x.id \in Nat
        /\ EncodeCursor(x) = [eventTime |-> EventTimeCursor(x), id |-> x.id]
        /\ EncodeCursor(x) # None
  <2>1. \A x \in Table : x.id \in Nat /\ RowSound(x, x.id)
    BY RowIds
  <2>2. None \notin Cursors
    BY FeedAssumption DEF Cursors
  <2>3. QED
    BY <2>1, <2>2, RowTimes
<1>2. \A x, y \in Table : x.id = y.id => x = y
  BY RowIds
<1>3. ASSUME NEW x \in Table, NEW y \in Table
      PROVE  /\ FeedBefore(x, y) => x # y /\ ~FeedBefore(y, x)
             /\ x # y => FeedBefore(x, y) \/ FeedBefore(y, x)
             /\ AfterCursor(y, EncodeCursor(x)) <=> FeedBefore(x, y)
  <2>1. EventTimeCursor(x) \in Int /\ x.id \in Nat
        /\ EventTimeCursor(y) \in Int /\ y.id \in Nat
    BY <1>1
  <2>2. AfterCursor(y, EncodeCursor(x)) <=> FeedBefore(x, y)
    BY <1>1, <2>1 DEF AfterCursor, FeedBefore
  <2>3. QED
    BY <1>2, <2>1, <2>2 DEF FeedBefore
<1>4. ASSUME NEW x \in Table, NEW y \in Table, NEW c \in Cursors \cup {None},
             AfterCursor(x, c), FeedBefore(x, y)
      PROVE  AfterCursor(y, c)
  <2>1. EventTimeCursor(x) \in Int /\ x.id \in Nat
        /\ EventTimeCursor(y) \in Int /\ y.id \in Nat
    BY <1>1
  <2>2. CASE c = None
    BY <2>2 DEF AfterCursor
  <2>3. CASE c \in Cursors /\ c # None
    <3>1. c.eventTime \in Int /\ c.id \in Nat
      BY <2>3 DEF Cursors
    <3>2. QED
      BY <1>4, <2>1, <2>3, <3>1 DEF AfterCursor, FeedBefore
  <2>4. QED
    BY <2>2, <2>3
<1>5. ASSUME NEW x \in Table, NEW y \in Table, NEW z \in Table,
             FeedBefore(x, y), FeedBefore(y, z)
      PROVE  FeedBefore(x, z)
  BY <1>1, <1>5 DEF FeedBefore
<1>6. QED
  BY <1>3, <1>4, <1>5

-----------------------------------------------------------------------------
(* A page *)

\* Ranked enumerates any rows of the table in the feed's order: a row's place
\* is the number of rows before it, no two rows share one, and as many places
\* as rows are then all taken.
LEMMA RankedInOrder ==
    ASSUME RowsSound, NEW Q \in SUBSET Table
    PROVE  /\ Cardinality(Q) \in Nat
           /\ Ranked(Q, FeedBefore) \in Seq(Q)
           /\ Len(Ranked(Q, FeedBefore)) = Cardinality(Q)
           /\ \A x \in Q : \E a \in 1 .. Cardinality(Q) : Ranked(Q, FeedBefore)[a] = x
           /\ \A a, b \in 1 .. Cardinality(Q) :
                a < b => FeedBefore(Ranked(Q, FeedBefore)[a], Ranked(Q, FeedBefore)[b])
<1> DEFINE B == {p \in Table \X Table : FeedBefore(p[1], p[2])}
           L == Ranked(Q, FeedBefore)
<1>1. IsFiniteSet(Q)
  BY TableFinite, FS_Subset
<1>2. \A x, y \in Q : <<x, y>> \in B <=> FeedBefore(x, y)
  OBVIOUS
<1>3. Orders(B, Q)
  <2>1. \A x, y, z \in Q : FeedBefore(x, y) /\ FeedBefore(y, z) => FeedBefore(x, z)
    <3>1. \A x \in Q : x \in Table
      OBVIOUS
    <3>2. QED
      BY <3>1, FeedOrder, Zenon
  <2>2. \A x, y \in Q : /\ FeedBefore(x, y) => x # y
                        /\ x # y => FeedBefore(x, y) \/ FeedBefore(y, x)
    BY FeedOrder
  <2> HIDE DEF B
  <2>3. \A x \in Q : <<x, x>> \notin B
    BY <1>2, <2>2
  <2>4. \A x, y, z \in Q : <<x, y>> \in B /\ <<y, z>> \in B => <<x, z>> \in B
    BY <1>2, <2>1
  <2>5. \A x, y \in Q : x # y => <<x, y>> \in B \/ <<y, x>> \in B
    BY <1>2, <2>2
  <2>6. QED
    BY <2>3, <2>4, <2>5 DEF Orders
<1>4. L = Placed(Q, PlaceIn(B, Q))
  <2>1. ASSUME NEW x \in Q
        PROVE  {y \in Q : FeedBefore(y, x)} = Before(B, Q, x)
    BY DEF Before
  <2>2. \A x \in Q : Cardinality({y \in Q : FeedBefore(y, x)}) = Cardinality(Before(B, Q, x))
    BY <2>1, Zenon
  <2>3. [x \in Q |-> Cardinality({y \in Q : FeedBefore(y, x)})] = PlaceIn(B, Q)
    BY <2>2, Zenon DEF PlaceIn
  <2>4. QED
    BY <2>3, Zenon DEF Ranked
<1> HIDE DEF B, L
<1>5. /\ Cardinality(Q) \in Nat /\ L \in Seq(Q) /\ Len(L) = Cardinality(Q)
      /\ \A x \in Q : PlaceIn(B, Q)[x] + 1 \in 1 .. Cardinality(Q)
                      /\ L[PlaceIn(B, Q)[x] + 1] = x
      /\ \A a, b \in 1 .. Cardinality(Q) : a < b => <<L[a], L[b]>> \in B
  BY <1>1, <1>3, <1>4, PlacedInOrder
<1>6. \A a \in 1 .. Cardinality(Q) : L[a] \in Q
  BY <1>5, ElementOfSeq
<1>7. QED
  BY <1>2, <1>5, <1>6 DEF L

\* A page of the feed: rows after the cursor, none twice, and all of them that
\* do not lie after the last one shown when more follow.
LEMMA FeedPage ==
    ASSUME RowsSound, NEW filter, NEW cursor \in Cursors \cup {None}, NEW page,
           page = PageOf(FirstRows(VisibleActivityPage(filter, cursor), PageSize + 1), PageSize)
    PROVE  /\ page.more \in BOOLEAN /\ page.items \in Seq(Table)
           /\ page.more => Last(page.items) \in Table /\ AfterCursor(Last(page.items), cursor)
           /\ \A k \in DOMAIN page.items :
                /\ AfterCursor(page.items[k], cursor)
                /\ page.more => ~FeedBefore(Last(page.items), page.items[k])
                /\ \A m \in DOMAIN page.items : page.items[m] = page.items[k] => m = k
           /\ \A r \in Table :
                /\ OnFeed(r, filter) /\ AfterCursor(r, cursor)
                /\ ~(page.more /\ FeedBefore(Last(page.items), r))
                => \E k \in DOMAIN page.items : page.items[k] = r
<1> DEFINE Q == {r \in Table : OnFeed(r, filter) /\ AfterCursor(r, cursor)}
           n == Cardinality(Q)
           L == Ranked(Q, FeedBefore)
           read == FirstRows(L, PageSize + 1)
           items == page.items
<1>1. Q \in SUBSET Table
  OBVIOUS
<1>2. /\ n \in Nat /\ L \in Seq(Q) /\ Len(L) = n
      /\ \A x \in Q : \E a \in 1 .. n : L[a] = x
      /\ \A a, b \in 1 .. n : a < b => FeedBefore(L[a], L[b])
  <2> HIDE DEF Q
  <2>1. QED
    BY <1>1, RankedInOrder
<1>3. page = [items |-> FirstRows(read, PageSize), more |-> Len(read) > PageSize]
  BY DEF PageOf, VisibleActivityPage
<1>q. \A x \in Q : x \in Table /\ AfterCursor(x, cursor)
  OBVIOUS
<1>r. \A r \in Table : OnFeed(r, filter) /\ AfterCursor(r, cursor) => r \in Q
  OBVIOUS
<1> HIDE DEF Q, L, n
<1>4. PageSize \in Nat \ {0}
  BY FeedAssumption
<1>5. /\ read \in Seq(Q) /\ Len(read) = IF PageSize + 1 <= n THEN PageSize + 1 ELSE n
      /\ \A i \in 1 .. Len(read) : read[i] = L[i]
  BY <1>2, <1>4, FirstRowsAre
<1> HIDE DEF read
<1>6. /\ FirstRows(read, PageSize) \in Seq(Q)
      /\ Len(FirstRows(read, PageSize)) = IF PageSize <= Len(read) THEN PageSize ELSE Len(read)
      /\ \A i \in 1 .. Len(FirstRows(read, PageSize)) : FirstRows(read, PageSize)[i] = read[i]
  BY <1>4, <1>5, FirstRowsAre
<1>7. /\ items \in Seq(Q) /\ Len(items) = IF PageSize <= n THEN PageSize ELSE n
      /\ \A i \in 1 .. Len(items) : items[i] = L[i]
      /\ page.more = (n > PageSize)
  BY <1>2, <1>3, <1>4, <1>5, <1>6
<1> HIDE DEF items
<1>8. /\ DOMAIN items = 1 .. Len(items) /\ items \in Seq(Table)
      /\ Len(items) \in Nat /\ Len(items) <= n /\ Len(items) <= PageSize
  <2>1. items \in Seq(Table)
    BY <1>1, <1>7, SeqMonotonic
  <2>2. DOMAIN items = 1 .. Len(items)
    BY <1>7, LenProperties
  <2>3. QED
    BY <1>2, <1>4, <1>7, <2>1, <2>2
<1>s. \A k \in DOMAIN items :
        /\ items[k] \in Q /\ items[k] = L[k] /\ k \in 1 .. n /\ k <= PageSize
  <2>1. \A k \in DOMAIN items : items[k] \in Q
    BY <1>7, <1>8, ElementOfSeq
  <2>2. QED
    BY <1>2, <1>4, <1>7, <1>8, <2>1
<1>9. page.more => /\ Last(items) = L[PageSize] /\ PageSize \in 1 .. n
                   /\ Last(items) \in Q
  <2>1. SUFFICES ASSUME n > PageSize
                 PROVE  /\ Last(items) = L[PageSize] /\ PageSize \in 1 .. n
                        /\ Last(items) \in Q
    BY <1>7
  <2>2. Len(items) = PageSize /\ PageSize \in 1 .. n /\ PageSize \in DOMAIN items
    BY <1>2, <1>4, <1>7, <1>8, <2>1
  <2>3. QED
    BY <1>s, <2>2 DEF Last
<1>10. ASSUME NEW k \in DOMAIN items
       PROVE  /\ AfterCursor(items[k], cursor)
              /\ page.more => ~FeedBefore(Last(items), items[k])
              /\ \A m \in DOMAIN items : items[m] = items[k] => m = k
  <2>1. items[k] \in Q /\ items[k] = L[k] /\ k \in 1 .. n /\ k <= PageSize
    BY <1>s
  <2>2. page.more => ~FeedBefore(Last(items), items[k])
    <3>1. SUFFICES ASSUME page.more, FeedBefore(Last(items), items[k]) PROVE FALSE
      OBVIOUS
    <3>2. CASE k < PageSize
      BY <1>2, <1>9, <1>q, <2>1, <3>1, <3>2, FeedOrder
    <3>3. CASE k = PageSize
      BY <1>9, <1>q, <2>1, <3>1, <3>3, FeedOrder
    <3>4. QED
      BY <1>4, <2>1, <3>2, <3>3
  <2>3. ASSUME NEW m \in DOMAIN items, items[m] = items[k]
        PROVE  m = k
    <3>1. m \in 1 .. n /\ items[m] = L[m]
      BY <1>s
    <3>2. ~FeedBefore(L[k], L[m]) /\ ~FeedBefore(L[m], L[k])
      BY <1>q, <2>1, <2>3, <3>1, FeedOrder
    <3>3. ~(k < m) /\ ~(m < k)
      BY <1>2, <2>1, <3>1, <3>2
    <3>4. QED
      BY <1>2, <2>1, <3>1, <3>3
  <2>4. QED
    BY <1>q, <2>1, <2>2, <2>3
<1>11. ASSUME NEW r \in Table, OnFeed(r, filter), AfterCursor(r, cursor),
              ~(page.more /\ FeedBefore(Last(items), r))
       PROVE  \E k \in DOMAIN items : items[k] = r
  <2>1. PICK a \in 1 .. n : L[a] = r
    BY <1>2, <1>r, <1>11
  <2>2. a <= Len(items)
    <3>1. CASE n <= PageSize
      BY <1>2, <1>4, <1>7, <3>1
    <3>2. CASE n > PageSize
      <4>1. page.more /\ ~(PageSize < a)
        BY <1>2, <1>7, <1>9, <1>11, <2>1, <3>2
      <4>2. QED
        BY <1>2, <1>4, <1>7, <4>1
    <3>3. QED
      BY <1>2, <1>4, <3>1, <3>2
  <2>3. QED
    BY <1>2, <1>7, <1>8, <2>1, <2>2
<1>12. page.more \in BOOLEAN /\ (page.more => Last(items) \in Table
                                                 /\ AfterCursor(Last(items), cursor))
  <2>1. page.more \in BOOLEAN
    BY PageMore
  <2>2. page.more => Last(items) \in Table /\ AfterCursor(Last(items), cursor)
    BY <1>9, <1>q
  <2>3. QED
    BY <2>1, <2>2
<1>13. QED
  BY <1>8, <1>10, <1>11, <1>12, Zenon DEF items

\* Taking a page keeps the walk's promise to a row on the feed.
LEMMA PageKeepsPromise ==
    ASSUME RowsSound, UNCHANGED <<rows, firstVerified>>,
           NEW filter \in FeedFilters \cup {"any"}, NEW cursor \in Cursors \cup {None},
           NEW seen \in Seq(Nat), TakePage(filter, cursor, seen)
    PROVE  /\ walk' \in [filter : FeedFilters \cup {"any"}, cursor : Cursors \cup {None},
                         seen : Seq(Nat), open : BOOLEAN]
           /\ walk'.filter = filter
           /\ \A i \in DOMAIN rows :
                /\ OnFeed(rows[i], filter)
                /\ IF AfterCursor(rows[i], cursor) THEN {k \in DOMAIN seen : seen[k] = i} = {}
                   ELSE \E k \in DOMAIN seen : {j \in DOMAIN seen : seen[j] = i} = {k}
                => SteadySound(i)'
<1> DEFINE page == PageOf(FirstRows(VisibleActivityPage(filter, cursor), PageSize + 1), PageSize)
           items == page.items
           ids == [k \in DOMAIN items |-> ToActivityRow(items[k]).id]
           last == Last(items)
           next == IF page.more THEN EncodeCursor(last) ELSE None
<1>1. walk' = [filter |-> filter, seen |-> seen \o ids, open |-> page.more, cursor |-> next]
  BY DEF TakePage
<1>2. /\ page.more \in BOOLEAN /\ items \in Seq(Table)
      /\ page.more => last \in Table /\ AfterCursor(last, cursor)
      /\ \A k \in DOMAIN items :
            /\ AfterCursor(items[k], cursor)
            /\ page.more => ~FeedBefore(last, items[k])
            /\ \A m \in DOMAIN items : items[m] = items[k] => m = k
      /\ \A r \in Table :
            /\ OnFeed(r, filter) /\ AfterCursor(r, cursor)
            /\ ~(page.more /\ FeedBefore(last, r))
            => \E k \in DOMAIN items : items[k] = r
  BY FeedPage
<1> HIDE DEF page
<1>3. /\ DOMAIN items = 1 .. Len(items) /\ Len(items) \in Nat
      /\ \A k \in 1 .. Len(items) : items[k] \in Table
  BY <1>2, LenProperties, ElementOfSeq
<1>4. /\ ids \in Seq(Nat) /\ Len(ids) = Len(items)
      /\ \A k \in DOMAIN items : \A i \in DOMAIN rows : ids[k] = i <=> items[k] = rows[i]
  <2>1. \A k \in DOMAIN items : ids[k] = items[k].id
    BY DEF ToActivityRow
  <2>2. \A k \in DOMAIN items : items[k].id \in DOMAIN rows /\ rows[items[k].id] = items[k]
    BY <1>3, RowIds
  <2>3. \A i \in DOMAIN rows : i \in Nat /\ rows[i].id = i
    BY RowIds
  <2>4. ids = [k \in 1 .. Len(items) |-> ids[k]]
    BY <1>3
  <2> HIDE DEF ids, items
  <2>5. ids \in [1 .. Len(items) -> Nat]
    BY <1>3, <2>1, <2>2, <2>3, <2>4
  <2>6. ids \in Seq(Nat) /\ Len(ids) = Len(items)
    BY <1>3, <2>5, FunctionIsSeq
  <2>7. QED
    BY <2>1, <2>2, <2>3, <2>6
<1> HIDE DEF ids, items, last
<1>5. next \in Cursors \cup {None}
  BY <1>2, RowIds, RowTimes
<1>6. \A r \in Table : page.more /\ AfterCursor(r, next) <=> page.more /\ FeedBefore(last, r)
  BY <1>2, FeedOrder
<1> HIDE DEF next
<1> DEFINE n == Len(seen)
<1>7. /\ seen \o ids \in Seq(Nat) /\ DOMAIN seen = 1 .. n /\ n \in Nat
      /\ DOMAIN (seen \o ids) = 1 .. n + Len(items)
      /\ \A k \in 1 .. n : (seen \o ids)[k] = seen[k]
      /\ \A k \in 1 .. Len(items) : (seen \o ids)[n + k] = ids[k]
  <2>1. /\ seen \o ids \in Seq(Nat) /\ Len(seen \o ids) = n + Len(items)
        /\ \A k \in 1 .. n + Len(items) :
              (seen \o ids)[k] = IF k <= n THEN seen[k] ELSE ids[k - n]
    <3>1. ids \in Seq(Nat) /\ Len(ids) = Len(items)
      BY <1>4
    <3>2. /\ seen \o ids \in Seq(Nat) /\ Len(seen \o ids) = Len(seen) + Len(ids)
          /\ \A k \in 1 .. Len(seen) + Len(ids) :
                (seen \o ids)[k] = IF k <= Len(seen) THEN seen[k] ELSE ids[k - Len(seen)]
      BY <3>1, ConcatProperties, Zenon
    <3>3. QED
      BY <3>1, <3>2, Zenon
  <2>2. n \in Nat /\ DOMAIN seen = 1 .. n
    BY LenProperties
  <2>3. DOMAIN (seen \o ids) = 1 .. n + Len(items)
    BY <2>1, LenProperties
  <2>4. ASSUME NEW k \in 1 .. Len(items)
        PROVE  (seen \o ids)[n + k] = ids[k]
    <3>1. n + k \in 1 .. n + Len(items) /\ ~(n + k <= n) /\ (n + k) - n = k
      BY <1>3, <2>2
    <3>2. QED
      BY <2>1, <3>1
  <2>5. QED
    BY <1>3, <2>1, <2>2, <2>3, <2>4
<1>8. ASSUME NEW i \in DOMAIN rows, OnFeed(rows[i], filter),
             IF AfterCursor(rows[i], cursor) THEN {k \in DOMAIN seen : seen[k] = i} = {}
             ELSE \E k \in DOMAIN seen : {j \in DOMAIN seen : seen[j] = i} = {k}
      PROVE  SteadySound(i)'
  <2> DEFINE r == rows[i]
             both == seen \o ids
  <2>1. r \in Table
    BY RowIds
  <2>2. \A k \in DOMAIN both : both[k] = i <=>
            \/ k \in DOMAIN seen /\ seen[k] = i
            \/ k - n \in DOMAIN items /\ items[k - n] = r
    <3>1. ASSUME NEW k \in 1 .. n
          PROVE  both[k] = i <=> \/ k \in DOMAIN seen /\ seen[k] = i
                                 \/ k - n \in DOMAIN items /\ items[k - n] = r
      BY <1>3, <1>7
    <3>2. ASSUME NEW k \in DOMAIN both, k > n
          PROVE  both[k] = i <=> \/ k \in DOMAIN seen /\ seen[k] = i
                                 \/ k - n \in DOMAIN items /\ items[k - n] = r
      <4>1. k - n \in 1 .. Len(items) /\ n + (k - n) = k /\ k \notin DOMAIN seen
        BY <1>3, <1>7, <3>2
      <4>2. QED
        BY <1>3, <1>4, <1>7, <4>1
    <3>3. \A k \in DOMAIN both : k \in 1 .. n \/ k > n
      BY <1>3, <1>7
    <3>4. QED
      BY <3>1, <3>2, <3>3
  <2>3. \A k \in DOMAIN items : n + k \in DOMAIN both /\ (n + k) - n = k
    BY <1>3, <1>7
  <2>4. \A k \in DOMAIN seen : k \in DOMAIN both
    BY <1>3, <1>7
  <2>5. /\ OnFeed(rows[i], walk.filter)' = OnFeed(r, filter)
        /\ (walk.open /\ AfterCursor(rows[i], walk.cursor))' =
                (page.more /\ AfterCursor(r, next))
        /\ Shown(i)' = {k \in DOMAIN both : both[k] = i}
    BY <1>1 DEF OnFeed, Shown
  <2> HIDE DEF both, r
  <2>6. SUFFICES IF page.more /\ AfterCursor(r, next) THEN Shown(i)' = {}
                 ELSE \E k \in DOMAIN both : Shown(i)' = {k}
    BY <1>1, <1>8, <2>5 DEF SteadySound, r, both
  <2>7. CASE ~AfterCursor(r, cursor)
    <3>1. ~(page.more /\ AfterCursor(r, next))
      BY <1>2, <1>6, <2>1, <2>7, FeedOrder
    <3>2. \A m \in DOMAIN items : items[m] # r
      BY <1>2, <2>7
    <3>3. PICK k \in DOMAIN seen : {j \in DOMAIN seen : seen[j] = i} = {k}
      BY <1>8, <2>7 DEF r
    <3>4. Shown(i)' = {k}
      BY <2>2, <2>4, <2>5, <3>2, <3>3
    <3>5. QED
      BY <2>4, <3>1, <3>4
  <2>8. CASE AfterCursor(r, cursor) /\ page.more /\ AfterCursor(r, next)
    <3>1. \A m \in DOMAIN items : items[m] # r
      BY <1>2, <1>6, <2>1, <2>8
    <3>2. \A j \in DOMAIN seen : seen[j] # i
      BY <1>8, <2>8 DEF r
    <3>3. QED
      BY <2>2, <2>5, <2>8, <3>1, <3>2
  <2>9. CASE AfterCursor(r, cursor) /\ ~(page.more /\ AfterCursor(r, next))
    <3>1. PICK m \in DOMAIN items : items[m] = r
      BY <1>2, <1>6, <1>8, <2>1, <2>9 DEF r
    <3>2. \A j \in DOMAIN items : items[j] = r => j = m
      BY <1>2, <3>1
    <3>3. \A j \in DOMAIN seen : seen[j] # i
      BY <1>8, <2>9 DEF r
    <3>4. ASSUME NEW k \in DOMAIN both
          PROVE  both[k] = i <=> k = n + m
      <4>1. both[k] = i <=> k - n = m
        BY <2>2, <3>1, <3>2, <3>3
      <4>2. k \in Nat /\ n \in Nat /\ m \in Nat
        BY <1>3, <1>7 DEF both
      <4>3. QED
        BY <4>1, <4>2
    <3>5. Shown(i)' = {n + m} /\ n + m \in DOMAIN both
      BY <2>3, <2>5, <3>4
    <3>6. QED
      BY <2>9, <3>5
  <2>10. QED
    BY <2>7, <2>8, <2>9
<1>9. QED
  BY <1>1, <1>2, <1>5, <1>7, <1>8

-----------------------------------------------------------------------------
(* Initial states and steps *)

LEMMA InitFeed == Init => FeedInv
<1> SUFFICES ASSUME Init PROVE FeedInv
  OBVIOUS
<1>1. now \in Nat
  BY FeedAssumption DEF Init
<1>2. RowsSound
  <2>1. rows = <<>> /\ DOMAIN rows = {} /\ rows \in Seq(Table)
    BY EmptySeq DEF Init
  <2>2. QED
    BY <2>1 DEF RowsSound
<1>3. WalkTyped
  <2>1. <<>> \in Seq(Nat)
    BY EmptySeq
  <2>2. QED
    BY <2>1 DEF Init, NoWalk, WalkTyped
<1>4. \A i \in steady : SteadySound(i)
  BY DEF Init
<1>5. QED
  BY <1>1, <1>2, <1>3, <1>4 DEF FeedInv

\* A step beside the walk: the rows it leaves on the feed, in their place, are
\* on the same side of the cursor as before.
LEMMA WalkKept ==
    ASSUME FeedInv, RowsSound', DOMAIN rows \subseteq DOMAIN rows', now' \in Nat, WalkGoesOn
    PROVE  FeedInv'
<1>1. CASE walk.open
  <2>1. walk' = walk
    BY <1>1 DEF WalkGoesOn
  <2>2. WalkTyped'
    BY <1>1, <2>1 DEF WalkGoesOn, FeedInv, WalkTyped
  <2>3. ASSUME NEW i \in steady'
        PROVE  SteadySound(i)'
    <3>1. /\ i \in steady /\ OnFeed(rows[i], walk.filter)'
          /\ EventTimeCursor(rows'[i]) = EventTimeCursor(rows[i])
      BY <1>1 DEF WalkGoesOn
    <3>2. SteadySound(i) /\ i \in DOMAIN rows /\ i \in DOMAIN rows'
      BY <3>1 DEF FeedInv, WalkTyped
    <3>3. rows[i].id = rows'[i].id
      BY <3>2 DEF FeedInv, RowsSound, RowSound
    <3>4. AfterCursor(rows[i], walk.cursor)' <=> AfterCursor(rows[i], walk.cursor)
      BY <2>1, <3>1, <3>3 DEF AfterCursor
    <3>5. QED
      BY <2>1, <3>1, <3>2, <3>4 DEF SteadySound, Shown
  <2>4. QED
    BY <2>2, <2>3 DEF FeedInv
<1>2. CASE ~walk.open
  <2>1. walk' = NoWalk /\ steady' = {}
    BY <1>2 DEF WalkGoesOn
  <2>2. WalkTyped'
    <3>1. <<>> \in Seq(Nat)
      BY EmptySeq
    <3>2. QED
      BY <2>1, <3>1 DEF NoWalk, WalkTyped
  <2>3. QED
    BY <2>1, <2>2 DEF FeedInv
<1>3. QED
  BY <1>1, <1>2

\* One row takes other values.
LEMMA RowReplaced ==
    ASSUME RowsSound, NEW i \in DOMAIN rows, NEW r, RowSound(r, i),
           rows' = [rows EXCEPT ![i] = r]
    PROVE  RowsSound' /\ DOMAIN rows' = DOMAIN rows
<1>1. DOMAIN rows = 1 .. Len(rows) /\ Len(rows) \in Nat /\ rows = [j \in DOMAIN rows |-> rows[j]]
  BY DEF RowsSound
<1>2. /\ DOMAIN rows' = DOMAIN rows
      /\ \A j \in DOMAIN rows : rows'[j] = IF j = i THEN r ELSE rows[j]
      /\ rows' \in [1 .. Len(rows) -> Table']
  BY <1>1 DEF Table
<1>3. rows' \in Seq(Table')
  BY <1>1, <1>2, FunctionIsSeq
<1>4. QED
  BY <1>2, <1>3 DEF RowsSound

LEMMA ArriveKeeps ==
    ASSUME FeedInv, NEW report \in Reports, Arrive(report)
    PROVE  FeedInv'
<1> DEFINE n == Len(rows)
           new == Stored(n + 1, report)
<1>1. rows' = Append(rows, new) /\ now' = now /\ WalkGoesOn
  BY DEF Arrive
<1>2. RowsSound /\ now \in Nat /\ n \in Nat /\ DOMAIN rows = 1 .. n
  BY DEF FeedInv, RowsSound
<1>3. RowSound(new, n + 1)
  <2>1. /\ RowColumns \ {"id", "state", "block", "verified", "pricing", "usdIn", "usdOut"}
             \subseteq DOMAIN report
        /\ report.agent \in Int /\ report.chain \in Int /\ report.created \in Int
        /\ report.in \in Int \cup {None} /\ report.out \in Int \cup {None}
        /\ report.paid \in Nat \cup {None} /\ report.got \in Nat \cup {None}
        /\ report.confirmed \in Int \cup {None} /\ report.family \in Families
        /\ \A p \in PricesOf[report.name] :
            /\ {p[1], p[2]} \subseteq Nat \cup {None}
            /\ p[1] # None => report.in # None
            /\ p[2] # None => report.out # None
    BY FeedAssumption DEF RowColumns, Families
  <2> DEFINE server == {"id", "state", "block", "verified", "pricing", "usdIn", "usdOut"}
  <2>2. /\ DOMAIN new = DOMAIN report \cup server
        /\ \A c \in DOMAIN report : c \notin server => new[c] = report[c]
        /\ new.id = n + 1 /\ new.block = None /\ new.verified = None
        /\ new.pricing = "pending" /\ new.usdIn = None /\ new.usdOut = None
        /\ new.state = IF report.status = "confirmed" THEN "queued" ELSE "none"
    BY DEF Stored
  <2> HIDE DEF new
  <2>3. /\ \A c \in RowColumns : c \notin server => new[c] = report[c]
        /\ RowColumns \subseteq DOMAIN new
    BY <2>1, <2>2 DEF RowColumns
  <2>4. /\ new.name = report.name /\ new.agent = report.agent /\ new.family = report.family
        /\ new.chain = report.chain /\ new.in = report.in /\ new.out = report.out
        /\ new.paid = report.paid /\ new.got = report.got
        /\ new.created = report.created /\ new.confirmed = report.confirmed
        /\ new.status = report.status
    BY <2>3 DEF RowColumns
  <2>5. ~Verified(new) /\ (new.status = "pending" => new.state # "queued")
    BY <2>2, <2>4 DEF Verified
  <2>6. RowReads(new)
    BY <1>2, <2>1, <2>2, <2>3, <2>4, <2>5 DEF RowReads
  <2>7. RowSteps(new)
    BY <2>1, <2>2, <2>4, <2>5 DEF RowSteps
  <2>8. QED
    BY <2>2, <2>6, <2>7 DEF RowSound
<1> HIDE DEF new
<1>4. /\ DOMAIN rows' = 1 .. n + 1 /\ rows'[n + 1] = new
      /\ \A j \in 1 .. n : rows'[j] = rows[j]
      /\ rows' = [j \in 1 .. n + 1 |-> rows'[j]]
  <2>1. rows \in Seq(Table \cup {new}) /\ new \in Table \cup {new}
    BY <1>2, SeqMonotonic DEF RowsSound
  <2>2. /\ Append(rows, new) \in Seq(Table \cup {new}) /\ Len(Append(rows, new)) = n + 1
        /\ \A j \in 1 .. n : Append(rows, new)[j] = rows[j]
        /\ Append(rows, new)[n + 1] = new
    BY <2>1, AppendProperties
  <2>3. rows' \in [1 .. n + 1 -> Table \cup {new}]
    BY <1>1, <2>2, LenProperties
  <2>4. QED
    BY <1>1, <2>2, <2>3
<1>5. rows' \in Seq(Table')
  <2>1. rows' \in [1 .. n + 1 -> Table']
    BY <1>2, <1>4 DEF Table
  <2>2. QED
    BY <1>2, <2>1, FunctionIsSeq
<1>6. RowsSound'
  <2>1. ASSUME NEW j \in DOMAIN rows'
        PROVE  RowSound(rows'[j], j)
    <3>1. j \in 1 .. n \/ j = n + 1
      BY <1>2, <1>4
    <3>2. QED
      BY <1>2, <1>3, <1>4, <3>1 DEF RowsSound
  <2>2. QED
    BY <1>5, <2>1 DEF RowsSound
<1>7. QED
  BY <1>1, <1>2, <1>4, <1>6, WalkKept

\* What promotion, the verdicts and a pass write leaves a row sound.
LEMMA RowPromoted ==
    ASSUME NEW s, NEW i, RowSound(s, i), s.status = "pending", NEW t \in Int \cup {None}
    PROVE  RowSound([s EXCEPT !.status = "confirmed", !.state = "queued", !.confirmed = t], i)
<1> DEFINE r == [s EXCEPT !.status = "confirmed", !.state = "queued", !.confirmed = t]
<1>1. RowColumns \subseteq DOMAIN s
  BY DEF RowSound, RowReads
<1>2. /\ DOMAIN r = DOMAIN s /\ r.status = "confirmed" /\ r.state = "queued" /\ r.confirmed = t
      /\ \A c \in RowColumns : c \notin {"status", "state", "confirmed"} => r[c] = s[c]
  BY <1>1 DEF RowColumns
<1> HIDE DEF r
<1>3. RowReads(r)
  BY <1>1, <1>2 DEF RowReads, RowSteps, RowSound, RowColumns, Verified
<1>4. RowSteps(r)
  BY <1>1, <1>2 DEF RowReads, RowSteps, RowSound, RowColumns, Verified
<1>5. QED
  BY <1>2, <1>3, <1>4 DEF RowSound, RowColumns, r

LEMMA RowFinalized ==
    ASSUME NEW s, NEW i, RowSound(s, i), s.state = "queued",
           NEW tier \in {"verified_full", "verified_basic"}, NEW b \in Int \cup {None}, NEW v \in Int
    PROVE  RowSound([s EXCEPT !.state = tier, !.block = b, !.verified = v], i)
<1> DEFINE r == [s EXCEPT !.state = tier, !.block = b, !.verified = v]
<1>1. RowColumns \subseteq DOMAIN s
  BY DEF RowSound, RowReads
<1>2. /\ DOMAIN r = DOMAIN s /\ r.state = tier /\ r.block = b /\ r.verified = v
      /\ \A c \in RowColumns : c \notin {"state", "block", "verified"} => r[c] = s[c]
  BY <1>1 DEF RowColumns
<1> HIDE DEF r
<1>3. RowReads(r)
  BY <1>1, <1>2 DEF RowReads, RowSteps, RowSound, RowColumns, Verified
<1>4. RowSteps(r)
  BY <1>1, <1>2 DEF RowReads, RowSteps, RowSound, RowColumns, Verified
<1>5. QED
  BY <1>2, <1>3, <1>4 DEF RowSound, RowColumns, r

LEMMA RowClosed ==
    ASSUME NEW s, NEW i, RowSound(s, i), s.state = "queued",
           NEW state \in {"mismatch", "none"}, NEW v \in Int \cup {None}
    PROVE  RowSound([s EXCEPT !.state = state, !.verified = v], i)
<1> DEFINE r == [s EXCEPT !.state = state, !.verified = v]
<1>1. RowColumns \subseteq DOMAIN s
  BY DEF RowSound, RowReads
<1>2. /\ DOMAIN r = DOMAIN s /\ r.state = state /\ r.verified = v
      /\ \A c \in RowColumns : c \notin {"state", "verified"} => r[c] = s[c]
  BY <1>1 DEF RowColumns
<1> HIDE DEF r
<1>3. RowReads(r)
  BY <1>1, <1>2 DEF RowReads, RowSteps, RowSound, RowColumns, Verified
<1>4. RowSteps(r)
  BY <1>1, <1>2 DEF RowReads, RowSteps, RowSound, RowColumns, Verified
<1>5. QED
  BY <1>2, <1>3, <1>4 DEF RowSound, RowColumns, r

LEMMA RowPriced ==
    ASSUME NEW s, NEW i, RowSound(s, i), Verified(s),
           NEW p \in PricesOf[s.name], NEW q \in {"server_priced", "unpriced"}
    PROVE  RowSound([s EXCEPT !.pricing = q, !.usdIn = p[1], !.usdOut = p[2]], i)
<1> DEFINE r == [s EXCEPT !.pricing = q, !.usdIn = p[1], !.usdOut = p[2]]
<1>1. RowColumns \subseteq DOMAIN s
  BY DEF RowSound, RowReads
<1>2. /\ DOMAIN r = DOMAIN s /\ r.pricing = q /\ r.usdIn = p[1] /\ r.usdOut = p[2]
      /\ \A c \in RowColumns : c \notin {"pricing", "usdIn", "usdOut"} => r[c] = s[c]
  BY <1>1 DEF RowColumns
<1> HIDE DEF r
<1>3. RowReads(r)
  BY <1>1, <1>2 DEF RowReads, RowSteps, RowSound, RowColumns, Verified
<1>4. RowSteps(r)
  BY <1>1, <1>2 DEF RowReads, RowSteps, RowSound, RowColumns, Verified
<1>5. QED
  BY <1>2, <1>3, <1>4 DEF RowSound, RowColumns, r

\* The steps that change one row.
Updates(i) ==
    \/ Promote(i)
    \/ \E tier \in {"verified_full", "verified_basic"}, t \in BlockTimes :
            FinalizeVerified(i, tier, t)
    \/ \E state \in {"mismatch", "none"} : CloseUnverified(i, state)
    \/ \E p \in PricesOf[rows[i].name] : Price(i, p[1], p[2])

LEMMA RowUpdated ==
    ASSUME RowsSound, now \in Nat, NEW i \in DOMAIN rows, Updates(i)
    PROVE  \E r : RowSound(r, i) /\ rows' = [rows EXCEPT ![i] = r]
<1> DEFINE s == rows[i]
<1>1. RowSound(s, i)
  BY DEF RowsSound
<1>2. CASE Promote(i)
  <2>1. s.status = "pending"
    BY <1>2 DEF Promote
  <2>2. PICK t \in {None, now} :
          rows' = [rows EXCEPT ![i].status = "confirmed", ![i].state = "queued",
                               ![i].confirmed = t]
    BY <1>2 DEF Promote
  <2> DEFINE r == [s EXCEPT !.status = "confirmed", !.state = "queued", !.confirmed = t]
  <2>3. RowSound(r, i)
    <3>1. t \in Int \cup {None}
      OBVIOUS
    <3> HIDE DEF s
    <3>2. QED
      BY <1>1, <2>1, <3>1, RowPromoted
  <2>4. rows' = [rows EXCEPT ![i] = r]
    BY <2>2
  <2> HIDE DEF r
  <2>5. QED
    BY <2>3, <2>4
<1>3. CASE \E tier \in {"verified_full", "verified_basic"}, t \in BlockTimes :
             FinalizeVerified(i, tier, t)
  <2>1. PICK tier \in {"verified_full", "verified_basic"}, t \in BlockTimes :
             FinalizeVerified(i, tier, t)
    BY <1>3
  <2>2. s.state = "queued" /\ t \in Int \cup {None} /\ now \in Int
    BY <2>1, FeedAssumption DEF FinalizeVerified
  <2> DEFINE r == [s EXCEPT !.state = tier, !.block = t, !.verified = now]
  <2>3. RowSound(r, i)
    BY <1>1, <2>2, RowFinalized
  <2>4. rows' = [rows EXCEPT ![i] = r]
    BY <2>1 DEF FinalizeVerified
  <2> HIDE DEF r
  <2>5. QED
    BY <2>3, <2>4
<1>4. CASE \E state \in {"mismatch", "none"} : CloseUnverified(i, state)
  <2>1. PICK state \in {"mismatch", "none"} : CloseUnverified(i, state)
    BY <1>4
  <2> DEFINE v == IF state = "mismatch" THEN now ELSE s.verified
             r == [s EXCEPT !.state = state, !.verified = v]
  <2>2. s.state = "queued" /\ v \in Int \cup {None} /\ "verified" \in DOMAIN s
    BY <1>1, <2>1 DEF CloseUnverified, RowSound, RowReads, RowColumns
  <2>3. RowSound(r, i)
    BY <1>1, <2>2, RowClosed
  <2>4. rows' = [rows EXCEPT ![i] = r]
    BY <2>1, <2>2 DEF CloseUnverified
  <2> HIDE DEF r
  <2>5. QED
    BY <2>3, <2>4
<1>5. CASE \E p \in PricesOf[rows[i].name] : Price(i, p[1], p[2])
  <2>1. PICK p \in PricesOf[rows[i].name] : Price(i, p[1], p[2])
    BY <1>5
  <2> DEFINE q == IF p[1] # None \/ p[2] # None THEN "server_priced" ELSE "unpriced"
             r == [s EXCEPT !.pricing = q, !.usdIn = p[1], !.usdOut = p[2]]
  <2>2. Verified(s) /\ q \in {"server_priced", "unpriced"}
    BY <2>1 DEF Price
  <2>3. RowSound(r, i)
    BY <1>1, <2>2, RowPriced
  <2>4. rows' = [rows EXCEPT ![i] = r]
    BY <2>1 DEF Price
  <2> HIDE DEF r
  <2>5. QED
    BY <2>3, <2>4
<1>6. QED
  BY <1>2, <1>3, <1>4, <1>5 DEF Updates

LEMMA UpdateKeeps ==
    ASSUME FeedInv, NEW i \in DOMAIN rows, Updates(i)
    PROVE  FeedInv'
<1>1. RowsSound /\ now \in Nat
  BY DEF FeedInv
<1>2. now' = now /\ WalkGoesOn
  BY DEF Updates, Promote, FinalizeVerified, CloseUnverified, Price
<1>3. \E r : RowSound(r, i) /\ rows' = [rows EXCEPT ![i] = r]
  BY <1>1, RowUpdated
<1>4. RowsSound' /\ DOMAIN rows' = DOMAIN rows
  BY <1>1, <1>3, RowReplaced
<1>5. QED
  BY <1>1, <1>2, <1>4, WalkKept

\* The first page of a walk: every row then on the feed is still to come.
LEMMA OpenKeeps ==
    ASSUME FeedInv, NEW filter \in FeedFilters, OpenFeed(filter)
    PROVE  FeedInv'
<1>1. /\ TakePage(filter, None, <<>>) /\ UNCHANGED <<rows, firstVerified, now>>
      /\ steady' = {i \in DOMAIN rows : OnFeed(rows[i], filter)}
  BY DEF OpenFeed
<1>2. RowsSound /\ now \in Nat /\ RowsSound'
  BY <1>1 DEF FeedInv, RowsSound, Table
<1> DEFINE seen == <<>>
<1>e. seen \in Seq(Nat) /\ \A i : {k \in DOMAIN seen : seen[k] = i} = {}
  BY EmptySeq
<1>4. TakePage(filter, None, seen)
  BY <1>1
<1> HIDE DEF seen
<1>5. /\ walk' \in [filter : FeedFilters \cup {"any"}, cursor : Cursors \cup {None},
                    seen : Seq(Nat), open : BOOLEAN]
      /\ \A i \in DOMAIN rows :
            /\ OnFeed(rows[i], filter)
            /\ IF AfterCursor(rows[i], None) THEN {k \in DOMAIN seen : seen[k] = i} = {}
               ELSE \E k \in DOMAIN seen : {j \in DOMAIN seen : seen[j] = i} = {k}
            => SteadySound(i)'
  BY <1>1, <1>2, <1>e, <1>4, PageKeepsPromise
<1>6. \A i \in steady' : SteadySound(i)'
  BY <1>1, <1>e, <1>5 DEF AfterCursor
<1>7. steady' \subseteq DOMAIN rows'
  BY <1>1
<1>8. QED
  BY <1>1, <1>2, <1>5, <1>6, <1>7 DEF FeedInv, WalkTyped

LEMMA NextPageKeeps ==
    ASSUME FeedInv, NextPage
    PROVE  FeedInv'
<1>1. /\ walk.open /\ TakePage(walk.filter, walk.cursor, walk.seen)
      /\ UNCHANGED <<rows, firstVerified, now, steady>>
  BY DEF NextPage
<1>2. RowsSound /\ now \in Nat /\ RowsSound'
  BY <1>1 DEF FeedInv, RowsSound, Table
<1>3. /\ walk.filter \in FeedFilters \cup {"any"} /\ walk.cursor \in Cursors \cup {None}
      /\ walk.seen \in Seq(Nat) /\ steady \subseteq DOMAIN rows
  BY DEF FeedInv, WalkTyped
<1>4. /\ walk' \in [filter : FeedFilters \cup {"any"}, cursor : Cursors \cup {None},
                    seen : Seq(Nat), open : BOOLEAN]
      /\ \A i \in DOMAIN rows :
            /\ OnFeed(rows[i], walk.filter)
            /\ IF AfterCursor(rows[i], walk.cursor)
               THEN {k \in DOMAIN walk.seen : walk.seen[k] = i} = {}
               ELSE \E k \in DOMAIN walk.seen : {j \in DOMAIN walk.seen : walk.seen[j] = i} = {k}
            => SteadySound(i)'
  BY <1>1, <1>2, <1>3, PageKeepsPromise
<1>5. \A i \in steady' : SteadySound(i)'
  BY <1>1, <1>3, <1>4 DEF FeedInv, SteadySound, Shown
<1>6. QED
  BY <1>1, <1>2, <1>3, <1>4, <1>5 DEF FeedInv, WalkTyped

LEMMA TickKeeps ==
    ASSUME FeedInv, Tick
    PROVE  FeedInv'
<1>1. rows' = rows /\ now' = now + 1 /\ WalkGoesOn
  BY DEF Tick
<1>2. RowsSound' /\ now' \in Nat /\ DOMAIN rows \subseteq DOMAIN rows'
  BY <1>1 DEF FeedInv, RowsSound, Table
<1>3. QED
  BY <1>1, <1>2, WalkKept

LEMMA StutterKeeps ==
    ASSUME FeedInv, UNCHANGED vars
    PROVE  FeedInv'
<1>1. UNCHANGED <<rows, firstVerified, now, walk, steady>>
  BY DEF vars
<1>2. RowsSound' /\ WalkTyped' /\ now' \in Nat
  BY <1>1 DEF FeedInv, RowsSound, WalkTyped, Table
<1>3. \A i \in steady' : SteadySound(i)'
  BY <1>1 DEF FeedInv, SteadySound, Shown, OnFeed
<1>4. QED
  BY <1>2, <1>3 DEF FeedInv

LEMMA StepFeed == FeedInv /\ [Next]_vars => FeedInv'
<1> SUFFICES ASSUME FeedInv, [Next]_vars PROVE FeedInv'
  OBVIOUS
<1>1. ASSUME NEW report \in Reports, Arrive(report)
      PROVE  FeedInv'
  BY <1>1, ArriveKeeps
<1>2. ASSUME NEW i \in DOMAIN rows, Updates(i)
      PROVE  FeedInv'
  BY <1>2, UpdateKeeps
<1>3. CASE Tick
  BY <1>3, TickKeeps
<1>4. ASSUME NEW filter \in FeedFilters, OpenFeed(filter)
      PROVE  FeedInv'
  BY <1>4, OpenKeeps
<1>5. CASE NextPage
  BY <1>5, NextPageKeeps
<1>6. CASE UNCHANGED vars
  BY <1>6, StutterKeeps
<1>7. QED
  BY <1>1, <1>2, <1>3, <1>4, <1>5, <1>6, Zenon DEF Next, Updates

LEMMA InvWalks == FeedInv => FeedWalkComplete
<1> SUFFICES ASSUME FeedInv, NEW i \in steady
             PROVE  /\ Cardinality(Shown(i)) <= 1
                    /\ walk.open \/ Cardinality(Shown(i)) = 1
  BY DEF FeedWalkComplete, Shown
<1>1. SteadySound(i)
  BY DEF FeedInv
<1>2. CASE Shown(i) = {} /\ walk.open
  BY <1>2, FS_EmptySet
<1>3. CASE \E k : Shown(i) = {k}
  BY <1>3, FS_Singleton
<1>4. QED
  BY <1>1, <1>2, <1>3 DEF SteadySound

\* The table, the walk and its history are well formed, and each steady row is
\* either still ahead of an open walk or has been shown exactly once.
THEOREM WalkKeepsItsPlace == Spec => []FeedInv
<1>1. QED
  BY InitFeed, StepFeed, PTL DEF Spec

\* Whatever the size of a page and however many rows arrive, settle, appear and
\* go meanwhile: a row that stays where it was is shown once by the end of a
\* walk, although the cursor keeps less of the time than the table does.
THEOREM WalkIsComplete == Spec => []FeedWalkComplete
<1>1. QED
  BY WalkKeepsItsPlace, InvWalks, PTL

-----------------------------------------------------------------------------
(* THE AGGREGATES *)

\* What the pass that priced a row added to the volume of its day.
Booked(r) == IF r.pricing = "server_priced" THEN PricedVolume(r, r.usdIn, r.usdOut) ELSE 0

BookedAt == [i \in DOMAIN rows |-> Booked(rows[i])]

\* The rows an aggregate stands for.
Counted(k) == {i \in DOMAIN rows : Verified(rows[i]) /\ AggregateKey(rows[i]) = k}

Balances(k) ==
    /\ aggregates[k].tx = Cardinality(Counted(k))
    /\ aggregates[k].priced = SumFunctionOnSet(BookedAt, Counted(k))

\* Each verified row is counted under its day, protocol and kind, and each
\* aggregate is the sum over the rows it stands for.
BooksInv ==
    /\ FeedInv
    /\ IsFiniteSet(DOMAIN aggregates)
    /\ \A i \in DOMAIN rows : Verified(rows[i]) => AggregateKey(rows[i]) \in DOMAIN aggregates
    /\ \A k \in DOMAIN aggregates : Balances(k)

-----------------------------------------------------------------------------

LEMMA SumChange ==
    ASSUME NEW T, IsFiniteSet(T), NEW f, NEW h, \A x \in T : f[x] \in Int /\ h[x] \in Int,
           NEW a \in T, \A x \in T : x # a => h[x] = f[x]
    PROVE  /\ SumFunctionOnSet(h, T) = SumFunctionOnSet(f, T) - f[a] + h[a]
           /\ SumFunctionOnSet(f, T) \in Int
<1> DEFINE U == T \ {a}
<1>1. IsFiniteSet(U) /\ U \in SUBSET T
  BY FS_Subset
<1>2. SumFunctionOnSet(h, T) = h[a] + SumFunctionOnSet(h, U)
  BY SumRemove
<1>3. SumFunctionOnSet(f, T) = f[a] + SumFunctionOnSet(f, U)
  BY SumRemove
<1>4. SumFunctionOnSet(h, U) = SumFunctionOnSet(f, U)
  BY <1>1, SumLocal
<1>5. SumFunctionOnSet(f, U) \in Int
  BY <1>1, SumInt
<1> HIDE DEF U
<1>6. f[a] \in Int /\ h[a] \in Int
  OBVIOUS
<1>7. QED
  BY <1>2, <1>3, <1>4, <1>5, <1>6

LEMMA SumAdd ==
    ASSUME NEW T, IsFiniteSet(T), NEW a, a \notin T, NEW f, \A x \in T \cup {a} : f[x] \in Int
    PROVE  SumFunctionOnSet(f, T \cup {a}) = SumFunctionOnSet(f, T) + f[a]
<1>1. IsFiniteSet(T \cup {a}) /\ a \in T \cup {a}
  BY FS_AddElement
<1>2. SumFunctionOnSet(f, T \cup {a}) = f[a] + SumFunctionOnSet(f, (T \cup {a}) \ {a})
  BY <1>1, SumRemove
<1>3. (T \cup {a}) \ {a} = T
  OBVIOUS
<1>4. SumFunctionOnSet(f, (T \cup {a}) \ {a}) = SumFunctionOnSet(f, T)
  BY <1>3, Zenon
<1>5. SumFunctionOnSet(f, T) \in Int /\ f[a] \in Int
  BY SumInt
<1>6. QED
  BY <1>2, <1>4, <1>5

LEMMA BookedNat ==
    ASSUME NEW r, RowReads(r)
    PROVE  Booked(r) \in Nat
BY DEF RowReads, Booked, PricedVolume, OrZero, Coalesce

\* The amounts booked, and the finite sets of rows counted.
LEMMA BooksTyped ==
    ASSUME RowsSound
    PROVE  /\ \A i \in DOMAIN rows : BookedAt[i] \in Nat /\ BookedAt[i] = Booked(rows[i])
           /\ \A k : IsFiniteSet(Counted(k)) /\ Counted(k) \in SUBSET DOMAIN rows
<1>1. \A i \in DOMAIN rows : RowReads(rows[i])
  BY DEF RowsSound, RowSound
<1>2. \A i \in DOMAIN rows : BookedAt[i] \in Nat /\ BookedAt[i] = Booked(rows[i])
  BY <1>1, BookedNat DEF BookedAt
<1>3. IsFiniteSet(DOMAIN rows)
  BY RowIds, FS_Interval
<1>4. \A k : IsFiniteSet(Counted(k)) /\ Counted(k) \in SUBSET DOMAIN rows
  BY <1>3, FS_Subset DEF Counted
<1>5. QED
  BY <1>2, <1>4

\* A step that judges and prices no row.
LEMMA BooksUntouched ==
    ASSUME BooksInv, FeedInv', aggregates' = aggregates, DOMAIN rows \subseteq DOMAIN rows',
           \A i \in DOMAIN rows : /\ Verified(rows'[i]) <=> Verified(rows[i])
                                  /\ Verified(rows[i]) =>
                                        /\ AggregateKey(rows'[i]) = AggregateKey(rows[i])
                                        /\ Booked(rows'[i]) = Booked(rows[i]),
           \A i \in DOMAIN rows' : i \notin DOMAIN rows => ~Verified(rows'[i])
    PROVE  BooksInv'
<1>1. RowsSound /\ RowsSound'
  BY DEF BooksInv, FeedInv
<1>2. \A k : Counted(k)' = Counted(k)
  BY DEF Counted
<1>3. ASSUME NEW k PROVE SumFunctionOnSet(BookedAt', Counted(k)) = SumFunctionOnSet(BookedAt, Counted(k))
  <2>1. IsFiniteSet(Counted(k))
    BY <1>1, BooksTyped
  <2>2. \A i \in Counted(k) : BookedAt'[i] = BookedAt[i]
    BY DEF Counted, BookedAt
  <2>3. QED
    BY <2>1, <2>2, SumLocal
<1>4. \A k : SumFunctionOnSet(BookedAt, Counted(k))' = SumFunctionOnSet(BookedAt, Counted(k))
  <2>1. ASSUME NEW k PROVE SumFunctionOnSet(BookedAt', Counted(k)') = SumFunctionOnSet(BookedAt', Counted(k))
    BY <1>2, Zenon
  <2>2. QED
    BY <1>3, <2>1
<1>5. \A k : Cardinality(Counted(k))' = Cardinality(Counted(k))
  BY <1>2, Zenon
<1>6. \A k \in DOMAIN aggregates' : Balances(k)'
  BY <1>4, <1>5 DEF BooksInv, Balances
<1>7. \A i \in DOMAIN rows' : Verified(rows'[i]) => AggregateKey(rows'[i]) \in DOMAIN aggregates'
  BY DEF BooksInv
<1>8. QED
  BY <1>6, <1>7 DEF BooksInv

LEMMA OneRowChanged ==
    ASSUME RowsSound, NEW i \in DOMAIN rows, NEW r, rows' = [rows EXCEPT ![i] = r]
    PROVE  /\ DOMAIN rows' = DOMAIN rows /\ rows'[i] = r
           /\ \A j \in DOMAIN rows : j # i => rows'[j] = rows[j]
           /\ RowReads(rows[i]) /\ RowSteps(rows[i]) /\ RowColumns \subseteq DOMAIN rows[i]
BY DEF RowsSound, RowSound, RowReads

LEMMA BooksOnPromote ==
    ASSUME BooksInv, FeedInv', NEW i \in DOMAIN rows, Promote(i)
    PROVE  BooksInv'
<1> DEFINE s == rows[i]
<1>1. RowsSound /\ s.status = "pending" /\ aggregates' = aggregates
  BY DEF BooksInv, FeedInv, Promote
<1>2. PICK t : rows' = [rows EXCEPT ![i].status = "confirmed", ![i].state = "queued",
                                    ![i].confirmed = t]
  BY DEF Promote
<1> DEFINE r == [s EXCEPT !.status = "confirmed", !.state = "queued", !.confirmed = t]
<1>3. rows' = [rows EXCEPT ![i] = r]
  BY <1>2
<1>4. /\ DOMAIN rows' = DOMAIN rows /\ rows'[i] = r
      /\ \A j \in DOMAIN rows : j # i => rows'[j] = rows[j]
      /\ RowSteps(s) /\ RowColumns \subseteq DOMAIN s
  BY <1>1, <1>3, OneRowChanged
<1>5. ~Verified(s)
  BY <1>1, <1>4 DEF RowSteps
<1>6. ~Verified(r)
  BY <1>4 DEF Verified, RowColumns
<1> HIDE DEF r
<1>7. QED
  BY <1>1, <1>4, <1>5, <1>6, BooksUntouched

LEMMA BooksOnClose ==
    ASSUME BooksInv, FeedInv', NEW i \in DOMAIN rows, NEW state \in {"mismatch", "none"},
           CloseUnverified(i, state)
    PROVE  BooksInv'
<1> DEFINE s == rows[i]
           v == IF state = "mismatch" THEN now ELSE s.verified
           r == [s EXCEPT !.state = state, !.verified = v]
<1>1. RowsSound /\ s.state = "queued" /\ aggregates' = aggregates
  BY DEF BooksInv, FeedInv, CloseUnverified
<1>2. RowColumns \subseteq DOMAIN s
  BY <1>1 DEF RowsSound, RowSound, RowReads
<1>3. rows' = [rows EXCEPT ![i] = r]
  BY <1>2 DEF CloseUnverified, RowColumns
<1>4. /\ DOMAIN rows' = DOMAIN rows /\ rows'[i] = r
      /\ \A j \in DOMAIN rows : j # i => rows'[j] = rows[j]
  BY <1>1, <1>3, OneRowChanged
<1>5. ~Verified(s)
  BY <1>1 DEF Verified
<1>6. ~Verified(r)
  BY <1>2 DEF Verified, RowColumns
<1> HIDE DEF r
<1>7. QED
  BY <1>1, <1>4, <1>5, <1>6, BooksUntouched

\* What AddTo leaves in the aggregates.
LEMMA Added ==
    ASSUME NEW key, NEW tx, NEW priced, AddTo(key, tx, priced)
    PROVE  /\ DOMAIN aggregates' = DOMAIN aggregates \cup {key}
           /\ \A k \in DOMAIN aggregates : k # key => aggregates'[k] = aggregates[k]
           /\ key \in DOMAIN aggregates =>
                /\ aggregates'[key].tx = aggregates[key].tx + tx
                /\ aggregates'[key].priced = aggregates[key].priced + priced
           /\ key \notin DOMAIN aggregates =>
                aggregates'[key].tx = 0 + tx /\ aggregates'[key].priced = 0 + priced
BY DEF AddTo

LEMMA BooksOnFinalize ==
    ASSUME BooksInv, FeedInv', NEW i \in DOMAIN rows,
           NEW tier \in {"verified_full", "verified_basic"}, NEW t \in BlockTimes,
           FinalizeVerified(i, tier, t)
    PROVE  BooksInv'
<1> DEFINE s == rows[i]
           r == [s EXCEPT !.state = tier, !.block = t, !.verified = now]
           key == AggregateKey(r)
<1>1. RowsSound /\ RowsSound' /\ s.state = "queued" /\ AddTo(key, 1, 0)
  BY DEF BooksInv, FeedInv, FinalizeVerified
<1>2. rows' = [rows EXCEPT ![i] = r]
  BY DEF FinalizeVerified
<1>3. /\ DOMAIN rows' = DOMAIN rows /\ rows'[i] = r
      /\ \A j \in DOMAIN rows : j # i => rows'[j] = rows[j]
      /\ RowSteps(s) /\ RowColumns \subseteq DOMAIN s
  BY <1>1, <1>2, OneRowChanged
<1>4. ~Verified(s) /\ s.pricing = "pending"
  BY <1>1, <1>3 DEF Verified, RowSteps
<1>5. Verified(r) /\ Booked(r) = 0
  BY <1>3, <1>4 DEF Verified, RowColumns, Booked
<1> HIDE DEF r, key
<1>6. /\ DOMAIN aggregates' = DOMAIN aggregates \cup {key}
      /\ \A k \in DOMAIN aggregates : k # key => aggregates'[k] = aggregates[k]
      /\ key \in DOMAIN aggregates =>
            /\ aggregates'[key].tx = aggregates[key].tx + 1
            /\ aggregates'[key].priced = aggregates[key].priced + 0
      /\ key \notin DOMAIN aggregates =>
            aggregates'[key].tx = 0 + 1 /\ aggregates'[key].priced = 0 + 0
  BY <1>1, Added
<1>7. ASSUME NEW k
      PROVE  /\ k = key => Counted(k)' = Counted(k) \cup {i}
             /\ k # key => Counted(k)' = Counted(k)
  <2>1. \A j \in DOMAIN rows : j # i => (j \in Counted(k)' <=> j \in Counted(k))
    BY <1>3 DEF Counted
  <2>2. i \in Counted(k)' <=> k = key
    BY <1>3, <1>5 DEF Counted, key
  <2>3. i \notin Counted(k)
    BY <1>4 DEF Counted
  <2>4. Counted(k)' \in SUBSET DOMAIN rows /\ Counted(k) \in SUBSET DOMAIN rows
    BY <1>3 DEF Counted
  <2> DEFINE new == Counted(k)'
  <2>5. \A j : j \in new <=> j \in Counted(k) \/ (j = i /\ k = key)
    BY <2>1, <2>2, <2>3, <2>4
  <2> HIDE DEF new
  <2>6. CASE k = key
    <3>1. new = Counted(k) \cup {i}
      BY <2>5, <2>6
    <3>2. QED
      BY <2>6, <3>1, Zenon DEF new
  <2>7. CASE k # key
    <3>1. new = Counted(k)
      BY <2>5, <2>7
    <3>2. QED
      BY <2>7, <3>1, Zenon DEF new
  <2>8. QED
    BY <2>6, <2>7, Zenon
<1>8. \A k : i \notin Counted(k)
  BY <1>4 DEF Counted
<1>9. \A j \in DOMAIN rows : BookedAt'[j] \in Nat /\ (j # i => BookedAt'[j] = BookedAt[j])
  <2>1. \A j \in DOMAIN rows : RowReads(rows'[j])
    BY <1>1, <1>3 DEF RowsSound, RowSound
  <2>2. \A j \in DOMAIN rows : BookedAt'[j] = Booked(rows'[j])
    BY <1>3 DEF BookedAt
  <2>3. \A j \in DOMAIN rows : j # i => BookedAt'[j] = BookedAt[j]
    BY <1>3, <2>2 DEF BookedAt
  <2>4. QED
    BY <2>1, <2>2, <2>3, BookedNat
<1>10. BookedAt'[i] = 0
  BY <1>3, <1>5 DEF BookedAt
<1>11. ASSUME NEW k
       PROVE  /\ IsFiniteSet(Counted(k)) /\ Cardinality(Counted(k)) \in Nat
              /\ SumFunctionOnSet(BookedAt', Counted(k)) = SumFunctionOnSet(BookedAt, Counted(k))
              /\ SumFunctionOnSet(BookedAt', Counted(k)) \in Nat
              /\ SumFunctionOnSet(BookedAt', Counted(k) \cup {i}) = SumFunctionOnSet(BookedAt', Counted(k))
              /\ Cardinality(Counted(k) \cup {i}) = Cardinality(Counted(k)) + 1
  <2>1. IsFiniteSet(Counted(k)) /\ Counted(k) \in SUBSET DOMAIN rows /\ i \notin Counted(k)
    BY <1>1, <1>8, BooksTyped
  <2>2. SumFunctionOnSet(BookedAt', Counted(k)) = SumFunctionOnSet(BookedAt, Counted(k))
    <3>1. \A x \in Counted(k) : BookedAt'[x] = BookedAt[x]
      BY <1>9, <2>1
    <3>2. QED
      BY <2>1, <3>1, SumLocal
  <2>3. SumFunctionOnSet(BookedAt', Counted(k)) \in Nat
    <3>1. \A x \in Counted(k) : BookedAt'[x] \in Nat
      BY <1>9, <2>1
    <3>2. QED
      BY <2>1, <3>1, SumNat
  <2>4. SumFunctionOnSet(BookedAt', Counted(k) \cup {i})
          = SumFunctionOnSet(BookedAt', Counted(k)) + BookedAt'[i]
    <3>1. \A x \in Counted(k) \cup {i} : BookedAt'[x] \in Int
      BY <1>9, <1>10, <2>1
    <3>2. QED
      BY <2>1, <3>1, SumAdd
  <2>5. Cardinality(Counted(k) \cup {i}) = Cardinality(Counted(k)) + 1
    BY <2>1, FS_AddElement
  <2>6. Cardinality(Counted(k)) \in Nat
    BY <2>1, FS_CardinalityType
  <2>7. QED
    BY <1>10, <2>1, <2>2, <2>3, <2>4, <2>5, <2>6
<1>12. ASSUME NEW k
       PROVE  /\ k = key => Cardinality(Counted(k))' = Cardinality(Counted(k)) + 1
              /\ k # key => Cardinality(Counted(k))' = Cardinality(Counted(k))
              /\ SumFunctionOnSet(BookedAt, Counted(k))' = SumFunctionOnSet(BookedAt, Counted(k))
  <2>1. CASE k = key
    <3>1. Counted(k)' = Counted(k) \cup {i}
      BY <1>7, <2>1
    <3>2. SumFunctionOnSet(BookedAt', Counted(k)') = SumFunctionOnSet(BookedAt', Counted(k) \cup {i})
      BY <3>1, Zenon
    <3>3. Cardinality(Counted(k)') = Cardinality(Counted(k) \cup {i})
      BY <3>1, Zenon
    <3>4. QED
      BY <1>11, <2>1, <3>2, <3>3
  <2>2. CASE k # key
    <3>1. Counted(k)' = Counted(k)
      BY <1>7, <2>2
    <3>2. SumFunctionOnSet(BookedAt', Counted(k)') = SumFunctionOnSet(BookedAt', Counted(k))
      BY <3>1, Zenon
    <3>3. Cardinality(Counted(k)') = Cardinality(Counted(k))
      BY <3>1, Zenon
    <3>4. QED
      BY <1>11, <2>2, <3>2, <3>3
  <2>3. QED
    BY <2>1, <2>2
<1>13. key \notin DOMAIN aggregates =>
         Cardinality(Counted(key)) = 0 /\ SumFunctionOnSet(BookedAt, Counted(key)) = 0
  <2>1. SUFFICES ASSUME key \notin DOMAIN aggregates
                 PROVE  Cardinality(Counted(key)) = 0 /\ SumFunctionOnSet(BookedAt, Counted(key)) = 0
    OBVIOUS
  <2>2. Counted(key) = {}
    BY <2>1 DEF BooksInv, Counted
  <2>3. Cardinality(Counted(key)) = Cardinality({})
    BY <2>2, Zenon
  <2>4. SumFunctionOnSet(BookedAt, Counted(key)) = SumFunctionOnSet(BookedAt, {})
    BY <2>2, Zenon
  <2>5. QED
    BY <2>3, <2>4, FS_EmptySet, SumEmpty
<1>14. ASSUME NEW k \in DOMAIN aggregates'
       PROVE  Balances(k)'
  <2>1. CASE k \in DOMAIN aggregates
    <3>1. /\ aggregates[k].tx = Cardinality(Counted(k))
          /\ aggregates[k].priced = SumFunctionOnSet(BookedAt, Counted(k))
      BY <2>1 DEF BooksInv, Balances
    <3>2. /\ k = key => aggregates'[k].tx = aggregates[k].tx + 1
          /\ k # key => aggregates'[k].tx = aggregates[k].tx
          /\ aggregates'[k].priced = aggregates[k].priced
      <4>1. Cardinality(Counted(k)) \in Nat /\ SumFunctionOnSet(BookedAt, Counted(k)) \in Nat
        BY <1>11
      <4>2. QED
        BY <1>6, <2>1, <3>1, <4>1
    <3>3. QED
      BY <1>12, <3>1, <3>2 DEF Balances
  <2>2. CASE k \notin DOMAIN aggregates
    <3>1. k = key /\ aggregates'[k].tx = 1 /\ aggregates'[k].priced = 0
      BY <1>6, <1>14, <2>2
    <3>2. Cardinality(Counted(k)) = 0 /\ SumFunctionOnSet(BookedAt, Counted(k)) = 0
      BY <1>13, <2>2, <3>1
    <3>3. QED
      BY <1>12, <3>1, <3>2 DEF Balances
  <2>3. QED
    BY <2>1, <2>2
<1>15. \A j \in DOMAIN rows' : Verified(rows'[j]) => AggregateKey(rows'[j]) \in DOMAIN aggregates'
  <2>1. AggregateKey(rows'[i]) = key
    BY <1>3 DEF key
  <2>2. QED
    BY <1>3, <1>6, <2>1 DEF BooksInv
<1>16. IsFiniteSet(DOMAIN aggregates')
  <2>1. IsFiniteSet(DOMAIN aggregates \cup {key})
    BY FS_AddElement DEF BooksInv
  <2>2. QED
    BY <1>6, <2>1
<1>17. QED
  BY <1>14, <1>15, <1>16 DEF BooksInv

LEMMA BooksOnPrice ==
    ASSUME BooksInv, FeedInv', NEW i \in DOMAIN rows, NEW p \in PricesOf[rows[i].name],
           Price(i, p[1], p[2])
    PROVE  BooksInv'
<1> DEFINE s == rows[i]
           priced == p[1] # None \/ p[2] # None
           q == IF priced THEN "server_priced" ELSE "unpriced"
           r == [s EXCEPT !.pricing = q, !.usdIn = p[1], !.usdOut = p[2]]
           key == AggregateKey(s)
           v == PricedVolume(s, p[1], p[2])
<1>1. /\ RowsSound /\ RowsSound' /\ Verified(s) /\ s.pricing = "pending"
      /\ priced => AddTo(key, 0, v)
      /\ ~priced => aggregates' = aggregates
  BY DEF BooksInv, FeedInv, Price
<1>2. rows' = [rows EXCEPT ![i] = r]
  BY DEF Price
<1>3. /\ DOMAIN rows' = DOMAIN rows /\ rows'[i] = r
      /\ \A j \in DOMAIN rows : j # i => rows'[j] = rows[j]
      /\ RowReads(s) /\ RowColumns \subseteq DOMAIN s
  BY <1>1, <1>2, OneRowChanged
<1>4. /\ r.pricing = q /\ r.usdIn = p[1] /\ r.usdOut = p[2]
      /\ r.state = s.state /\ r.role = s.role /\ r.confirmed = s.confirmed /\ r.block = s.block
      /\ r.verified = s.verified /\ r.protocol = s.protocol /\ r.kind = s.kind
  BY <1>3 DEF RowColumns
<1> HIDE DEF r
<1>5. Verified(r) /\ AggregateKey(r) = key /\ Booked(s) = 0
  BY <1>1, <1>4 DEF Verified, AggregateKey, TimeAnchor, SettledAt, Booked
<1>6. Booked(r) = IF priced THEN v ELSE 0
  BY <1>4 DEF Booked, PricedVolume, DeploysCapital
<1> HIDE DEF s, v, key
<1>7. CASE ~priced
  <2>1. /\ \A j \in DOMAIN rows : /\ Verified(rows'[j]) <=> Verified(rows[j])
                                  /\ Verified(rows[j]) =>
                                        /\ AggregateKey(rows'[j]) = AggregateKey(rows[j])
                                        /\ Booked(rows'[j]) = Booked(rows[j])
    BY <1>1, <1>3, <1>5, <1>6, <1>7 DEF s, key
  <2>2. QED
    BY <1>1, <1>3, <1>7, <2>1, BooksUntouched
<1>8. CASE priced
  <2>1. key \in DOMAIN aggregates
    BY <1>1 DEF BooksInv, s, key
  <2>2. AddTo(key, 0, v)
    BY <1>1, <1>8
  <2>3. /\ DOMAIN aggregates' = DOMAIN aggregates
        /\ \A k \in DOMAIN aggregates : k # key => aggregates'[k] = aggregates[k]
        /\ aggregates'[key].tx = aggregates[key].tx + 0
        /\ aggregates'[key].priced = aggregates[key].priced + v
    <3>1. DOMAIN aggregates \cup {key} = DOMAIN aggregates
      BY <2>1
    <3>2. /\ DOMAIN aggregates' = DOMAIN aggregates \cup {key}
          /\ \A k \in DOMAIN aggregates : k # key => aggregates'[k] = aggregates[k]
          /\ key \in DOMAIN aggregates =>
                /\ aggregates'[key].tx = aggregates[key].tx + 0
                /\ aggregates'[key].priced = aggregates[key].priced + v
          /\ key \notin DOMAIN aggregates =>
                aggregates'[key].tx = 0 + 0 /\ aggregates'[key].priced = 0 + v
      BY <2>2, Added
    <3>3. DOMAIN aggregates' = DOMAIN aggregates
      BY <3>1, <3>2, Zenon
    <3>4. QED
      BY <2>1, <3>2, <3>3
  <2>4. ASSUME NEW k PROVE Counted(k)' = Counted(k)
    <3> DEFINE new == Counted(k)'
    <3>1. \A j : j \in new <=> j \in Counted(k)
      BY <1>1, <1>3, <1>5 DEF Counted, s, key
    <3> HIDE DEF new
    <3>2. new = Counted(k)
      BY <3>1
    <3>3. QED
      BY <3>2, Zenon DEF new
  <2>5. ASSUME NEW k
        PROVE  /\ IsFiniteSet(Counted(k)) /\ Cardinality(Counted(k)) \in Nat
               /\ k # key => i \notin Counted(k)
               /\ \A x \in Counted(k) : /\ BookedAt[x] \in Int /\ BookedAt'[x] \in Int
                                        /\ x # i => BookedAt'[x] = BookedAt[x]
    <3>1. IsFiniteSet(Counted(k)) /\ Counted(k) \in SUBSET DOMAIN rows
      BY <1>1, BooksTyped
    <3>2. ASSUME NEW x \in DOMAIN rows
          PROVE  /\ BookedAt[x] \in Int /\ BookedAt'[x] \in Int
                 /\ x # i => BookedAt'[x] = BookedAt[x]
      <4>1. RowReads(rows[x]) /\ RowReads(rows'[x])
        BY <1>1, <1>3 DEF RowsSound, RowSound
      <4>2. Booked(rows[x]) \in Nat /\ Booked(rows'[x]) \in Nat
        BY <4>1, BookedNat
      <4>3. BookedAt[x] = Booked(rows[x]) /\ BookedAt'[x] = Booked(rows'[x])
        BY <1>3 DEF BookedAt
      <4>4. QED
        BY <1>3, <4>2, <4>3
    <3>3. k # key => i \notin Counted(k)
      BY DEF Counted, s, key
    <3>4. Cardinality(Counted(k)) \in Nat
      BY <3>1, FS_CardinalityType
    <3>5. QED
      BY <3>1, <3>2, <3>3, <3>4
  <2>6. BookedAt[i] = 0 /\ BookedAt'[i] = v /\ i \in Counted(key) /\ v \in Int
    <3>1. RowReads(rows'[i])
      BY <1>1, <1>3 DEF RowsSound, RowSound
    <3>2. Booked(r) \in Nat
      BY <1>3, <3>1, BookedNat
    <3>3. QED
      BY <1>1, <1>3, <1>5, <1>6, <1>8, <3>2 DEF BookedAt, Counted, s, key
  <2>7. ASSUME NEW k
        PROVE  /\ k = key => SumFunctionOnSet(BookedAt', Counted(k)) = SumFunctionOnSet(BookedAt, Counted(k)) + v
               /\ k # key => SumFunctionOnSet(BookedAt', Counted(k)) = SumFunctionOnSet(BookedAt, Counted(k))
    <3>1. CASE k # key
      <4>1. \A x \in Counted(k) : BookedAt'[x] = BookedAt[x]
        BY <2>5, <3>1
      <4>2. IsFiniteSet(Counted(k))
        BY <2>5
      <4>3. SumFunctionOnSet(BookedAt', Counted(k)) = SumFunctionOnSet(BookedAt, Counted(k))
        BY <4>1, <4>2, SumLocal
      <4>4. QED
        BY <3>1, <4>3
    <3>2. CASE k = key
      <4>1. /\ IsFiniteSet(Counted(k)) /\ i \in Counted(k)
            /\ \A x \in Counted(k) : BookedAt[x] \in Int /\ BookedAt'[x] \in Int
            /\ \A x \in Counted(k) : x # i => BookedAt'[x] = BookedAt[x]
        BY <2>5, <2>6, <3>2
      <4>2. /\ SumFunctionOnSet(BookedAt', Counted(k))
                 = SumFunctionOnSet(BookedAt, Counted(k)) - BookedAt[i] + BookedAt'[i]
            /\ SumFunctionOnSet(BookedAt, Counted(k)) \in Int
        BY <4>1, SumChange
      <4>3. QED
        BY <2>6, <3>2, <4>2
    <3>3. QED
      BY <3>1, <3>2
  <2>8. ASSUME NEW k
        PROVE  /\ Cardinality(Counted(k))' = Cardinality(Counted(k))
               /\ SumFunctionOnSet(BookedAt, Counted(k))' = SumFunctionOnSet(BookedAt', Counted(k))
    BY <2>4, Zenon
  <2>9. ASSUME NEW k \in DOMAIN aggregates'
        PROVE  Balances(k)'
    <3>1. /\ aggregates[k].tx = Cardinality(Counted(k))
          /\ aggregates[k].priced = SumFunctionOnSet(BookedAt, Counted(k))
      BY <2>3, <2>9 DEF BooksInv, Balances
    <3>2. Cardinality(Counted(k)) \in Nat
      BY <2>5
    <3>3. aggregates'[k].tx = aggregates[k].tx
      BY <2>3, <3>1, <3>2
    <3>4. aggregates'[k].priced = SumFunctionOnSet(BookedAt', Counted(k))
      BY <2>3, <2>7, <3>1
    <3>5. QED
      BY <2>8, <3>1, <3>3, <3>4 DEF Balances
  <2>10. \A j \in DOMAIN rows' : Verified(rows'[j]) => AggregateKey(rows'[j]) \in DOMAIN aggregates'
    BY <1>3, <1>5, <2>1, <2>3 DEF BooksInv
  <2>11. QED
    BY <2>3, <2>9, <2>10 DEF BooksInv
<1>9. QED
  BY <1>7, <1>8

LEMMA BooksOnArrive ==
    ASSUME BooksInv, FeedInv', NEW report \in Reports, Arrive(report)
    PROVE  BooksInv'
<1> DEFINE n == Len(rows)
           new == Stored(n + 1, report)
<1>1. rows' = Append(rows, new) /\ aggregates' = aggregates
  BY DEF Arrive
<1>2. RowsSound /\ n \in Nat /\ DOMAIN rows = 1 .. n
  BY DEF BooksInv, FeedInv, RowsSound
<1>3. ~Verified(new)
  BY DEF Stored, Verified
<1> HIDE DEF new
<1>4. /\ DOMAIN rows' = 1 .. n + 1 /\ rows'[n + 1] = new
      /\ \A j \in 1 .. n : rows'[j] = rows[j]
  <2>1. rows \in Seq(Table \cup {new}) /\ new \in Table \cup {new}
    BY <1>2, SeqMonotonic DEF RowsSound
  <2>2. /\ Append(rows, new) \in Seq(Table \cup {new}) /\ Len(Append(rows, new)) = n + 1
        /\ \A j \in 1 .. n : Append(rows, new)[j] = rows[j]
        /\ Append(rows, new)[n + 1] = new
    BY <2>1, AppendProperties
  <2>3. QED
    BY <1>1, <2>2, LenProperties
<1>5. \A i \in DOMAIN rows' : i \notin DOMAIN rows => i = n + 1
  BY <1>2, <1>4
<1>6. DOMAIN rows \subseteq DOMAIN rows'
  BY <1>2, <1>4
<1>7. QED
  BY <1>1, <1>2, <1>3, <1>4, <1>5, <1>6, BooksUntouched

LEMMA InitBooks == Init => BooksInv
<1> SUFFICES ASSUME Init PROVE BooksInv
  OBVIOUS
<1>1. FeedInv
  BY InitFeed
<1>2. rows = <<>> /\ DOMAIN aggregates = {}
  BY DEF Init
<1>3. QED
  BY <1>1, <1>2, FS_EmptySet DEF BooksInv

LEMMA StepBooks == BooksInv /\ [Next]_vars => BooksInv'
<1> SUFFICES ASSUME BooksInv, [Next]_vars PROVE BooksInv'
  OBVIOUS
<1>1. FeedInv'
  BY StepFeed DEF BooksInv
<1>2. ASSUME NEW report \in Reports, Arrive(report)
      PROVE  BooksInv'
  BY <1>1, <1>2, BooksOnArrive
<1>3. ASSUME NEW i \in DOMAIN rows, Updates(i)
      PROVE  BooksInv'
  <2>1. CASE Promote(i)
    BY <1>1, <2>1, BooksOnPromote
  <2>2. CASE \E tier \in {"verified_full", "verified_basic"}, t \in BlockTimes :
               FinalizeVerified(i, tier, t)
    BY <1>1, <2>2, BooksOnFinalize
  <2>3. CASE \E state \in {"mismatch", "none"} : CloseUnverified(i, state)
    BY <1>1, <2>3, BooksOnClose
  <2>4. CASE \E p \in PricesOf[rows[i].name] : Price(i, p[1], p[2])
    BY <1>1, <2>4, BooksOnPrice
  <2>5. QED
    BY <1>3, <2>1, <2>2, <2>3, <2>4 DEF Updates
<1>4. ASSUME rows' = rows, aggregates' = aggregates PROVE BooksInv'
  BY <1>1, <1>4, BooksUntouched
<1>5. CASE Tick
  BY <1>4, <1>5 DEF Tick
<1>6. ASSUME NEW filter \in FeedFilters, OpenFeed(filter)
      PROVE  BooksInv'
  BY <1>4, <1>6 DEF OpenFeed
<1>7. CASE NextPage
  BY <1>4, <1>7 DEF NextPage
<1>8. CASE UNCHANGED vars
  BY <1>4, <1>8 DEF vars
<1>9. QED
  BY <1>2, <1>3, <1>5, <1>6, <1>7, <1>8, Zenon DEF Next, Updates

\* The day, protocol and kind of every verified row have an aggregate, and each
\* aggregate counts exactly the rows verified under it and holds exactly the
\* volume the pricing passes found for them, in whatever order rows are
\* verified and priced.
THEOREM AggregatesAreTheRows == Spec => []BooksInv
<1>1. QED
  BY InitBooks, StepBooks, PTL DEF Spec

-----------------------------------------------------------------------------
(* RANKINGS AND THEIR PAGES *)

\* Rows to read: finitely many, well formed, and each with an id of its own.
Readable(R) ==
    /\ IsFiniteSet(R)
    /\ \A r \in R : RowReads(r)
    /\ \A x, y \in R : x.id = y.id => x = y

LEMMA SumOverIs ==
    ASSUME NEW S, IsFiniteSet(S), NEW f, NEW h, \A x \in S : f[x] = h[x],
           DOMAIN f = S
    PROVE  SumFunction(f) = SumFunctionOnSet(h, S)
<1>1. SumFunction(f) = SumFunctionOnSet(f, S)
  <2>1. SumFunction(f) = SumFunctionOnSet(f, DOMAIN f)
    BY DEF SumFunction, SumFunctionOnSet, FoldFunction, FoldFunctionOnSet
  <2>2. QED
    BY <2>1, Zenon
<1>2. SumFunctionOnSet(f, S) = SumFunctionOnSet(h, S)
  BY SumLocal
<1>3. QED
  BY <1>1, <1>2

LEMMA UsdInSumNat ==
    ASSUME NEW R, IsFiniteSet(R), \A r \in R : RowReads(r)
    PROVE  UsdInSum(R) \in Nat
<1> DEFINE f == [r \in R |-> OrZero(ServerPricedUsdIn(r))]
<1>1. \A r \in R : f[r] \in Nat
  BY DEF RowReads, OrZero, Coalesce, ServerPricedUsdIn
<1>2. UsdInSum(R) = SumFunctionOnSet(f, R)
  <2>1. UsdInSum(R) = SumFunction(f)
    BY DEF UsdInSum, SumOver
  <2>2. DOMAIN f = R
    OBVIOUS
  <2> HIDE DEF f
  <2>3. QED
    BY <2>1, <2>2, SumOverIs
<1> HIDE DEF f
<1>3. QED
  BY <1>1, <1>2, SumNat

-----------------------------------------------------------------------------
(* The leaderboard *)

AgentCursors == [volume : Int, agent : Int]

\* The relation an ORDER BY clause puts on a set of rows.
LeaderOrder(S) == {p \in S \X S : LeaderBefore(p[1], p[2])}

LEMMA LeadersOrdered ==
    ASSUME NEW S, \A x \in S : x.volume \in Int /\ x.agent \in Int,
           \A x, y \in S : x.agent = y.agent => x = y
    PROVE  Orders(LeaderOrder(S), S)
<1>1. \A x, y \in S : <<x, y>> \in LeaderOrder(S) <=> LeaderBefore(x, y)
  BY DEF LeaderOrder
<1>2. \A x \in S : ~LeaderBefore(x, x)
  BY DEF LeaderBefore
<1>3. \A x, y, z \in S : LeaderBefore(x, y) /\ LeaderBefore(y, z) => LeaderBefore(x, z)
  BY DEF LeaderBefore
<1>4. \A x, y \in S : x # y => LeaderBefore(x, y) \/ LeaderBefore(y, x)
  BY DEF LeaderBefore
<1>5. QED
  BY <1>1, <1>2, <1>3, <1>4 DEF Orders

LEMMA RankedLeaders ==
    ASSUME NEW S, NEW Q \in SUBSET S
    PROVE  Ranked(Q, LeaderBefore) = Placed(Q, PlaceIn(LeaderOrder(S), Q))
<1>1. ASSUME NEW x \in Q
      PROVE  Before(LeaderOrder(S), Q, x) = {y \in Q : LeaderBefore(y, x)}
  BY DEF Before, LeaderOrder
<1>2. [x \in Q |-> Cardinality({y \in Q : LeaderBefore(y, x)})] = PlaceIn(LeaderOrder(S), Q)
  <2>1. \A x \in Q : Cardinality({y \in Q : LeaderBefore(y, x)}) = Cardinality(Before(LeaderOrder(S), Q, x))
    BY <1>1, Zenon
  <2>2. QED
    BY <2>1, Zenon DEF PlaceIn
<1>3. QED
  BY <1>2, Zenon DEF Ranked

\* The entries of a leaderboard, before they are ranked.
LeadersOf(own) == {Leader(a, own) : a \in {r.agent : r \in own}}

LEMMA LeadersSound ==
    ASSUME NEW own, IsFiniteSet(own), \A r \in own : RowReads(r)
    PROVE  /\ IsFiniteSet({r.agent : r \in own}) /\ IsFiniteSet(LeadersOf(own))
           /\ \A x \in LeadersOf(own) : x.volume \in Int /\ x.agent \in Int
           /\ \A x, y \in LeadersOf(own) : x.agent = y.agent => x = y
<1> DEFINE S == LeadersOf(own)
<1>1. IsFiniteSet({r.agent : r \in own})
  <2> DEFINE f == [r \in own |-> r.agent]
  <2>1. IsFiniteSet({f[r] : r \in own})
    BY FiniteImage
  <2>2. {f[r] : r \in own} = {r.agent : r \in own}
    OBVIOUS
  <2>3. QED
    BY <2>1, <2>2
<1>2. IsFiniteSet(S)
  <2> DEFINE T == {r.agent : r \in own}
             f == [a \in T |-> Leader(a, own)]
  <2>1. {f[a] : a \in T} = S
    BY DEF LeadersOf
  <2> HIDE DEF f, S
  <2>2. IsFiniteSet({f[a] : a \in T})
    BY <1>1, FiniteImage
  <2>3. QED
    BY <2>1, <2>2, Zenon
<1>3. \A a \in {r.agent : r \in own} : Leader(a, own).agent = a /\ Leader(a, own).volume \in Int
  <2>1. ASSUME NEW a \in {r.agent : r \in own}
        PROVE  UsdInSum({r \in own : r.agent = a}) \in Int
    <3>1. IsFiniteSet({r \in own : r.agent = a})
      BY FS_Subset
    <3>2. \A r \in {r \in own : r.agent = a} : RowReads(r)
      OBVIOUS
    <3>3. QED
      BY <3>1, <3>2, UsdInSumNat
  <2>2. QED
    BY <2>1 DEF Leader
<1>4. \A r \in own : r.agent \in Int
  BY DEF RowReads
<1>5. QED
  BY <1>1, <1>2, <1>3, <1>4 DEF LeadersOf

LEMMA LeaderPages ==
    ASSUME NEW R, Readable(R), NEW window, NEW time, NEW size \in Nat \ {0},
           None \notin AgentCursors
    PROVE  LET Leaders(cursor) == AgentLeaderboard(R, window, time, cursor)
           IN PagesFrom(Leaders, EncodeAgentCursor, size) = Leaders(None)
<1> DEFINE Leaders(cursor) == AgentLeaderboard(R, window, time, cursor)
           all == Leaders(None)
           cursorOf == [row \in Range(all) |-> EncodeAgentCursor(row)]
           query == [cursor \in {None} \cup Range(cursorOf) |-> Leaders(cursor)]
           own == LeaderRows(R, window, time)
           S == LeadersOf(own)
           B == LeaderOrder(S)
<1>1. PagesFrom(Leaders, EncodeAgentCursor, size)
        = PagesRead(query, cursorOf, size, Len(all) + 1).items
  BY DEF PagesFrom
<1>2. \A cursor : Leaders(cursor) = Ranked({x \in S : AfterLeader(x, cursor)}, LeaderBefore)
  BY DEF AgentLeaderboard, LeadersOf
<1>4. /\ IsFiniteSet(S)
      /\ \A x \in S : x.volume \in Int /\ x.agent \in Int
      /\ \A x, y \in S : x.agent = y.agent => x = y
  <2>1. IsFiniteSet(own) /\ \A r \in own : RowReads(r)
    BY FS_Subset DEF Readable, LeaderRows
  <2> HIDE DEF own
  <2>2. QED
    BY <2>1, LeadersSound
<1>5. Orders(B, S)
  BY <1>4, LeadersOrdered
<1> HIDE DEF S
<1>6. all = Placed(S, PlaceIn(B, S))
  <2>1. {x \in S : AfterLeader(x, None)} = S
    BY DEF AfterLeader
  <2>2. all = Ranked(S, LeaderBefore)
    BY <1>2, <2>1, Zenon
  <2>3. QED
    BY <2>2, RankedLeaders
<1> HIDE DEF all, B, Leaders
<1>7. Range(all) = S
  BY <1>4, <1>5, <1>6, RankingRange
<1>8. ASSUME NEW x \in S
      PROVE  query[cursorOf[x]] = Placed(After(B, S, x), PlaceIn(B, After(B, S, x)))
  <2> DEFINE c == EncodeAgentCursor(x)
  <2>1. cursorOf[x] = c /\ c \in Range(cursorOf)
    BY <1>7 DEF Range
  <2>2. query[cursorOf[x]] = Leaders(c)
    BY <2>1
  <2>3. c # None /\ c.volume = x.volume /\ c.agent = x.agent
    <3>1. c \in AgentCursors
      BY <1>4 DEF EncodeAgentCursor, AgentCursors
    <3>2. QED
      BY <3>1 DEF EncodeAgentCursor
  <2> HIDE DEF c
  <2>4. {y \in S : AfterLeader(y, c)} = After(B, S, x)
    <3>1. \A y \in S : AfterLeader(y, c) <=> LeaderBefore(x, y)
      BY <1>4, <2>3 DEF AfterLeader, LeaderBefore
    <3>2. \A y \in S : <<x, y>> \in B <=> LeaderBefore(x, y)
      BY DEF B, LeaderOrder
    <3>3. QED
      BY <3>1, <3>2 DEF After
  <2>5. Leaders(c) = Ranked(After(B, S, x), LeaderBefore)
    BY <1>2, <2>4, Zenon
  <2>6. Leaders(c) = Placed(After(B, S, x), PlaceIn(B, After(B, S, x)))
    <3>1. After(B, S, x) \in SUBSET S
      BY DEF After
    <3>2. QED
      BY <2>5, <3>1, RankedLeaders DEF B
  <2>7. QED
    BY <2>2, <2>6
<1>9. query[None] = all
  BY DEF all
<1> HIDE DEF query, cursorOf
<1>10. PagesRead(query, cursorOf, size, Len(all) + 1).items = all
  <2>1. IsFiniteSet(S) /\ \A x \in S : query[cursorOf[x]] = Placed(After(B, S, x), PlaceIn(B, After(B, S, x)))
    BY <1>4, <1>8
  <2>2. QED
    BY <1>5, <1>6, <1>9, <2>1, RankingByPages
<1>11. PagesFrom(Leaders, EncodeAgentCursor, size) = Leaders(None)
  BY <1>1, <1>10, Zenon DEF all
<1>12. QED
  BY <1>11, Zenon DEF Leaders

-----------------------------------------------------------------------------
(* The token listing *)

TokenKeys == [family : Families, chain : Int, address : Int]

TokenCursors == [volume : Int, txCount : Int, key : TokenKeys]

LegSound(l) == l.usd \in Nat /\ TokenKeyOf(l) \in TokenKeys

LEMMA LegsSound ==
    ASSUME NEW R, Readable(R), NEW w, NEW time
    PROVE  /\ IsFiniteSet(TokenLegs(R, w, time))
           /\ \A l \in TokenLegs(R, w, time) : LegSound(l)
<1> DEFINE own == {r \in R : Verified(r) /\ DeploysCapital(r) /\ InBuckets(r, w, time)}
           Paid(r) == Leg(r, "in", r.in, ServerPricedUsdIn(r))
           Got(r) == Leg(r, "out", r.out, ServerPricedUsdOut(r))
           payers == {r \in own : r.in # None}
           getters == {r \in own : r.out # None}
           paid == {Paid(r) : r \in payers}
           got == {Got(r) : r \in getters}
<1>1. TokenLegs(R, w, time) = paid \cup got
  BY DEF TokenLegs
<1>2. IsFiniteSet(payers) /\ IsFiniteSet(getters) /\ payers \in SUBSET R /\ getters \in SUBSET R
  BY FS_Subset DEF Readable
<1>3. ASSUME NEW r \in R, r.in # None
      PROVE  LegSound(Paid(r))
  <2>1. RowReads(r)
    BY DEF Readable
  <2>2. OrZero(ServerPricedUsdIn(r)) \in Nat
    BY <2>1 DEF RowReads, OrZero, Coalesce, ServerPricedUsdIn
  <2>3. r.in \in Int /\ r.family \in Families /\ r.chain \in Int
    BY <1>3, <2>1 DEF RowReads
  <2>4. QED
    BY <2>2, <2>3 DEF LegSound, Leg, TokenKeyOf, TokenKeys
<1>4. ASSUME NEW r \in R, r.out # None
      PROVE  LegSound(Got(r))
  <2>1. RowReads(r)
    BY DEF Readable
  <2>2. OrZero(ServerPricedUsdOut(r)) \in Nat
    BY <2>1 DEF RowReads, OrZero, Coalesce, ServerPricedUsdOut
  <2>3. r.out \in Int /\ r.family \in Families /\ r.chain \in Int
    BY <1>4, <2>1 DEF RowReads
  <2>4. QED
    BY <2>2, <2>3 DEF LegSound, Leg, TokenKeyOf, TokenKeys
<1>5. \A r \in payers : r \in R /\ r.in # None
  OBVIOUS
<1>6. \A r \in getters : r \in R /\ r.out # None
  OBVIOUS
<1> HIDE DEF payers, getters, Paid, Got
<1>7. IsFiniteSet(paid)
  <2> DEFINE f == [r \in payers |-> Paid(r)]
  <2>1. IsFiniteSet({f[r] : r \in payers})
    BY <1>2, FiniteImage
  <2>2. {f[r] : r \in payers} = paid
    OBVIOUS
  <2>3. QED
    BY <2>1, <2>2
<1>8. IsFiniteSet(got)
  <2> DEFINE f == [r \in getters |-> Got(r)]
  <2>1. IsFiniteSet({f[r] : r \in getters})
    BY <1>2, FiniteImage
  <2>2. {f[r] : r \in getters} = got
    OBVIOUS
  <2>3. QED
    BY <2>1, <2>2
<1>9. \A l \in paid \cup got : LegSound(l)
  BY <1>3, <1>4, <1>5, <1>6
<1>10. IsFiniteSet(paid \cup got)
  BY <1>7, <1>8, FS_Union
<1>11. QED
  BY <1>1, <1>9, <1>10, Zenon

LEMMA LegUsdNat ==
    ASSUME NEW legs, IsFiniteSet(legs), \A l \in legs : LegSound(l)
    PROVE  LegUsd(legs) \in Nat
<1> DEFINE f == [l \in legs |-> l.usd]
<1>1. \A l \in legs : f[l] \in Nat
  BY DEF LegSound
<1>2. LegUsd(legs) = SumFunctionOnSet(f, legs)
  <2>1. LegUsd(legs) = SumFunction(f)
    BY DEF LegUsd, SumOver
  <2>2. DOMAIN f = legs
    OBVIOUS
  <2> HIDE DEF f
  <2>3. QED
    BY <2>1, <2>2, SumOverIs
<1> HIDE DEF f
<1>3. QED
  BY <1>1, <1>2, SumNat

LEMMA LegRowsNat ==
    ASSUME NEW legs, IsFiniteSet(legs)
    PROVE  LegRows(legs) \in Nat
<1> DEFINE f == [l \in legs |-> l.id]
<1>1. IsFiniteSet({f[l] : l \in legs})
  BY FiniteImage
<1>2. {f[l] : l \in legs} = {l.id : l \in legs}
  OBVIOUS
<1>3. QED
  BY <1>1, <1>2, FS_CardinalityType DEF LegRows

TokenOrder(S) == {p \in S \X S : TokenBefore(p[1], p[2])}

StatSound(x) == x.volume \in Int /\ x.txCount \in Int /\ x.key \in TokenKeys

LEMMA TokensOrdered ==
    ASSUME NEW S, \A x \in S : StatSound(x), \A x, y \in S : x.key = y.key => x = y
    PROVE  Orders(TokenOrder(S), S)
<1>1. \A x, y \in S : <<x, y>> \in TokenOrder(S) <=> TokenBefore(x, y)
  BY DEF TokenOrder
<1>2. \A x \in S : /\ x.volume \in Int /\ x.txCount \in Int /\ x.key.address \in Int
                   /\ x.key.family \in Families /\ x.key.chain \in Int
  BY DEF StatSound, TokenKeys
<1>3. \A x, y \in S :
        /\ x.key.address = y.key.address /\ x.key.family = y.key.family
        /\ x.key.chain = y.key.chain
        => x = y
  BY DEF StatSound, TokenKeys
<1>4. \A x \in S : ~TokenBefore(x, x)
  BY <1>2 DEF TokenBefore, FamilyBefore
<1>5. \A x, y, z \in S : TokenBefore(x, y) /\ TokenBefore(y, z) => TokenBefore(x, z)
  BY <1>2 DEF TokenBefore, FamilyBefore
<1>6. \A x, y \in S : x # y => TokenBefore(x, y) \/ TokenBefore(y, x)
  BY <1>2, <1>3 DEF TokenBefore, FamilyBefore, Families
<1>7. QED
  BY <1>1, <1>4, <1>5, <1>6 DEF Orders

LEMMA RankedTokens ==
    ASSUME NEW S, NEW Q \in SUBSET S
    PROVE  Ranked(Q, TokenBefore) = Placed(Q, PlaceIn(TokenOrder(S), Q))
<1>1. ASSUME NEW x \in Q
      PROVE  Before(TokenOrder(S), Q, x) = {y \in Q : TokenBefore(y, x)}
  BY DEF Before, TokenOrder
<1>2. [x \in Q |-> Cardinality({y \in Q : TokenBefore(y, x)})] = PlaceIn(TokenOrder(S), Q)
  <2>1. \A x \in Q : Cardinality({y \in Q : TokenBefore(y, x)}) = Cardinality(Before(TokenOrder(S), Q, x))
    BY <1>1, Zenon
  <2>2. QED
    BY <2>1, Zenon DEF PlaceIn
<1>3. QED
  BY <1>2, Zenon DEF Ranked

\* The tokens of a listing, before they are ranked.
TokensOf(legs) == {TokenStat(legs, key) : key \in {TokenKeyOf(l) : l \in legs}}

LEMMA TokensSound ==
    ASSUME NEW legs, IsFiniteSet(legs), \A l \in legs : LegSound(l)
    PROVE  /\ IsFiniteSet(TokensOf(legs))
           /\ \A x \in TokensOf(legs) : StatSound(x)
           /\ \A x, y \in TokensOf(legs) : x.key = y.key => x = y
<1> DEFINE keys == {TokenKeyOf(l) : l \in legs}
<1>1. IsFiniteSet(keys)
  <2> DEFINE f == [l \in legs |-> TokenKeyOf(l)]
  <2>1. IsFiniteSet({f[l] : l \in legs})
    BY FiniteImage
  <2>2. {f[l] : l \in legs} = keys
    OBVIOUS
  <2>3. QED
    BY <2>1, <2>2
<1>2. keys \in SUBSET TokenKeys
  BY DEF LegSound
<1>3. ASSUME NEW key \in keys
      PROVE  StatSound(TokenStat(legs, key)) /\ TokenStat(legs, key).key = key
  <2> DEFINE own == LegsOf(legs, key)
  <2>1. IsFiniteSet(own) /\ \A l \in own : LegSound(l)
    BY FS_Subset DEF LegsOf
  <2>2. LegUsd(own) \in Nat /\ LegRows(own) \in Nat
    BY <2>1, LegUsdNat, LegRowsNat
  <2>3. /\ TokenStat(legs, key).key = key /\ TokenStat(legs, key).volume = LegUsd(own)
        /\ TokenStat(legs, key).txCount = LegRows(own)
    BY DEF TokenStat
  <2> HIDE DEF own
  <2>4. QED
    BY <1>2, <2>2, <2>3 DEF StatSound
<1> HIDE DEF keys
<1>4. IsFiniteSet({TokenStat(legs, key) : key \in keys})
  <2> DEFINE f == [key \in keys |-> TokenStat(legs, key)]
  <2>1. IsFiniteSet({f[key] : key \in keys})
    BY <1>1, FiniteImage
  <2>2. {f[key] : key \in keys} = {TokenStat(legs, key) : key \in keys}
    OBVIOUS
  <2>3. QED
    BY <2>1, <2>2
<1>5. TokensOf(legs) = {TokenStat(legs, key) : key \in keys}
  BY DEF TokensOf, keys
<1>6. QED
  BY <1>3, <1>4, <1>5

LEMMA TokenPages ==
    ASSUME NEW R, Readable(R), NEW plan, NEW time, NEW size \in Nat \ {0},
           None \notin TokenCursors
    PROVE  LET Tokens(cursor) == TokenListing(R, plan, time, cursor)
           IN PagesFrom(Tokens, EncodeTokenCursor, size) = Tokens(None)
<1> DEFINE Tokens(cursor) == TokenListing(R, plan, time, cursor)
           all == Tokens(None)
           cursorOf == [row \in Range(all) |-> EncodeTokenCursor(row)]
           query == [cursor \in {None} \cup Range(cursorOf) |-> Tokens(cursor)]
           S == TokensOf(TokenLegs(R, BucketWindowOf(plan), time))
           B == TokenOrder(S)
<1>1. PagesFrom(Tokens, EncodeTokenCursor, size)
        = PagesRead(query, cursorOf, size, Len(all) + 1).items
  BY DEF PagesFrom
<1>2. \A cursor : Tokens(cursor) = Ranked({x \in S : AfterToken(x, cursor)}, TokenBefore)
  BY DEF TokenListing, TokensOf
<1>3. /\ IsFiniteSet(S)
      /\ \A x \in S : StatSound(x)
      /\ \A x, y \in S : x.key = y.key => x = y
  BY LegsSound, TokensSound
<1>4. Orders(B, S)
  BY <1>3, TokensOrdered
<1> HIDE DEF S
<1>5. all = Placed(S, PlaceIn(B, S))
  <2>1. {x \in S : AfterToken(x, None)} = S
    BY DEF AfterToken
  <2>2. all = Ranked(S, TokenBefore)
    BY <1>2, <2>1, Zenon
  <2>3. QED
    BY <2>2, RankedTokens
<1> HIDE DEF all, B, Tokens
<1>6. Range(all) = S
  BY <1>3, <1>4, <1>5, RankingRange
<1>7. ASSUME NEW x \in S
      PROVE  query[cursorOf[x]] = Placed(After(B, S, x), PlaceIn(B, After(B, S, x)))
  <2> DEFINE c == EncodeTokenCursor(x)
  <2>1. cursorOf[x] = c /\ c \in Range(cursorOf)
    BY <1>6 DEF Range
  <2>2. query[cursorOf[x]] = Tokens(c)
    BY <2>1
  <2>3. c # None /\ c.volume = x.volume /\ c.txCount = x.txCount /\ c.key = x.key
    <3>1. c \in TokenCursors
      BY <1>3 DEF EncodeTokenCursor, TokenCursors, StatSound
    <3>2. QED
      BY <3>1 DEF EncodeTokenCursor
  <2> HIDE DEF c
  <2>4. {y \in S : AfterToken(y, c)} = After(B, S, x)
    <3>1. \A y \in S : AfterToken(y, c) <=> TokenBefore(x, y)
      <4>1. ASSUME NEW y \in S
            PROVE  AfterToken(y, c) <=> TokenBefore(x, y)
        <5>1. /\ x.volume \in Int /\ x.txCount \in Int /\ x.key.address \in Int
              /\ x.key.chain \in Int /\ y.volume \in Int /\ y.txCount \in Int
              /\ y.key.address \in Int /\ y.key.chain \in Int
          BY <1>3 DEF StatSound, TokenKeys
        <5>2. QED
          BY <2>3, <5>1 DEF AfterToken, TokenBefore, FamilyBefore
      <4>2. QED
        BY <4>1
    <3>2. \A y \in S : <<x, y>> \in B <=> TokenBefore(x, y)
      BY DEF B, TokenOrder
    <3>3. QED
      BY <3>1, <3>2 DEF After
  <2>5. Tokens(c) = Ranked(After(B, S, x), TokenBefore)
    BY <1>2, <2>4, Zenon
  <2>6. Tokens(c) = Placed(After(B, S, x), PlaceIn(B, After(B, S, x)))
    <3>1. After(B, S, x) \in SUBSET S
      BY DEF After
    <3>2. QED
      BY <2>5, <3>1, RankedTokens DEF B
  <2>7. QED
    BY <2>2, <2>6
<1>8. query[None] = all
  BY DEF all
<1> HIDE DEF query, cursorOf
<1>9. PagesRead(query, cursorOf, size, Len(all) + 1).items = all
  <2>1. IsFiniteSet(S) /\ \A x \in S : query[cursorOf[x]] = Placed(After(B, S, x), PlaceIn(B, After(B, S, x)))
    BY <1>3, <1>7
  <2>2. QED
    BY <1>4, <1>5, <1>8, <2>1, RankingByPages
<1>10. PagesFrom(Tokens, EncodeTokenCursor, size) = Tokens(None)
  BY <1>1, <1>9, Zenon DEF all
<1>11. QED
  BY <1>10, Zenon DEF Tokens

-----------------------------------------------------------------------------
(* The rankings of the table *)

LEMMA TableReadable == RowsSound => Readable(Table)
<1> SUFFICES ASSUME RowsSound PROVE Readable(Table)
  OBVIOUS
<1>1. \A r \in Table : RowReads(r)
  BY RowIds DEF RowSound
<1>2. \A x, y \in Table : x.id = y.id => x = y
  BY RowIds
<1>3. QED
  BY <1>1, <1>2, TableFinite DEF Readable

LEMMA RankingPages == FeedInv => RankingPagesAreTheRanking
<1> SUFFICES ASSUME FeedInv, NEW plan \in Plans, NEW size \in 1 .. PageSize
             PROVE  LET Leaders(cursor) == AgentLeaderboard(Table, RangeWindow(plan), now, cursor)
                        Tokens(cursor) == TokenListing(Table, plan, now, cursor)
                    IN /\ PagesFrom(Leaders, EncodeAgentCursor, size) = Leaders(None)
                       /\ PagesFrom(Tokens, EncodeTokenCursor, size) = Tokens(None)
  BY Zenon DEF RankingPagesAreTheRanking
<1>1. Readable(Table)
  BY TableReadable DEF FeedInv
<1>2. size \in Nat \ {0}
  BY FeedAssumption
<1>3. None \notin AgentCursors /\ None \notin TokenCursors
  BY ReadsAssumption DEF AgentCursors, TokenCursors, TokenKeys, Families
<1>4. LET Leaders(cursor) == AgentLeaderboard(Table, RangeWindow(plan), now, cursor)
      IN PagesFrom(Leaders, EncodeAgentCursor, size) = Leaders(None)
  BY <1>1, <1>2, <1>3, LeaderPages
<1>5. LET Tokens(cursor) == TokenListing(Table, plan, now, cursor)
      IN PagesFrom(Tokens, EncodeTokenCursor, size) = Tokens(None)
  BY <1>1, <1>2, <1>3, TokenPages
<1>6. QED
  BY <1>4, <1>5, Zenon

\* Whatever the table, the range and the size of a page: the pages of the
\* leaderboard and of the token listing, each continued from the last row of
\* the one before, join to the whole ranking, with ties and all.
THEOREM RankingPagesJoin == Spec => []RankingPagesAreTheRanking
<1>1. QED
  BY WalkKeepsItsPlace, RankingPages, PTL

-----------------------------------------------------------------------------
(* READS THAT AGREE *)

\* What a row adds to a sum over rows.
UsdIn(R) == [r \in R |-> OrZero(ServerPricedUsdIn(r))]

LEMMA UsdInSumIs ==
    ASSUME NEW R, Readable(R), NEW Q \in SUBSET R
    PROVE  /\ IsFiniteSet(Q)
           /\ \A r \in R : UsdIn(R)[r] \in Nat
           /\ UsdInSum(Q) = SumFunctionOnSet(UsdIn(R), Q)
           /\ UsdInSum(Q) \in Nat
<1>1. IsFiniteSet(Q) /\ \A r \in Q : RowReads(r)
  BY FS_Subset DEF Readable
<1>2. \A r \in R : UsdIn(R)[r] \in Nat
  BY DEF Readable, RowReads, UsdIn, OrZero, Coalesce, ServerPricedUsdIn
<1> DEFINE f == [r \in Q |-> OrZero(ServerPricedUsdIn(r))]
<1>3. UsdInSum(Q) = SumFunction(f)
  BY DEF UsdInSum, SumOver
<1>4. DOMAIN f = Q /\ \A r \in Q : f[r] = UsdIn(R)[r]
  BY DEF UsdIn
<1> HIDE DEF f
<1>5. SumFunction(f) = SumFunctionOnSet(UsdIn(R), Q)
  BY <1>1, <1>4, SumOverIs
<1>6. UsdInSum(Q) \in Nat
  BY <1>1, UsdInSumNat
<1>7. QED
  BY <1>1, <1>2, <1>3, <1>5, <1>6

-----------------------------------------------------------------------------
(* The aggregates and the rows *)

BookedOf == [r \in Table |-> Booked(r)]

LEMMA AggregateSums ==
    ASSUME BooksInv, NEW K \in SUBSET DOMAIN aggregates, NEW Q \in SUBSET Table,
           \A r \in Table : r \in Q <=> Verified(r) /\ AggregateKey(r) \in K
    PROVE  /\ SumFunction([k \in K |-> aggregates[k].tx]) = Cardinality(Q)
           /\ SumFunction([k \in K |-> aggregates[k].priced]) = SumFunctionOnSet(BookedOf, Q)
<1> DEFINE I == {i \in DOMAIN rows : Verified(rows[i]) /\ AggregateKey(rows[i]) \in K}
           keyOf == [i \in DOMAIN rows |-> AggregateKey(rows[i])]
           tx == [k \in K |-> aggregates[k].tx]
           priced == [k \in K |-> aggregates[k].priced]
<1>1. RowsSound /\ IsFiniteSet(DOMAIN aggregates)
  BY DEF BooksInv, FeedInv
<1>2. IsFiniteSet(K) /\ IsFiniteSet(I)
  <2>1. IsFiniteSet(DOMAIN rows)
    BY <1>1, RowIds, FS_Interval
  <2>2. QED
    BY <1>1, <2>1, FS_Subset
<1>3. \A i \in I : keyOf[i] \in K /\ BookedAt[i] \in Int
  BY <1>1, BooksTyped
<1>4. \A e \in K : \A i : i \in Counted(e) <=> i \in I /\ keyOf[i] = e
  BY DEF Counted
<1>5. \A e \in K : /\ tx[e] = Cardinality(Counted(e))
                   /\ priced[e] = SumFunctionOnSet(BookedAt, Counted(e))
  BY DEF BooksInv, Balances
<1>6. DOMAIN tx = K /\ DOMAIN priced = K
  OBVIOUS
<1>7. Renames(rows, I, Q) /\ \A i \in I : BookedOf[rows[i]] = BookedAt[i]
  <2>1. \A i \in DOMAIN rows : rows[i] \in Table /\ rows[i].id = i
    BY <1>1, RowIds
  <2>2. \A r \in Table : r.id \in DOMAIN rows /\ rows[r.id] = r
    BY <1>1, RowIds
  <2>3. \A i \in I : i \in DOMAIN rows /\ rows[i] \in Q /\ BookedOf[rows[i]] = BookedAt[i]
    BY <2>1 DEF BookedOf, BookedAt
  <2>4. \A r \in Q : r.id \in I /\ rows[r.id] = r
    BY <2>2
  <2>5. \A i, j \in I : rows[i] = rows[j] => i = j
    BY <2>1
  <2>6. QED
    BY <2>3, <2>4, <2>5 DEF Renames
<1> HIDE DEF I, keyOf, tx, priced
<1> DEFINE group == [e \in K |-> Counted(e)]
<1>8. /\ Partition(group, I, K)
      /\ \A e \in K : tx[e] = Cardinality(group[e])
      /\ \A e \in K : priced[e] = SumFunctionOnSet(BookedAt, group[e])
      /\ \A i \in I : BookedAt[i] \in Int
  BY <1>3, <1>4, <1>5 DEF Counted, Partition
<1> HIDE DEF group
<1>10. SumFunctionOnSet(tx, K) = Cardinality(I)
  BY <1>2, <1>8, CountGroups
<1>11. SumFunctionOnSet(priced, K) = SumFunctionOnSet(BookedAt, I)
  BY <1>2, <1>8, SumGroups
<1>12. /\ SumFunctionOnSet(BookedOf, Q) = SumFunctionOnSet(BookedAt, I)
       /\ Cardinality(Q) = Cardinality(I)
  BY <1>2, <1>7, <1>8, SumRenamed
<1>13. /\ SumFunction(tx) = SumFunctionOnSet(tx, K)
       /\ SumFunction(priced) = SumFunctionOnSet(priced, K)
  BY <1>2, <1>6, SumOverIs
<1>14. SumFunction(tx) = Cardinality(Q) /\ SumFunction(priced) = SumFunctionOnSet(BookedOf, Q)
  BY <1>10, <1>11, <1>12, <1>13
<1>15. QED
  BY <1>14 DEF tx, priced

\* What the aggregates hold of some rows: what the sums over the rows see, and
\* the rows priced on their received leg alone.
LEMMA BookedSum ==
    ASSUME RowsSound, NEW Q \in SUBSET Table
    PROVE  /\ SumFunctionOnSet(BookedOf, Q) = UsdInSum(Deploying(Q)) + OutOnlyVolume(Q)
           /\ UsdInSum(Deploying(Q)) \in Nat /\ OutOnlyVolume(Q) \in Nat
<1> DEFINE outOnly == {r \in Q : /\ DeploysCapital(r) /\ r.pricing = "server_priced"
                                 /\ r.usdIn = None}
           a == [r \in Table |-> IF DeploysCapital(r) THEN UsdIn(Table)[r] ELSE 0]
           o == [r \in Table |-> IF /\ DeploysCapital(r) /\ r.pricing = "server_priced"
                                    /\ r.usdIn = None
                                 THEN OrZero(r.usdOut) ELSE 0]
           h == [r \in outOnly |-> OrZero(r.usdOut)]
<1>1. Readable(Table) /\ IsFiniteSet(Q) /\ \A r \in Table : RowReads(r)
  <2>1. Readable(Table)
    BY TableReadable
  <2>2. QED
    BY <2>1, FS_Subset DEF Readable
<1>2. \A r \in Q : a[r] \in Nat /\ o[r] \in Nat /\ BookedOf[r] = a[r] + o[r]
  <2>1. ASSUME NEW r \in Q PROVE a[r] \in Nat /\ o[r] \in Nat /\ BookedOf[r] = a[r] + o[r]
    <3>1. r \in Table /\ RowReads(r)
      BY <1>1
    <3>2. /\ a[r] = IF DeploysCapital(r) THEN OrZero(ServerPricedUsdIn(r)) ELSE 0
          /\ o[r] = IF /\ DeploysCapital(r) /\ r.pricing = "server_priced" /\ r.usdIn = None
                    THEN OrZero(r.usdOut) ELSE 0
          /\ BookedOf[r] = Booked(r)
      BY <3>1 DEF BookedOf, UsdIn
    <3>3. r.usdIn \in Nat \cup {None} /\ r.usdOut \in Nat \cup {None}
      BY <3>1 DEF RowReads
    <3> HIDE DEF a, o
    <3>4. QED
      BY <3>2, <3>3 DEF Booked, PricedVolume, OrZero, Coalesce, ServerPricedUsdIn
  <2>2. QED
    BY <2>1
<1>3. SumFunctionOnSet(BookedOf, Q) = SumFunctionOnSet(a, Q) + SumFunctionOnSet(o, Q)
  <2> HIDE DEF a, o
  <2>1. \A r \in Q : a[r] \in Int /\ o[r] \in Int /\ BookedOf[r] = a[r] + o[r]
    BY <1>2
  <2>2. QED
    BY <1>1, <2>1, SumPlus
<1>4. Deploying(Q) \in SUBSET Q /\ Deploying(Q) \in SUBSET Table
  BY DEF Deploying
<1>5. SumFunctionOnSet(a, Q) = UsdInSum(Deploying(Q))
  <2>1. UsdInSum(Deploying(Q)) = SumFunctionOnSet(UsdIn(Table), Deploying(Q))
    BY <1>1, <1>4, UsdInSumIs
  <2>2. /\ \A r \in Q : a[r] \in Int
        /\ \A r \in Deploying(Q) : UsdIn(Table)[r] = a[r]
        /\ \A r \in Q \ Deploying(Q) : a[r] = 0
    <3>1. \A r \in Q : r \in Table /\ a[r] = IF DeploysCapital(r) THEN UsdIn(Table)[r] ELSE 0
      OBVIOUS
    <3>2. \A r \in Q : r \in Deploying(Q) <=> DeploysCapital(r)
      BY DEF Deploying
    <3> HIDE DEF a
    <3> HIDE DEF o
    <3>3. \A r \in Q : a[r] \in Int
      BY <1>2
    <3>4. \A r \in Deploying(Q) : UsdIn(Table)[r] = a[r]
      BY <1>4, <3>1, <3>2
    <3>5. \A r \in Q \ Deploying(Q) : a[r] = 0
      BY <3>1, <3>2
    <3>6. QED
      BY <3>3, <3>4, <3>5
  <2> HIDE DEF a
  <2>3. SumFunctionOnSet(a, Q) = SumFunctionOnSet(UsdIn(Table), Deploying(Q))
    BY <1>1, <1>4, <2>2, SumWhere
  <2>4. QED
    BY <2>1, <2>3
<1>6. SumFunctionOnSet(o, Q) = OutOnlyVolume(Q)
  <2>1. OutOnlyVolume(Q) = SumFunction(h)
    BY DEF OutOnlyVolume, SumOver
  <2>2. DOMAIN h = outOnly /\ outOnly \in SUBSET Q
    OBVIOUS
  <2>3. /\ \A r \in Q : o[r] \in Int
        /\ \A r \in outOnly : h[r] = o[r]
        /\ \A r \in Q \ outOnly : o[r] = 0
    <3>1. \A r \in Q : o[r] = IF r \in outOnly THEN OrZero(r.usdOut) ELSE 0
      OBVIOUS
    <3>2. \A r \in outOnly : h[r] = OrZero(r.usdOut) /\ r \in Q
      OBVIOUS
    <3> HIDE DEF a, o, h, outOnly
    <3>3. \A r \in Q : o[r] \in Int
      BY <1>2
    <3>4. QED
      BY <3>1, <3>2, <3>3
  <2> HIDE DEF o, h, outOnly
  <2>4. SumFunctionOnSet(o, Q) = SumFunctionOnSet(h, outOnly)
    BY <1>1, <2>2, <2>3, SumWhere
  <2>5. IsFiniteSet(outOnly)
    BY <1>1, <2>2, FS_Subset
  <2>6. SumFunction(h) = SumFunctionOnSet(h, outOnly)
    BY <2>2, <2>5, SumOverIs
  <2>7. QED
    BY <2>1, <2>4, <2>6
<1>7. UsdInSum(Deploying(Q)) \in Nat
  BY <1>1, <1>4, UsdInSumIs
<1>8. OutOnlyVolume(Q) \in Nat
  <2>1. \A r \in Q : o[r] \in Nat
    BY <1>2
  <2> HIDE DEF o
  <2>2. SumFunctionOnSet(o, Q) \in Nat
    BY <1>1, <2>1, SumNat
  <2>3. QED
    BY <1>6, <2>2
<1> HIDE DEF a, o
<1>9. QED
  BY <1>3, <1>5, <1>6, <1>7, <1>8

LEMMA AggregatesKept == BooksInv => AggregatesAgree
<1> SUFFICES ASSUME BooksInv PROVE AggregatesAgree
  OBVIOUS
<1> DEFINE seen == {r \in Table : Verified(r)}
           On(t) == {k \in DOMAIN aggregates : k[1] = t}
           ByProtocol(p) == {k \in DOMAIN aggregates : k[2] = p}
           on(t) == {r \in seen : DayOf(TimeAnchor(r)) = t}
           of(p) == {r \in seen : r.protocol = p}
           Tx(K) == SumFunction([k \in K |-> aggregates[k].tx])
           Priced(K) == SumFunction([k \in K |-> aggregates[k].priced])
           days == BucketsFromAggregates(aggregates, None, now)
<1>1. RowsSound
  BY DEF BooksInv, FeedInv
<1>2. \A r \in Table : Verified(r) => AggregateKey(r) \in DOMAIN aggregates
  BY <1>1, RowIds DEF BooksInv
<1>3. \A r \in Table : AggregateKey(r)[1] = DayOf(TimeAnchor(r)) /\ AggregateKey(r)[2] = r.protocol
  BY DEF AggregateKey
<1>4. Tx(DOMAIN aggregates) = Cardinality(seen)
  <2>1. seen \in SUBSET Table
        /\ \A r \in Table : r \in seen <=> Verified(r) /\ AggregateKey(r) \in DOMAIN aggregates
    BY <1>2
  <2>2. DOMAIN aggregates \in SUBSET DOMAIN aggregates
    OBVIOUS
  <2> HIDE DEF seen
  <2>3. QED
    BY <2>1, <2>2, AggregateSums
<1>5. ASSUME NEW t
      PROVE  /\ Tx(On(t)) = Cardinality(on(t))
             /\ Priced(On(t)) = UsdInSum(Deploying(on(t))) + OutOnlyVolume(on(t))
  <2>1. /\ On(t) \in SUBSET DOMAIN aggregates /\ on(t) \in SUBSET Table
        /\ \A r \in Table : r \in on(t) <=> Verified(r) /\ AggregateKey(r) \in On(t)
    BY <1>2, <1>3
  <2> HIDE DEF On, on
  <2>2. Tx(On(t)) = Cardinality(on(t)) /\ Priced(On(t)) = SumFunctionOnSet(BookedOf, on(t))
    BY <2>1, AggregateSums
  <2>3. QED
    BY <1>1, <2>1, <2>2, BookedSum
<1>6. ASSUME NEW p
      PROVE  /\ Tx(ByProtocol(p)) = Cardinality(of(p))
             /\ Priced(ByProtocol(p)) >= UsdInSum(Deploying(of(p)))
  <2>1. /\ ByProtocol(p) \in SUBSET DOMAIN aggregates /\ of(p) \in SUBSET Table
        /\ \A r \in Table : r \in of(p) <=> Verified(r) /\ AggregateKey(r) \in ByProtocol(p)
    BY <1>2, <1>3
  <2> HIDE DEF ByProtocol, of
  <2>2. /\ Tx(ByProtocol(p)) = Cardinality(of(p))
        /\ Priced(ByProtocol(p)) = SumFunctionOnSet(BookedOf, of(p))
    BY <2>1, AggregateSums
  <2>3. /\ SumFunctionOnSet(BookedOf, of(p)) = UsdInSum(Deploying(of(p))) + OutOnlyVolume(of(p))
        /\ UsdInSum(Deploying(of(p))) \in Nat /\ OutOnlyVolume(of(p)) \in Nat
    BY <1>1, <2>1, BookedSum
  <2> HIDE DEF Tx, Priced
  <2>4. QED
    BY <2>2, <2>3
<1>7. AggregateTotals(aggregates, now).totalTx = Tx(DOMAIN aggregates)
  BY DEF AggregateTotals, SumOver
<1>8. ASSUME NEW t \in DOMAIN days
      PROVE  days[t].volume = Priced(On(t)) /\ days[t].txCount = Tx(On(t))
  BY DEF BucketsFromAggregates, SumOver
<1>9. ASSUME NEW p \in ProtocolRanking(Table, None, now)
      PROVE  \E q \in ProtocolTotals(aggregates) :
                /\ q.protocol = p.protocol /\ q.txCount = p.txCount
                /\ q.volume >= p.volume
  <2> DEFINE all == {r \in Table : Verified(r) /\ InOpenWindow(r, None, now)}
  <2>1. all = seen
    BY DEF InOpenWindow
  <2>2. \E x \in all : /\ p.protocol = x.protocol
                       /\ p.txCount = Cardinality({r \in all : r.protocol = x.protocol})
                       /\ p.volume = UsdInSum(Deploying({r \in all : r.protocol = x.protocol}))
    <3> DEFINE own(x) == {r \in all : r.protocol = x}
               Entry(x) == [protocol |-> x,
                            volume |-> UsdInSum(Deploying(own(x))),
                            txCount |-> Cardinality(own(x)),
                            chainCount |-> Cardinality({<<r.family, r.chain>> : r \in own(x)}),
                            swaps |-> Cardinality({r \in own(x) : r.kind = "swap"}),
                            bridges |-> Cardinality({r \in own(x) : r.kind = "bridge"})]
    <3>1. p \in {Entry(x) : x \in {r.protocol : r \in all}}
      BY Zenon DEF ProtocolRanking
    <3> HIDE DEF all
    <3>2. \E x \in all : p = Entry(x.protocol)
      <4> HIDE DEF Entry
      <4>1. QED
        BY <3>1
    <3> HIDE DEF own
    <3>3. \E x \in all : /\ p.protocol = x.protocol
                         /\ p.txCount = Cardinality(own(x.protocol))
                         /\ p.volume = UsdInSum(Deploying(own(x.protocol)))
      BY <3>2
    <3>4. QED
      BY <3>3, Zenon DEF own
  <2>3. PICK x \in seen : /\ p.protocol = x.protocol /\ p.txCount = Cardinality(of(x.protocol))
                          /\ p.volume = UsdInSum(Deploying(of(x.protocol)))
    <3> HIDE DEF all, seen
    <3>1. QED
      BY <2>1, <2>2, Zenon
  <2> DEFINE q == [protocol |-> x.protocol, volume |-> Priced(ByProtocol(x.protocol)),
                   txCount |-> Tx(ByProtocol(x.protocol))]
  <2>4. q \in ProtocolTotals(aggregates)
    <3>1. AggregateKey(x) \in DOMAIN aggregates /\ AggregateKey(x)[2] = x.protocol
      BY <1>2, <1>3
    <3>2. QED
      BY <3>1 DEF ProtocolTotals, SumOver
  <2>5. q.protocol = p.protocol /\ q.txCount = p.txCount /\ q.volume >= p.volume
    <3>1. q.protocol = x.protocol /\ q.volume = Priced(ByProtocol(x.protocol))
          /\ q.txCount = Tx(ByProtocol(x.protocol))
      OBVIOUS
    <3> HIDE DEF q, Tx, Priced, ByProtocol, of
    <3>2. QED
      BY <1>6, <2>3, <3>1
  <2> HIDE DEF q
  <2>6. QED
    BY <2>4, <2>5
<1>10. \A t \in DOMAIN days : /\ days[t].txCount = Cardinality(on(t))
                              /\ days[t].volume = UsdInSum(Deploying(on(t))) + OutOnlyVolume(on(t))
  <2> HIDE DEF days, On, on, Tx, Priced
  <2>1. QED
    BY <1>5, <1>8
<1>11. QED
  <2>1. AggregateTotals(aggregates, now).totalTx = Cardinality(seen)
    BY <1>4, <1>7
  <2>2. QED
    BY <1>9, <1>10, <2>1, Zenon DEF AggregatesAgree

\* In every state, for every set of reports, prices and times: the aggregates
\* count each verified row once, on the day it settled, and hold no volume the
\* rows do not, but for the rows priced on their received leg alone.
THEOREM AggregatesSayWhatRowsSay == Spec => []AggregatesAgree
<1>1. QED
  BY AggregatesAreTheRows, AggregatesKept, PTL

-----------------------------------------------------------------------------
(* The rankings and the coverage *)

VolumeIn(E) == [x \in E |-> x.volume]

TxIn(E) == [x \in E |-> x.txCount]

LEMMA TotalsOf ==
    ASSUME NEW E, IsFiniteSet(E)
    PROVE  /\ VolumeOf(E) = SumFunctionOnSet(VolumeIn(E), E)
           /\ TxOf(E) = SumFunctionOnSet(TxIn(E), E)
<1>1. VolumeOf(E) = SumFunction(VolumeIn(E)) /\ TxOf(E) = SumFunction(TxIn(E))
  BY DEF VolumeOf, TxOf, SumOver, VolumeIn, TxIn
<1>2. DOMAIN VolumeIn(E) = E /\ DOMAIN TxIn(E) = E
  BY DEF VolumeIn, TxIn
<1>3. /\ SumFunction(VolumeIn(E)) = SumFunctionOnSet(VolumeIn(E), E)
      /\ SumFunction(TxIn(E)) = SumFunctionOnSet(TxIn(E), E)
  BY <1>2, SumOverIs
<1>4. QED
  BY <1>1, <1>3

AgentsOf(own) == {r.agent : r \in own}

\* Each agent with a row has one place in the leaderboard, with its own totals.
LEMMA LeaderPlaces ==
    ASSUME NEW R, Readable(R), NEW window, NEW time,
           NEW leaders, leaders = AgentLeaderboard(R, window, time, None),
           NEW own, own = LeaderRows(R, window, time)
    PROVE  /\ own \in SUBSET R /\ IsFiniteSet(AgentsOf(own))
           /\ Len(leaders) = Cardinality(AgentsOf(own)) /\ IsFiniteSet(DOMAIN leaders)
           /\ \E place : /\ Renames(place, AgentsOf(own), DOMAIN leaders)
                         /\ \A a \in AgentsOf(own) : leaders[place[a]] = Leader(a, own)
<1> DEFINE agents == AgentsOf(own)
           S == LeadersOf(own)
           B == LeaderOrder(S)
           n == Cardinality(S)
           place == [a \in agents |-> PlaceIn(B, S)[Leader(a, own)] + 1]
<1>1. own \in SUBSET R /\ IsFiniteSet(own) /\ \A r \in own : RowReads(r)
  BY FS_Subset DEF Readable, LeaderRows
<1>2. /\ IsFiniteSet(agents) /\ IsFiniteSet(S) /\ Orders(B, S)
  <2>1. /\ IsFiniteSet(agents) /\ IsFiniteSet(S)
        /\ \A x \in S : x.volume \in Int /\ x.agent \in Int
        /\ \A x, y \in S : x.agent = y.agent => x = y
    BY <1>1, LeadersSound DEF AgentsOf
  <2> HIDE DEF S
  <2>2. QED
    BY <2>1, LeadersOrdered
<1>3. /\ \A a \in agents : Leader(a, own) \in S /\ Leader(a, own).agent = a
      /\ \A x \in S : \E a \in agents : x = Leader(a, own)
  BY DEF LeadersOf, Leader, AgentsOf
<1>4. leaders = Placed(S, PlaceIn(B, S))
  <2>1. {x \in S : AfterLeader(x, None)} = S
    BY DEF AfterLeader
  <2>2. leaders = Ranked({x \in S : AfterLeader(x, None)}, LeaderBefore)
    BY DEF AgentLeaderboard, LeadersOf
  <2> HIDE DEF S
  <2>3. leaders = Ranked(S, LeaderBefore)
    BY <2>1, <2>2, Zenon
  <2>4. QED
    BY <2>3, RankedLeaders
<1> HIDE DEF S, B, agents
<1>5. /\ n \in Nat /\ leaders \in Seq(S) /\ Len(leaders) = n
      /\ \A x \in S : PlaceIn(B, S)[x] + 1 \in 1 .. n /\ leaders[PlaceIn(B, S)[x] + 1] = x
      /\ \A k \in 1 .. n : PlaceIn(B, S)[leaders[k]] = k - 1
      /\ \A j, k \in 1 .. n : j < k => <<leaders[j], leaders[k]>> \in B
  BY <1>2, <1>4, PlacedInOrder
<1>6. DOMAIN leaders = 1 .. n /\ IsFiniteSet(DOMAIN leaders)
        /\ \A k \in 1 .. n : leaders[k] \in S
  <2>1. DOMAIN leaders = 1 .. n
    BY <1>5, LenProperties
  <2>2. \A k \in 1 .. n : leaders[k] \in S
    BY <1>5, ElementOfSeq
  <2>3. IsFiniteSet(1 .. n)
    BY <1>5, FS_Interval
  <2>4. QED
    BY <2>1, <2>2, <2>3
<1>7. \A a \in agents : /\ place[a] \in 1 .. n /\ leaders[place[a]] = Leader(a, own)
                        /\ place[a] = PlaceIn(B, S)[Leader(a, own)] + 1
  BY <1>3, <1>5
<1>8. Renames(place, agents, DOMAIN leaders)
  <2>1. ASSUME NEW k \in 1 .. n PROVE \E a \in agents : place[a] = k
    <3>1. PICK a \in agents : leaders[k] = Leader(a, own)
      BY <1>3, <1>6
    <3>2. PlaceIn(B, S)[leaders[k]] = k - 1
      BY <1>5
    <3>3. place[a] = (k - 1) + 1
      BY <1>7, <3>1, <3>2
    <3>4. QED
      BY <3>3
  <2>2. \A a, b \in agents : place[a] = place[b] => a = b
    <3> HIDE DEF place
    <3>1. QED
      BY <1>3, <1>7
  <2> HIDE DEF place
  <2>3. \A a \in agents : place[a] \in DOMAIN leaders
    BY <1>6, <1>7
  <2>4. \A k \in DOMAIN leaders : \E a \in agents : place[a] = k
    BY <1>6, <2>1
  <2>5. QED
    BY <2>2, <2>3, <2>4 DEF Renames
<1>9. Len(leaders) = Cardinality(agents)
  <2>1. Cardinality(1 .. n) = n
    BY <1>5, FS_Interval
  <2>2. Cardinality(DOMAIN leaders) = Cardinality(agents)
    BY <1>2, <1>8, SameCount
  <2>3. Cardinality(DOMAIN leaders) = Cardinality(1 .. n)
    BY <1>6, Zenon
  <2>4. QED
    BY <1>5, <2>1, <2>2, <2>3
<1>10. \A a \in agents : leaders[place[a]] = Leader(a, own)
  BY <1>7
<1> HIDE DEF place
<1>11. QED
  BY <1>1, <1>2, <1>6, <1>8, <1>9, <1>10 DEF agents

\* The leaderboard shares out the volume and the rows it is about.
LEMMA LeaderTotals ==
    ASSUME NEW R, Readable(R), NEW window, NEW time,
           NEW leaders, leaders = AgentLeaderboard(R, window, time, None)
    PROVE  /\ SumFunction([k \in DOMAIN leaders |-> leaders[k].volume])
                = UsdInSum(LeaderRows(R, window, time))
           /\ SumFunction([k \in DOMAIN leaders |-> leaders[k].txCount])
                = Cardinality(LeaderRows(R, window, time))
<1> DEFINE own == LeaderRows(R, window, time)
           agents == AgentsOf(own)
           group == [a \in agents |-> {r \in own : r.agent = a}]
           v == [k \in DOMAIN leaders |-> leaders[k].volume]
           t == [k \in DOMAIN leaders |-> leaders[k].txCount]
<1>1. Partition(group, own, agents)
  BY DEF Partition, AgentsOf
<1>2. /\ \A a \in agents : /\ Leader(a, own).volume = UsdInSum(group[a])
                           /\ Leader(a, own).txCount = Cardinality(group[a])
      /\ \A k \in DOMAIN leaders : v[k] = leaders[k].volume /\ t[k] = leaders[k].txCount
      /\ DOMAIN v = DOMAIN leaders /\ DOMAIN t = DOMAIN leaders
  BY DEF Leader
<1>e. own = LeaderRows(R, window, time)
  OBVIOUS
<1> HIDE DEF group, own, v, t
<1>3. /\ own \in SUBSET R /\ IsFiniteSet(agents)
      /\ Len(leaders) = Cardinality(agents) /\ IsFiniteSet(DOMAIN leaders)
      /\ \E place : /\ Renames(place, agents, DOMAIN leaders)
                    /\ \A a \in agents : leaders[place[a]] = Leader(a, own)
  BY <1>e, LeaderPlaces
<1> HIDE DEF agents
<1>4. PICK place : /\ Renames(place, agents, DOMAIN leaders)
                   /\ \A a \in agents : leaders[place[a]] = Leader(a, own)
  BY <1>3
<1>5. \A a \in agents : /\ group[a] \in SUBSET R
                        /\ UsdInSum(group[a]) = SumFunctionOnSet(UsdIn(R), group[a])
  <2>1. \A a \in agents : group[a] \in SUBSET R
    BY <1>1, <1>3 DEF Partition
  <2>2. QED
    BY <2>1, UsdInSumIs
<1>6. /\ \A a \in agents : v[place[a]] = SumFunctionOnSet(UsdIn(R), group[a])
      /\ \A a \in agents : t[place[a]] = Cardinality(group[a])
  <2>1. \A a \in agents : place[a] \in DOMAIN leaders
    BY <1>4 DEF Renames
  <2>2. QED
    BY <1>2, <1>4, <1>5, <2>1
<1>7. /\ IsFiniteSet(own) /\ \A r \in own : UsdIn(R)[r] \in Int
      /\ UsdInSum(own) = SumFunctionOnSet(UsdIn(R), own)
  BY <1>3, UsdInSumIs
<1>8. SumFunctionOnSet(v, DOMAIN leaders) = SumFunctionOnSet(UsdIn(R), own)
  <2>1. \A r \in own : UsdIn(R)[r] \in Int
    BY <1>7
  <2>2. QED
    BY <1>1, <1>3, <1>4, <1>6, <1>7, <2>1, Shares
<1>9. SumFunctionOnSet(t, DOMAIN leaders) = Cardinality(own)
  BY <1>1, <1>3, <1>4, <1>6, <1>7, CountShares
<1>10. /\ SumFunction(v) = SumFunctionOnSet(v, DOMAIN leaders)
       /\ SumFunction(t) = SumFunctionOnSet(t, DOMAIN leaders)
  BY <1>2, <1>3, SumOverIs
<1>11. SumFunction(v) = UsdInSum(own) /\ SumFunction(t) = Cardinality(own)
  BY <1>7, <1>8, <1>9, <1>10
<1>12. QED
  BY <1>11 DEF v, t, own

\* So does the ranking of the protocols.
LEMMA ProtocolRankingTotal ==
    ASSUME NEW R, Readable(R), NEW window, NEW time
    PROVE  VolumeOf(ProtocolRanking(R, window, time)) = UsdInSum(LeaderRows(R, window, time))
<1> DEFINE all == {r \in R : Verified(r) /\ InOpenWindow(r, window, time)}
           own == LeaderRows(R, window, time)
           P == {r.protocol : r \in all}
           of(p) == {r \in all : r.protocol = p}
           Entry(p) == [protocol |-> p,
                        volume |-> UsdInSum(Deploying(of(p))),
                        txCount |-> Cardinality(of(p)),
                        chainCount |-> Cardinality({<<r.family, r.chain>> : r \in of(p)}),
                        swaps |-> Cardinality({r \in of(p) : r.kind = "swap"}),
                        bridges |-> Cardinality({r \in of(p) : r.kind = "bridge"})]
           E == {Entry(p) : p \in P}
           entry == [p \in P |-> Entry(p)]
           group == [p \in P |-> Deploying(of(p))]
<1>1. ProtocolRanking(R, window, time) = E
  BY Zenon DEF ProtocolRanking
<1>2. Partition(group, own, P)
  BY DEF Partition, Deploying, LeaderRows
<1>3. \A p \in P : /\ entry[p].protocol = p /\ entry[p].volume = UsdInSum(group[p])
                   /\ entry[p] \in E
  <2> HIDE DEF all, of
  <2>1. QED
    OBVIOUS
<1>4. \A e \in E : \E p \in P : e = entry[p]
  <2> HIDE DEF all, of
  <2>1. QED
    OBVIOUS
<1>5. own \in SUBSET R /\ IsFiniteSet(P)
  <2>1. IsFiniteSet(all)
    BY FS_Subset DEF Readable
  <2> HIDE DEF all
  <2> DEFINE f == [r \in all |-> r.protocol]
  <2>2. IsFiniteSet({f[r] : r \in all})
    BY <2>1, FiniteImage
  <2>3. {f[r] : r \in all} = P
    OBVIOUS
  <2>4. QED
    BY <2>2, <2>3 DEF LeaderRows
<1> HIDE DEF entry, group, E, P, own
<1>6. Renames(entry, P, E)
  BY <1>3, <1>4 DEF Renames
<1>7. \A p \in P : VolumeIn(E)[entry[p]] = SumFunctionOnSet(UsdIn(R), group[p])
  <2>1. \A p \in P : group[p] \in SUBSET R
    BY <1>2, <1>5 DEF Partition
  <2>2. \A p \in P : UsdInSum(group[p]) = SumFunctionOnSet(UsdIn(R), group[p])
    BY <2>1, UsdInSumIs
  <2>3. \A p \in P : VolumeIn(E)[entry[p]] = entry[p].volume
    BY <1>3 DEF VolumeIn
  <2>4. QED
    BY <1>3, <2>2, <2>3
<1>8. /\ IsFiniteSet(own) /\ UsdInSum(own) = SumFunctionOnSet(UsdIn(R), own)
      /\ \A r \in own : UsdIn(R)[r] \in Int
  BY <1>5, UsdInSumIs
<1>9. IsFiniteSet(E) /\ SumFunctionOnSet(VolumeIn(E), E) = SumFunctionOnSet(UsdIn(R), own)
  <2>1. \A r \in own : UsdIn(R)[r] \in Int
    BY <1>8
  <2>2. QED
    BY <1>2, <1>5, <1>6, <1>7, <1>8, <2>1, Shares
<1>10. VolumeOf(E) = UsdInSum(own)
  BY <1>8, <1>9, TotalsOf
<1>11. QED
  BY <1>1, <1>10, Zenon DEF own

\* Each row of the coverage is priced, unpriced or still awaiting a price.
LEMMA CoverageTotal ==
    ASSUME NEW R, Readable(R), NEW window, NEW time,
           NEW coverage, coverage = PricingCoverage(R, window, time)
    PROVE  coverage.priced + coverage.unpriced + coverage.pending
             = Cardinality(LeaderRows(R, window, time))
<1> DEFINE own == LeaderRows(R, window, time)
           A == {r \in own : ContributesUsd(r)}
           B == {r \in own : ContributesNoUsd(r)}
           C == {r \in own : AwaitingAPrice(r)}
<1>1. IsFiniteSet(own) /\ \A r \in own : r.pricing \in {"pending", "server_priced", "unpriced"}
  BY FS_Subset DEF Readable, LeaderRows, RowReads
<1>2. /\ IsFiniteSet(A) /\ IsFiniteSet(B) /\ IsFiniteSet(C) /\ IsFiniteSet(A \cup B)
  <2>1. IsFiniteSet(A) /\ IsFiniteSet(B) /\ IsFiniteSet(C)
    BY <1>1, FS_Subset
  <2>2. QED
    BY <2>1, FS_Union
<1>3. A \cap B = {} /\ (A \cup B) \cap C = {} /\ (A \cup B) \cup C = own
  BY <1>1 DEF ContributesUsd, ContributesNoUsd, AwaitingAPrice
<1>4. coverage.priced = Cardinality(A) /\ coverage.unpriced = Cardinality(B)
        /\ coverage.pending = Cardinality(C)
  BY DEF PricingCoverage
<1> HIDE DEF own, A, B, C
<1>5. Cardinality(A \cup B) = Cardinality(A) + Cardinality(B) - Cardinality(A \cap B)
  BY <1>2, FS_Union
<1>6. Cardinality((A \cup B) \cup C)
        = Cardinality(A \cup B) + Cardinality(C) - Cardinality((A \cup B) \cap C)
  BY <1>2, FS_Union
<1>7. Cardinality(A \cap B) = 0 /\ Cardinality((A \cup B) \cap C) = 0
        /\ Cardinality((A \cup B) \cup C) = Cardinality(own)
  <2>1. Cardinality({}) = 0
    BY FS_EmptySet
  <2>2. QED
    BY <1>3, <2>1, Zenon
<1>8. Cardinality(A) \in Nat /\ Cardinality(B) \in Nat /\ Cardinality(C) \in Nat
  BY <1>2, FS_CardinalityType
<1>9. QED
  BY <1>4, <1>5, <1>6, <1>7, <1>8 DEF own

-----------------------------------------------------------------------------
(* The charts *)

LEMMA AnchorInt ==
    ASSUME NEW r, RowReads(r), Verified(r)
    PROVE  TimeAnchor(r) \in Int
BY DEF RowReads, TimeAnchor, SettledAt, Coalesce

\* The buckets of a chart begin after the window of its range does.
LEMMA BucketWindow ==
    ASSUME NEW time \in Int, NEW seconds \in Nat \ {0}, NEW count \in Int
    PROVE  /\ Bucket(time, seconds) \in Int /\ FirstStart(time, seconds, count) \in Int
           /\ FirstStart(time, seconds, count) > time - seconds * count
           /\ IsFiniteSet(BucketStarts(FirstStart(time, seconds, count), Bucket(time, seconds), seconds))
<1>1. /\ time \div seconds \in Int /\ time % seconds \in 0 .. seconds - 1
      /\ time = seconds * (time \div seconds) + (time % seconds)
  OBVIOUS
<1> DEFINE q == time \div seconds
           first == FirstStart(time, seconds, count)
<1>2. Bucket(time, seconds) = q * seconds /\ q * seconds \in Int /\ q * seconds > time - seconds
  <2>1. \A m \in Int : seconds * m \in Int /\ seconds * m = m * seconds
    OBVIOUS
  <2> HIDE DEF q
  <2>2. QED
    BY <1>1, <2>1 DEF Bucket, q
<1>3. first = q * seconds - seconds * (count - 1) /\ seconds * (count - 1) = seconds * count - seconds
      /\ seconds * count \in Int
  BY <1>2 DEF FirstStart
<1> HIDE DEF q, first
<1>4. first \in Int /\ first > time - seconds * count
  BY <1>2, <1>3
<1>5. IsFiniteSet(BucketStarts(first, Bucket(time, seconds), seconds))
  <2>1. IsFiniteSet(first .. Bucket(time, seconds))
    BY <1>2, <1>4, FS_Interval
  <2>2. QED
    BY <2>1, FS_Subset DEF BucketStarts
<1>6. QED
  BY <1>2, <1>4, <1>5 DEF first

\* A chart shows no more than the ranking of its window.
LEMMA ChartTotal ==
    ASSUME NEW R, Readable(R), NEW time \in Int, NEW seconds \in Nat \ {0}, NEW count \in Nat \ {0},
           NEW chart, chart = BucketsFromActivities(R, seconds, count, time)
    PROVE  SumFunction([t \in DOMAIN chart |-> chart[t].volume])
             <= UsdInSum(LeaderRows(R, seconds * count, time))
<1> DEFINE first == FirstStart(time, seconds, count)
           D == BucketStarts(first, Bucket(time, seconds), seconds)
           In(t) == {r \in {r \in R : Verified(r) /\ TimeAnchor(r) >= first} :
                        Bucket(TimeAnchor(r), seconds) = t}
           group == [t \in D |-> Deploying(In(t))]
           v == [t \in DOMAIN chart |-> chart[t].volume]
           own == LeaderRows(R, seconds * count, time)
<1>1. DOMAIN chart = D /\ \A t \in D : v[t] = UsdInSum(group[t])
  BY DEF BucketsFromActivities
<1>2. first \in Int /\ first > time - seconds * count /\ IsFiniteSet(D) /\ seconds * count \in Int
  BY BucketWindow
<1>3. Disjoint(group, own, D)
  <2>1. \A r \in R : Verified(r) => TimeAnchor(r) \in Int
    BY AnchorInt DEF Readable
  <2>2. \A t \in D : \A r : r \in group[t] <=> /\ r \in R /\ Verified(r) /\ TimeAnchor(r) >= first
                                               /\ Bucket(TimeAnchor(r), seconds) = t /\ DeploysCapital(r)
    BY DEF Deploying
  <2> HIDE DEF group, first, D
  <2>3. \A r \in R : Verified(r) /\ TimeAnchor(r) >= first => TimeAnchor(r) > time - seconds * count
    BY <1>2, <2>1
  <2>4. \A t \in D : group[t] \in SUBSET own
    BY <2>2, <2>3 DEF LeaderRows, InOpenWindow
  <2> HIDE DEF own
  <2>5. QED
    BY <2>2, <2>4 DEF Disjoint
<1>4. own \in SUBSET R /\ DOMAIN v = D
  BY <1>1 DEF LeaderRows
<1> HIDE DEF group, D, v, own, first
<1>5. /\ IsFiniteSet(own) /\ UsdInSum(own) = SumFunctionOnSet(UsdIn(R), own)
      /\ \A r \in own : UsdIn(R)[r] \in Nat
  BY <1>4, UsdInSumIs
<1>6. \A t \in D : v[t] = SumFunctionOnSet(UsdIn(R), group[t])
  <2>1. \A t \in D : group[t] \in SUBSET R
    BY <1>3, <1>4 DEF Disjoint
  <2>2. QED
    BY <1>1, <2>1, UsdInSumIs
<1>7. SumFunctionOnSet(v, D) <= SumFunctionOnSet(UsdIn(R), own)
  <2>1. \A r \in own : UsdIn(R)[r] \in Nat
    BY <1>5
  <2>2. QED
    BY <1>2, <1>3, <1>5, <1>6, <2>1, SumOfParts
<1>8. SumFunction(v) = SumFunctionOnSet(v, D)
  BY <1>2, <1>4, SumOverIs
<1>9. QED
  BY <1>5, <1>7, <1>8 DEF v, own

\* A leaderboard has a place for each agent with a row.
LEMMA LeaderCounts ==
    ASSUME NEW R, Readable(R), NEW window, NEW time,
           NEW leaders, leaders = AgentLeaderboard(R, window, time, None)
    PROVE  /\ CountLeaderboardAgents(R, window, time) = Len(leaders)
           /\ window # None => Len(leaders) <= CountActiveAgents(R, window, time)
<1> DEFINE own == LeaderRows(R, window, time)
           active == {r \in R : Verified(r) /\ TimeAnchor(r) > time - window}
<1>e. own = LeaderRows(R, window, time)
  OBVIOUS
<1>a. CountActiveAgents(R, window, time) = Cardinality(AgentsOf(active))
  BY Zenon DEF CountActiveAgents, AgentsOf
<1>1. window # None => own \in SUBSET active
  BY DEF LeaderRows, InOpenWindow
<1>2. active \in SUBSET R
  OBVIOUS
<1>3. CountLeaderboardAgents(R, window, time) = Cardinality(AgentsOf(own))
  BY Zenon DEF CountLeaderboardAgents, AgentsOf
<1> HIDE DEF own, active
<1>4. Len(leaders) = Cardinality(AgentsOf(own))
  BY <1>e, LeaderPlaces
<1>5. IsFiniteSet(AgentsOf(active))
  <2>1. IsFiniteSet(active)
    BY <1>2, FS_Subset DEF Readable
  <2> DEFINE f == [r \in active |-> r.agent]
  <2>2. IsFiniteSet({f[r] : r \in active})
    BY <2>1, FiniteImage
  <2>3. {f[r] : r \in active} = AgentsOf(active)
    BY DEF AgentsOf
  <2>4. QED
    BY <2>2, <2>3
<1>6. window # None => AgentsOf(own) \in SUBSET AgentsOf(active)
  BY <1>1 DEF AgentsOf
<1>7. window # None => Cardinality(AgentsOf(own)) <= Cardinality(AgentsOf(active))
  BY <1>5, <1>6, FS_Subset
<1>8. QED
  BY <1>3, <1>4, <1>7, <1>a

LEMMA RankingsShare ==
    ASSUME FeedInv, NEW plan \in Plans
    PROVE  RankingsAgree(plan)
<1> DEFINE window == RangeWindow(plan)
           leaders == AgentLeaderboard(Table, window, now, None)
           ranking == ProtocolRanking(Table, window, now)
           coverage == PricingCoverage(Table, window, now)
           chart == ChartBuckets(Table, aggregates, plan, now)
<1>1. Readable(Table) /\ now \in Int
  BY TableReadable DEF FeedInv
<1>2. plan.source = "activities" =>
        SumFunction([t \in DOMAIN chart |-> chart[t].volume]) <= UsdInSum(LeaderRows(Table, window, now))
  <2> SUFFICES ASSUME plan.source = "activities"
               PROVE  SumFunction([t \in DOMAIN chart |-> chart[t].volume])
                        <= UsdInSum(LeaderRows(Table, window, now))
    OBVIOUS
  <2>1. plan.seconds \in Nat \ {0} /\ plan.count \in Nat \ {0}
    BY ReadsAssumption
  <2>2. window = plan.seconds * plan.count
    BY DEF RangeWindow
  <2>3. chart = BucketsFromActivities(Table, plan.seconds, plan.count, now)
    BY DEF ChartBuckets
  <2> HIDE DEF window, chart
  <2>4. SumFunction([t \in DOMAIN chart |-> chart[t].volume])
           <= UsdInSum(LeaderRows(Table, plan.seconds * plan.count, now))
    BY <1>1, <2>1, <2>3, ChartTotal
  <2>5. QED
    BY <2>2, <2>4
<1>e. /\ leaders = AgentLeaderboard(Table, window, now, None)
      /\ coverage = PricingCoverage(Table, window, now)
      /\ ranking = ProtocolRanking(Table, window, now)
  OBVIOUS
<1> HIDE DEF window, leaders, ranking, coverage, chart
<1>3. /\ SumFunction([k \in DOMAIN leaders |-> leaders[k].volume]) = UsdInSum(LeaderRows(Table, window, now))
      /\ SumFunction([k \in DOMAIN leaders |-> leaders[k].txCount])
            = Cardinality(LeaderRows(Table, window, now))
  BY <1>1, <1>e, LeaderTotals
<1>4. VolumeOf(ranking) = UsdInSum(LeaderRows(Table, window, now))
  BY <1>1, <1>e, ProtocolRankingTotal
<1>5. coverage.priced + coverage.unpriced + coverage.pending = Cardinality(LeaderRows(Table, window, now))
  BY <1>1, <1>e, CoverageTotal
<1>6. /\ CountLeaderboardAgents(Table, window, now) = Len(leaders)
      /\ window # None => Len(leaders) <= CountActiveAgents(Table, window, now)
  BY <1>1, <1>e, LeaderCounts
<1>7. /\ VolumeOf(ranking) = SumFunction([k \in DOMAIN leaders |-> leaders[k].volume])
      /\ coverage.priced + coverage.unpriced + coverage.pending
           = SumFunction([k \in DOMAIN leaders |-> leaders[k].txCount])
      /\ plan.source = "activities" =>
            SumFunction([t \in DOMAIN chart |-> chart[t].volume]) <= VolumeOf(ranking)
  BY <1>2, <1>3, <1>4, <1>5
<1>8. /\ VolumeOf(ranking) = SumOver(DOMAIN leaders, LAMBDA k : leaders[k].volume)
      /\ coverage.priced + coverage.unpriced + coverage.pending
           = SumOver(DOMAIN leaders, LAMBDA k : leaders[k].txCount)
      /\ plan.source = "activities" =>
            SumOver(DOMAIN chart, LAMBDA t : chart[t].volume) <= VolumeOf(ranking)
  BY <1>7, Zenon DEF SumOver
<1>9. QED
  BY <1>6, <1>8, Zenon DEF RankingsAgree, window, leaders, ranking, coverage, chart

\* In every state and for every range: the leaderboard, the ranking of the
\* protocols, the coverage and the chart share their volume and their rows out
\* over the same rows.
THEOREM RankingsShareOut == Spec => [](\A plan \in Plans : RankingsAgree(plan))
<1>1. FeedInv => \A plan \in Plans : RankingsAgree(plan)
  BY RankingsShare
<1>2. BooksInv => FeedInv
  BY DEF BooksInv
<1>3. QED
  BY <1>1, <1>2, AggregatesAreTheRows, PTL

-----------------------------------------------------------------------------
(* Tokens: the listing, the pages and their panels *)

LEMMA MinInt ==
    ASSUME NEW S, IsFiniteSet(S), S # {}, S \in SUBSET Int
    PROVE  Min(S) \in S /\ \A x \in S : Min(S) <= x
<1> DEFINE B == {s \in SUBSET S : s # {} /\ ~\E x \in s : \A y \in s : x <= y}
<1>1. B = {}
  <2> SUFFICES ASSUME B # {} PROVE FALSE
    OBVIOUS
  <2>1. PICK s \in B : IsFiniteSet(s) /\ \A t \in SUBSET s : t # s => t \notin B
    <3>1. B \in SUBSET (SUBSET S)
      OBVIOUS
    <3> HIDE DEF B
    <3>2. QED
      BY <3>1, Smallest
  <2>2. s \in SUBSET S /\ s # {} /\ ~\E x \in s : \A y \in s : x <= y
    OBVIOUS
  <2>3. PICK a \in s : TRUE
    BY <2>2
  <2> DEFINE t == s \ {a}
  <2>4. t \in SUBSET s /\ t # s /\ t \notin B /\ t \in SUBSET S
    BY <2>1, <2>2
  <2>5. CASE t = {}
    <3>1. \A y \in s : y = a
      BY <2>5
    <3>2. QED
      BY <2>2, <3>1
  <2>6. CASE t # {}
    <3>1. PICK x \in t : \A y \in t : x <= y
      BY <2>4, <2>6
    <3>2. x \in Int /\ a \in Int /\ \A y \in s : y = a \/ y \in t
      BY <2>2, <2>3, <2>4
    <3> HIDE DEF t, B
    <3>3. CASE x <= a
      BY <2>2, <2>4, <3>1, <3>2, <3>3
    <3>4. CASE a < x
      <4>1. \A y \in s : a <= y
        BY <2>2, <2>4, <3>1, <3>2, <3>4
      <4>2. QED
        BY <2>2, <4>1
    <3>5. QED
      BY <3>2, <3>3, <3>4
  <2>7. QED
    BY <2>5, <2>6
<1>2. \E x \in S : \A y \in S : x <= y
  BY <1>1
<1>3. QED
  BY <1>2 DEF Min

\* The side of a row a leg is.
IsLegOf(l, r) ==
    \/ r.in # None /\ l = Leg(r, "in", r.in, ServerPricedUsdIn(r))
    \/ r.out # None /\ l = Leg(r, "out", r.out, ServerPricedUsdOut(r))

TokenRow(r, w, time) == Verified(r) /\ DeploysCapital(r) /\ InBuckets(r, w, time)

LEMMA LegsAre ==
    ASSUME NEW R, NEW w, NEW time, NEW l
    PROVE  l \in TokenLegs(R, w, time) <=> \E r \in R : TokenRow(r, w, time) /\ IsLegOf(l, r)
BY DEF TokenLegs, IsLegOf, TokenRow

\* What a leg says of its row.
LEMMA LegSays ==
    ASSUME NEW r, NEW l, IsLegOf(l, r)
    PROVE  /\ l.id = r.id /\ l.family = r.family /\ l.chain = r.chain
           /\ l.protocol = r.protocol /\ l.agent = r.agent /\ l.at = TimeAnchor(r)
           /\ l.address # None /\ l.address \in {r.in, r.out}
BY DEF IsLegOf, Leg

\* Legs of rows that the ids tell apart.
RowLegs(legs) ==
    /\ IsFiniteSet(legs)
    /\ \A l \in legs : LegSound(l) /\ l.at \in Int
    /\ \A l, m \in legs : l.id = m.id => l.protocol = m.protocol /\ l.at = m.at

LEMMA TokenLegsAreRowLegs ==
    ASSUME NEW R, Readable(R), NEW w, NEW time,
           NEW own \in SUBSET TokenLegs(R, w, time)
    PROVE  RowLegs(own)
<1>1. IsFiniteSet(own) /\ \A l \in own : LegSound(l)
  BY LegsSound, FS_Subset
<1>2. \A l \in own : \E r \in R : Verified(r) /\ IsLegOf(l, r)
  BY LegsAre DEF TokenRow
<1>3. \A l \in own : l.at \in Int
  BY <1>2, LegSays, AnchorInt DEF Readable
<1>4. \A l, m \in own : l.id = m.id => l.protocol = m.protocol /\ l.at = m.at
  <2>1. \A x, y \in R : x.id = y.id => x = y
    BY DEF Readable
  <2>2. QED
    BY <1>2, <2>1, LegSays
<1>5. QED
  BY <1>1, <1>3, <1>4 DEF RowLegs

UsdOf(legs) == [l \in legs |-> l.usd]

IdsOf(legs) == {l.id : l \in legs}

LEMMA LegSums ==
    ASSUME NEW legs, RowLegs(legs), NEW own \in SUBSET legs
    PROVE  /\ RowLegs(own)
           /\ LegUsd(own) = SumFunctionOnSet(UsdOf(legs), own) /\ LegUsd(own) \in Nat
           /\ \A l \in legs : UsdOf(legs)[l] \in Nat
           /\ LegRows(own) = Cardinality(IdsOf(own)) /\ IsFiniteSet(IdsOf(own))
<1>1. RowLegs(own)
  BY FS_Subset DEF RowLegs
<1>2. \A l \in legs : UsdOf(legs)[l] \in Nat
  BY DEF RowLegs, LegSound, UsdOf
<1>3. LegUsd(own) = SumFunctionOnSet(UsdOf(legs), own)
  <2> DEFINE f == [l \in own |-> l.usd]
  <2>1. LegUsd(own) = SumFunction(f)
    BY DEF LegUsd, SumOver
  <2>2. DOMAIN f = own /\ \A l \in own : f[l] = UsdOf(legs)[l]
    BY DEF UsdOf
  <2> HIDE DEF f
  <2>3. QED
    BY <1>1, <2>1, <2>2, SumOverIs DEF RowLegs
<1>4. LegUsd(own) \in Nat
  BY <1>1, LegUsdNat DEF RowLegs
<1>5. IsFiniteSet(IdsOf(own))
  <2> DEFINE f == [l \in own |-> l.id]
  <2>1. IsFiniteSet({f[l] : l \in own})
    <3>1. IsFiniteSet(own)
      BY <1>1 DEF RowLegs
    <3> HIDE DEF f
    <3>2. QED
      BY <3>1, FiniteImage
  <2>2. {f[l] : l \in own} = IdsOf(own)
    BY DEF IdsOf
  <2>3. QED
    BY <2>1, <2>2
<1>6. LegRows(own) = Cardinality(IdsOf(own))
  BY Zenon DEF LegRows, IdsOf
<1>7. QED
  BY <1>1, <1>2, <1>3, <1>4, <1>5, <1>6

LegProtocols(legs) ==
    {LET own == {l \in legs : l.protocol = p} IN
     [protocol |-> p, volume |-> LegUsd(own), txCount |-> LegRows(own)]
        : p \in {l.protocol : l \in legs}}

\* Shared out by protocol, the legs keep their volume and their rows.
LEMMA LegShares ==
    ASSUME NEW legs, RowLegs(legs)
    PROVE  VolumeOf(LegProtocols(legs)) = LegUsd(legs) /\ TxOf(LegProtocols(legs)) = LegRows(legs)
<1> DEFINE E == LegProtocols(legs)
           P == {l.protocol : l \in legs}
           of(p) == {l \in legs : l.protocol = p}
           entry == [p \in P |-> [protocol |-> p, volume |-> LegUsd(of(p)), txCount |-> LegRows(of(p))]]
           group == [p \in P |-> of(p)]
           ids == [p \in P |-> IdsOf(of(p))]
<1>1. IsFiniteSet(P)
  <2> DEFINE f == [l \in legs |-> l.protocol]
  <2>1. IsFiniteSet({f[l] : l \in legs})
    <3>1. IsFiniteSet(legs)
      BY DEF RowLegs
    <3> HIDE DEF f
    <3>2. QED
      BY <3>1, FiniteImage
  <2>2. {f[l] : l \in legs} = P
    OBVIOUS
  <2>3. QED
    BY <2>1, <2>2
<1>2. Partition(group, legs, P)
  BY DEF Partition
<1>3. Partition(ids, IdsOf(legs), P)
  <2>1. \A p \in P : \A i : i \in ids[p] <=> \E l \in legs : l.protocol = p /\ i = l.id
    BY DEF IdsOf
  <2>2. \A l \in legs : l.protocol \in P
    OBVIOUS
  <2> HIDE DEF ids, P
  <2>3. \A p \in P : ids[p] \in SUBSET IdsOf(legs)
    BY <2>1 DEF IdsOf
  <2>4. \A i \in IdsOf(legs) : \E p \in P : i \in ids[p]
    BY <2>1, <2>2 DEF IdsOf
  <2>5. \A p, q \in P : \A i \in ids[p] : i \in ids[q] => p = q
    BY <2>1 DEF RowLegs
  <2>6. QED
    BY <2>3, <2>4, <2>5 DEF Partition
<1>4. \A p \in P : /\ entry[p].protocol = p /\ entry[p].volume = LegUsd(group[p])
                   /\ entry[p].txCount = LegRows(group[p])
                   /\ entry[p] \in E /\ ids[p] = IdsOf(group[p])
  <2> HIDE DEF of
  <2>1. \A p \in P : /\ entry[p].protocol = p /\ entry[p].volume = LegUsd(group[p])
                     /\ entry[p].txCount = LegRows(group[p]) /\ ids[p] = IdsOf(group[p])
    OBVIOUS
  <2>2. E = {entry[p] : p \in P}
    <3>1. E = {[protocol |-> p, volume |-> LegUsd(of(p)), txCount |-> LegRows(of(p))] : p \in P}
      BY DEF LegProtocols, of
    <3>2. QED
      BY <3>1
  <2> HIDE DEF entry, group, ids, P, E
  <2>3. QED
    BY <2>1, <2>2
<1>5. \A e \in E : \E p \in P : e = entry[p]
  <2>1. E = {[protocol |-> p, volume |-> LegUsd(of(p)), txCount |-> LegRows(of(p))] : p \in P}
    BY DEF LegProtocols
  <2> HIDE DEF of
  <2>2. QED
    BY <2>1
<1> HIDE DEF entry, group, ids, P, E
<1>6. Renames(entry, P, E)
  BY <1>4, <1>5 DEF Renames
<1>7. /\ \A p \in P : VolumeIn(E)[entry[p]] = SumFunctionOnSet(UsdOf(legs), group[p])
      /\ \A p \in P : TxIn(E)[entry[p]] = Cardinality(ids[p])
  <2>1. \A p \in P : group[p] \in SUBSET legs
    BY <1>2 DEF Partition
  <2>2. \A p \in P : /\ LegUsd(group[p]) = SumFunctionOnSet(UsdOf(legs), group[p])
                     /\ LegRows(group[p]) = Cardinality(IdsOf(group[p]))
    BY <2>1, LegSums
  <2>3. \A p \in P : VolumeIn(E)[entry[p]] = entry[p].volume /\ TxIn(E)[entry[p]] = entry[p].txCount
    BY <1>4 DEF VolumeIn, TxIn
  <2>4. QED
    BY <1>4, <2>2, <2>3
<1>8. /\ LegUsd(legs) = SumFunctionOnSet(UsdOf(legs), legs) /\ \A l \in legs : UsdOf(legs)[l] \in Int
      /\ LegRows(legs) = Cardinality(IdsOf(legs)) /\ IsFiniteSet(IdsOf(legs)) /\ IsFiniteSet(legs)
  BY LegSums DEF RowLegs
<1>9. IsFiniteSet(E) /\ SumFunctionOnSet(VolumeIn(E), E) = SumFunctionOnSet(UsdOf(legs), legs)
  <2>1. \A l \in legs : UsdOf(legs)[l] \in Int
    BY <1>8
  <2>2. \A p \in P : VolumeIn(E)[entry[p]] = SumFunctionOnSet(UsdOf(legs), group[p])
    BY <1>7
  <2>3. QED
    BY <1>1, <1>2, <1>6, <1>8, <2>1, <2>2, Shares
<1>10. SumFunctionOnSet(TxIn(E), E) = Cardinality(IdsOf(legs))
  <2>1. \A p \in P : TxIn(E)[entry[p]] = Cardinality(ids[p])
    BY <1>7
  <2>2. QED
    BY <1>1, <1>3, <1>6, <1>8, <2>1, CountShares
<1>11. QED
  BY <1>8, <1>9, <1>10, TotalsOf DEF E

LEMMA BucketInt ==
    ASSUME NEW time \in Int, NEW seconds \in Nat \ {0}
    PROVE  Bucket(time, seconds) \in Int
BY DEF Bucket

\* The bars of a series hold no more than the legs they are drawn from.
LEMMA SeriesTotals ==
    ASSUME NEW legs, RowLegs(legs), NEW time \in Int, NEW seconds \in Nat \ {0}, NEW first \in Int,
           NEW chart, chart = Series(legs, first, time, seconds)
    PROVE  /\ SumFunction([t \in DOMAIN chart |-> chart[t].volume]) <= LegUsd(legs)
           /\ SumFunction([t \in DOMAIN chart |-> chart[t].txCount]) <= LegRows(legs)
<1> DEFINE D == BucketStarts(first, Bucket(time, seconds), seconds)
           of(t) == {l \in legs : Bucket(l.at, seconds) = t}
           group == [t \in D |-> of(t)]
           ids == [t \in D |-> IdsOf(of(t))]
           v == [t \in DOMAIN chart |-> chart[t].volume]
           n == [t \in DOMAIN chart |-> chart[t].txCount]
<1>1. DOMAIN chart = D /\ \A t \in D : v[t] = LegUsd(group[t]) /\ n[t] = LegRows(group[t])
  BY DEF Series
<1>2. IsFiniteSet(D)
  <2>1. Bucket(time, seconds) \in Int
    BY BucketInt
  <2>2. IsFiniteSet(first .. Bucket(time, seconds))
    BY <2>1, FS_Interval
  <2>3. QED
    BY <2>2, FS_Subset DEF BucketStarts
<1>3. Disjoint(group, legs, D)
  BY DEF Disjoint
<1>4. Disjoint(ids, IdsOf(legs), D)
  <2>1. \A t \in D : \A i : i \in ids[t] <=> \E l \in legs : Bucket(l.at, seconds) = t /\ i = l.id
    BY DEF IdsOf
  <2> HIDE DEF ids, D
  <2>2. \A t \in D : ids[t] \in SUBSET IdsOf(legs)
    BY <2>1 DEF IdsOf
  <2>3. \A s, t \in D : \A i \in ids[s] : i \in ids[t] => s = t
    BY <2>1 DEF RowLegs
  <2>4. QED
    BY <2>2, <2>3 DEF Disjoint
<1>5. \A t \in D : ids[t] = IdsOf(group[t])
  <2> HIDE DEF of, D
  <2>1. QED
    OBVIOUS
<1>6. DOMAIN v = D /\ DOMAIN n = D
  BY <1>1
<1> HIDE DEF group, ids, D, v, n
<1>7. \A t \in D : v[t] = SumFunctionOnSet(UsdOf(legs), group[t]) /\ n[t] = Cardinality(ids[t])
  <2>1. \A t \in D : group[t] \in SUBSET legs
    BY <1>3 DEF Disjoint
  <2>2. \A t \in D : /\ LegUsd(group[t]) = SumFunctionOnSet(UsdOf(legs), group[t])
                     /\ LegRows(group[t]) = Cardinality(IdsOf(group[t]))
    BY <2>1, LegSums
  <2>3. QED
    BY <1>1, <1>5, <2>2
<1>8. /\ LegUsd(legs) = SumFunctionOnSet(UsdOf(legs), legs) /\ \A l \in legs : UsdOf(legs)[l] \in Nat
      /\ LegRows(legs) = Cardinality(IdsOf(legs)) /\ IsFiniteSet(IdsOf(legs)) /\ IsFiniteSet(legs)
  BY LegSums DEF RowLegs
<1>9. SumFunctionOnSet(v, D) <= SumFunctionOnSet(UsdOf(legs), legs)
  <2>1. \A l \in legs : UsdOf(legs)[l] \in Nat
    BY <1>8
  <2>2. \A t \in D : v[t] = SumFunctionOnSet(UsdOf(legs), group[t])
    BY <1>7
  <2>3. QED
    BY <1>2, <1>3, <1>8, <2>1, <2>2, SumOfParts
<1>10. SumFunctionOnSet(n, D) <= Cardinality(IdsOf(legs))
  <2>1. \A t \in D : n[t] = Cardinality(ids[t])
    BY <1>7
  <2>2. QED
    BY <1>2, <1>4, <1>8, <2>1, CountOfParts
<1>11. SumFunction(v) = SumFunctionOnSet(v, D) /\ SumFunction(n) = SumFunctionOnSet(n, D)
  BY <1>2, <1>6, SumOverIs
<1>12. SumFunction(v) <= LegUsd(legs) /\ SumFunction(n) <= LegRows(legs)
  BY <1>8, <1>9, <1>10, <1>11
<1>13. QED
  BY <1>12 DEF v, n

\* The pairs a token is traded in count each of its rows once.
LEMMA PairsTotal ==
    ASSUME NEW R, Readable(R), NEW w, NEW time, NEW key \in TokenKeys, key.address # None
    PROVE  TxOf(TokenPairs(R, w, key, time)) = LegRows(LegsOf(TokenLegs(R, w, time), key))
<1> DEFINE own == LegsOf(TokenLegs(R, w, time), key)
           rows0 == {r \in R : /\ Verified(r) /\ DeploysCapital(r)
                               /\ r.family = key.family /\ r.chain = key.chain
                               /\ key.address \in {r.in, r.out}
                               /\ InBuckets(r, w, time)}
           P == {<<r.in, r.out>> : r \in rows0}
           of(p) == {r \in rows0 : <<r.in, r.out>> = p}
           E == TokenPairs(R, w, key, time)
           entry == [p \in P |-> [in |-> p[1], out |-> p[2], txCount |-> Cardinality(of(p))]]
           group == [p \in P |-> of(p)]
           idOf == [r \in rows0 |-> r.id]
<1>1. rows0 \in SUBSET R /\ IsFiniteSet(rows0)
  BY FS_Subset DEF Readable
<1>2. \A r \in rows0 : \E l \in own : l.id = r.id
  <2>1. ASSUME NEW r \in rows0 PROVE \E l \in own : l.id = r.id
    <3>1. TokenRow(r, w, time) /\ r \in R
      BY DEF TokenRow
    <3>2. \A l : IsLegOf(l, r) => l \in TokenLegs(R, w, time)
      BY <3>1, LegsAre
    <3>3. PICK l : IsLegOf(l, r) /\ l.address = key.address
      <4>1. CASE key.address = r.in
        <5>1. /\ IsLegOf(Leg(r, "in", r.in, ServerPricedUsdIn(r)), r)
              /\ Leg(r, "in", r.in, ServerPricedUsdIn(r)).address = key.address
          BY <4>1 DEF IsLegOf, Leg
        <5>2. QED
          BY <5>1
      <4>2. CASE key.address = r.out
        <5>1. /\ IsLegOf(Leg(r, "out", r.out, ServerPricedUsdOut(r)), r)
              /\ Leg(r, "out", r.out, ServerPricedUsdOut(r)).address = key.address
          BY <4>2 DEF IsLegOf, Leg
        <5>2. QED
          BY <5>1
      <4>3. QED
        BY <4>1, <4>2
    <3>4. TokenKeyOf(l) = key
      BY <3>3, LegSays DEF TokenKeyOf, TokenKeys
    <3>5. QED
      BY <3>2, <3>3, <3>4, LegSays DEF LegsOf
  <2>2. QED
    BY <2>1
<1>3. \A l \in own : \E r \in rows0 : l.id = r.id
  <2>1. ASSUME NEW l \in own PROVE \E r \in rows0 : l.id = r.id
    <3>1. l \in TokenLegs(R, w, time) /\ TokenKeyOf(l) = key
      BY DEF LegsOf
    <3>2. PICK r \in R : TokenRow(r, w, time) /\ IsLegOf(l, r)
      BY <3>1, LegsAre
    <3>3. l.family = key.family /\ l.chain = key.chain /\ l.address = key.address
      BY <3>1 DEF TokenKeyOf
    <3>4. r \in rows0
      BY <3>2, <3>3, LegSays DEF TokenRow
    <3>5. QED
      BY <3>2, <3>4, LegSays
  <2>2. QED
    BY <2>1
<1>4. Renames(idOf, rows0, IdsOf(own))
  <2>1. \A r \in rows0 : idOf[r] = r.id
    OBVIOUS
  <2>2. \A x, y \in rows0 : x.id = y.id => x = y
    BY <1>1 DEF Readable
  <2> HIDE DEF idOf, rows0, own
  <2>3. QED
    BY <1>2, <1>3, <2>1, <2>2 DEF Renames, IdsOf
<1>5. Partition(group, rows0, P) /\ IsFiniteSet(P)
  <2>1. Partition(group, rows0, P)
    BY DEF Partition
  <2> DEFINE f == [r \in rows0 |-> <<r.in, r.out>>]
  <2>2. {f[r] : r \in rows0} = P
    OBVIOUS
  <2> HIDE DEF f, rows0
  <2>3. IsFiniteSet({f[r] : r \in rows0})
    BY <1>1, FiniteImage
  <2>4. QED
    BY <2>1, <2>2, <2>3
<1>6. E = {[in |-> p[1], out |-> p[2], txCount |-> Cardinality(of(p))] : p \in P}
  BY Zenon DEF TokenPairs
<1>7. \A p \in P : p = <<entry[p].in, entry[p].out>> /\ entry[p].txCount = Cardinality(group[p])
  <2>1. \A p \in P : p = <<p[1], p[2]>>
    OBVIOUS
  <2> HIDE DEF of, P
  <2>2. QED
    BY <2>1
<1>8. /\ \A p \in P : entry[p] \in E
      /\ \A e \in E : \E p \in P : e = entry[p]
  <2> HIDE DEF of, P, E
  <2>1. QED
    BY <1>6
<1> HIDE DEF entry, group, P, E, rows0, own, idOf
<1>9. Renames(entry, P, E)
  BY <1>7, <1>8 DEF Renames
<1>10. \A p \in P : TxIn(E)[entry[p]] = Cardinality(group[p])
  BY <1>7, <1>8 DEF TxIn
<1>11. IsFiniteSet(E) /\ SumFunctionOnSet(TxIn(E), E) = Cardinality(rows0)
  BY <1>1, <1>5, <1>9, <1>10, CountShares
<1>12. Cardinality(IdsOf(own)) = Cardinality(rows0)
  BY <1>1, <1>4, SameCount
<1>13. TxOf(E) = LegRows(own)
  <2>1. LegRows(own) = Cardinality(IdsOf(own))
    BY Zenon DEF LegRows, IdsOf
  <2>2. TxOf(E) = SumFunctionOnSet(TxIn(E), E)
    BY <1>11, TotalsOf
  <2>3. QED
    BY <1>11, <1>12, <2>1, <2>2
<1>14. QED
  BY <1>13 DEF E, own

\* The chain the registry names for a token does not depend on the protocol
\* that is asked first, so more protocols never name another one.
LEMMA SlugOfMore ==
    ASSUME NEW family \in Families, NEW chain, NEW P, NEW Q, P \subseteq Q,
           ChainSlugOf(family, chain, P) # None
    PROVE  ChainSlugOf(family, chain, Q) = ChainSlugOf(family, chain, P)
<1> DEFINE Slugs(S) == {ResolveChain(p, family, chain) : p \in S} \ {None}
<1>1. \A S : ChainSlugOf(family, chain, S)
               = IF Slugs(S) = {} THEN None ELSE CHOOSE s \in Slugs(S) : TRUE
  BY DEF ChainSlugOf
<1>2. \A p, q : \/ ResolveChain(p, family, chain) = None
                \/ ResolveChain(q, family, chain) = None
                \/ ResolveChain(p, family, chain) = ResolveChain(q, family, chain)
  <2>1. \A p, q : <<p, chain>> \in DOMAIN SolanaChains /\ <<q, chain>> \in DOMAIN SolanaChains
                    => SolanaChains[<<p, chain>>] = SolanaChains[<<q, chain>>]
    BY ReadsAssumption
  <2>2. QED
    BY <2>1 DEF ResolveChain
<1>3. Slugs(P) \subseteq Slugs(Q) /\ \A x, y \in Slugs(Q) : x = y
  BY <1>2
<1> HIDE DEF Slugs
<1>4. Slugs(P) # {}
  BY <1>1
<1>5. (CHOOSE s \in Slugs(P) : TRUE) \in Slugs(P) /\ (CHOOSE s \in Slugs(Q) : TRUE) \in Slugs(Q)
  BY <1>3, <1>4
<1>6. QED
  BY <1>1, <1>3, <1>4, <1>5

\* A window without an end holds the legs of every other window.
LEMMA MoreLegs ==
    ASSUME NEW R, NEW w, NEW time, NEW v, NEW at, v.count = None
    PROVE  TokenLegs(R, w, time) \subseteq TokenLegs(R, v, at)
<1>1. \A r : TokenRow(r, w, time) => TokenRow(r, v, at)
  BY DEF TokenRow, InBuckets
<1>2. \A l \in TokenLegs(R, w, time) : l \in TokenLegs(R, v, at)
  BY <1>1, LegsAre
<1>3. QED
  BY <1>2

ProtocolsOf(legs) == {l.protocol : l \in legs}

LEMMA KeyOnItsSlug ==
    ASSUME NEW R, NEW w, NEW time, NEW key \in TokenKeys, NEW own,
           own = LegsOf(TokenLegs(R, w, time), key), own # {},
           ChainSlugOf(key.family, key.chain, ProtocolsOf(own)) # None
    PROVE  key \in TokenKeysOn(R, ChainSlugOf(key.family, key.chain, ProtocolsOf(own)), key.address)
<1> DEFINE v == [seconds |-> DayTicks, count |-> None]
           legs == {l \in TokenLegs(R, v, 0) : l.address = key.address}
           Q == {l.protocol : l \in LegsOf(legs, key)}
           c == [key |-> key, protocols |-> Q]
           slug == ChainSlugOf(key.family, key.chain, ProtocolsOf(own))
<1>1. own \subseteq LegsOf(legs, key)
  <2>1. TokenLegs(R, w, time) \subseteq TokenLegs(R, v, 0)
    BY MoreLegs
  <2>2. \A l \in own : l \in TokenLegs(R, w, time) /\ TokenKeyOf(l) = key
    BY DEF LegsOf
  <2>3. \A l \in own : l.address = key.address
    BY <2>2 DEF TokenKeyOf
  <2>4. \A l \in own : l \in legs
    BY <2>1, <2>2, <2>3
  <2> HIDE DEF legs
  <2>5. QED
    BY <2>2, <2>4 DEF LegsOf
<1>2. ProtocolsOf(own) \subseteq Q
  BY <1>1 DEF ProtocolsOf
<1>3. key \in {TokenKeyOf(l) : l \in legs}
  BY <1>1 DEF LegsOf
<1>4. c \in TokenChainCandidates(R, key.address)
  <2>1. TokenChainCandidates(R, key.address)
          = {[key |-> k, protocols |-> {l.protocol : l \in LegsOf(legs, k)}]
               : k \in {TokenKeyOf(l) : l \in legs}}
    BY Zenon DEF TokenChainCandidates
  <2> HIDE DEF legs
  <2>2. QED
    BY <1>3, <2>1
<1> HIDE DEF Q
<1>5. c.key = key /\ c.protocols = Q
  OBVIOUS
<1> HIDE DEF c, slug
<1>6. ChainSlugOf(key.family, key.chain, Q) = slug
  <2>1. key.family \in Families
    BY DEF TokenKeys
  <2>2. QED
    BY <1>2, <2>1, SlugOfMore DEF slug
<1>7. ChainSlugOf(c.key.family, c.key.chain, c.protocols) = slug
  BY <1>5, <1>6
<1>8. key \in TokenKeysOn(R, slug, key.address)
  BY <1>4, <1>5, <1>7 DEF TokenKeysOn
<1>9. QED
  BY <1>8 DEF slug

BarTx(chart) == SumFunction([t \in DOMAIN chart |-> chart[t].txCount])

\* The bars of a series count no more rows than the legs have.
LEMMA SeriesTx ==
    ASSUME NEW legs, RowLegs(legs), NEW time \in Int, NEW seconds \in Nat \ {0}, NEW first \in Int
    PROVE  BarTx(Series(legs, first, time, seconds)) <= LegRows(legs)
BY SeriesTotals DEF BarTx

\* The page of one token with legs: its panels add up to its totals.
LEMMA TokenPanels ==
    ASSUME NEW R, Readable(R), NEW plan, NEW time \in Int, NEW key \in TokenKeys,
           NEW w, w = BucketWindowOf(plan), w.seconds \in Nat \ {0}, w.count \in Int \cup {None},
           NEW own, own = LegsOf(TokenLegs(R, w, time), key), own # {},
           NEW detail, detail = TokenDetail(R, plan, key, time)
    PROVE  /\ detail.volume = LegUsd(own) /\ detail.txCount = LegRows(own)
           /\ detail.agentCount = Cardinality(AgentsOf(own))
           /\ VolumeOf(detail.protocols) = LegUsd(own)
           /\ TxOf(detail.protocols) = LegRows(own)
           /\ TxOf(detail.pairs) = LegRows(own)
           /\ BarTx(detail.series) <= LegRows(own)
<1> DEFINE first == IF w.count # None THEN FirstStart(time, w.seconds, w.count)
                    ELSE IF own = {} THEN Bucket(time, w.seconds)
                    ELSE Min({Bucket(l.at, w.seconds) : l \in own})
           chart == Series(own, first, time, w.seconds)
<1>1. RowLegs(own)
  <2>1. own \in SUBSET TokenLegs(R, w, time)
    BY DEF LegsOf
  <2>2. QED
    BY <2>1, TokenLegsAreRowLegs
<1>2. /\ detail.volume = LegUsd(own) /\ detail.txCount = LegRows(own)
      /\ detail.agentCount = Cardinality(AgentsOf(own))
      /\ detail.protocols = TokenProtocols(R, w, key, time)
      /\ detail.pairs = TokenPairs(R, w, key, time)
      /\ detail.series = TokenSeries(R, w, key, time)
  BY Zenon DEF TokenDetail, AgentsOf
<1>3. detail.series = chart
  BY <1>2, Zenon DEF TokenSeries
<1>4. detail.protocols = LegProtocols(own)
  <2>1. TokenProtocols(R, w, key, time) = LegProtocols(own)
    BY ZenonT(20) DEF TokenProtocols, LegProtocols
  <2>2. QED
    BY <1>2, <2>1, Zenon
<1>5. first \in Int
  <2>1. CASE w.count # None
    BY <2>1, BucketWindow
  <2>2. CASE w.count = None
    <3> DEFINE starts == {Bucket(l.at, w.seconds) : l \in own}
               f == [l \in own |-> Bucket(l.at, w.seconds)]
    <3>1. \A l \in own : Bucket(l.at, w.seconds) \in Int
      BY <1>1, BucketInt DEF RowLegs
    <3>2. starts # {} /\ starts \in SUBSET Int
      BY <3>1
    <3>3. IsFiniteSet(starts)
      <4>1. {f[l] : l \in own} = starts
        OBVIOUS
      <4>2. IsFiniteSet(own)
        BY <1>1 DEF RowLegs
      <4> HIDE DEF f
      <4>3. IsFiniteSet({f[l] : l \in own})
        BY <4>2, FiniteImage
      <4>4. QED
        BY <4>1, <4>3, Zenon
    <3>4. first = Min(starts)
      BY <2>2, Zenon
    <3> HIDE DEF first, starts
    <3>5. QED
      BY <3>2, <3>3, <3>4, MinInt
  <2>3. QED
    BY <2>1, <2>2
<1>e. chart = Series(own, first, time, w.seconds)
  OBVIOUS
<1> HIDE DEF first, chart
<1>6. BarTx(chart) <= LegRows(own)
  <2>1. BarTx(Series(own, first, time, w.seconds)) <= LegRows(own)
    BY <1>1, <1>5, SeriesTx
  <2>2. QED
    BY <2>1, <1>e, Zenon
<1>7. BarTx(detail.series) <= LegRows(own)
  BY <1>3, <1>6, Zenon
<1>8. VolumeOf(LegProtocols(own)) = LegUsd(own) /\ TxOf(LegProtocols(own)) = LegRows(own)
  BY <1>1, LegShares
<1>9. VolumeOf(detail.protocols) = LegUsd(own) /\ TxOf(detail.protocols) = LegRows(own)
  BY <1>4, <1>8, Zenon
<1>10. TxOf(TokenPairs(R, w, key, time)) = LegRows(own)
  <2>1. key.address # None
    <3>1. PICK l \in own : TRUE
      OBVIOUS
    <3>2. l \in TokenLegs(R, w, time) /\ TokenKeyOf(l) = key
      BY DEF LegsOf
    <3>3. l.address # None
      BY <3>2, LegsAre, LegSays
    <3>4. QED
      BY <3>2, <3>3 DEF TokenKeyOf
  <2>2. QED
    BY <2>1, PairsTotal
<1>11. TxOf(detail.pairs) = LegRows(own)
  BY <1>2, <1>10, Zenon
<1>12. QED
  BY <1>2, <1>7, <1>9, <1>11

\* Every entry of the listing is the totals of one token with legs.
LEMMA ListingEntries ==
    ASSUME NEW R, Readable(R), NEW plan, NEW time, NEW legs,
           legs = TokenLegs(R, BucketWindowOf(plan), time),
           NEW listing, listing = TokenListing(R, plan, time, None)
    PROVE  \A k \in DOMAIN listing :
             \E key \in TokenKeys : listing[k] = TokenStat(legs, key) /\ LegsOf(legs, key) # {}
<1> DEFINE S == TokensOf(legs)
           B == TokenOrder(S)
<1>1. IsFiniteSet(legs) /\ \A l \in legs : LegSound(l)
  BY LegsSound
<1>2. IsFiniteSet(S) /\ Orders(B, S)
  <2>1. /\ IsFiniteSet(S) /\ \A x \in S : StatSound(x)
        /\ \A x, y \in S : x.key = y.key => x = y
    BY <1>1, TokensSound
  <2> HIDE DEF S
  <2>2. QED
    BY <2>1, TokensOrdered
<1>3. \A x \in S : \E key \in TokenKeys : x = TokenStat(legs, key) /\ LegsOf(legs, key) # {}
  <2>1. \A x \in S : \E l \in legs : x = TokenStat(legs, TokenKeyOf(l))
    BY DEF TokensOf
  <2>2. \A l \in legs : TokenKeyOf(l) \in TokenKeys /\ LegsOf(legs, TokenKeyOf(l)) # {}
    BY <1>1 DEF LegSound, LegsOf
  <2>3. QED
    BY <2>1, <2>2
<1>4. listing = Placed(S, PlaceIn(B, S))
  <2>1. {x \in S : AfterToken(x, None)} = S
    BY DEF AfterToken
  <2>2. listing = Ranked({x \in S : AfterToken(x, None)}, TokenBefore)
    BY Zenon DEF TokenListing, TokensOf
  <2> HIDE DEF S
  <2>3. listing = Ranked(S, TokenBefore)
    BY <2>1, <2>2, Zenon
  <2>4. QED
    BY <2>3, RankedTokens
<1> HIDE DEF S, B
<1>5. listing \in Seq(S)
  BY <1>2, <1>4, PlacedInOrder
<1>6. \A k \in DOMAIN listing : listing[k] \in S
  <2>1. \A k \in 1 .. Len(listing) : listing[k] \in S
    BY <1>5, ElementOfSeq
  <2>2. DOMAIN listing = 1 .. Len(listing)
    BY <1>5, LenProperties
  <2>3. QED
    BY <2>1, <2>2
<1>7. QED
  BY <1>3, <1>6

\* A line over two days never shows more than the page of the whole time.
LEMMA SparkTotal ==
    ASSUME NEW R, Readable(R), NEW time \in Int, NEW w, w.count = None,
           NEW key, NEW own, own = LegsOf(TokenLegs(R, w, time), key),
           NEW spark, spark = SparklineSeries(R, key, time, 2)
    PROVE  SumFunction([t \in DOMAIN spark |-> spark[t].volume]) <= LegUsd(own)
<1> DEFINE v == [seconds |-> DayTicks, count |-> 2]
           late == LegsOf(TokenLegs(R, v, time), key)
           first == FirstStart(time, DayTicks, 2)
<1>1. own \in SUBSET TokenLegs(R, w, time) /\ late \in SUBSET own
  <2>1. TokenLegs(R, v, time) \subseteq TokenLegs(R, w, time)
    BY MoreLegs
  <2> HIDE DEF v
  <2>2. QED
    BY <2>1 DEF LegsOf
<1>2. spark = Series(late, first, time, DayTicks)
  BY Zenon DEF SparklineSeries
<1>3. DayTicks \in Nat \ {0} /\ first \in Int
  <2>1. DayTicks \in Nat \ {0}
    BY FeedAssumption
  <2>2. QED
    BY <2>1, BucketWindow
<1> HIDE DEF late, first
<1>4. RowLegs(own)
  BY <1>1, TokenLegsAreRowLegs
<1>5. /\ RowLegs(late) /\ \A l \in own : UsdOf(own)[l] \in Nat
      /\ LegUsd(late) = SumFunctionOnSet(UsdOf(own), late)
      /\ LegUsd(own) = SumFunctionOnSet(UsdOf(own), own)
      /\ LegUsd(late) \in Nat /\ LegUsd(own) \in Nat
  <2>1. own \in SUBSET own
    OBVIOUS
  <2>2. QED
    BY <1>1, <1>4, <2>1, LegSums
<1>6. LegUsd(late) <= LegUsd(own)
  <2>1. IsFiniteSet(own)
    BY <1>4 DEF RowLegs
  <2>2. SumFunctionOnSet(UsdOf(own), late) <= SumFunctionOnSet(UsdOf(own), own)
    BY <1>1, <1>5, <2>1, SumNat
  <2>3. QED
    BY <1>5, <2>2
<1>7. SumFunction([t \in DOMAIN spark |-> spark[t].volume]) <= LegUsd(late)
  BY <1>2, <1>3, <1>5, SeriesTotals
<1>8. SumFunction([t \in DOMAIN spark |-> spark[t].volume]) \in Int
  <2> DEFINE D == DOMAIN spark
             f == [t \in D |-> spark[t].volume]
             of(t) == {l \in late : Bucket(l.at, DayTicks) = t}
  <2>1. D = BucketStarts(first, Bucket(time, DayTicks), DayTicks)
        /\ \A t \in D : f[t] = LegUsd(of(t))
    BY <1>2 DEF Series
  <2>2. \A t \in D : f[t] \in Int
    <3>1. \A t \in D : of(t) \in SUBSET late
      OBVIOUS
    <3>2. \A t \in D : LegUsd(of(t)) \in Nat
      <4> HIDE DEF of
      <4>1. QED
        BY <1>5, <3>1, LegSums
    <3> HIDE DEF of, f
    <3>3. QED
      BY <2>1, <3>2
  <2>3. IsFiniteSet(D)
    <3>1. Bucket(time, DayTicks) \in Int
      BY <1>3, BucketInt
    <3>2. IsFiniteSet(first .. Bucket(time, DayTicks))
      BY <1>3, <3>1, FS_Interval
    <3> HIDE DEF D
    <3>3. QED
      BY <2>1, <3>2, FS_Subset DEF BucketStarts
  <2>4. DOMAIN f = D
    OBVIOUS
  <2> HIDE DEF f, D
  <2>5. SumFunction(f) = SumFunctionOnSet(f, D)
    BY <2>3, <2>4, SumOverIs
  <2>6. SumFunction(f) \in Int
    BY <2>2, <2>3, <2>5, SumInt
  <2>7. QED
    BY <2>6 DEF f, D
<1>9. QED
  <2> DEFINE total == SumFunction([t \in DOMAIN spark |-> spark[t].volume])
  <2>1. total \in Int /\ total <= LegUsd(late)
    BY <1>7, <1>8
  <2> HIDE DEF total
  <2>2. total <= LegUsd(own)
    BY <1>5, <1>6, <2>1
  <2>3. QED
    BY <2>2 DEF total

LEMMA TokensShare ==
    ASSUME FeedInv, NEW plan \in Plans
    PROVE  TokensAgree(plan)
<1> DEFINE listing == TokenListing(Table, plan, now, None)
           w == BucketWindowOf(plan)
           legs == TokenLegs(Table, w, now)
<1>1. Readable(Table) /\ now \in Int
  BY TableReadable DEF FeedInv
<1>2. w.seconds \in Nat \ {0} /\ w.count \in Int \cup {None} /\ w.count = plan.count
  BY ReadsAssumption, FeedAssumption DEF BucketWindowOf
<1>e. w = BucketWindowOf(plan) /\ legs = TokenLegs(Table, w, now)
        /\ listing = TokenListing(Table, plan, now, None)
  OBVIOUS
<1> HIDE DEF w, legs, listing
<1>3. \A k \in DOMAIN listing :
        \E key \in TokenKeys : listing[k] = TokenStat(legs, key) /\ LegsOf(legs, key) # {}
  <2>1. legs = TokenLegs(Table, BucketWindowOf(plan), now)
    BY <1>e
  <2>2. QED
    BY <1>1, <1>e, <2>1, ListingEntries
<1> DEFINE Detail(key) == TokenDetail(Table, plan, key, now)
           Spark(key) == SparklineSeries(Table, key, now, 2)
           Slug(k) == ChainSlugOf(listing[k].key.family, listing[k].key.chain, listing[k].protocols)
<1>4. ASSUME NEW k \in DOMAIN listing
      PROVE  LET key == listing[k].key
                 detail == Detail(key)
                 slug == Slug(k)
                 spark == Spark(key)
             IN /\ detail.volume = listing[k].volume
                /\ detail.txCount = listing[k].txCount
                /\ detail.agentCount = listing[k].agentCount
                /\ VolumeOf(detail.protocols) = detail.volume
                /\ TxOf(detail.protocols) = detail.txCount
                /\ TxOf(detail.pairs) = detail.txCount
                /\ BarTx(detail.series)
                     <= detail.txCount
                /\ plan.count = None =>
                     SumFunction([t \in DOMAIN spark |-> spark[t].volume]) <= detail.volume
                /\ slug # None => key \in TokenKeysOn(Table, slug, key.address)
  <2>1. PICK key \in TokenKeys : listing[k] = TokenStat(legs, key) /\ LegsOf(legs, key) # {}
    BY <1>3
  <2> DEFINE own == LegsOf(legs, key)
             detail == Detail(key)
             spark == Spark(key)
             slug == ChainSlugOf(key.family, key.chain, ProtocolsOf(own))
  <2>2. /\ listing[k].key = key /\ listing[k].volume = LegUsd(own)
        /\ listing[k].txCount = LegRows(own)
        /\ listing[k].agentCount = Cardinality(AgentsOf(own))
        /\ listing[k].protocols = ProtocolsOf(own)
    BY <2>1 DEF TokenStat, ProtocolsOf, AgentsOf
  <2>e. /\ own = LegsOf(TokenLegs(Table, w, now), key) /\ own # {}
        /\ detail = TokenDetail(Table, plan, key, now)
        /\ spark = SparklineSeries(Table, key, now, 2)
    BY <1>e, <2>1
  <2>x. Slug(k) = slug
    BY <2>2, Zenon
  <2>y. Detail(listing[k].key) = detail /\ Spark(listing[k].key) = spark
    BY <2>2, Zenon
  <2>z. slug = ChainSlugOf(key.family, key.chain, ProtocolsOf(own))
    OBVIOUS
  <2> HIDE DEF own, detail, spark, slug, Detail, Spark, Slug
  <2>3. /\ detail.volume = LegUsd(own) /\ detail.txCount = LegRows(own)
        /\ detail.agentCount = Cardinality(AgentsOf(own))
        /\ VolumeOf(detail.protocols) = LegUsd(own)
        /\ TxOf(detail.protocols) = LegRows(own)
        /\ TxOf(detail.pairs) = LegRows(own)
        /\ BarTx(detail.series) <= LegRows(own)
    <3>1. /\ Readable(Table) /\ now \in Int /\ key \in TokenKeys
          /\ w = BucketWindowOf(plan) /\ w.seconds \in Nat \ {0} /\ w.count \in Int \cup {None}
          /\ own = LegsOf(TokenLegs(Table, w, now), key) /\ own # {}
          /\ detail = TokenDetail(Table, plan, key, now)
      BY <1>1, <1>2, <1>e, <2>e
    <3>2. QED
      BY <3>1, TokenPanels
  <2>4. plan.count = None => SumFunction([t \in DOMAIN spark |-> spark[t].volume]) <= LegUsd(own)
    BY <1>1, <1>2, <2>e, SparkTotal
  <2>5. slug # None => key \in TokenKeysOn(Table, slug, key.address)
    BY <2>e, <2>z, KeyOnItsSlug
  <2>6. /\ detail.volume = listing[k].volume
        /\ detail.txCount = listing[k].txCount
        /\ detail.agentCount = listing[k].agentCount
        /\ VolumeOf(detail.protocols) = detail.volume
        /\ TxOf(detail.protocols) = detail.txCount
        /\ TxOf(detail.pairs) = detail.txCount
        /\ BarTx(detail.series) <= detail.txCount
        /\ plan.count = None =>
             SumFunction([t \in DOMAIN spark |-> spark[t].volume]) <= detail.volume
        /\ slug # None => key \in TokenKeysOn(Table, slug, key.address)
    BY <2>2, <2>3, <2>4, <2>5, Zenon
  <2>7. QED
    BY <2>2, <2>6, <2>x, <2>y, Zenon
<1>5. QED
  BY <1>4, Zenon DEF TokensAgree, listing, Detail, Spark, Slug, SumOver, BarTx

\* In every state and for every range: the page of a token and its entry in
\* the listing tell the same story, its panels add up to its totals, and the
\* address of a token leads back to its page.
THEOREM TokensTellOneStory == Spec => [](\A plan \in Plans : TokensAgree(plan))
<1>1. FeedInv => \A plan \in Plans : TokensAgree(plan)
  BY TokensShare
<1>2. QED
  BY <1>1, WalkKeepsItsPlace, PTL

-----------------------------------------------------------------------------
(* Bridge rows and their groups *)

BridgeRows(R, window, time) ==
    {r \in R : Verified(r) /\ r.kind = "bridge" /\ InClosedWindow(r, window, time)}

BridgeKey(r) == <<r.protocol, r.from, r.to>>

GroupKey(g) == <<g.protocol, g.from, g.to>>

RowsOf(legs, k) == {r \in legs : BridgeKey(r) = k}

\* One group for each key of the rows, with what its rows add up to.
Grouped(groups, legs) ==
    /\ IsFiniteSet(groups)
    /\ \A g \in groups : /\ g.legCount = Cardinality(RowsOf(legs, GroupKey(g)))
                         /\ g.volume = UsdInSum(Deposits(RowsOf(legs, GroupKey(g))))
    /\ \A r \in legs : \E g \in groups : GroupKey(g) = BridgeKey(r)
    /\ \A g \in groups : \E r \in legs : GroupKey(g) = BridgeKey(r)
    /\ \A g, h \in groups : GroupKey(g) = GroupKey(h) => g = h

LEMMA GroupsAreGrouped ==
    ASSUME NEW R, Readable(R), NEW window, NEW time
    PROVE  /\ BridgeRows(R, window, time) \in SUBSET R
           /\ Grouped(BridgeLegGroups(R, window, time), BridgeRows(R, window, time))
<1> DEFINE legs == BridgeRows(R, window, time)
           K == {BridgeKey(r) : r \in legs}
           Entry(k) == [protocol |-> k[1], from |-> k[2], to |-> k[3],
                        legCount |-> Cardinality(RowsOf(legs, k)),
                        volume |-> UsdInSum(Deposits(RowsOf(legs, k)))]
           groups == BridgeLegGroups(R, window, time)
           entry == [k \in K |-> Entry(k)]
<1>1. legs \in SUBSET R /\ IsFiniteSet(legs)
  BY FS_Subset DEF Readable, BridgeRows
<1>2. groups = {Entry(k) : k \in K}
  BY Zenon DEF BridgeLegGroups, BridgeRows, BridgeKey, RowsOf
<1>3. \A k \in K : k = <<k[1], k[2], k[3]>>
  BY DEF BridgeKey
<1>4. \A k \in K : /\ Entry(k).legCount = Cardinality(RowsOf(legs, k))
                   /\ Entry(k).volume = UsdInSum(Deposits(RowsOf(legs, k)))
                   /\ GroupKey(Entry(k)) = k
  <2> HIDE DEF K, legs
  <2>1. QED
    BY <1>3 DEF GroupKey
<1>5. IsFiniteSet(groups)
  <2> DEFINE f == [r \in legs |-> Entry(BridgeKey(r))]
  <2>1. {f[r] : r \in legs} = groups
    <3> HIDE DEF Entry, groups, legs
    <3>1. {f[r] : r \in legs} = {Entry(k) : k \in K}
      OBVIOUS
    <3>2. QED
      BY <1>2, <3>1, Zenon
  <2> HIDE DEF f, legs, groups
  <2>2. IsFiniteSet({f[r] : r \in legs})
    BY <1>1, FiniteImage
  <2>3. QED
    BY <2>1, <2>2, Zenon
<1>6. \A g \in groups : \E k \in K : g = Entry(k)
  <2> HIDE DEF Entry, groups, legs, K
  <2>1. QED
    BY <1>2
<1>7. \A k \in K : Entry(k) \in groups
  <2> HIDE DEF Entry, groups, legs, K
  <2>1. QED
    BY <1>2
<1>8. /\ \A r \in legs : BridgeKey(r) \in K
      /\ \A k \in K : \E r \in legs : k = BridgeKey(r)
  OBVIOUS
<1> HIDE DEF Entry, groups, legs, K
<1>9. \A g \in groups : /\ g.legCount = Cardinality(RowsOf(legs, GroupKey(g)))
                        /\ g.volume = UsdInSum(Deposits(RowsOf(legs, GroupKey(g))))
  <2>1. ASSUME NEW g \in groups
        PROVE  /\ g.legCount = Cardinality(RowsOf(legs, GroupKey(g)))
               /\ g.volume = UsdInSum(Deposits(RowsOf(legs, GroupKey(g))))
    <3>1. PICK k \in K : g = Entry(k)
      BY <1>6
    <3>2. GroupKey(g) = k
      BY <1>4, <3>1
    <3>3. g.legCount = Cardinality(RowsOf(legs, k)) /\ g.volume = UsdInSum(Deposits(RowsOf(legs, k)))
      BY <1>4, <3>1
    <3>4. QED
      BY <3>2, <3>3, Zenon
  <2>2. QED
    BY <2>1
<1>10. \A g, h \in groups : GroupKey(g) = GroupKey(h) => g = h
  BY <1>4, <1>6
<1>11. \A r \in legs : \E g \in groups : GroupKey(g) = BridgeKey(r)
  BY <1>4, <1>7, <1>8
<1>12. \A g \in groups : \E r \in legs : GroupKey(g) = BridgeKey(r)
  BY <1>4, <1>6, <1>8
<1>13. Grouped(groups, legs)
  BY <1>5, <1>9, <1>10, <1>11, <1>12, Zenon DEF Grouped
<1>14. QED
  BY <1>1, <1>13 DEF groups, legs

\* Some of the groups count and sum their rows.
LEMMA GroupSums ==
    ASSUME NEW R, Readable(R), NEW legs \in SUBSET R, NEW groups, Grouped(groups, legs),
           NEW K \in SUBSET groups, NEW Q \in SUBSET legs,
           \A r \in legs : r \in Q <=> \E g \in K : GroupKey(g) = BridgeKey(r)
    PROVE  LegCount(K) = Cardinality(Q) /\ VolumeOf(K) = UsdInSum(Deposits(Q))
<1> DEFINE group == [g \in K |-> RowsOf(legs, GroupKey(g))]
           sums == [g \in K |-> Deposits(RowsOf(legs, GroupKey(g)))]
           n == [g \in K |-> g.legCount]
<1>1. IsFiniteSet(K) /\ IsFiniteSet(legs) /\ IsFiniteSet(Q)
  BY FS_Subset DEF Grouped, Readable
<1>2. \A g, h \in K : GroupKey(g) = GroupKey(h) => g = h
  BY DEF Grouped
<1>3. \A g \in K : \A r : r \in group[g] <=> r \in legs /\ BridgeKey(r) = GroupKey(g)
  BY DEF RowsOf
<1>4. \A g \in K : \A r : r \in sums[g] <=> r \in group[g] /\ r.role = "bridge_deposit"
  BY DEF Deposits
<1>5. \A g \in K : n[g] = Cardinality(group[g]) /\ g.volume = UsdInSum(sums[g])
  <2>1. \A g \in K : n[g] = g.legCount /\ g.legCount = Cardinality(RowsOf(legs, GroupKey(g)))
                     /\ g.volume = UsdInSum(Deposits(RowsOf(legs, GroupKey(g))))
    BY DEF Grouped
  <2>2. \A g \in K : group[g] = RowsOf(legs, GroupKey(g)) /\ sums[g] = Deposits(RowsOf(legs, GroupKey(g)))
    OBVIOUS
  <2>3. ASSUME NEW g \in K
        PROVE  n[g] = Cardinality(group[g]) /\ g.volume = UsdInSum(sums[g])
    <3> HIDE DEF n, group, sums
    <3>1. QED
      BY <2>1, <2>2, Zenon
  <2>4. QED
    BY <2>3
<1>6. DOMAIN n = K /\ LegCount(K) = SumFunction(n)
  BY DEF LegCount, SumOver
<1> HIDE DEF group, sums, n
<1>7. Partition(group, Q, K)
  <2>1. \A g \in K : group[g] \in SUBSET Q
    BY <1>3
  <2>2. \A r \in Q : \E g \in K : r \in group[g]
    BY <1>3
  <2>3. \A g, h \in K : \A r \in group[g] : r \in group[h] => g = h
    BY <1>2, <1>3
  <2>4. QED
    BY <2>1, <2>2, <2>3 DEF Partition
<1>8. Partition(sums, Deposits(Q), K)
  <2>1. \A r : r \in Deposits(Q) <=> r \in Q /\ r.role = "bridge_deposit"
    BY DEF Deposits
  <2>2. \A g \in K : sums[g] \in SUBSET Deposits(Q)
    BY <1>4, <1>7, <2>1 DEF Partition
  <2>3. \A r \in Deposits(Q) : \E g \in K : r \in sums[g]
    BY <1>4, <1>7, <2>1 DEF Partition
  <2>4. \A g, h \in K : \A r \in sums[g] : r \in sums[h] => g = h
    BY <1>4, <1>7 DEF Partition
  <2>5. QED
    BY <2>2, <2>3, <2>4 DEF Partition
<1>9. LegCount(K) = Cardinality(Q)
  <2>1. SumFunctionOnSet(n, K) = Cardinality(Q)
    BY <1>1, <1>5, <1>7, CountGroups
  <2>2. SumFunction(n) = SumFunctionOnSet(n, K)
    BY <1>1, <1>6, SumOverIs
  <2>3. QED
    BY <1>6, <2>1, <2>2
<1>10. Deposits(Q) \in SUBSET R
  BY DEF Deposits
<1>11. /\ IsFiniteSet(Deposits(Q)) /\ \A r \in Deposits(Q) : UsdIn(R)[r] \in Int
       /\ UsdInSum(Deposits(Q)) = SumFunctionOnSet(UsdIn(R), Deposits(Q))
  BY <1>10, UsdInSumIs
<1>12. \A g \in K : VolumeIn(K)[g] = SumFunctionOnSet(UsdIn(R), sums[g])
  <2>1. \A g \in K : sums[g] \in SUBSET R
    BY <1>8, <1>10 DEF Partition
  <2>2. \A g \in K : UsdInSum(sums[g]) = SumFunctionOnSet(UsdIn(R), sums[g])
    BY <2>1, UsdInSumIs
  <2>3. \A g \in K : VolumeIn(K)[g] = g.volume
    BY DEF VolumeIn
  <2>4. QED
    BY <1>5, <2>2, <2>3
<1>13. SumFunctionOnSet(VolumeIn(K), K) = SumFunctionOnSet(UsdIn(R), Deposits(Q))
  <2>1. \A r \in Deposits(Q) : UsdIn(R)[r] \in Int
    BY <1>11
  <2>2. QED
    BY <1>1, <1>8, <1>11, <1>12, <2>1, SumGroups
<1>14. VolumeOf(K) = UsdInSum(Deposits(Q))
  BY <1>1, <1>11, <1>13, TotalsOf
<1>15. QED
  BY <1>9, <1>14

Rendered(legs) == {ToActivityRow(r) : r \in legs}

Leaving(shown, slug) == {b \in shown : b.from = slug}

Arriving(shown, slug) == {b \in shown : b.to = slug}

\* What the network list counts of the groups, and what the feed renders of
\* the rows.
LEMMA BridgesCounted ==
    ASSUME NEW R, Readable(R), NEW window, NEW time, NEW slug,
           NEW shown, shown = Rendered(BridgeRows(R, window, time)),
           NEW counts, counts = BridgeCounts(BridgeLegGroups(R, window, time), slug)
    PROVE  /\ counts.bridgeOut = Cardinality(Leaving(shown, slug))
           /\ counts.bridgeIn = Cardinality(Arriving(shown, slug))
<1> DEFINE legs == BridgeRows(R, window, time)
           groups == BridgeLegGroups(R, window, time)
           out == {g \in groups : FromSlug(g) = slug}
           in == {g \in groups : ToSlug(g) = slug}
           outRows == {r \in legs : BridgeLegSlug(r.protocol, r.from) = slug}
           inRows == {r \in legs : BridgeLegSlug(r.protocol, r.to) = slug}
           outShown == Leaving(shown, slug)
           inShown == Arriving(shown, slug)
           render == [r \in legs |-> ToActivityRow(r)]
<1>1. legs \in SUBSET R /\ Grouped(groups, legs)
  BY GroupsAreGrouped
<1>2. counts.bridgeOut = LegCount(out) /\ counts.bridgeIn = LegCount(in)
  BY DEF BridgeCounts
<1>3. \A g, r : GroupKey(g) = BridgeKey(r) => FromSlug(g) = BridgeLegSlug(r.protocol, r.from)
                                              /\ ToSlug(g) = BridgeLegSlug(r.protocol, r.to)
  BY DEF GroupKey, BridgeKey, FromSlug, ToSlug
<1>4. LegCount(out) = Cardinality(outRows)
  <2>1. /\ out \in SUBSET groups /\ outRows \in SUBSET legs
        /\ \A r \in legs : r \in outRows <=> \E g \in out : GroupKey(g) = BridgeKey(r)
    <3>1. \A r \in legs : \E g \in groups : GroupKey(g) = BridgeKey(r)
      BY <1>1 DEF Grouped
    <3> HIDE DEF groups, legs
    <3>2. QED
      BY <1>3, <3>1
  <2> HIDE DEF out, outRows, groups, legs
  <2>2. QED
    BY <1>1, <2>1, GroupSums
<1>5. LegCount(in) = Cardinality(inRows)
  <2>1. /\ in \in SUBSET groups /\ inRows \in SUBSET legs
        /\ \A r \in legs : r \in inRows <=> \E g \in in : GroupKey(g) = BridgeKey(r)
    <3>1. \A r \in legs : \E g \in groups : GroupKey(g) = BridgeKey(r)
      BY <1>1 DEF Grouped
    <3> HIDE DEF groups, legs
    <3>2. QED
      BY <1>3, <3>1
  <2> HIDE DEF in, inRows, groups, legs
  <2>2. QED
    BY <1>1, <2>1, GroupSums
<1>6. \A r \in legs : /\ render[r] \in shown /\ render[r].id = r.id
                      /\ render[r].from = BridgeLegSlug(r.protocol, r.from)
                      /\ render[r].to = BridgeLegSlug(r.protocol, r.to)
  <2>1. \A r \in legs : r.kind = "bridge"
    BY DEF BridgeRows
  <2>2. \A r \in legs : render[r] \in shown /\ render[r] = ToActivityRow(r)
    BY DEF Rendered
  <2> HIDE DEF render, legs
  <2>3. \A r : /\ ToActivityRow(r).id = r.id
               /\ r.kind = "bridge" =>
                    /\ ToActivityRow(r).from = BridgeLegSlug(r.protocol, r.from)
                    /\ ToActivityRow(r).to = BridgeLegSlug(r.protocol, r.to)
    BY DEF ToActivityRow
  <2>4. QED
    BY <2>1, <2>2, <2>3, Zenon
<1>7. \A b \in shown : \E r \in legs : render[r] = b
  BY DEF Rendered
<1>8. \A x, y \in legs : render[x] = render[y] => x = y
  <2> HIDE DEF render, legs
  <2>1. \A x, y \in legs : x.id = y.id => x = y
    BY <1>1 DEF Readable
  <2>2. QED
    BY <1>6, <2>1
<1>9. IsFiniteSet(outRows) /\ IsFiniteSet(inRows)
  BY <1>1, FS_Subset DEF Readable
<1>10. Renames(render, outRows, outShown)
  <2>1. /\ \A r : r \in outRows <=> r \in legs /\ BridgeLegSlug(r.protocol, r.from) = slug
        /\ \A b : b \in outShown <=> b \in shown /\ b.from = slug
    BY DEF Leaving
  <2> HIDE DEF render, legs, outRows, outShown
  <2>2. QED
    BY <1>6, <1>7, <1>8, <2>1 DEF Renames
<1>11. Renames(render, inRows, inShown)
  <2>1. /\ \A r : r \in inRows <=> r \in legs /\ BridgeLegSlug(r.protocol, r.to) = slug
        /\ \A b : b \in inShown <=> b \in shown /\ b.to = slug
    BY DEF Arriving
  <2> HIDE DEF render, legs, inRows, inShown
  <2>2. QED
    BY <1>6, <1>7, <1>8, <2>1 DEF Renames
<1> HIDE DEF render, legs, groups, in, out, inRows, outRows, inShown, outShown
<1>12. Cardinality(outShown) = Cardinality(outRows) /\ Cardinality(inShown) = Cardinality(inRows)
  BY <1>9, <1>10, <1>11, SameCount
<1>13. QED
  BY <1>2, <1>4, <1>5, <1>12, Zenon DEF outShown, inShown

-----------------------------------------------------------------------------
(* Routes *)

\* The networks a row, or a group of rows, goes from and to.
RouteOf(x) == <<BridgeLegSlug(x.protocol, x.from), BridgeLegSlug(x.protocol, x.to)>>

KnownRoute(q) == q[1] # None /\ q[2] # None

RouteRows(legs, q) == {r \in legs : RouteOf(r) = q}

RouteEntry(legs, q) ==
    [from |-> q[1], to |-> q[2], legCount |-> Cardinality(RouteRows(legs, q)),
     volume |-> UsdInSum(Deposits(RouteRows(legs, q)))]

RoutesTaken(legs) == {RouteOf(r) : r \in {r \in legs : KnownRoute(RouteOf(r))}}

RouteTable(legs) == {RouteEntry(legs, q) : q \in RoutesTaken(legs)}

LEMMA SameRoute ==
    ASSUME NEW g, NEW r, GroupKey(g) = BridgeKey(r)
    PROVE  RouteOf(g) = RouteOf(r)
BY DEF GroupKey, BridgeKey, RouteOf

LEMMA RoutesAre ==
    ASSUME NEW R, Readable(R), NEW window, NEW time
    PROVE  RoutesOf(RouteGroups(R, window, time)) = RouteTable(BridgeRows(R, window, time))
<1> DEFINE legs == BridgeRows(R, window, time)
           groups == BridgeLegGroups(R, window, time)
           known == RouteGroups(R, window, time)
           Own(q) == {g \in known : <<FromSlug(g), ToSlug(g)>> = q}
           taken == {<<FromSlug(g), ToSlug(g)>> : g \in known}
           Entry(q) == [from |-> q[1], to |-> q[2], legCount |-> LegCount(Own(q)),
                        volume |-> VolumeOf(Own(q))]
<1>1. legs \in SUBSET R /\ Grouped(groups, legs)
  BY GroupsAreGrouped
<1>2. \A g : /\ g \in known <=> g \in groups /\ KnownRoute(RouteOf(g))
             /\ <<FromSlug(g), ToSlug(g)>> = RouteOf(g)
  BY DEF RouteGroups, KnownRoute, RouteOf, FromSlug, ToSlug
<1>3. RoutesOf(known) = {Entry(q) : q \in taken}
  BY Zenon DEF RoutesOf, VolumeOf
<1>4. \A q : q \in taken <=> \E g \in groups : KnownRoute(q) /\ RouteOf(g) = q
  <2>1. \A q : q \in taken <=> \E g \in known : <<FromSlug(g), ToSlug(g)>> = q
    OBVIOUS
  <2> HIDE DEF taken, known, groups
  <2>2. QED
    BY <1>2, <2>1
<1>5. \A q : \A g : g \in Own(q) <=> g \in known /\ RouteOf(g) = q
  BY <1>2
<1>a. /\ \A r \in legs : \E g \in groups : GroupKey(g) = BridgeKey(r)
      /\ \A g \in groups : \E r \in legs : GroupKey(g) = BridgeKey(r)
  <2> HIDE DEF groups, legs
  <2>1. QED
    BY <1>1 DEF Grouped
<1> HIDE DEF legs, groups, known, Own, taken
<1>6. \A q : q \in taken <=> q \in RoutesTaken(legs)
  <2>1. \A q : q \in RoutesTaken(legs) <=> \E r \in legs : KnownRoute(q) /\ RouteOf(r) = q
    BY DEF RoutesTaken
  <2>2. \A q : (\E r \in legs : RouteOf(r) = q) <=> (\E g \in groups : RouteOf(g) = q)
    BY <1>a, SameRoute
  <2>3. QED
    BY <1>4, <2>1, <2>2
<1>7. ASSUME NEW q \in taken
      PROVE  LegCount(Own(q)) = Cardinality(RouteRows(legs, q))
             /\ VolumeOf(Own(q)) = UsdInSum(Deposits(RouteRows(legs, q)))
  <2>1. Own(q) \in SUBSET groups /\ RouteRows(legs, q) \in SUBSET legs
    BY <1>2, <1>5 DEF RouteRows
  <2>2. \A r \in legs : r \in RouteRows(legs, q) <=> RouteOf(r) = q
    BY DEF RouteRows
  <2>3. \A g : g \in Own(q) <=> g \in groups /\ RouteOf(g) = q
    BY <1>2, <1>4, <1>5
  <2>4. \A r \in legs : r \in RouteRows(legs, q) <=> \E g \in Own(q) : GroupKey(g) = BridgeKey(r)
    BY <1>a, <2>2, <2>3, SameRoute
  <2>5. QED
    BY <1>1, <2>1, <2>4, GroupSums
<1>8. \A q \in taken : Entry(q) = RouteEntry(legs, q)
  BY <1>7, Zenon DEF RouteEntry
<1> HIDE DEF Entry
<1>9. {Entry(q) : q \in taken} = RouteTable(legs)
  <2>1. \A x : x \in {Entry(q) : q \in taken} <=> \E q \in taken : x = Entry(q)
    OBVIOUS
  <2>2. \A x : x \in RouteTable(legs) <=> \E q \in RoutesTaken(legs) : x = RouteEntry(legs, q)
    BY DEF RouteTable
  <2>3. \A x : x \in {Entry(q) : q \in taken} <=> x \in RouteTable(legs)
    BY <1>6, <1>8, <2>1, <2>2, Zenon
  <2>4. QED
    BY <2>3
<1>10. QED
  BY <1>3, <1>9, Zenon DEF legs, known

\* The groups a network's page joins its rows with name the same routes.
LEMMA RoutesTouching ==
    ASSUME NEW R, Readable(R), NEW window, NEW time, NEW slug
    PROVE  BridgeRouteTotals(R, RouteMapTouching(slug, BridgeLegGroups(R, window, time)), window, time)
             = {x \in RouteTable(BridgeRows(R, window, time)) : slug \in {x.from, x.to}}
<1> DEFINE legs == BridgeRows(R, window, time)
           groups == BridgeLegGroups(R, window, time)
           map == RouteMapTouching(slug, groups)
           Joined(m) == {r \in legs : <<r.protocol, r.from, r.to>> = <<m.protocol, m.from, m.to>>}
           Own(q) == UNION {Joined(m) : m \in {m \in map : <<m.fromSlug, m.toSlug>> = q}}
           taken == {<<m.fromSlug, m.toSlug>> : m \in {m \in map : Joined(m) # {}}}
           Entry(q) == [from |-> q[1], to |-> q[2], legCount |-> Cardinality(Own(q)),
                        volume |-> UsdInSum(Deposits(Own(q)))]
           Mapped(g) == [protocol |-> g.protocol, from |-> g.from, to |-> g.to,
                         fromSlug |-> FromSlug(g), toSlug |-> ToSlug(g)]
           Touches(q) == KnownRoute(q) /\ slug \in {q[1], q[2]}
<1>1. Grouped(groups, legs)
  BY GroupsAreGrouped
<1>2. BridgeRouteTotals(R, map, window, time) = {Entry(q) : q \in taken}
  BY Zenon DEF BridgeRouteTotals, BridgeRows
<1>3. /\ \A m \in map : \E g \in groups : m = Mapped(g) /\ Touches(RouteOf(g))
      /\ \A g \in groups : Touches(RouteOf(g)) => Mapped(g) \in map
  <2>1. \A m : m \in map <=> \E g \in groups : /\ FromSlug(g) # None /\ ToSlug(g) # None
                                               /\ slug \in {FromSlug(g), ToSlug(g)}
                                               /\ m = Mapped(g)
    BY DEF RouteMapTouching
  <2>2. \A g : Touches(RouteOf(g)) <=> /\ FromSlug(g) # None /\ ToSlug(g) # None
                                       /\ slug \in {FromSlug(g), ToSlug(g)}
    BY DEF KnownRoute, RouteOf, FromSlug, ToSlug
  <2> HIDE DEF map, groups, Mapped, Touches
  <2>3. QED
    BY <2>1, <2>2
<1>4. \A g : /\ GroupKey(Mapped(g)) = GroupKey(g)
             /\ <<Mapped(g).fromSlug, Mapped(g).toSlug>> = RouteOf(g)
  BY DEF GroupKey, RouteOf, FromSlug, ToSlug
<1>5. \A m : \A r : r \in Joined(m) <=> r \in legs /\ BridgeKey(r) = GroupKey(m)
  BY DEF BridgeKey, GroupKey
<1>a. /\ \A r \in legs : \E g \in groups : GroupKey(g) = BridgeKey(r)
      /\ \A g \in groups : \E r \in legs : GroupKey(g) = BridgeKey(r)
  <2> HIDE DEF groups, legs
  <2>1. QED
    BY <1>1 DEF Grouped
<1>6. \A q : q \in taken <=> \E m \in map : Joined(m) # {} /\ <<m.fromSlug, m.toSlug>> = q
  <2> HIDE DEF Joined, map
  <2>1. QED
    OBVIOUS
<1>7. \A q : \A r : r \in Own(q) <=> \E m \in map : <<m.fromSlug, m.toSlug>> = q /\ r \in Joined(m)
  <2> HIDE DEF Joined, map
  <2>1. QED
    OBVIOUS
<1> HIDE DEF legs, groups, map, Joined, Own, taken, Mapped, Touches
<1>8. \A q : q \in taken <=> Touches(q) /\ \E r \in legs : RouteOf(r) = q
  <2>1. ASSUME NEW q \in taken PROVE Touches(q) /\ \E r \in legs : RouteOf(r) = q
    <3>1. PICK m \in map : <<m.fromSlug, m.toSlug>> = q
      BY <1>6
    <3>2. PICK g \in groups : m = Mapped(g) /\ Touches(RouteOf(g))
      BY <1>3
    <3>3. RouteOf(g) = q
      BY <1>4, <3>1, <3>2
    <3>4. QED
      BY <1>a, <3>2, <3>3, SameRoute
  <2>2. ASSUME NEW q, Touches(q), NEW r \in legs, RouteOf(r) = q PROVE q \in taken
    <3>1. PICK g \in groups : GroupKey(g) = BridgeKey(r)
      BY <1>a
    <3>2. RouteOf(g) = q
      BY <2>2, <3>1, SameRoute
    <3>3. Mapped(g) \in map
      BY <1>3, <2>2, <3>2
    <3>4. r \in Joined(Mapped(g))
      BY <1>4, <1>5, <3>1
    <3>5. <<Mapped(g).fromSlug, Mapped(g).toSlug>> = q
      BY <1>4, <3>2
    <3>6. QED
      BY <1>6, <3>3, <3>4, <3>5
  <2>3. QED
    BY <2>1, <2>2
<1>9. ASSUME NEW q \in taken
      PROVE  \A r : r \in Own(q) <=> r \in RouteRows(legs, q)
  <2>1. \A r : r \in RouteRows(legs, q) <=> r \in legs /\ RouteOf(r) = q
    BY DEF RouteRows
  <2>2. ASSUME NEW r \in Own(q) PROVE r \in legs /\ RouteOf(r) = q
    <3>1. PICK m \in map : <<m.fromSlug, m.toSlug>> = q /\ r \in Joined(m)
      BY <1>7
    <3>2. PICK g \in groups : m = Mapped(g)
      BY <1>3
    <3>3. r \in legs /\ BridgeKey(r) = GroupKey(g) /\ RouteOf(g) = q
      BY <1>4, <1>5, <3>1, <3>2
    <3>4. QED
      BY <3>3, SameRoute
  <2>3. ASSUME NEW r \in legs, RouteOf(r) = q PROVE r \in Own(q)
    <3>1. PICK g \in groups : GroupKey(g) = BridgeKey(r)
      BY <1>a
    <3>2. RouteOf(g) = q /\ Touches(q)
      BY <1>8, <2>3, <3>1, SameRoute
    <3>3. Mapped(g) \in map /\ r \in Joined(Mapped(g)) /\ <<Mapped(g).fromSlug, Mapped(g).toSlug>> = q
      BY <1>3, <1>4, <1>5, <3>1, <3>2
    <3>4. QED
      BY <1>7, <3>3
  <2>4. QED
    BY <2>1, <2>2, <2>3
<1>10. \A q \in taken : Entry(q) = RouteEntry(legs, q)
  <2>1. ASSUME NEW q \in taken PROVE Entry(q) = RouteEntry(legs, q)
    <3>1. Own(q) = RouteRows(legs, q)
      BY <1>9
    <3>2. QED
      BY <3>1, Zenon DEF RouteEntry
  <2>2. QED
    BY <2>1
<1>11. \A q : /\ RouteEntry(legs, q).from = q[1] /\ RouteEntry(legs, q).to = q[2]
              /\ q \in RoutesTaken(legs) <=> KnownRoute(q) /\ \E r \in legs : RouteOf(r) = q
  BY DEF RouteEntry, RoutesTaken
<1> HIDE DEF Entry
<1>12. \A x : x \in {Entry(q) : q \in taken} <=> x \in RouteTable(legs) /\ slug \in {x.from, x.to}
  <2>1. \A x : x \in {Entry(q) : q \in taken} <=> \E q \in taken : x = Entry(q)
    OBVIOUS
  <2>2. \A x : x \in RouteTable(legs) <=> \E q \in RoutesTaken(legs) : x = RouteEntry(legs, q)
    BY DEF RouteTable
  <2>3. \A q : q \in taken <=> q \in RoutesTaken(legs)
                               /\ slug \in {RouteEntry(legs, q).from, RouteEntry(legs, q).to}
    BY <1>8, <1>11 DEF Touches
  <2>4. ASSUME NEW x, x \in {Entry(q) : q \in taken}
        PROVE  x \in RouteTable(legs) /\ slug \in {x.from, x.to}
    <3>1. PICK q \in taken : x = Entry(q)
      BY <2>1, <2>4
    <3>2. x = RouteEntry(legs, q)
      BY <1>10, <3>1
    <3>3. QED
      BY <2>2, <2>3, <3>2, Zenon
  <2>5. ASSUME NEW x, x \in RouteTable(legs), slug \in {x.from, x.to}
        PROVE  x \in {Entry(q) : q \in taken}
    <3>1. PICK q \in RoutesTaken(legs) : x = RouteEntry(legs, q)
      BY <2>2, <2>5
    <3>2. q \in taken
      BY <2>3, <2>5, <3>1, Zenon
    <3>3. x = Entry(q)
      BY <1>10, <3>1, <3>2
    <3>4. QED
      BY <2>1, <3>2, <3>3
  <2>6. QED
    BY <2>4, <2>5, Zenon
<1>13. {Entry(q) : q \in taken} = {x \in RouteTable(legs) : slug \in {x.from, x.to}}
  <2> DEFINE A == {Entry(q) : q \in taken}
             T == RouteTable(legs)
  <2>1. \A x : x \in A <=> x \in T /\ slug \in {x.from, x.to}
    BY <1>12
  <2> HIDE DEF A, T
  <2>2. A = {x \in T : slug \in {x.from, x.to}}
    BY <2>1
  <2>3. QED
    BY <2>2 DEF A, T
<1>14. QED
  BY <1>2, <1>13, Zenon DEF legs, groups, map

-----------------------------------------------------------------------------
(* Networks *)

LEMMA NetworksBySlug ==
    \A m, n \in RegistryNetworks : m.slug = n.slug => m = n
<1> DEFINE Slugs(chains) == {chains[c] : c \in DOMAIN chains}
           Network(slug) ==
               [slug |-> slug,
                family |-> IF slug \in Slugs(EvmChains) THEN "eip155" ELSE "solana",
                chains |-> {key[2] : key \in ChainKeysForSlug(slug)}]
           all == Slugs(EvmChains) \cup Slugs(SolanaChains)
<1>1. RegistryNetworks = {Network(s) : s \in all}
  BY Zenon DEF RegistryNetworks
<1>2. \A s : Network(s).slug = s
  OBVIOUS
<1> HIDE DEF Network, all
<1>3. \A n \in RegistryNetworks : \E s \in all : n = Network(s)
  BY <1>1
<1>4. QED
  BY <1>2, <1>3

\* The one query behind the list sees the rows each network's page sees.
LEMMA TotalsBySlug ==
    ASSUME NEW R, Readable(R), NEW window, NEW time, NEW n \in RegistryNetworks,
           NEW totals, totals = NetworkTotalsBySlug(R, RegistryNetworks, window, time),
           NEW own, own = InNetworkWindow(R, n, window, time)
    PROVE  /\ n.slug \in DOMAIN totals =>
                /\ totals[n.slug].volume = UsdInSum(Deploying(own))
                /\ totals[n.slug].txCount = Cardinality(own)
           /\ n.slug \notin DOMAIN totals => own = {}
<1> DEFINE chainMap == UNION {{[slug |-> m.slug, family |-> m.family, chain |-> c] : c \in m.chains}
                                : m \in RegistryNetworks}
           Joined(slug) == {r \in R : /\ Verified(r)
                                      /\ \E m \in chainMap : /\ m.slug = slug
                                                             /\ m.family = r.family
                                                             /\ m.chain = r.chain}
           In(slug) == {r \in Joined(slug) : InClosedWindow(r, window, time)}
           slugs == {s \in {m.slug : m \in RegistryNetworks} : Joined(s) # {}}
<1>1. totals = [slug \in slugs |->
                  [volume |-> UsdInSum(Deploying(In(slug))),
                   txCount |-> Cardinality(In(slug)),
                   lastSeen |-> Max({TimeAnchor(r) : r \in Joined(slug)})]]
  BY Zenon DEF NetworkTotalsBySlug
<1>2. \A e : e \in chainMap <=>
        \E m \in RegistryNetworks : \E c \in m.chains :
            e = [slug |-> m.slug, family |-> m.family, chain |-> c]
  OBVIOUS
<1>3. ASSUME NEW r
      PROVE  (\E m \in chainMap : m.slug = n.slug /\ m.family = r.family /\ m.chain = r.chain)
               <=> OnNetwork(r, n)
  <2> HIDE DEF chainMap
  <2>1. ASSUME NEW e \in chainMap, e.slug = n.slug, e.family = r.family, e.chain = r.chain
        PROVE  OnNetwork(r, n)
    <3>1. PICK m \in RegistryNetworks :
            \E c \in m.chains : e = [slug |-> m.slug, family |-> m.family, chain |-> c]
      BY <1>2
    <3>2. PICK c \in m.chains : e = [slug |-> m.slug, family |-> m.family, chain |-> c]
      BY <3>1
    <3>3. e.slug = m.slug /\ e.family = m.family /\ e.chain = c
      BY <3>2
    <3>4. m = n
      BY <2>1, <3>3, NetworksBySlug
    <3>5. QED
      BY <2>1, <3>3, <3>4 DEF OnNetwork
  <2>2. ASSUME OnNetwork(r, n)
        PROVE  \E m \in chainMap : m.slug = n.slug /\ m.family = r.family /\ m.chain = r.chain
    <3> DEFINE e == [slug |-> n.slug, family |-> n.family, chain |-> r.chain]
    <3>1. r.family = n.family /\ r.chain \in n.chains
      BY <2>2 DEF OnNetwork
    <3>2. e \in chainMap
      BY <1>2, <3>1
    <3>3. e.slug = n.slug /\ e.family = r.family /\ e.chain = r.chain
      BY <3>1
    <3> HIDE DEF e
    <3>4. QED
      BY <3>2, <3>3
  <2>3. QED
    BY <2>1, <2>2
<1>4. Joined(n.slug) = NetworkRows(R, n)
  <2> HIDE DEF chainMap
  <2>1. \A r : r \in Joined(n.slug) <=> r \in NetworkRows(R, n)
    BY <1>3 DEF NetworkRows
  <2> HIDE DEF Joined
  <2>2. QED
    BY <2>1
<1>5. In(n.slug) = own
  <2> HIDE DEF Joined
  <2>1. In(n.slug) = {r \in NetworkRows(R, n) : InClosedWindow(r, window, time)}
    BY <1>4, Zenon
  <2>2. QED
    BY <2>1, Zenon DEF InNetworkWindow
<1>6. n.slug \in slugs <=> Joined(n.slug) # {}
  <2> HIDE DEF Joined
  <2>1. QED
    OBVIOUS
<1>7. own \subseteq Joined(n.slug)
  <2>1. In(n.slug) \subseteq Joined(n.slug)
    <3> HIDE DEF Joined
    <3>1. QED
      OBVIOUS
  <2>2. QED
    BY <1>5, <2>1, Zenon
<1> HIDE DEF slugs, Joined, In
<1>8. DOMAIN totals = slugs
  BY <1>1, Zenon
<1>9. ASSUME n.slug \in DOMAIN totals
      PROVE  totals[n.slug].volume = UsdInSum(Deploying(own)) /\ totals[n.slug].txCount = Cardinality(own)
  <2> DEFINE entry == [volume |-> UsdInSum(Deploying(In(n.slug))),
                       txCount |-> Cardinality(In(n.slug)),
                       lastSeen |-> Max({TimeAnchor(r) : r \in Joined(n.slug)})]
  <2>1. totals[n.slug] = entry
    BY <1>1, <1>8, <1>9, Zenon
  <2>e. /\ entry.volume = UsdInSum(Deploying(In(n.slug)))
        /\ entry.txCount = Cardinality(In(n.slug))
    OBVIOUS
  <2> HIDE DEF entry
  <2>2. /\ totals[n.slug].volume = UsdInSum(Deploying(In(n.slug)))
        /\ totals[n.slug].txCount = Cardinality(In(n.slug))
    BY <2>1, <2>e, Zenon
  <2>3. QED
    BY <1>5, <2>2, Zenon
<1>10. ASSUME n.slug \notin DOMAIN totals PROVE own = {}
  <2>1. Joined(n.slug) = {}
    BY <1>6, <1>8, <1>10, Zenon
  <2>2. QED
    BY <1>7, <2>1
<1>11. QED
  BY <1>9, <1>10, Zenon

\* Its protocols share out what a network's page says.
LEMMA NetworkShares ==
    ASSUME NEW R, Readable(R), NEW window, NEW time, NEW network,
           NEW own, own = InNetworkWindow(R, network, window, time),
           NEW E, E = NetworkProtocols(R, network, window, time)
    PROVE  VolumeOf(E) = UsdInSum(Deploying(own)) /\ TxOf(E) = Cardinality(own)
<1> DEFINE P == {r.protocol : r \in own}
           of(p) == {r \in own : r.protocol = p}
           Entry(p) == [protocol |-> p, volume |-> UsdInSum(Deploying(of(p))),
                        txCount |-> Cardinality(of(p))]
           entry == [p \in P |-> Entry(p)]
           group == [p \in P |-> of(p)]
           sums == [p \in P |-> Deploying(of(p))]
<1>1. own \in SUBSET R /\ IsFiniteSet(own)
  BY FS_Subset DEF Readable, InNetworkWindow, NetworkRows
<1>2. E = {Entry(p) : p \in P}
  BY Zenon DEF NetworkProtocols
<1>3. \A p \in P : /\ entry[p].protocol = p /\ entry[p].volume = UsdInSum(sums[p])
                   /\ entry[p].txCount = Cardinality(group[p])
  <2> HIDE DEF of, P
  <2>1. QED
    OBVIOUS
<1>4. /\ \A p \in P : entry[p] \in E
      /\ \A e \in E : \E p \in P : e = entry[p]
  <2> HIDE DEF Entry, P
  <2>1. QED
    BY <1>2
<1>5. Partition(group, own, P)
  BY DEF Partition
<1>6. Partition(sums, Deploying(own), P)
  BY DEF Partition, Deploying
<1>7. IsFiniteSet(P)
  <2> DEFINE f == [r \in own |-> r.protocol]
  <2>1. {f[r] : r \in own} = P
    OBVIOUS
  <2> HIDE DEF f
  <2>2. IsFiniteSet({f[r] : r \in own})
    BY <1>1, FiniteImage
  <2>3. QED
    BY <2>1, <2>2, Zenon
<1> HIDE DEF entry, group, sums, P
<1>8. Renames(entry, P, E)
  BY <1>3, <1>4 DEF Renames
<1>9. Deploying(own) \in SUBSET R
  BY <1>1 DEF Deploying
<1>10. /\ IsFiniteSet(Deploying(own)) /\ \A r \in Deploying(own) : UsdIn(R)[r] \in Int
       /\ UsdInSum(Deploying(own)) = SumFunctionOnSet(UsdIn(R), Deploying(own))
  BY <1>9, UsdInSumIs
<1>11. \A p \in P : VolumeIn(E)[entry[p]] = SumFunctionOnSet(UsdIn(R), sums[p])
  <2>1. \A p \in P : sums[p] \in SUBSET R
    BY <1>6, <1>9 DEF Partition
  <2>2. \A p \in P : UsdInSum(sums[p]) = SumFunctionOnSet(UsdIn(R), sums[p])
    BY <2>1, UsdInSumIs
  <2>3. \A p \in P : VolumeIn(E)[entry[p]] = entry[p].volume
    BY <1>4 DEF VolumeIn
  <2>4. QED
    BY <1>3, <2>2, <2>3
<1>12. \A p \in P : TxIn(E)[entry[p]] = Cardinality(group[p])
  BY <1>3, <1>4 DEF TxIn
<1>13. IsFiniteSet(E) /\ SumFunctionOnSet(VolumeIn(E), E) = SumFunctionOnSet(UsdIn(R), Deploying(own))
  <2>1. \A r \in Deploying(own) : UsdIn(R)[r] \in Int
    BY <1>10
  <2>2. QED
    BY <1>6, <1>7, <1>8, <1>10, <1>11, <2>1, Shares
<1>14. SumFunctionOnSet(TxIn(E), E) = Cardinality(own)
  BY <1>1, <1>5, <1>7, <1>8, <1>12, CountShares
<1>15. QED
  BY <1>10, <1>13, <1>14, TotalsOf

\* Without a window, the bars of a network's page hold no more than its rows.
LEMMA NetworkBars ==
    ASSUME NEW R, Readable(R), NEW time \in Int, NEW network, NEW w,
           w.count = None, w.seconds \in Nat \ {0},
           NEW chart, chart = NetworkSeries(R, network, w, time)
    PROVE  BarTx(chart) <= Cardinality(NetworkRows(R, network))
<1> DEFINE scoped == NetworkRows(R, network)
           starts == {Bucket(TimeAnchor(r), w.seconds) : r \in scoped}
           first == IF w.count # None THEN FirstStart(time, w.seconds, w.count)
                    ELSE IF scoped = {} THEN Bucket(time, w.seconds)
                    ELSE Min(starts)
           D == BucketStarts(first, Bucket(time, w.seconds), w.seconds)
           In(t) == {r \in scoped : Bucket(TimeAnchor(r), w.seconds) = t}
           group == [t \in D |-> In(t)]
           n == [t \in D |-> chart[t].txCount]
<1>1. chart = [t \in D |-> [volume |-> UsdInSum(Deploying(In(t))), txCount |-> Cardinality(In(t))]]
  BY Zenon DEF NetworkSeries
<1>2. DOMAIN chart = D /\ \A t \in D : n[t] = Cardinality(group[t])
  <2> HIDE DEF D, In
  <2>1. QED
    BY <1>1
<1>3. /\ scoped \in SUBSET R /\ IsFiniteSet(scoped)
      /\ \A r \in scoped : Bucket(TimeAnchor(r), w.seconds) \in Int
  <2>1. scoped \in SUBSET R /\ IsFiniteSet(scoped)
    BY FS_Subset DEF Readable, NetworkRows
  <2>2. \A r \in scoped : TimeAnchor(r) \in Int
    BY AnchorInt DEF NetworkRows, Readable
  <2> HIDE DEF scoped
  <2>3. QED
    BY <2>1, <2>2, BucketInt
<1>4. first \in Int
  <2>1. CASE scoped = {}
    BY <2>1, BucketInt
  <2>2. CASE scoped # {}
    <3> DEFINE f == [r \in scoped |-> Bucket(TimeAnchor(r), w.seconds)]
    <3>1. starts # {} /\ starts \in SUBSET Int
      BY <1>3, <2>2
    <3>2. {f[r] : r \in scoped} = starts
      OBVIOUS
    <3>3. first = Min(starts)
      BY <2>2, Zenon
    <3> HIDE DEF f, first, starts, scoped
    <3>4. IsFiniteSet({f[r] : r \in scoped})
      BY <1>3, FiniteImage
    <3>5. IsFiniteSet(starts)
      BY <3>2, <3>4, Zenon
    <3>6. QED
      BY <3>1, <3>3, <3>5, MinInt
  <2>3. QED
    BY <2>1, <2>2
<1>5. IsFiniteSet(D)
  <2> HIDE DEF first
  <2>1. Bucket(time, w.seconds) \in Int
    BY BucketInt
  <2>2. IsFiniteSet(first .. Bucket(time, w.seconds))
    BY <1>4, <2>1, FS_Interval
  <2>3. D \in SUBSET (first .. Bucket(time, w.seconds))
    BY DEF BucketStarts
  <2> HIDE DEF D
  <2>4. QED
    BY <2>2, <2>3, FS_Subset
<1>6. Disjoint(group, scoped, D)
  <2> HIDE DEF scoped, D
  <2>1. QED
    BY DEF Disjoint
<1>7. DOMAIN n = D
  OBVIOUS
<1>8. BarTx(chart) = SumFunction(n)
  BY <1>2, Zenon DEF BarTx
<1> HIDE DEF group, n, D, scoped
<1>9. SumFunctionOnSet(n, D) <= Cardinality(scoped)
  BY <1>2, <1>3, <1>5, <1>6, CountOfParts
<1>10. SumFunction(n) = SumFunctionOnSet(n, D)
  BY <1>5, <1>7, SumOverIs
<1>11. BarTx(chart) <= Cardinality(scoped)
  BY <1>8, <1>9, <1>10
<1>12. QED
  BY <1>11 DEF scoped

TokensIn(own) ==
    LET cap == {r \in own : DeploysCapital(r)}
        legs == {Leg(r, "in", r.in, ServerPricedUsdIn(r)) : r \in {r \in cap : r.in # None}}
                \cup {Leg(r, "out", r.out, ServerPricedUsdOut(r))
                        : r \in {r \in cap : r.out # None}}
        Of(address) == {l \in legs : l.address = address}
    IN {[address |-> a, volume |-> LegUsd(Of(a)), txCount |-> Cardinality(Of(a))]
            : a \in {l.address : l \in legs}}

\* The tokens of a network share out at least what it says: a row counts what
\* it paid once, and what it received besides.
LEMMA NetworkTokenVolume ==
    ASSUME NEW R, Readable(R), NEW window, NEW time, NEW network,
           NEW own, own = InNetworkWindow(R, network, window, time),
           NEW E, E = NetworkTokens(R, network, window, time)
    PROVE  VolumeOf(E) >= UsdInSum(Deploying(own))
<1> DEFINE cap == {r \in own : DeploysCapital(r)}
           payers == {r \in cap : r.in # None}
           getters == {r \in cap : r.out # None}
           Paid(r) == Leg(r, "in", r.in, ServerPricedUsdIn(r))
           Got(r) == Leg(r, "out", r.out, ServerPricedUsdOut(r))
           paid == {Paid(r) : r \in payers}
           got == {Got(r) : r \in getters}
           legs == paid \cup got
           P == {l.address : l \in legs}
           of(a) == {l \in legs : l.address = a}
           Entry(a) == [address |-> a, volume |-> LegUsd(of(a)), txCount |-> Cardinality(of(a))]
           entry == [a \in P |-> Entry(a)]
           group == [a \in P |-> of(a)]
           pay == [r \in payers |-> Paid(r)]
           v == [seconds |-> DayTicks, count |-> None]
<1>1. own \in SUBSET R /\ cap = Deploying(own) /\ \A r \in own : Verified(r)
  BY DEF InNetworkWindow, NetworkRows, Deploying
<1>2. E = {Entry(a) : a \in P}
  <2>1. E = TokensIn(InNetworkWindow(R, network, window, time))
    BY DEF NetworkTokens, TokensIn
  <2>2. E = TokensIn(own)
    BY <2>1, Zenon
  <2>3. TokensIn(own) = {Entry(a) : a \in P}
    BY DEF TokensIn
  <2>4. QED
    BY <2>2, <2>3, Zenon
<1>3. /\ payers \in SUBSET cap /\ cap \in SUBSET R /\ IsFiniteSet(payers) /\ IsFiniteSet(cap)
      /\ \A r \in cap : RowReads(r) /\ Verified(r) /\ DeploysCapital(r)
  <2>1. payers \in SUBSET cap /\ \A r \in cap : r \in own /\ DeploysCapital(r)
    OBVIOUS
  <2> HIDE DEF cap, payers
  <2>2. cap \in SUBSET R
    BY <1>1, <2>1
  <2>3. \A r \in cap : RowReads(r) /\ Verified(r) /\ DeploysCapital(r)
    BY <1>1, <2>1, <2>2 DEF Readable
  <2>4. IsFiniteSet(cap)
    BY <2>2, FS_Subset DEF Readable
  <2>5. QED
    BY <2>1, <2>2, <2>3, <2>4, FS_Subset
<1>4. RowLegs(legs)
  <2>1. \A r \in cap : TokenRow(r, v, 0)
    BY <1>3 DEF TokenRow, InBuckets
  <2>2. \A l \in legs : \E r \in cap : IsLegOf(l, r)
    BY DEF IsLegOf
  <2>3. \A l \in legs : l \in TokenLegs(R, v, 0)
    <3> HIDE DEF legs, cap, v
    <3>1. QED
      BY <1>3, <2>1, <2>2, LegsAre
  <2>4. legs \in SUBSET TokenLegs(R, v, 0)
    BY <2>3
  <2> HIDE DEF legs, v
  <2>5. QED
    BY <2>4, TokenLegsAreRowLegs
<1>5. \A a \in P : entry[a].address = a /\ entry[a].volume = LegUsd(group[a])
  <2> HIDE DEF of, P
  <2>1. QED
    OBVIOUS
<1>6. /\ \A a \in P : entry[a] \in E
      /\ \A e \in E : \E a \in P : e = entry[a]
  <2> HIDE DEF Entry, P
  <2>1. QED
    BY <1>2
<1>7. Partition(group, legs, P)
  <2> HIDE DEF legs
  <2>1. QED
    BY DEF Partition
<1>8. IsFiniteSet(P)
  <2> DEFINE f == [l \in legs |-> l.address]
  <2> HIDE DEF legs
  <2>1. {f[l] : l \in legs} = P
    OBVIOUS
  <2>2. IsFiniteSet(legs)
    BY <1>4 DEF RowLegs
  <2> HIDE DEF f
  <2>3. IsFiniteSet({f[l] : l \in legs})
    BY <2>2, FiniteImage
  <2>4. QED
    BY <2>1, <2>3, Zenon
<1>9. Renames(pay, payers, paid)
  <2>1. \A r \in payers : pay[r] \in paid /\ pay[r].id = r.id
    BY DEF Leg
  <2>2. \A l \in paid : \E r \in payers : pay[r] = l
    <3> HIDE DEF Paid, payers
    <3>1. QED
      OBVIOUS
  <2>3. \A x, y \in payers : x.id = y.id => x = y
    <3> HIDE DEF payers, cap
    <3>1. QED
      BY <1>3 DEF Readable
  <2> HIDE DEF pay, payers, paid
  <2>4. QED
    BY <2>1, <2>2, <2>3 DEF Renames
<1>10. \A r \in payers : UsdOf(legs)[pay[r]] = UsdIn(R)[r]
  <2>1. \A r \in payers : pay[r] \in legs /\ pay[r] = Paid(r) /\ r \in R
    BY <1>3
  <2>2. \A r : Paid(r).usd = OrZero(ServerPricedUsdIn(r))
    BY DEF Leg
  <2> HIDE DEF pay, legs, payers, Paid
  <2>3. QED
    BY <2>1, <2>2 DEF UsdOf, UsdIn
<1>11. \A r \in cap \ payers : UsdIn(R)[r] = 0
  <2>1. ASSUME NEW r \in cap \ payers PROVE UsdIn(R)[r] = 0
    <3>1. r.in = None /\ RowReads(r) /\ r \in R
      BY <1>3
    <3>2. r.usdIn = None
      BY <3>1 DEF RowReads
    <3>3. OrZero(ServerPricedUsdIn(r)) = 0
      BY <3>2 DEF OrZero, Coalesce, ServerPricedUsdIn
    <3>4. QED
      BY <3>1, <3>3 DEF UsdIn
  <2>2. QED
    BY <2>1
<1>p. paid \in SUBSET legs
  OBVIOUS
<1> HIDE DEF entry, group, P, pay, paid, payers, legs, cap
<1>12. /\ \A r \in R : UsdIn(R)[r] \in Nat
       /\ UsdInSum(cap) = SumFunctionOnSet(UsdIn(R), cap)
  BY <1>3, UsdInSumIs
<1>13. SumFunctionOnSet(UsdIn(R), cap) = SumFunctionOnSet(UsdIn(R), payers)
  <2>1. /\ \A r \in cap : UsdIn(R)[r] \in Int
        /\ \A r \in payers : UsdIn(R)[r] = UsdIn(R)[r]
    BY <1>3, <1>12
  <2>2. QED
    BY <1>3, <1>11, <2>1, SumWhere
<1>14. SumFunctionOnSet(UsdOf(legs), paid) = SumFunctionOnSet(UsdIn(R), payers)
  <2>1. \A r \in payers : UsdIn(R)[r] \in Int
    BY <1>3, <1>12
  <2>2. QED
    BY <1>3, <1>9, <1>10, <2>1, SumRenamed
<1>15. /\ IsFiniteSet(legs) /\ \A l \in legs : UsdOf(legs)[l] \in Nat
       /\ LegUsd(legs) = SumFunctionOnSet(UsdOf(legs), legs)
  BY <1>4, LegSums DEF RowLegs
<1>16. SumFunctionOnSet(UsdOf(legs), paid) <= SumFunctionOnSet(UsdOf(legs), legs)
  BY <1>15, <1>p, SumNat
<1>17. Renames(entry, P, E)
  BY <1>5, <1>6 DEF Renames
<1>18. \A a \in P : VolumeIn(E)[entry[a]] = SumFunctionOnSet(UsdOf(legs), group[a])
  <2>1. \A a \in P : group[a] \in SUBSET legs
    BY <1>7 DEF Partition
  <2>2. \A a \in P : LegUsd(group[a]) = SumFunctionOnSet(UsdOf(legs), group[a])
    BY <1>4, <2>1, LegSums
  <2>3. \A a \in P : VolumeIn(E)[entry[a]] = entry[a].volume
    BY <1>6 DEF VolumeIn
  <2>4. QED
    BY <1>5, <2>2, <2>3
<1>19. IsFiniteSet(E) /\ SumFunctionOnSet(VolumeIn(E), E) = SumFunctionOnSet(UsdOf(legs), legs)
  <2>1. \A l \in legs : UsdOf(legs)[l] \in Int
    BY <1>15
  <2>2. QED
    BY <1>7, <1>8, <1>15, <1>17, <1>18, <2>1, Shares
<1>20. VolumeOf(E) >= UsdInSum(cap)
  <2>1. VolumeOf(E) = SumFunctionOnSet(VolumeIn(E), E)
    BY <1>19, TotalsOf
  <2>2. /\ SumFunctionOnSet(UsdOf(legs), legs) \in Nat /\ SumFunctionOnSet(UsdOf(legs), paid) \in Nat
    BY <1>15, <1>p, SumNat
  <2>3. QED
    BY <1>12, <1>13, <1>14, <1>16, <1>19, <2>1, <2>2
<1>21. QED
  BY <1>1, <1>20, Zenon

\* A network's page.
LEMMA NetworkPage ==
    ASSUME NEW R, Readable(R), NEW time \in Int, NEW plan \in Plans, NEW network,
           NEW own, own = InNetworkWindow(R, network, RangeWindow(plan), time),
           NEW detail, detail = NetworkDetail(R, network, plan, time)
    PROVE  /\ detail.volume = UsdInSum(Deploying(own)) /\ detail.txCount = Cardinality(own)
           /\ VolumeOf(detail.protocols) = detail.volume /\ TxOf(detail.protocols) = detail.txCount
           /\ plan.count = None => BarTx(detail.series) <= detail.txCount
           /\ VolumeOf(detail.tokens) >= detail.volume
           /\ detail.routes = {x \in RouteTable(BridgeRows(R, RangeWindow(plan), time)) :
                                    network.slug \in {x.from, x.to}}
<1> DEFINE window == RangeWindow(plan)
           w == ObservationWindowOf(plan)
           groups == BridgeLegGroups(R, window, time)
           scalars == NetworkScalars(R, network, window, time)
<1>1. /\ w.window = window /\ w.count = plan.count /\ w.seconds \in Nat \ {0}
  BY ReadsAssumption, FeedAssumption DEF ObservationWindowOf, BucketWindowOf
<1>2. /\ scalars.volume = UsdInSum(Deploying(own)) /\ scalars.txCount = Cardinality(own)
  BY DEF NetworkScalars
<1> DEFINE d == [volume |-> scalars.volume, txCount |-> scalars.txCount,
                 protocols |-> NetworkProtocols(R, network, window, time),
                 tokens |-> NetworkTokens(R, network, window, time),
                 routes |-> BridgeRouteTotals(R, RouteMapTouching(network.slug, groups), window, time),
                 series |-> NetworkSeries(R, network, w, time)]
<1>3. detail = d
  <2> DEFINE At(x) == [volume |-> NetworkScalars(R, network, x, time).volume,
                txCount |-> NetworkScalars(R, network, x, time).txCount,
                protocols |-> NetworkProtocols(R, network, x, time),
                tokens |-> NetworkTokens(R, network, x, time),
                routes |-> BridgeRouteTotals(R, RouteMapTouching(network.slug, BridgeLegGroups(R, x, time)), x, time),
                series |-> NetworkSeries(R, network, w, time)]
  <2>1. detail = At(w.window)
    BY DEF NetworkDetail
  <2>2. At(window) = d
    OBVIOUS
  <2> HIDE DEF At, d, w, window
  <2>3. QED
    BY <1>1, <2>1, <2>2, Zenon
<1> HIDE DEF scalars, w, window, groups
<1>4. /\ d.volume = scalars.volume /\ d.txCount = scalars.txCount
      /\ d.protocols = NetworkProtocols(R, network, window, time)
      /\ d.tokens = NetworkTokens(R, network, window, time)
      /\ d.routes = BridgeRouteTotals(R, RouteMapTouching(network.slug, groups), window, time)
      /\ d.series = NetworkSeries(R, network, w, time)
  OBVIOUS
<1> HIDE DEF d
<1>5. /\ detail.volume = UsdInSum(Deploying(own)) /\ detail.txCount = Cardinality(own)
      /\ detail.protocols = NetworkProtocols(R, network, window, time)
      /\ detail.tokens = NetworkTokens(R, network, window, time)
      /\ detail.routes = BridgeRouteTotals(R, RouteMapTouching(network.slug, groups), window, time)
      /\ detail.series = NetworkSeries(R, network, w, time)
  BY <1>2, <1>3, <1>4, Zenon
<1>6. own = InNetworkWindow(R, network, window, time)
  BY DEF window
<1>7. VolumeOf(detail.protocols) = UsdInSum(Deploying(own)) /\ TxOf(detail.protocols) = Cardinality(own)
  BY <1>5, <1>6, NetworkShares
<1>8. VolumeOf(detail.tokens) >= UsdInSum(Deploying(own))
  BY <1>5, <1>6, NetworkTokenVolume
<1>9. detail.routes = {x \in RouteTable(BridgeRows(R, window, time)) : network.slug \in {x.from, x.to}}
  <2>1. BridgeRouteTotals(R, RouteMapTouching(network.slug, BridgeLegGroups(R, window, time)), window, time)
          = {x \in RouteTable(BridgeRows(R, window, time)) : network.slug \in {x.from, x.to}}
    BY RoutesTouching
  <2>2. QED
    BY <1>5, <2>1, Zenon DEF groups
<1>10. ASSUME plan.count = None PROVE BarTx(detail.series) <= Cardinality(own)
  <2>1. BarTx(detail.series) <= Cardinality(NetworkRows(R, network))
    BY <1>1, <1>5, <1>10, NetworkBars
  <2>2. window = None
    <3>1. plan.source # "activities"
      BY <1>10, ReadsAssumption
    <3>2. QED
      BY <1>10, <3>1 DEF window, RangeWindow
  <2>3. own = NetworkRows(R, network)
    <3>1. own = {r \in NetworkRows(R, network) : InClosedWindow(r, window, time)}
      BY <1>6, Zenon DEF InNetworkWindow
    <3>2. \A r : InClosedWindow(r, window, time)
      BY <2>2 DEF InClosedWindow
    <3>3. QED
      BY <3>1, <3>2
  <2>4. QED
    BY <2>1, <2>3, Zenon
<1>11. QED
  <2>1. /\ VolumeOf(detail.protocols) = detail.volume /\ TxOf(detail.protocols) = detail.txCount
        /\ plan.count = None => BarTx(detail.series) <= detail.txCount
        /\ VolumeOf(detail.tokens) >= detail.volume
    BY <1>5, <1>7, <1>8, <1>10, Zenon
  <2>2. QED
    BY <1>5, <1>9, <2>1, Zenon DEF window

\* A network's entry in the list.
LEMMA NetworkEntry ==
    ASSUME NEW R, Readable(R), NEW time, NEW plan, NEW stat \in NetworkList(R, plan, time)
    PROVE  \E n \in RegistryNetworks :
             LET own == InNetworkWindow(R, n, RangeWindow(plan), time)
                 counts == BridgeCounts(BridgeLegGroups(R, RangeWindow(plan), time), n.slug)
             IN /\ stat.slug = n.slug
                /\ stat.volume = UsdInSum(Deploying(own)) /\ stat.txCount = Cardinality(own)
                /\ stat.bridgeIn = counts.bridgeIn /\ stat.bridgeOut = counts.bridgeOut
<1> DEFINE window == RangeWindow(plan)
           totals == NetworkTotalsBySlug(R, RegistryNetworks, window, time)
           groups == BridgeLegGroups(R, window, time)
           unused == [volume |-> 0, txCount |-> 0, lastSeen |-> None]
           Total(n) == IF n.slug \in DOMAIN totals THEN totals[n.slug] ELSE unused
           Bridges(n) == BridgeCounts(groups, n.slug)
           Entry(n) == [slug |-> n.slug, volume |-> Total(n).volume, txCount |-> Total(n).txCount,
                        lastSeen |-> Total(n).lastSeen,
                        bridgeIn |-> Bridges(n).bridgeIn, bridgeOut |-> Bridges(n).bridgeOut]
           Own(n) == InNetworkWindow(R, n, window, time)
<1>1. NetworkList(R, plan, time) = {Entry(n) : n \in RegistryNetworks}
  BY Zenon DEF NetworkList
<1>2. PICK n \in RegistryNetworks : stat = Entry(n)
  <2> HIDE DEF Entry
  <2>1. QED
    BY <1>1
<1>3. totals = NetworkTotalsBySlug(R, RegistryNetworks, window, time)
        /\ Own(n) = InNetworkWindow(R, n, window, time)
  OBVIOUS
<1>4. /\ n.slug \in DOMAIN totals => Total(n) = totals[n.slug]
      /\ n.slug \notin DOMAIN totals => Total(n).volume = 0 /\ Total(n).txCount = 0
  <2> HIDE DEF totals
  <2>1. QED
    OBVIOUS
<1>5. /\ Entry(n).slug = n.slug /\ Entry(n).volume = Total(n).volume
      /\ Entry(n).txCount = Total(n).txCount
      /\ Entry(n).bridgeIn = Bridges(n).bridgeIn /\ Entry(n).bridgeOut = Bridges(n).bridgeOut
  <2> HIDE DEF Total, Bridges
  <2>1. QED
    OBVIOUS
<1> HIDE DEF totals, Total, Entry, Own
<1>6. /\ n.slug \in DOMAIN totals =>
                /\ totals[n.slug].volume = UsdInSum(Deploying(Own(n)))
                /\ totals[n.slug].txCount = Cardinality(Own(n))
      /\ n.slug \notin DOMAIN totals => Own(n) = {}
  BY <1>3, TotalsBySlug
<1>7. Total(n).volume = UsdInSum(Deploying(Own(n))) /\ Total(n).txCount = Cardinality(Own(n))
  <2>1. CASE n.slug \in DOMAIN totals
    BY <1>4, <1>6, <2>1, Zenon
  <2>2. CASE n.slug \notin DOMAIN totals
    <3>1. Own(n) = {} /\ Deploying({}) = {}
      BY <1>6, <2>2 DEF Deploying
    <3>2. Cardinality({}) = 0 /\ UsdInSum({}) = 0
      <4>1. Cardinality({}) = 0
        BY FS_EmptySet
      <4>2. {} \in SUBSET R
        OBVIOUS
      <4>3. UsdInSum({}) = SumFunctionOnSet(UsdIn(R), {})
        BY <4>2, UsdInSumIs
      <4>4. QED
        BY <4>1, <4>3, SumEmpty
    <3>3. UsdInSum(Deploying(Own(n))) = 0 /\ Cardinality(Own(n)) = 0
      BY <3>1, <3>2, Zenon
    <3>4. QED
      BY <1>4, <2>2, <3>3, Zenon
  <2>3. QED
    BY <2>1, <2>2
<1>8. /\ stat.slug = n.slug
      /\ stat.volume = UsdInSum(Deploying(Own(n))) /\ stat.txCount = Cardinality(Own(n))
      /\ stat.bridgeIn = Bridges(n).bridgeIn /\ stat.bridgeOut = Bridges(n).bridgeOut
  BY <1>2, <1>5, <1>7, Zenon
<1>9. QED
  BY <1>8, Zenon DEF Own

LEMMA NetworksShare ==
    ASSUME FeedInv, NEW plan \in Plans
    PROVE  NetworksAgree(plan)
<1> DEFINE routes == BridgeRoutes(Table, plan, now)
           window == RangeWindow(plan)
           bridges == {ToActivityRow(r) : r \in {r \in Table : /\ Verified(r)
                          /\ r.kind = "bridge" /\ InClosedWindow(r, window, now)}}
           Touching(slug) == {x \in routes : slug \in {x.from, x.to}}
           NetworkOf(slug) == CHOOSE n \in RegistryNetworks : n.slug = slug
           Detail(slug) == NetworkDetail(Table, NetworkOf(slug), plan, now)
           OutOf(slug) == Leaving(bridges, slug)
           Into(slug) == Arriving(bridges, slug)
<1>1. Readable(Table) /\ now \in Int
  BY TableReadable DEF FeedInv
<1>2. routes = RouteTable(BridgeRows(Table, window, now))
  <2>1. RoutesOf(RouteGroups(Table, window, now)) = RouteTable(BridgeRows(Table, window, now))
    BY <1>1, RoutesAre
  <2>2. QED
    BY <2>1, Zenon DEF BridgeRoutes
<1>3. bridges = Rendered(BridgeRows(Table, window, now))
  BY Zenon DEF BridgeRows, Rendered
<1>4. ASSUME NEW stat \in NetworkList(Table, plan, now)
      PROVE  LET detail == Detail(stat.slug)
             IN /\ stat.volume = detail.volume
                /\ stat.txCount = detail.txCount
                /\ VolumeOf(detail.protocols) = detail.volume
                /\ TxOf(detail.protocols) = detail.txCount
                /\ plan.count = None => BarTx(detail.series) <= detail.txCount
                /\ VolumeOf(detail.tokens) >= detail.volume
                /\ detail.routes = Touching(stat.slug)
                /\ stat.bridgeOut = Cardinality(OutOf(stat.slug))
                /\ stat.bridgeIn = Cardinality(Into(stat.slug))
  <2> DEFINE Own(n) == InNetworkWindow(Table, n, window, now)
             Counts(n) == BridgeCounts(BridgeLegGroups(Table, window, now), n.slug)
  <2>1. PICK n \in RegistryNetworks :
          /\ stat.slug = n.slug
          /\ stat.volume = UsdInSum(Deploying(Own(n))) /\ stat.txCount = Cardinality(Own(n))
          /\ stat.bridgeIn = Counts(n).bridgeIn /\ stat.bridgeOut = Counts(n).bridgeOut
    BY <1>1, NetworkEntry
  <2>2. NetworkOf(stat.slug) = n
    <3>1. \E m \in RegistryNetworks : m.slug = stat.slug
      BY <2>1
    <3>2. NetworkOf(stat.slug) \in RegistryNetworks /\ NetworkOf(stat.slug).slug = stat.slug
      BY <3>1
    <3> HIDE DEF NetworkOf
    <3>3. QED
      BY <2>1, <3>2, NetworksBySlug
  <2> DEFINE detail == NetworkDetail(Table, n, plan, now)
  <2>3. Detail(stat.slug) = detail
    <3> HIDE DEF NetworkOf
    <3>1. QED
      BY <2>2, Zenon
  <2>e. /\ Own(n) = InNetworkWindow(Table, n, RangeWindow(plan), now)
        /\ detail = NetworkDetail(Table, n, plan, now)
        /\ Counts(n) = BridgeCounts(BridgeLegGroups(Table, window, now), n.slug)
        /\ bridges = Rendered(BridgeRows(Table, window, now))
    BY <1>3
  <2> HIDE DEF Own, detail, Counts, Detail, bridges, routes
  <2>4. /\ detail.volume = UsdInSum(Deploying(Own(n))) /\ detail.txCount = Cardinality(Own(n))
        /\ VolumeOf(detail.protocols) = detail.volume /\ TxOf(detail.protocols) = detail.txCount
        /\ plan.count = None => BarTx(detail.series) <= detail.txCount
        /\ VolumeOf(detail.tokens) >= detail.volume
        /\ detail.routes = {x \in RouteTable(BridgeRows(Table, RangeWindow(plan), now)) :
                                 n.slug \in {x.from, x.to}}
    BY <1>1, <2>e, NetworkPage
  <2>5. detail.routes = Touching(stat.slug)
    BY <1>2, <2>1, <2>4, Zenon
  <2>6. /\ Counts(n).bridgeOut = Cardinality(Leaving(bridges, n.slug))
        /\ Counts(n).bridgeIn = Cardinality(Arriving(bridges, n.slug))
    <3> HIDE DEF window
    <3>1. QED
      BY <1>1, <2>e, BridgesCounted
  <2>7. stat.bridgeOut = Cardinality(OutOf(stat.slug)) /\ stat.bridgeIn = Cardinality(Into(stat.slug))
    BY <2>1, <2>6, Zenon
  <2> HIDE DEF OutOf, Into, Touching
  <2>8. QED
    BY <2>1, <2>3, <2>4, <2>5, <2>7, Zenon
<1>5. QED
  BY <1>4, Zenon DEF NetworksAgree, Detail, NetworkOf, Touching, OutOf, Into, Leaving, Arriving, routes,
                     bridges, window, SumOver, BarTx

\* In every state and for every range: the network list, the pages of the
\* networks, the route list and the feed's rendering of a bridge row count the
\* same rows.
THEOREM NetworksCountTheSameRows == Spec => [](\A plan \in Plans : NetworksAgree(plan))
<1>1. FeedInv => \A plan \in Plans : NetworksAgree(plan)
  BY NetworksShare
<1>2. QED
  BY <1>1, WalkKeepsItsPlace, PTL

\* Whatever has been reported, verified, priced and purged, and for every range:
\* reads that answer from one state of the table never contradict each other
\* where they count the same thing.
THEOREM ReadsNeverContradict == Spec => []ReadsAgree
<1>1. BooksInv => ReadsAgree
  <2>1. BooksInv => FeedInv
    BY DEF BooksInv
  <2>2. FeedInv => \A plan \in Plans : RankingsAgree(plan) /\ TokensAgree(plan) /\ NetworksAgree(plan)
    BY RankingsShare, TokensShare, NetworksShare
  <2>3. QED
    BY <2>1, <2>2, AggregatesKept, Zenon DEF ReadsAgree
<1>2. QED
  BY <1>1, AggregatesAreTheRows, PTL

-----------------------------------------------------------------------------
(* AN AGENT'S PAGE: lots and what is taken from them *)

Lots == [quantity : Nat \ {0}, cost : Nat]

CostIn(lots) == [i \in DOMAIN lots |-> lots[i].cost]

LEMMA CostOfIs ==
    ASSUME NEW lots \in Seq(Lots)
    PROVE  /\ DOMAIN lots = 1 .. Len(lots) /\ IsFiniteSet(DOMAIN lots)
           /\ \A i \in DOMAIN lots : CostIn(lots)[i] \in Nat
           /\ CostOf(lots) = SumFunctionOnSet(CostIn(lots), DOMAIN lots)
           /\ CostOf(lots) \in Nat
<1>1. DOMAIN lots = 1 .. Len(lots) /\ Len(lots) \in Nat
  BY LenProperties
<1>2. IsFiniteSet(DOMAIN lots)
  BY <1>1, FS_Interval
<1>3. \A i \in DOMAIN lots : CostIn(lots)[i] \in Nat
  <2>1. \A i \in DOMAIN lots : lots[i] \in Lots
    BY <1>1, ElementOfSeq
  <2>2. QED
    BY <2>1 DEF CostIn, Lots
<1>4. CostOf(lots) = SumFunction(CostIn(lots))
  BY Zenon DEF CostOf, SumOver, CostIn
<1>5. DOMAIN CostIn(lots) = DOMAIN lots
  BY DEF CostIn
<1>6. CostOf(lots) = SumFunctionOnSet(CostIn(lots), DOMAIN lots)
  BY <1>2, <1>4, <1>5, SumOverIs
<1>7. CostOf(lots) \in Nat
  BY <1>2, <1>3, <1>6, SumNat
<1>8. QED
  BY <1>1, <1>2, <1>3, <1>6, <1>7

LEMMA CostOfNone == CostOf(<<>>) = 0
<1>1. <<>> \in Seq(Lots) /\ DOMAIN <<>> = {}
  BY EmptySeq
<1>2. CostOf(<<>>) = SumFunctionOnSet(CostIn(<<>>), DOMAIN <<>>)
  BY <1>1, CostOfIs
<1>3. CostOf(<<>>) = SumFunctionOnSet(CostIn(<<>>), {})
  BY <1>1, <1>2, Zenon
<1>4. QED
  BY <1>3, SumEmpty

LEMMA CostOfAppend ==
    ASSUME NEW lots \in Seq(Lots), NEW lot \in Lots
    PROVE  /\ Append(lots, lot) \in Seq(Lots)
           /\ CostOf(Append(lots, lot)) = CostOf(lots) + lot.cost
<1> DEFINE more == Append(lots, lot)
           n == Len(lots)
<1>1. /\ more \in Seq(Lots) /\ n \in Nat /\ Len(more) = n + 1
      /\ \A i \in 1 .. n : more[i] = lots[i]
      /\ more[n + 1] = lot
  BY AppendProperties, LenProperties
<1> HIDE DEF more
<1>2. /\ DOMAIN more = 1 .. n + 1 /\ DOMAIN lots = 1 .. n
      /\ IsFiniteSet(DOMAIN more) /\ IsFiniteSet(DOMAIN lots)
      /\ \A i \in DOMAIN more : CostIn(more)[i] \in Nat
      /\ CostOf(more) = SumFunctionOnSet(CostIn(more), DOMAIN more)
      /\ CostOf(lots) = SumFunctionOnSet(CostIn(lots), DOMAIN lots)
  BY <1>1, CostOfIs
<1>3. CostIn(more)[n + 1] = lot.cost /\ \A i \in DOMAIN lots : CostIn(more)[i] = CostIn(lots)[i]
  BY <1>1, <1>2 DEF CostIn
<1>4. n + 1 \in DOMAIN more /\ DOMAIN more \ {n + 1} = DOMAIN lots
  BY <1>1, <1>2
<1>5. SumFunctionOnSet(CostIn(more), DOMAIN more)
        = CostIn(more)[n + 1] + SumFunctionOnSet(CostIn(more), DOMAIN more \ {n + 1})
  <2>1. \A i \in DOMAIN more : CostIn(more)[i] \in Int
    BY <1>2
  <2>2. QED
    BY <1>2, <1>4, <2>1, SumRemove
<1>6. SumFunctionOnSet(CostIn(more), DOMAIN more \ {n + 1}) = SumFunctionOnSet(CostIn(more), DOMAIN lots)
  BY <1>4, Zenon
<1>7. SumFunctionOnSet(CostIn(more), DOMAIN lots) = SumFunctionOnSet(CostIn(lots), DOMAIN lots)
  BY <1>2, <1>3, SumLocal
<1>8. CostOf(more) \in Nat /\ CostOf(lots) \in Nat /\ lot.cost \in Nat
  BY <1>1, CostOfIs DEF Lots
<1>9. CostOf(more) = CostOf(lots) + lot.cost
  BY <1>2, <1>3, <1>5, <1>6, <1>7, <1>8
<1>10. QED
  BY <1>1, <1>9 DEF more

\* A part of an amount, rounded down, is no more than the amount.
LEMMA PartOfAmount ==
    ASSUME NEW c \in Nat, NEW n \in Nat \ {0}, NEW m \in 0 .. n
    PROVE  /\ (c * m) \div n \in 0 .. c
           /\ (c * 0) \div n = 0 /\ (c * n) \div n = c
<1>1. c * m \in Nat /\ c * n \in Nat /\ c * m <= c * n
  OBVIOUS
<1>2. (c * n) \div n = c
  OBVIOUS
<1>3. (c * m) \div n <= (c * n) \div n
  BY <1>1
<1>4. QED
  BY <1>1, <1>2, <1>3

LEMMA SmallerOf ==
    ASSUME NEW a \in Nat, NEW b \in Nat
    PROVE  Min({a, b}) = IF a <= b THEN a ELSE b
<1>1. IsFiniteSet({a, b}) /\ {a, b} # {} /\ {a, b} \in SUBSET Int
  <2>1. IsFiniteSet({a} \cup {b})
    BY FS_Singleton, FS_AddElement
  <2>2. {a} \cup {b} = {a, b}
    OBVIOUS
  <2>3. IsFiniteSet({a, b})
    BY <2>1, <2>2, Zenon
  <2>4. QED
    BY <2>3
<1>2. Min({a, b}) \in {a, b} /\ \A x \in {a, b} : Min({a, b}) <= x
  BY <1>1, MinInt
<1>3. QED
  BY <1>2

-----------------------------------------------------------------------------
(* Taking from the lots, oldest first *)

\* What has been taken of the lots seen so far, which cost that much.
Taking(taken, wanted, spent) ==
    /\ taken \in [wanted : {wanted}, quantity : 0 .. wanted, cost : Nat, lots : Nat, left : Seq(Lots)]
    /\ taken.cost + CostOf(taken.left) = spent
    /\ taken.lots > 0 <=> taken.quantity > 0
    /\ taken.quantity = 0 => taken.cost = 0

LEMMA NothingIsTaken ==
    ASSUME NEW wanted \in Nat
    PROVE  Taking(NothingTaken(wanted), wanted, 0)
<1>1. <<>> \in Seq(Lots)
  BY EmptySeq
<1>2. QED
  BY <1>1, CostOfNone DEF Taking, NothingTaken

\* What a lot cost is shared between what is taken of it and what is left.
LEMMA LotIsShared ==
    ASSUME NEW wanted \in Nat, NEW spent \in Nat, NEW taken, Taking(taken, wanted, spent),
           NEW lot \in Lots
    PROVE  Taking(ConsumeLot(taken, lot), wanted, spent + lot.cost)
<1> DEFINE quantity == Min({lot.quantity, taken.wanted - taken.quantity})
           cost == IF quantity = lot.quantity THEN lot.cost
                   ELSE (lot.cost * quantity) \div lot.quantity
           rest == [quantity |-> lot.quantity - quantity, cost |-> lot.cost - cost]
           left == IF rest.quantity = 0 THEN taken.left ELSE Append(taken.left, rest)
           lots == IF quantity > 0 THEN taken.lots + 1 ELSE taken.lots
           next == ConsumeLot(taken, lot)
<1>1. /\ lot.quantity \in Nat \ {0} /\ lot.cost \in Nat
      /\ taken.wanted = wanted /\ taken.quantity \in Nat /\ taken.quantity <= wanted
      /\ taken.cost \in Nat /\ taken.lots \in Nat /\ taken.left \in Seq(Lots)
      /\ CostOf(taken.left) \in Nat
  BY CostOfIs DEF Taking, Lots
<1>2. /\ quantity \in Nat /\ quantity <= lot.quantity /\ taken.quantity + quantity <= wanted
  <2>1. wanted - taken.quantity \in Nat
    BY <1>1
  <2>2. quantity = IF lot.quantity <= wanted - taken.quantity THEN lot.quantity
                   ELSE wanted - taken.quantity
    BY <1>1, <2>1, SmallerOf
  <2> HIDE DEF quantity
  <2>3. QED
    BY <1>1, <2>1, <2>2
<1>3. next = [wanted |-> wanted, quantity |-> taken.quantity + quantity, cost |-> taken.cost + cost,
              lots |-> lots, left |-> left]
  <2>1. next = [taken EXCEPT !.quantity = @ + quantity, !.cost = @ + cost,
                             !.lots = IF quantity > 0 THEN @ + 1 ELSE @,
                             !.left = IF rest.quantity = 0 THEN @ ELSE Append(@, rest)]
    BY Zenon DEF ConsumeLot
  <2> HIDE DEF quantity, cost, rest, next
  <2>2. QED
    BY <1>1, <2>1 DEF Taking
<1> HIDE DEF quantity, next
<1>4. cost \in Nat /\ cost <= lot.cost /\ (quantity = 0 => cost = 0)
  <2>1. quantity \in 0 .. lot.quantity
    BY <1>1, <1>2
  <2>2. /\ (lot.cost * quantity) \div lot.quantity \in 0 .. lot.cost
        /\ (lot.cost * 0) \div lot.quantity = 0
    BY <1>1, <2>1, PartOfAmount
  <2>3. quantity = 0 => cost = 0
    BY <1>1, <2>2
  <2>4. QED
    BY <1>1, <2>2, <2>3
<1> HIDE DEF cost
<1>5. left \in Seq(Lots) /\ CostOf(left) = CostOf(taken.left) + (lot.cost - cost)
  <2>1. CASE quantity = lot.quantity
    <3>1. rest.quantity = 0 /\ cost = lot.cost
      BY <1>1, <2>1 DEF cost
    <3>2. left = taken.left
      BY <3>1
    <3>3. QED
      BY <1>1, <3>1, <3>2
  <2>2. CASE quantity # lot.quantity
    <3>1. rest \in Lots /\ rest.quantity # 0 /\ rest.cost = lot.cost - cost
      <4> HIDE DEF rest, left, lots
      <4>1. /\ lot.quantity \in Nat /\ quantity \in Nat /\ quantity < lot.quantity
            /\ lot.cost \in Nat /\ cost \in Nat /\ cost <= lot.cost
        BY <1>1, <1>2, <1>4, <2>2
      <4>2. lot.quantity - quantity \in Nat \ {0} /\ lot.cost - cost \in Nat
        BY <4>1
      <4>3. QED
        BY <4>2 DEF Lots, rest
    <3>2. left = Append(taken.left, rest)
      BY <3>1
    <3> HIDE DEF rest, left
    <3>3. Append(taken.left, rest) \in Seq(Lots)
          /\ CostOf(Append(taken.left, rest)) = CostOf(taken.left) + rest.cost
      BY <1>1, <3>1, CostOfAppend
    <3>4. QED
      BY <3>1, <3>2, <3>3
  <2>3. QED
    BY <2>1, <2>2
<1> HIDE DEF left
<1>6. lots \in Nat /\ (lots > 0 <=> taken.quantity + quantity > 0)
  BY <1>1, <1>2 DEF Taking
<1> HIDE DEF lots
<1>7. taken.cost + CostOf(taken.left) = spent /\ (taken.quantity = 0 => taken.cost = 0)
  BY DEF Taking
<1>8. /\ next.cost + CostOf(next.left) = spent + lot.cost
      /\ next.quantity = 0 => next.cost = 0
  <2>1. next.cost = taken.cost + cost /\ next.left = left /\ next.quantity = taken.quantity + quantity
    BY <1>3
  <2> HIDE DEF rest
  <2>2. next.cost + CostOf(left) = spent + lot.cost
    <3> DEFINE before == CostOf(taken.left)
               after == CostOf(left)
    <3>1. before \in Nat /\ taken.cost \in Nat /\ cost \in Nat /\ lot.cost \in Nat
      BY <1>1, <1>4, Zenon
    <3>2. after = before + (lot.cost - cost) /\ taken.cost + before = spent
      BY <1>5, <1>7, Zenon
    <3> HIDE DEF before, after
    <3>3. (taken.cost + cost) + after = spent + lot.cost
      BY <3>1, <3>2
    <3>4. QED
      BY <2>1, <3>3, Zenon DEF after
  <2>3. next.quantity = 0 => taken.quantity = 0 /\ quantity = 0
    BY <1>1, <1>2, <2>1
  <2>4. next.quantity = 0 => next.cost = 0
    BY <1>4, <1>7, <2>1, <2>3
  <2>5. QED
    BY <2>1, <2>2, <2>4
<1>9. next \in [wanted : {wanted}, quantity : 0 .. wanted, cost : Nat, lots : Nat, left : Seq(Lots)]
  <2>1. /\ wanted \in {wanted} /\ taken.quantity + quantity \in 0 .. wanted
        /\ taken.cost + cost \in Nat /\ lots \in Nat /\ left \in Seq(Lots)
    <3> HIDE DEF rest
    <3>1. taken.quantity + quantity \in 0 .. wanted
      BY <1>1, <1>2
    <3>2. taken.cost + cost \in Nat
      BY <1>1, <1>4
    <3>3. lots \in Nat /\ left \in Seq(Lots)
      BY <1>5, <1>6, Zenon
    <3>4. QED
      BY <3>1, <3>2, <3>3
  <2>2. QED
    BY <1>3, <2>1
<1>10. next.lots > 0 <=> next.quantity > 0
  BY <1>3, <1>6
<1>11. QED
  BY <1>8, <1>9, <1>10 DEF Taking, next

\* The function ConsumeInventory computes.
Takes(lots, wanted, n, g) ==
    g = [k \in 0 .. n |-> IF k = 0 THEN NothingTaken(wanted) ELSE ConsumeLot(g[k - 1], lots[k])]

LEMMA TakesExist ==
    ASSUME NEW lots, NEW wanted
    PROVE  \A n \in Nat : \E g : Takes(lots, wanted, n, g)
<1> DEFINE On(k, taken) == ConsumeLot(taken, lots[k])
           Bad == {n \in Nat : ~ \E g : Takes(lots, wanted, n, g)}
<1>1. SUFFICES ASSUME Bad # {} PROVE FALSE
  OBVIOUS
<1>2. PICK n \in Bad : \A m \in Bad : n <= m
  <2>1. Bad \in SUBSET Nat
    OBVIOUS
  <2> HIDE DEF Bad
  <2>2. QED
    BY <1>1, <2>1, Least
<1>3. CASE n = 0
  <2>1. Takes(lots, wanted, 0, [k \in 0 .. 0 |-> NothingTaken(wanted)])
    BY DEF Takes
  <2>2. QED
    BY <1>3, <2>1
<1>4. CASE n # 0
  <2>1. n \in Nat /\ n - 1 \in Nat /\ n - 1 \notin Bad
    BY <1>2, <1>4
  <2>2. PICK g : Takes(lots, wanted, n - 1, g)
    BY <2>1
  <2> DEFINE h == [k \in 0 .. n |-> IF k = 0 THEN NothingTaken(wanted) ELSE On(k, g[k - 1])]
  <2> HIDE DEF On
  <2>3. \A k \in 0 .. n - 1 : h[k] = g[k]
    <3>1. \A k \in 0 .. n - 1 : g[k] = IF k = 0 THEN NothingTaken(wanted) ELSE On(k, g[k - 1])
      BY <2>2 DEF Takes, On
    <3>2. QED
      BY <2>1, <3>1
  <2>4. h = [k \in 0 .. n |-> IF k = 0 THEN NothingTaken(wanted) ELSE On(k, h[k - 1])]
    <3>1. \A k \in 0 .. n : k # 0 => h[k - 1] = g[k - 1]
      BY <2>1, <2>3
    <3> DEFINE e == [k \in 0 .. n |-> IF k = 0 THEN NothingTaken(wanted) ELSE On(k, h[k - 1])]
    <3>2. \A k \in 0 .. n : h[k] = e[k]
      BY <3>1
    <3>3. QED
      BY <3>2
  <2>5. Takes(lots, wanted, n, h)
    <3> HIDE DEF h
    <3>1. QED
      BY <2>4 DEF Takes, On
  <2>6. QED
    BY <2>5
<1>5. QED
  BY <1>3, <1>4

\* What is taken of the lots and what is left of them have cost what they did.
LEMMA Consumption ==
    ASSUME NEW lots \in Seq(Lots), NEW wanted \in Nat
    PROVE  /\ Taking(ConsumeInventory(lots, wanted), wanted, CostOf(lots))
           /\ lots = <<>> => /\ ConsumeInventory(lots, wanted).quantity = 0
                             /\ ConsumeInventory(lots, wanted).left = <<>>
<1> DEFINE n == Len(lots)
           it == CHOOSE h : h = [k \in 0 .. Len(lots) |->
                    IF k = 0 THEN NothingTaken(wanted) ELSE ConsumeLot(h[k - 1], lots[k])]
           spent(k) == SumFunctionOnSet(CostIn(lots), 1 .. k)
           Bad == {k \in 0 .. n : ~Taking(it[k], wanted, spent(k))}
<1>1. n \in Nat /\ DOMAIN lots = 1 .. n /\ \A k \in 1 .. n : lots[k] \in Lots
  BY LenProperties, ElementOfSeq
<1>2. \A k \in 1 .. n : CostIn(lots)[k] = lots[k].cost /\ CostIn(lots)[k] \in Nat
  BY <1>1 DEF CostIn, Lots
<1>3. Takes(lots, wanted, n, it)
  <2>1. \E g : Takes(lots, wanted, n, g)
    BY <1>1, TakesExist
  <2>2. QED
    BY <2>1 DEF Takes
<1>4. ConsumeInventory(lots, wanted) = it[n]
  BY DEF ConsumeInventory
<1> HIDE DEF it
<1>5. it[0] = NothingTaken(wanted) /\ \A k \in 1 .. n : it[k] = ConsumeLot(it[k - 1], lots[k])
  BY <1>1, <1>3 DEF Takes
<1>6. \A k \in 0 .. n : spent(k) \in Nat
  <2>1. ASSUME NEW k \in 0 .. n
        PROVE  spent(k) \in Nat
    <3>1. IsFiniteSet(1 .. k) /\ \A i \in 1 .. k : CostIn(lots)[i] \in Nat
      BY <1>1, <1>2, FS_Interval
    <3>2. QED
      BY <3>1, SumNat
  <2>2. QED
    BY <2>1
<1>7. ASSUME NEW k \in 1 .. n
      PROVE  spent(k) = spent(k - 1) + lots[k].cost
  <2>1. IsFiniteSet(1 .. k) /\ k \in 1 .. k /\ (1 .. k) \ {k} = 1 .. k - 1
    <3>1. k \in Nat /\ k \in 1 .. k /\ (1 .. k) \ {k} = 1 .. k - 1
      BY <1>1
    <3>2. IsFiniteSet(1 .. k)
      BY <3>1, FS_Interval
    <3>3. QED
      BY <3>1, <3>2
  <2>2. \A i \in 1 .. k : CostIn(lots)[i] \in Int
    BY <1>1, <1>2
  <2>3. spent(k) = CostIn(lots)[k] + SumFunctionOnSet(CostIn(lots), (1 .. k) \ {k})
    BY <2>1, <2>2, SumRemove
  <2>4. SumFunctionOnSet(CostIn(lots), (1 .. k) \ {k}) = spent(k - 1)
    BY <2>1, Zenon
  <2>5. spent(k - 1) \in Nat /\ CostIn(lots)[k] = lots[k].cost /\ CostIn(lots)[k] \in Nat
    BY <1>1, <1>2, <1>6
  <2> HIDE DEF spent
  <2>6. QED
    BY <2>3, <2>4, <2>5
<1>8. spent(0) = 0
  <2>1. 1 .. 0 = {}
    OBVIOUS
  <2>2. SumFunctionOnSet(CostIn(lots), 1 .. 0) = SumFunctionOnSet(CostIn(lots), {})
    BY <2>1, Zenon
  <2>3. QED
    BY <2>2, SumEmpty
<1>9. spent(n) = CostOf(lots)
  BY <1>1, CostOfIs, Zenon
<1> HIDE DEF spent
<1>10. Bad = {}
  <2> SUFFICES ASSUME Bad # {} PROVE FALSE
    OBVIOUS
  <2>1. PICK k \in Bad : \A m \in Bad : k <= m
    <3>1. Bad \in SUBSET Nat
      OBVIOUS
    <3> HIDE DEF Bad
    <3>2. QED
      BY <3>1, Least
  <2>2. k \in 0 .. n /\ ~Taking(it[k], wanted, spent(k))
    OBVIOUS
  <2>3. CASE k = 0
    BY <1>5, <1>8, <2>2, <2>3, NothingIsTaken
  <2>4. CASE k # 0
    <3>1. k \in 1 .. n /\ k - 1 \in 0 .. n /\ k - 1 \notin Bad
      BY <1>1, <2>1, <2>2, <2>4
    <3>2. Taking(it[k - 1], wanted, spent(k - 1)) /\ spent(k - 1) \in Nat
      BY <1>6, <3>1
    <3>3. Taking(ConsumeLot(it[k - 1], lots[k]), wanted, spent(k - 1) + lots[k].cost)
      BY <1>1, <3>1, <3>2, LotIsShared
    <3>4. QED
      BY <1>5, <1>7, <2>2, <3>1, <3>3
  <2>5. QED
    BY <2>3, <2>4
<1>11. Taking(it[n], wanted, spent(n))
  BY <1>1, <1>10
<1>12. lots = <<>> => it[n].quantity = 0 /\ it[n].left = <<>>
  BY <1>5 DEF NothingTaken
<1>13. QED
  BY <1>4, <1>9, <1>11, <1>12

-----------------------------------------------------------------------------
(* The lots on hand *)

IsInventory(inventory) ==
    /\ IsFiniteSet(DOMAIN inventory)
    /\ \A t \in DOMAIN inventory : inventory[t] \in Seq(Lots)

CostsIn(inventory) == [t \in DOMAIN inventory |-> CostOf(inventory[t])]

LEMMA OnHandIs ==
    ASSUME NEW inventory, IsInventory(inventory)
    PROVE  /\ \A t \in DOMAIN inventory : CostsIn(inventory)[t] \in Nat
           /\ OnHand(inventory) = SumFunctionOnSet(CostsIn(inventory), DOMAIN inventory)
           /\ OnHand(inventory) \in Nat
<1>1. \A t \in DOMAIN inventory : CostsIn(inventory)[t] \in Nat
  BY CostOfIs DEF IsInventory, CostsIn
<1>2. OnHand(inventory) = SumFunction(CostsIn(inventory)) /\ DOMAIN CostsIn(inventory) = DOMAIN inventory
  BY Zenon DEF OnHand, SumOver, CostsIn
<1>3. OnHand(inventory) = SumFunctionOnSet(CostsIn(inventory), DOMAIN inventory)
  BY <1>2, SumOverIs DEF IsInventory
<1>4. OnHand(inventory) \in Nat
  BY <1>1, <1>3, SumNat DEF IsInventory
<1>5. QED
  BY <1>1, <1>3, <1>4

LEMMA LotsOf ==
    ASSUME NEW inventory, IsInventory(inventory), NEW token
    PROVE  LotsFor(inventory, token) \in Seq(Lots)
<1>1. <<>> \in Seq(Lots)
  BY EmptySeq
<1>2. QED
  BY <1>1 DEF LotsFor, IsInventory

Restocked(inventory, token, lots, after) ==
    /\ IsInventory(after)
    /\ \A t \in DOMAIN after : after[t] = IF t = token THEN lots ELSE inventory[t]
    /\ DOMAIN after = DOMAIN inventory \cup {token}
    /\ OnHand(after) = (OnHand(inventory) - CostOf(LotsFor(inventory, token))) + CostOf(lots)

\* Other lots of one token change what is on hand by what they cost.
LEMMA OnHandWith ==
    ASSUME NEW inventory, IsInventory(inventory), NEW token, NEW lots \in Seq(Lots),
           NEW after, after = WithLots(inventory, token, lots)
    PROVE  Restocked(inventory, token, lots, after)
<1> DEFINE D == DOMAIN inventory
           rest == D \ {token}
<1>1. /\ DOMAIN after = D \cup {token}
      /\ \A t \in DOMAIN after : after[t] = IF t = token THEN lots ELSE inventory[t]
  BY DEF WithLots
<1>2. IsFiniteSet(D) /\ IsFiniteSet(rest) /\ IsFiniteSet(D \cup {token})
  <2>1. IsFiniteSet(D)
    BY DEF IsInventory
  <2>2. QED
    BY <2>1, FS_AddElement, FS_Subset
<1>3. IsInventory(after)
  BY <1>1, <1>2 DEF IsInventory
<1>4. /\ \A t \in DOMAIN after : CostsIn(after)[t] \in Nat
      /\ OnHand(after) = SumFunctionOnSet(CostsIn(after), DOMAIN after)
  BY <1>3, OnHandIs
<1>5. /\ \A t \in D : CostsIn(inventory)[t] \in Nat
      /\ OnHand(inventory) = SumFunctionOnSet(CostsIn(inventory), D)
      /\ OnHand(inventory) \in Nat
  BY OnHandIs
<1>6. CostsIn(after)[token] = CostOf(lots)
  BY <1>1 DEF CostsIn
<1>7. \A t \in rest : CostsIn(after)[t] = CostsIn(inventory)[t]
  <2>1. \A t \in rest : t \in DOMAIN after /\ t \in DOMAIN inventory /\ after[t] = inventory[t]
    BY <1>1
  <2>2. QED
    BY <2>1 DEF CostsIn
<1>8. OnHand(after) = CostOf(lots) + SumFunctionOnSet(CostsIn(after), rest)
  <2>1. IsFiniteSet(DOMAIN after) /\ token \in DOMAIN after /\ DOMAIN after \ {token} = rest
    BY <1>1, <1>2
  <2>2. \A t \in DOMAIN after : CostsIn(after)[t] \in Int
    BY <1>4
  <2>3. SumFunctionOnSet(CostsIn(after), DOMAIN after)
            = CostsIn(after)[token] + SumFunctionOnSet(CostsIn(after), DOMAIN after \ {token})
    BY <2>1, <2>2, SumRemove
  <2>4. SumFunctionOnSet(CostsIn(after), DOMAIN after \ {token}) = SumFunctionOnSet(CostsIn(after), rest)
    BY <2>1, Zenon
  <2>5. QED
    BY <1>4, <1>6, <2>3, <2>4, Zenon
<1>9. SumFunctionOnSet(CostsIn(after), rest) = SumFunctionOnSet(CostsIn(inventory), rest)
  BY <1>2, <1>7, SumLocal
<1>10. OnHand(inventory) = CostOf(LotsFor(inventory, token)) + SumFunctionOnSet(CostsIn(inventory), rest)
  <2>1. CASE token \in D
    <3>1. \A t \in D : CostsIn(inventory)[t] \in Int
      BY <1>5
    <3>2. OnHand(inventory) = CostsIn(inventory)[token] + SumFunctionOnSet(CostsIn(inventory), rest)
      BY <1>2, <1>5, <2>1, <3>1, SumRemove
    <3>3. CostsIn(inventory)[token] = CostOf(LotsFor(inventory, token))
      BY <2>1 DEF CostsIn, LotsFor
    <3>4. QED
      BY <3>2, <3>3, Zenon
  <2>2. CASE token \notin D
    <3>1. rest = D
      BY <2>2
    <3> HIDE DEF rest
    <3>2. OnHand(inventory) = SumFunctionOnSet(CostsIn(inventory), rest)
      BY <1>5, <3>1, Zenon
    <3>3. LotsFor(inventory, token) = <<>>
      BY <2>2 DEF LotsFor
    <3>4. CostOf(LotsFor(inventory, token)) = 0
      BY <3>3, CostOfNone, Zenon
    <3>5. QED
      BY <1>5, <3>2, <3>4
  <2>3. QED
    BY <2>1, <2>2
<1> HIDE DEF rest
<1>11. CostOf(lots) \in Nat /\ CostOf(LotsFor(inventory, token)) \in Nat
  BY CostOfIs, LotsOf
<1>12. SumFunctionOnSet(CostsIn(inventory), rest) \in Int
  <2>1. \A t \in rest : CostsIn(inventory)[t] \in Int
    BY <1>5 DEF rest
  <2>2. QED
    BY <1>2, <2>1, SumInt
<1>13. OnHand(after) = (OnHand(inventory) - CostOf(LotsFor(inventory, token))) + CostOf(lots)
  BY <1>5, <1>8, <1>9, <1>10, <1>11, <1>12
<1>14. QED
  BY <1>1, <1>3, <1>13, Zenon DEF Restocked

-----------------------------------------------------------------------------
(* The books of a run of trades *)

\* What the matching reads of a trade.
Tradable(T) ==
    /\ IsFiniteSet(T)
    /\ \A r \in T : /\ r.paid \in Nat /\ r.got \in Nat
                    /\ r.usdIn \in Nat /\ r.usdOut \in Nat

UsdPaid(T) == [r \in T |-> r.usdIn]

UsdGot(T) == [r \in T |-> r.usdOut]

One(T) == [r \in T |-> 1]

Unbacked(T) == Sales(T) \ Backed(T)

AddsNext(f, Q, P, r) ==
    /\ SumFunctionOnSet(f, Q \cap P) \in Int
    /\ SumFunctionOnSet(f, Q \cap (P \cup {r}))
        = SumFunctionOnSet(f, Q \cap P) + IF r \in Q THEN f[r] ELSE 0

\* A sum over the trades seen so far, with one more trade.
LEMMA SumNext ==
    ASSUME NEW T, IsFiniteSet(T), NEW Q \in SUBSET T, NEW f, \A x \in T : f[x] \in Int,
           NEW P \in SUBSET T, NEW r \in T, r \notin P
    PROVE  AddsNext(f, Q, P, r)
<1> DEFINE old == Q \cap P
           new == Q \cap (P \cup {r})
<1>1. IsFiniteSet(old) /\ \A x \in old : f[x] \in Int
  BY FS_Subset
<1>2. SumFunctionOnSet(f, old) \in Int
  BY <1>1, SumInt
<1>3. CASE r \in Q
  <2>1. new \in SUBSET T /\ r \in new /\ new \ {r} = old
    BY <1>3
  <2> HIDE DEF old, new
  <2>2. IsFiniteSet(new) /\ \A x \in new : f[x] \in Int
    BY <2>1, FS_Subset
  <2>3. SumFunctionOnSet(f, new) = f[r] + SumFunctionOnSet(f, new \ {r})
    BY <2>1, <2>2, SumRemove
  <2>4. SumFunctionOnSet(f, new \ {r}) = SumFunctionOnSet(f, old)
    BY <2>1, Zenon
  <2>5. SumFunctionOnSet(f, new) = SumFunctionOnSet(f, old) + f[r]
    BY <1>2, <2>3, <2>4
  <2>6. QED
    BY <1>2, <1>3, <2>5 DEF old, new, AddsNext
<1>4. CASE r \notin Q
  <2>1. new = old
    BY <1>4
  <2> HIDE DEF old, new
  <2>2. SumFunctionOnSet(f, new) = SumFunctionOnSet(f, old)
    BY <2>1, Zenon
  <2>3. QED
    BY <1>2, <1>4, <2>2 DEF old, new, AddsNext
<1>5. QED
  BY <1>3, <1>4

SoldSoFar(T, P) == SumFunctionOnSet(UsdPaid(T), Backed(T) \cap P)

BoughtSoFar(T, P) == SumFunctionOnSet(UsdGot(T), Buys(T) \cap P)

UnbackedSoFar(T, P) == SumFunctionOnSet(One(T), Unbacked(T) \cap P)

\* The books of the trades T after those in P: lots are of tokens bought
\* before, and the dollars add up.
Balanced(T, P, books) ==
    /\ IsInventory(books.inventory)
    /\ books.realized \in Int
    /\ books.closed \in Nat /\ books.winning \in 0 .. books.closed /\ books.unmatched \in Nat
    /\ \A t \in DOMAIN books.inventory : books.inventory[t] # <<>> =>
        \E b \in Buys(T) \cap P : TokenOf(b, b.out) = t
    /\ books.realized <= SoldSoFar(T, P) - (BoughtSoFar(T, P) - OnHand(books.inventory))
    /\ books.unmatched >= UnbackedSoFar(T, P)
    /\ books.unmatched = UnbackedSoFar(T, P) =>
        books.realized = SoldSoFar(T, P) - (BoughtSoFar(T, P) - OnHand(books.inventory))

LEMMA NoBooksBalance ==
    ASSUME NEW T
    PROVE  Balanced(T, {}, NoBooks)
<1> DEFINE none == [token \in {} |-> <<>>]
<1>1. /\ NoBooks.inventory = none /\ NoBooks.realized = 0 /\ NoBooks.closed = 0
      /\ NoBooks.winning = 0 /\ NoBooks.unmatched = 0
  BY DEF NoBooks
<1>2. DOMAIN none = {} /\ IsInventory(none)
  BY FS_EmptySet DEF IsInventory
<1> HIDE DEF none
<1>3. OnHand(none) = 0
  <2>1. OnHand(none) = SumFunctionOnSet(CostsIn(none), DOMAIN none)
    BY <1>2, OnHandIs
  <2>2. OnHand(none) = SumFunctionOnSet(CostsIn(none), {})
    BY <1>2, <2>1, Zenon
  <2>3. QED
    BY <2>2, SumEmpty
<1>4. SoldSoFar(T, {}) = 0 /\ BoughtSoFar(T, {}) = 0 /\ UnbackedSoFar(T, {}) = 0
  <2>1. /\ Backed(T) \cap {} = {} /\ Buys(T) \cap {} = {} /\ Unbacked(T) \cap {} = {}
    OBVIOUS
  <2>2. QED
    BY <2>1, SumEmpty, Zenon DEF SoldSoFar, BoughtSoFar, UnbackedSoFar
<1>5. OnHand(NoBooks.inventory) = 0 /\ IsInventory(NoBooks.inventory) /\ DOMAIN NoBooks.inventory = {}
  BY <1>1, <1>2, <1>3, Zenon
<1>6. QED
  BY <1>1, <1>4, <1>5 DEF Balanced

Stocked(inventory, r, taken, stock) ==
    /\ taken.cost \in Nat /\ taken.lots \in Nat /\ taken.quantity \in 0 .. r.paid
    /\ taken.lots > 0 <=> taken.quantity > 0
    /\ taken.quantity = 0 => taken.cost = 0
    /\ IsInventory(stock)
    /\ OnHand(stock) = (OnHand(inventory) - taken.cost) + (IF r.got > 0 THEN r.usdOut ELSE 0)
    /\ taken.quantity > 0 =>
        /\ TokenOf(r, r.in) \in DOMAIN inventory
        /\ inventory[TokenOf(r, r.in)] # <<>>
    /\ \A t \in DOMAIN stock : stock[t] # <<>> =>
        \/ t \in DOMAIN inventory /\ inventory[t] # <<>>
        \/ r.got > 0 /\ t = TokenOf(r, r.out)

\* One more trade: its sale takes from the lots, its purchase adds one.
LEMMA StockAfter ==
    ASSUME NEW inventory, IsInventory(inventory), NEW r,
           r.paid \in Nat, r.got \in Nat, r.usdOut \in Nat,
           NEW taken, taken = ConsumeInventory(LotsFor(inventory, TokenOf(r, r.in)), r.paid),
           NEW after, after = WithLots(inventory, TokenOf(r, r.in), taken.left),
           NEW stock, stock = IF r.got = 0 THEN after
                              ELSE WithLots(after, TokenOf(r, r.out),
                                            Append(LotsFor(after, TokenOf(r, r.out)),
                                                   [quantity |-> r.got, cost |-> r.usdOut]))
    PROVE  Stocked(inventory, r, taken, stock)
<1> DEFINE sold == TokenOf(r, r.in)
           bought == TokenOf(r, r.out)
           lots == LotsFor(inventory, sold)
           lot == [quantity |-> r.got, cost |-> r.usdOut]
<1>1. lots \in Seq(Lots) /\ CostOf(lots) \in Nat
  BY LotsOf, CostOfIs
<1>2. /\ Taking(taken, r.paid, CostOf(lots))
      /\ lots = <<>> => taken.quantity = 0 /\ taken.left = <<>>
  BY <1>1, Consumption, Zenon
<1>3. /\ taken.cost \in Nat /\ taken.lots \in Nat /\ taken.quantity \in 0 .. r.paid
      /\ taken.left \in Seq(Lots)
      /\ taken.lots > 0 <=> taken.quantity > 0
      /\ taken.quantity = 0 => taken.cost = 0
      /\ taken.cost + CostOf(taken.left) = CostOf(lots)
  BY <1>2 DEF Taking
<1>4. /\ IsInventory(after)
      /\ \A t \in DOMAIN after : after[t] = IF t = sold THEN taken.left ELSE inventory[t]
      /\ DOMAIN after = DOMAIN inventory \cup {sold}
      /\ OnHand(after) = (OnHand(inventory) - CostOf(lots)) + CostOf(taken.left)
  <2>1. Restocked(inventory, sold, taken.left, after)
    BY <1>3, OnHandWith, Zenon
  <2>2. QED
    BY <2>1, Zenon DEF Restocked
<1>5. OnHand(inventory) \in Nat /\ OnHand(after) \in Nat /\ CostOf(taken.left) \in Nat
  BY <1>3, <1>4, OnHandIs, CostOfIs
<1>6. OnHand(after) = OnHand(inventory) - taken.cost
  BY <1>1, <1>3, <1>4, <1>5
<1>7. lots # <<>> => sold \in DOMAIN inventory /\ inventory[sold] # <<>>
  BY DEF LotsFor
<1> HIDE DEF sold, bought, lots
<1>8. \A t \in DOMAIN after : after[t] # <<>> => t \in DOMAIN inventory /\ inventory[t] # <<>>
  BY <1>2, <1>4, <1>7
<1>9. taken.quantity > 0 => sold \in DOMAIN inventory /\ inventory[sold] # <<>>
  BY <1>2, <1>3, <1>7
<1>10. CASE r.got = 0
  <2>1. stock = after
    BY <1>10
  <2>2. ~(r.got > 0)
    BY <1>10
  <2>3. OnHand(stock) = (OnHand(inventory) - taken.cost) + (IF r.got > 0 THEN r.usdOut ELSE 0)
    BY <1>3, <1>5, <1>6, <2>1, <2>2
  <2>4. QED
    BY <1>3, <1>4, <1>8, <1>9, <2>1, <2>3 DEF sold, Stocked
<1>11. CASE r.got # 0
  <2>1. r.got > 0 /\ lot \in Lots /\ lot.cost = r.usdOut
    BY <1>11 DEF Lots
  <2> DEFINE old == LotsFor(after, bought)
  <2>2. stock = WithLots(after, bought, Append(old, lot))
    BY <1>11 DEF bought
  <2> HIDE DEF lot
  <2>3. old \in Seq(Lots) /\ CostOf(old) \in Nat
    BY <1>4, LotsOf, CostOfIs
  <2>4. Append(old, lot) \in Seq(Lots) /\ CostOf(Append(old, lot)) = CostOf(old) + lot.cost
    BY <2>1, <2>3, CostOfAppend
  <2>5. /\ IsInventory(stock)
        /\ \A t \in DOMAIN stock : stock[t] = IF t = bought THEN Append(old, lot) ELSE after[t]
        /\ DOMAIN stock = DOMAIN after \cup {bought}
        /\ OnHand(stock) = (OnHand(after) - CostOf(old)) + CostOf(Append(old, lot))
    <3>1. Restocked(after, bought, Append(old, lot), stock)
      BY <1>4, <2>2, <2>4, OnHandWith, Zenon
    <3>2. QED
      BY <3>1, Zenon DEF Restocked
  <2> HIDE DEF old
  <2>6. OnHand(stock) = (OnHand(inventory) - taken.cost) + r.usdOut
    BY <1>3, <1>5, <1>6, <2>1, <2>3, <2>4, <2>5
  <2>7. \A t \in DOMAIN stock : stock[t] # <<>> =>
            \/ t \in DOMAIN inventory /\ inventory[t] # <<>>
            \/ r.got > 0 /\ t = bought
    BY <1>8, <2>1, <2>5
  <2>8. OnHand(stock) = (OnHand(inventory) - taken.cost) + (IF r.got > 0 THEN r.usdOut ELSE 0)
    BY <2>1, <2>6
  <2>9. QED
    BY <1>3, <1>9, <2>5, <2>7, <2>8 DEF sold, bought, Stocked
<1>12. QED
  BY <1>10, <1>11

LEMMA TradeBalances ==
    ASSUME NEW T, Tradable(T), NEW P \in SUBSET T, NEW r \in T, r \notin P,
           \A x \in P : EarlierActivity(x, r), NEW books, Balanced(T, P, books)
    PROVE  Balanced(T, P \cup {r}, Traded(books, r))
<1> DEFINE inventory == books.inventory
           sold == TokenOf(r, r.in)
           taken == ConsumeInventory(LotsFor(inventory, sold), r.paid)
           after == WithLots(inventory, sold, taken.left)
           stock == IF r.got = 0 THEN after
                    ELSE WithLots(after, TokenOf(r, r.out),
                                  Append(LotsFor(after, TokenOf(r, r.out)),
                                         [quantity |-> r.got, cost |-> r.usdOut]))
           share == (r.usdIn * taken.quantity) \div r.paid
           closes == taken.lots > 0
           new == P \cup {r}
           next == Traded(books, r)
<1>1. r.paid \in Nat /\ r.got \in Nat /\ r.usdIn \in Nat /\ r.usdOut \in Nat /\ IsFiniteSet(T)
  BY DEF Tradable
<1>2. /\ IsInventory(inventory) /\ books.realized \in Int /\ books.closed \in Nat
      /\ books.winning \in 0 .. books.closed /\ books.unmatched \in Nat
      /\ OnHand(inventory) \in Nat
  BY OnHandIs DEF Balanced
<1>3. /\ next.inventory = stock
      /\ next.realized = IF closes THEN books.realized + (share - taken.cost) ELSE books.realized
      /\ next.closed = IF closes THEN books.closed + 1 ELSE books.closed
      /\ next.winning = IF closes /\ share - taken.cost > 0 THEN books.winning + 1 ELSE books.winning
      /\ next.unmatched = IF taken.quantity < r.paid THEN books.unmatched + 1 ELSE books.unmatched
  <2> DEFINE realized == IF closes THEN books.realized + (share - taken.cost) ELSE books.realized
             closed == IF closes THEN books.closed + 1 ELSE books.closed
             winning == IF closes /\ share - taken.cost > 0 THEN books.winning + 1 ELSE books.winning
             unmatched == IF taken.quantity < r.paid THEN books.unmatched + 1 ELSE books.unmatched
  <2>1. next = [inventory |-> stock, realized |-> realized, closed |-> closed,
                winning |-> winning, unmatched |-> unmatched]
    BY Zenon DEF Traded
  <2> HIDE DEF next, stock, realized, closed, winning, unmatched
  <2>2. /\ next.inventory = stock /\ next.realized = realized /\ next.closed = closed
        /\ next.winning = winning /\ next.unmatched = unmatched
    BY <2>1
  <2>3. QED
    BY <2>2, Zenon DEF realized, closed, winning, unmatched
<1> HIDE DEF next
<1>4. /\ taken.cost \in Nat /\ taken.lots \in Nat /\ taken.quantity \in 0 .. r.paid
      /\ taken.lots > 0 <=> taken.quantity > 0
      /\ taken.quantity = 0 => taken.cost = 0
      /\ IsInventory(stock)
      /\ OnHand(stock) = (OnHand(inventory) - taken.cost) + (IF r.got > 0 THEN r.usdOut ELSE 0)
      /\ taken.quantity > 0 => sold \in DOMAIN inventory /\ inventory[sold] # <<>>
      /\ \A t \in DOMAIN stock : stock[t] # <<>> =>
            \/ t \in DOMAIN inventory /\ inventory[t] # <<>>
            \/ r.got > 0 /\ t = TokenOf(r, r.out)
  <2>1. Stocked(inventory, r, taken, stock)
    <3>1. /\ taken = ConsumeInventory(LotsFor(inventory, TokenOf(r, r.in)), r.paid)
          /\ after = WithLots(inventory, TokenOf(r, r.in), taken.left)
          /\ stock = IF r.got = 0 THEN after
                     ELSE WithLots(after, TokenOf(r, r.out),
                                   Append(LotsFor(after, TokenOf(r, r.out)),
                                          [quantity |-> r.got, cost |-> r.usdOut]))
      BY Zenon
    <3> HIDE DEF taken, after, stock, sold, inventory
    <3>2. r.paid \in Nat /\ r.got \in Nat /\ r.usdOut \in Nat /\ IsInventory(inventory)
      BY <1>1, <1>2, Zenon
    <3>3. QED
      BY <3>1, <3>2, StockAfter, Zenon
  <2>2. QED
    BY <2>1, Zenon DEF Stocked
<1> HIDE DEF taken, after, stock
<1>5. closes => r \in Backed(T)
  <2> SUFFICES ASSUME closes PROVE r \in Backed(T)
    OBVIOUS
  <2>1. taken.quantity > 0 /\ r.paid > 0
    BY <1>1, <1>4
  <2>2. PICK b \in Buys(T) \cap P : TokenOf(b, b.out) = sold
    BY <1>4, <2>1 DEF Balanced
  <2>3. EarlierActivity(b, r)
    BY <2>2
  <2>4. r \in Sales(T)
    BY <2>1 DEF Sales
  <2>5. QED
    BY <2>2, <2>3, <2>4 DEF Backed
<1>6. Backed(T) \in SUBSET Sales(T) /\ Sales(T) \in SUBSET T /\ Buys(T) \in SUBSET T
      /\ Unbacked(T) = Sales(T) \ Backed(T) /\ (r \in Sales(T) <=> r.paid > 0)
      /\ (r \in Buys(T) <=> r.got > 0)
  BY DEF Backed, Sales, Buys, Unbacked
<1>7. /\ SoldSoFar(T, P) \in Int
      /\ SoldSoFar(T, new) = SoldSoFar(T, P) + IF r \in Backed(T) THEN r.usdIn ELSE 0
  <2>1. (\A x \in T : UsdPaid(T)[x] \in Int) /\ UsdPaid(T)[r] = r.usdIn
    BY DEF Tradable, UsdPaid
  <2>2. Backed(T) \in SUBSET T
    BY <1>6
  <2>3. AddsNext(UsdPaid(T), Backed(T), P, r)
    BY <1>1, <2>1, <2>2, SumNext, Zenon
  <2>4. /\ SoldSoFar(T, P) \in Int
        /\ SoldSoFar(T, P \cup {r}) = SoldSoFar(T, P) + IF r \in Backed(T) THEN UsdPaid(T)[r] ELSE 0
    BY <2>3, Zenon DEF AddsNext, SoldSoFar
  <2>5. QED
    BY <2>1, <2>4, Zenon
<1>8. /\ BoughtSoFar(T, P) \in Int
      /\ BoughtSoFar(T, new) = BoughtSoFar(T, P) + IF r \in Buys(T) THEN r.usdOut ELSE 0
  <2>1. (\A x \in T : UsdGot(T)[x] \in Int) /\ UsdGot(T)[r] = r.usdOut
    BY DEF Tradable, UsdGot
  <2>2. Buys(T) \in SUBSET T
    BY <1>6
  <2>3. AddsNext(UsdGot(T), Buys(T), P, r)
    BY <1>1, <2>1, <2>2, SumNext, Zenon
  <2>4. /\ BoughtSoFar(T, P) \in Int
        /\ BoughtSoFar(T, P \cup {r}) = BoughtSoFar(T, P) + IF r \in Buys(T) THEN UsdGot(T)[r] ELSE 0
    BY <2>3, Zenon DEF AddsNext, BoughtSoFar
  <2>5. QED
    BY <2>1, <2>4, Zenon
<1>9. /\ UnbackedSoFar(T, P) \in Int
      /\ UnbackedSoFar(T, new) = UnbackedSoFar(T, P) + IF r \in Unbacked(T) THEN 1 ELSE 0
  <2>1. (\A x \in T : One(T)[x] \in Int) /\ One(T)[r] = 1
    BY DEF One
  <2>2. Unbacked(T) \in SUBSET T
    BY <1>6
  <2>3. AddsNext(One(T), Unbacked(T), P, r)
    BY <1>1, <2>1, <2>2, SumNext, Zenon
  <2>4. /\ UnbackedSoFar(T, P) \in Int
        /\ UnbackedSoFar(T, P \cup {r}) = UnbackedSoFar(T, P) + IF r \in Unbacked(T) THEN One(T)[r] ELSE 0
    BY <2>3, Zenon DEF AddsNext, UnbackedSoFar
  <2>5. QED
    BY <2>1, <2>4, Zenon
<1>10. closes => /\ share \in 0 .. r.usdIn
                 /\ taken.quantity = r.paid => share = r.usdIn
  <2> SUFFICES ASSUME closes
               PROVE  share \in 0 .. r.usdIn /\ (taken.quantity = r.paid => share = r.usdIn)
    OBVIOUS
  <2>1. r.paid \in Nat \ {0} /\ taken.quantity \in 0 .. r.paid
    BY <1>1, <1>4
  <2>2. /\ (r.usdIn * taken.quantity) \div r.paid \in 0 .. r.usdIn
        /\ (r.usdIn * r.paid) \div r.paid = r.usdIn
    BY <1>1, <2>1, PartOfAmount
  <2>3. taken.quantity = r.paid => share = (r.usdIn * r.paid) \div r.paid
    BY Zenon
  <2>4. QED
    BY <2>2, <2>3
<1> HIDE DEF share, inventory
<1> DEFINE gain == IF closes THEN share ELSE 0
           worth == IF r \in Backed(T) THEN r.usdIn ELSE 0
           spent == IF r.got > 0 THEN r.usdOut ELSE 0
           missed == IF taken.quantity < r.paid THEN 1 ELSE 0
           unbacked == IF r \in Unbacked(T) THEN 1 ELSE 0
<1>11. /\ gain \in Nat /\ worth \in Nat /\ spent \in Nat /\ missed \in Nat /\ unbacked \in Nat
       /\ gain <= worth
  BY <1>1, <1>5, <1>10
<1> HIDE DEF new
<1>12. unbacked <= missed /\ (unbacked = missed => gain = worth)
  <2>1. r \in Unbacked(T) => ~closes /\ taken.quantity = 0 /\ r.paid > 0 /\ r \notin Backed(T)
    BY <1>4, <1>5, <1>6
  <2>2. ~(taken.quantity < r.paid) => taken.quantity = r.paid
    BY <1>1, <1>4
  <2>3. taken.quantity = r.paid /\ r.paid > 0 => closes
    BY <1>4
  <2>4. ~(r.paid > 0) => r \notin Backed(T) /\ ~closes
    BY <1>1, <1>4, <1>6
  <2>5. CASE r \in Unbacked(T)
    BY <1>1, <2>1, <2>5
  <2>6. CASE r \notin Unbacked(T) /\ taken.quantity < r.paid
    BY <2>6
  <2>7. CASE r \notin Unbacked(T) /\ ~(taken.quantity < r.paid)
    <3>1. CASE r.paid > 0
      <4>1. closes /\ r \in Backed(T) /\ share = r.usdIn
        BY <1>5, <1>10, <2>2, <2>3, <2>7, <3>1
      <4>2. QED
        BY <2>7, <4>1
    <3>2. CASE ~(r.paid > 0)
      BY <2>4, <2>7, <3>2
    <3>3. QED
      BY <3>1, <3>2
  <2>8. QED
    BY <2>5, <2>6, <2>7
<1>13. next.realized = (books.realized + gain) - taken.cost
  <2>1. CASE closes
    <3>1. share \in Int
      BY <1>10, <2>1
    <3>2. QED
      BY <1>2, <1>3, <1>4, <2>1, <3>1
  <2>2. CASE ~closes
    <3>1. taken.cost = 0
      BY <1>4, <2>2
    <3>2. QED
      BY <1>2, <1>3, <2>2, <3>1
  <2>3. QED
    BY <2>1, <2>2
<1>14. next.unmatched = books.unmatched + missed
  BY <1>2, <1>3
<1>15. /\ SoldSoFar(T, new) = SoldSoFar(T, P) + worth
       /\ BoughtSoFar(T, new) = BoughtSoFar(T, P) + spent
       /\ UnbackedSoFar(T, new) = UnbackedSoFar(T, P) + unbacked
  BY <1>6, <1>7, <1>8, <1>9 DEF new
<1>16. OnHand(next.inventory) = (OnHand(inventory) - taken.cost) + spent /\ IsInventory(next.inventory)
  BY <1>3, <1>4
<1>17. next.closed \in Nat /\ next.winning \in 0 .. next.closed
  BY <1>2, <1>3
<1>18. \A t \in DOMAIN next.inventory : next.inventory[t] # <<>> =>
            \E b \in Buys(T) \cap new : TokenOf(b, b.out) = t
  <2>1. ASSUME NEW t \in DOMAIN stock, stock[t] # <<>>
        PROVE  \E b \in Buys(T) \cap new : TokenOf(b, b.out) = t
    <3>1. CASE t \in DOMAIN inventory /\ inventory[t] # <<>>
      BY <3>1 DEF Balanced, inventory, new
    <3>2. CASE r.got > 0 /\ t = TokenOf(r, r.out)
      BY <1>6, <3>2 DEF new
    <3>3. QED
      BY <1>4, <2>1, <3>1, <3>2
  <2>2. QED
    BY <1>3, <2>1
<1>19. /\ books.realized <= SoldSoFar(T, P) - (BoughtSoFar(T, P) - OnHand(inventory))
       /\ books.unmatched >= UnbackedSoFar(T, P)
       /\ books.unmatched = UnbackedSoFar(T, P) =>
            books.realized = SoldSoFar(T, P) - (BoughtSoFar(T, P) - OnHand(inventory))
  BY DEF Balanced, inventory
<1> HIDE DEF gain, worth, spent, missed, unbacked, closes
<1>20. /\ books.realized \in Int /\ books.unmatched \in Int /\ OnHand(inventory) \in Int
       /\ taken.cost \in Int /\ next.unmatched \in Nat
       /\ SoldSoFar(T, P) \in Int /\ BoughtSoFar(T, P) \in Int /\ UnbackedSoFar(T, P) \in Int
  <2>1. books.unmatched \in Nat /\ missed \in Nat /\ taken.cost \in Nat /\ OnHand(inventory) \in Nat
    BY <1>2, <1>4, <1>11, Zenon
  <2>2. next.unmatched \in Nat /\ books.unmatched \in Int /\ taken.cost \in Int /\ OnHand(inventory) \in Int
    BY <1>14, <2>1
  <2>3. QED
    BY <1>2, <1>7, <1>8, <1>9, <2>2, Zenon
<1>21. next.realized \in Int
  BY <1>11, <1>13, <1>20
<1>22. /\ next.realized <= SoldSoFar(T, new) - (BoughtSoFar(T, new) - OnHand(next.inventory))
       /\ next.unmatched >= UnbackedSoFar(T, new)
       /\ next.unmatched = UnbackedSoFar(T, new) =>
            next.realized = SoldSoFar(T, new) - (BoughtSoFar(T, new) - OnHand(next.inventory))
  <2> DEFINE S == SoldSoFar(T, P)
             B == BoughtSoFar(T, P)
             U == UnbackedSoFar(T, P)
             H == OnHand(inventory)
  <2>1. S \in Int /\ B \in Int /\ U \in Int /\ H \in Int
    BY <1>20, Zenon
  <2>2. /\ SoldSoFar(T, new) = S + worth /\ BoughtSoFar(T, new) = B + spent
        /\ UnbackedSoFar(T, new) = U + unbacked
        /\ OnHand(next.inventory) = (H - taken.cost) + spent
    BY <1>15, <1>16, Zenon
  <2>3. /\ books.realized <= S - (B - H) /\ books.unmatched >= U
        /\ books.unmatched = U => books.realized = S - (B - H)
    BY <1>19, Zenon
  <2> HIDE DEF S, B, U, H
  <2>4. (S + worth) - ((B + spent) - ((H - taken.cost) + spent)) = ((S - (B - H)) + worth) - taken.cost
    BY <1>11, <1>20, <2>1
  <2>5. (books.realized + gain) - taken.cost <= ((S - (B - H)) + worth) - taken.cost
    BY <1>11, <1>20, <2>1, <2>3
  <2>6. books.unmatched + missed >= U + unbacked
    BY <1>11, <1>12, <1>20, <2>1, <2>3
  <2>7. books.unmatched + missed = U + unbacked =>
            (books.realized + gain) - taken.cost = ((S - (B - H)) + worth) - taken.cost
    <3>1. books.unmatched + missed = U + unbacked => books.unmatched = U /\ unbacked = missed
      BY <1>11, <1>12, <1>20, <2>1, <2>3
    <3>2. QED
      BY <1>12, <2>3, <3>1
  <2>8. QED
    BY <1>13, <1>14, <2>2, <2>4, <2>5, <2>6, <2>7, Zenon
<1>23. Balanced(T, new, next)
  BY <1>16, <1>17, <1>18, <1>20, <1>21, <1>22 DEF Balanced
<1>24. QED
  BY <1>23 DEF new, next

-----------------------------------------------------------------------------
(* The books of all the trades, in their order *)

\* The relation chronology puts on a set of activities.
ActivityOrder(S) == {p \in S \X S : EarlierActivity(p[1], p[2])}

\* Activities at whole seconds, each with an id of its own.
Dated(S) ==
    /\ \A x \in S : ObservedAtSeconds(x) \in Int /\ x.id \in Nat
    /\ \A x, y \in S : x.id = y.id => x = y

LEMMA ActivitiesOrdered ==
    ASSUME NEW S, Dated(S)
    PROVE  Orders(ActivityOrder(S), S)
<1>1. \A x, y \in S : <<x, y>> \in ActivityOrder(S) <=> EarlierActivity(x, y)
  BY DEF ActivityOrder
<1>2. \A x \in S : ~EarlierActivity(x, x)
  BY DEF Dated, EarlierActivity
<1>3. \A x, y, z \in S : EarlierActivity(x, y) /\ EarlierActivity(y, z) => EarlierActivity(x, z)
  BY DEF Dated, EarlierActivity
<1>4. \A x, y \in S : x # y => EarlierActivity(x, y) \/ EarlierActivity(y, x)
  BY DEF Dated, EarlierActivity
<1>5. QED
  BY <1>1, <1>2, <1>3, <1>4 DEF Orders

LEMMA RankedActivities ==
    ASSUME NEW S
    PROVE  Chronological(S) = Placed(S, PlaceIn(ActivityOrder(S), S))
<1>1. ASSUME NEW x \in S
      PROVE  Before(ActivityOrder(S), S, x) = {y \in S : EarlierActivity(y, x)}
  BY DEF Before, ActivityOrder
<1>2. [x \in S |-> Cardinality({y \in S : EarlierActivity(y, x)})] = PlaceIn(ActivityOrder(S), S)
  <2>1. \A x \in S : Cardinality({y \in S : EarlierActivity(y, x)})
                        = Cardinality(Before(ActivityOrder(S), S, x))
    BY <1>1, Zenon
  <2>2. QED
    BY <2>1, Zenon DEF PlaceIn
<1>3. QED
  BY <1>2, Zenon DEF Ranked, Chronological

\* Each activity in one place, and the earlier ones before it.
IsChronicle(S, s) ==
    /\ Cardinality(S) \in Nat /\ Len(s) = Cardinality(S)
    /\ \A i \in 1 .. Cardinality(S) : s[i] \in S
    /\ \A x \in S : \E i \in 1 .. Cardinality(S) : s[i] = x
    /\ \A i, k \in 1 .. Cardinality(S) : i < k => s[i] # s[k] /\ EarlierActivity(s[i], s[k])

\* PlacedInOrder, under one name.
InPlaces(S, B, s) ==
    /\ Cardinality(S) \in Nat /\ s \in Seq(S) /\ Len(s) = Cardinality(S)
    /\ \A x \in S : \E i \in 1 .. Cardinality(S) : s[i] = x
    /\ \A i, k \in 1 .. Cardinality(S) : i < k => <<s[i], s[k]>> \in B

LEMMA PlacesFilled ==
    ASSUME NEW S, IsFiniteSet(S), NEW B, Orders(B, S)
    PROVE  InPlaces(S, B, Placed(S, PlaceIn(B, S)))
<1> DEFINE L == Placed(S, PlaceIn(B, S))
<1>1. L = Placed(S, PlaceIn(B, S))
  OBVIOUS
<1> HIDE DEF L
<1>2. /\ Cardinality(S) \in Nat
      /\ L \in Seq(S) /\ Len(L) = Cardinality(S)
      /\ \A x \in S : PlaceIn(B, S)[x] + 1 \in 1 .. Cardinality(S)
                      /\ L[PlaceIn(B, S)[x] + 1] = x
      /\ \A a \in 1 .. Cardinality(S) : PlaceIn(B, S)[L[a]] = a - 1
      /\ \A a, b \in 1 .. Cardinality(S) : a < b => <<L[a], L[b]>> \in B
  BY <1>1, PlacedInOrder
<1>3. InPlaces(S, B, L)
  BY <1>2, Zenon DEF InPlaces
<1>4. QED
  BY <1>3 DEF L

LEMMA InChronology ==
    ASSUME NEW S, IsFiniteSet(S), Dated(S)
    PROVE  IsChronicle(S, Chronological(S))
<1> DEFINE n == Cardinality(S)
           B == ActivityOrder(S)
           s == Chronological(S)
<1>1. Orders(B, S) /\ s = Placed(S, PlaceIn(B, S))
  BY ActivitiesOrdered, RankedActivities, Zenon
<1> HIDE DEF B, s
<1>2. /\ n \in Nat /\ s \in Seq(S) /\ Len(s) = n
      /\ \A x \in S : \E i \in 1 .. n : s[i] = x
      /\ \A i, k \in 1 .. n : i < k => <<s[i], s[k]>> \in B
  <2>1. InPlaces(S, B, Placed(S, PlaceIn(B, S)))
    BY <1>1, PlacesFilled, Zenon
  <2>2. InPlaces(S, B, s)
    BY <1>1, <2>1, Zenon
  <2>3. QED
    BY <2>2, Zenon DEF InPlaces
<1> HIDE DEF n
<1>3. \A i \in 1 .. n : s[i] \in S
  BY <1>2, ElementOfSeq
<1>5. \A i, k \in 1 .. n : i < k => s[i] # s[k] /\ EarlierActivity(s[i], s[k])
  <2>1. \A x \in S : <<x, x>> \notin B
    BY <1>1 DEF Orders
  <2>2. \A x, y \in S : <<x, y>> \in B => EarlierActivity(x, y)
    BY DEF B, ActivityOrder
  <2>3. QED
    BY <1>2, <1>3, <2>1, <2>2, Zenon
<1>6. QED
  BY <1>2, <1>3, <1>5, Zenon DEF n, s, IsChronicle

\* The function RealizedResult computes.
Keeps(trades, n, g) ==
    g = [k \in 0 .. n |-> IF k = 0 THEN NoBooks ELSE Traded(g[k - 1], trades[k])]

LEMMA KeepsExist ==
    ASSUME NEW trades
    PROVE  \A n \in Nat : \E g : Keeps(trades, n, g)
<1> DEFINE On(k, books) == Traded(books, trades[k])
           Bad == {n \in Nat : ~ \E g : Keeps(trades, n, g)}
<1>1. SUFFICES ASSUME Bad # {} PROVE FALSE
  OBVIOUS
<1>2. PICK n \in Bad : \A m \in Bad : n <= m
  <2>1. Bad \in SUBSET Nat
    OBVIOUS
  <2> HIDE DEF Bad
  <2>2. QED
    BY <1>1, <2>1, Least
<1>3. CASE n = 0
  <2>1. Keeps(trades, 0, [k \in 0 .. 0 |-> NoBooks])
    BY DEF Keeps
  <2>2. QED
    BY <1>3, <2>1
<1>4. CASE n # 0
  <2>1. n \in Nat /\ n - 1 \in Nat /\ n - 1 \notin Bad
    BY <1>2, <1>4
  <2>2. PICK g : Keeps(trades, n - 1, g)
    BY <2>1
  <2> DEFINE h == [k \in 0 .. n |-> IF k = 0 THEN NoBooks ELSE On(k, g[k - 1])]
  <2> HIDE DEF On
  <2>3. \A k \in 0 .. n - 1 : h[k] = g[k]
    <3>1. \A k \in 0 .. n - 1 : g[k] = IF k = 0 THEN NoBooks ELSE On(k, g[k - 1])
      BY <2>2 DEF Keeps, On
    <3>2. QED
      BY <2>1, <3>1
  <2>4. h = [k \in 0 .. n |-> IF k = 0 THEN NoBooks ELSE On(k, h[k - 1])]
    <3>1. \A k \in 0 .. n : k # 0 => h[k - 1] = g[k - 1]
      BY <2>1, <2>3
    <3> DEFINE e == [k \in 0 .. n |-> IF k = 0 THEN NoBooks ELSE On(k, h[k - 1])]
    <3>2. \A k \in 0 .. n : h[k] = e[k]
      BY <3>1
    <3>3. QED
      BY <3>2
  <2>5. Keeps(trades, n, h)
    <3> HIDE DEF h
    <3>1. QED
      BY <2>4 DEF Keeps, On
  <2>6. QED
    BY <2>5
<1>5. QED
  BY <1>3, <1>4

\* Matched first in, first out, the trades of an agent leave books that balance.
LEMMA BooksAreKept ==
    ASSUME NEW activities, NEW T, T = {r \in activities : IsTrade(r)}, Tradable(T), Dated(T)
    PROVE  BooksBalance(RealizedResult(activities), T)
<1> DEFINE n == Cardinality(T)
           s == Chronological(T)
           it == CHOOSE h : h = [k \in 0 .. Len(s) |->
                    IF k = 0 THEN NoBooks ELSE Traded(h[k - 1], s[k])]
           Seen(k) == {s[i] : i \in 1 .. k}
           Bad == {k \in 0 .. n : ~Balanced(T, Seen(k), it[k])}
<1>1. IsFiniteSet(T)
  BY DEF Tradable
<1>2. RealizedResult(activities) = it[Len(s)]
  <2>1. Chronological({r \in activities : IsTrade(r)}) = s
    BY Zenon
  <2> HIDE DEF s
  <2>2. QED
    BY <2>1, Zenon DEF RealizedResult
<1>3. /\ n \in Nat /\ Len(s) = n
      /\ \A i \in 1 .. n : s[i] \in T
      /\ \A x \in T : \E i \in 1 .. n : s[i] = x
      /\ \A i, k \in 1 .. n : i < k => s[i] # s[k] /\ EarlierActivity(s[i], s[k])
  <2>1. IsChronicle(T, s)
    BY <1>1, InChronology, Zenon
  <2>2. QED
    BY <2>1, Zenon DEF IsChronicle
<1>4. Keeps(s, n, it)
  <2>1. \E g : Keeps(s, n, g)
    BY <1>3, KeepsExist, Zenon
  <2>2. \E g : Keeps(s, Len(s), g)
    BY <1>3, <2>1, Zenon
  <2>3. Keeps(s, Len(s), it)
    <3> HIDE DEF s
    <3>1. QED
      BY <2>2 DEF Keeps
  <2>4. QED
    BY <1>3, <2>3, Zenon
<1> HIDE DEF it, s, n
<1>5. it[0] = NoBooks /\ \A k \in 1 .. n : it[k] = Traded(it[k - 1], s[k])
  BY <1>3, <1>4 DEF Keeps
<1>6. ASSUME NEW k \in 1 .. n
      PROVE  /\ k - 1 \in 0 .. n /\ k - 1 < k
             /\ Seen(k - 1) \in SUBSET T /\ s[k] \in T /\ s[k] \notin Seen(k - 1)
             /\ Seen(k) = Seen(k - 1) \cup {s[k]}
             /\ \A x \in Seen(k - 1) : EarlierActivity(x, s[k])
  <2>1. k \in Nat /\ k - 1 \in 0 .. n /\ k - 1 < k /\ 1 .. k = (1 .. k - 1) \cup {k}
    BY <1>3
  <2>2. \A i \in 1 .. k - 1 : i \in 1 .. n /\ i < k
    BY <1>3
  <2>3. \A i \in 1 .. k - 1 : s[i] \in T /\ s[i] # s[k] /\ EarlierActivity(s[i], s[k])
    BY <1>3, <2>2
  <2>4. QED
    BY <1>3, <2>1, <2>3
<1>7. Seen(0) = {} /\ Seen(n) = T
  BY <1>3
<1> HIDE DEF Seen
<1>8. Bad = {}
  <2> SUFFICES ASSUME Bad # {} PROVE FALSE
    OBVIOUS
  <2>1. PICK k \in Bad : \A m \in Bad : k <= m
    <3>1. Bad \in SUBSET Nat
      OBVIOUS
    <3> HIDE DEF Bad
    <3>2. QED
      BY <3>1, Least
  <2>2. k \in 0 .. n /\ ~Balanced(T, Seen(k), it[k])
    OBVIOUS
  <2>3. CASE k = 0
    <3>1. Balanced(T, Seen(0), it[0])
      BY <1>5, <1>7, NoBooksBalance, Zenon
    <3>2. QED
      BY <2>2, <2>3, <3>1, Zenon
  <2>4. CASE k # 0
    <3>1. k \in 1 .. n
      BY <1>3, <2>2, <2>4
    <3>2. k - 1 \notin Bad
      BY <1>6, <2>1, <2>2, <3>1
    <3>3. Balanced(T, Seen(k - 1), it[k - 1])
      BY <1>6, <3>1, <3>2
    <3>4. Balanced(T, Seen(k - 1) \cup {s[k]}, Traded(it[k - 1], s[k]))
      BY <1>6, <3>1, <3>3, TradeBalances, Zenon
    <3>5. QED
      BY <1>5, <1>6, <2>2, <3>1, <3>4, Zenon
  <2>5. QED
    BY <2>3, <2>4
<1> DEFINE result == it[n]
<1>9. Balanced(T, T, result)
  <2>1. n \in 0 .. n
    BY <1>3
  <2>2. Balanced(T, Seen(n), it[n])
    BY <1>8, <2>1
  <2>3. QED
    BY <1>7, <2>2, Zenon
<1> HIDE DEF Bad
<1>10. RealizedResult(activities) = result
  BY <1>2, <1>3, Zenon
<1> HIDE DEF result
<1>11. BooksBalance(result, T)
  <2> DEFINE sold == SumOver(Backed(T), LAMBDA r : r.usdIn)
             bought == SumOver(Buys(T), LAMBDA r : r.usdOut)
             held == OnHand(result.inventory)
             unbacked == Cardinality(Sales(T) \ Backed(T))
  <2>1. Backed(T) \in SUBSET T /\ Buys(T) \in SUBSET T /\ Unbacked(T) \in SUBSET T
    BY DEF Backed, Sales, Buys, Unbacked
  <2>2. IsFiniteSet(Backed(T)) /\ IsFiniteSet(Buys(T)) /\ IsFiniteSet(Unbacked(T))
    BY <1>1, <2>1, FS_Subset
  <2>3. Backed(T) \cap T = Backed(T) /\ Buys(T) \cap T = Buys(T) /\ Unbacked(T) \cap T = Unbacked(T)
    BY <2>1
  <2>4. sold = SoldSoFar(T, T)
    <3> DEFINE f == [r \in Backed(T) |-> r.usdIn]
    <3>1. sold = SumFunction(f)
      BY DEF SumOver
    <3>2. DOMAIN f = Backed(T) /\ \A r \in Backed(T) : f[r] = UsdPaid(T)[r]
      BY <2>1 DEF UsdPaid
    <3> HIDE DEF f, sold
    <3>3. SumFunction(f) = SumFunctionOnSet(UsdPaid(T), Backed(T))
      BY <2>2, <3>2, SumOverIs
    <3>4. QED
      BY <2>3, <3>1, <3>3, Zenon DEF SoldSoFar
  <2>5. bought = BoughtSoFar(T, T)
    <3> DEFINE f == [r \in Buys(T) |-> r.usdOut]
    <3>1. bought = SumFunction(f)
      BY DEF SumOver
    <3>2. DOMAIN f = Buys(T) /\ \A r \in Buys(T) : f[r] = UsdGot(T)[r]
      BY <2>1 DEF UsdGot
    <3> HIDE DEF f, bought
    <3>3. SumFunction(f) = SumFunctionOnSet(UsdGot(T), Buys(T))
      BY <2>2, <3>2, SumOverIs
    <3>4. QED
      BY <2>3, <3>1, <3>3, Zenon DEF BoughtSoFar
  <2>6. unbacked = UnbackedSoFar(T, T)
    <3>1. \A r \in Unbacked(T) : One(T)[r] = 1
      BY <2>1 DEF One
    <3>2. SumFunctionOnSet(One(T), Unbacked(T)) = Cardinality(Unbacked(T))
      BY <2>2, <3>1, SumOfOnes
    <3>3. QED
      BY <2>3, <3>2, Zenon DEF UnbackedSoFar, Unbacked
  <2>7. /\ result.realized <= SoldSoFar(T, T) - (BoughtSoFar(T, T) - held)
        /\ result.unmatched >= UnbackedSoFar(T, T)
        /\ result.unmatched = UnbackedSoFar(T, T) =>
            result.realized = SoldSoFar(T, T) - (BoughtSoFar(T, T) - held)
    BY <1>9, Zenon DEF Balanced
  <2>8. result.winning <= result.closed
    <3>1. result.closed \in Nat /\ result.winning \in 0 .. result.closed
      BY <1>9, Zenon DEF Balanced
    <3>2. QED
      BY <3>1
  <2>9. /\ result.realized <= sold - (bought - held) /\ result.unmatched >= unbacked
        /\ result.unmatched = unbacked => result.realized = sold - (bought - held)
    BY <2>4, <2>5, <2>6, <2>7, Zenon
  <2>10. QED
    BY <2>8, <2>9, Zenon DEF BooksBalance
<1>12. QED
  BY <1>10, <1>11, Zenon

-----------------------------------------------------------------------------
(* The figures of an agent's page *)

\* The activities of the agent the page shows, the latest of its own rows.
LaterRows(S) == {p \in S \X S : EarlierRow(p[2], p[1])}

LEMMA LaterOrdered ==
    ASSUME NEW R, Readable(R), NEW S \in SUBSET R, \A r \in S : Verified(r)
    PROVE  IsFiniteSet(S) /\ Orders(LaterRows(S), S)
<1>1. IsFiniteSet(S)
  BY FS_Subset DEF Readable
<1>2. \A r \in S : TimeAnchor(r) \in Int /\ r.id \in Nat
  <2>1. \A r \in S : RowReads(r)
    BY DEF Readable
  <2>2. \A r \in S : TimeAnchor(r) \in Int
    BY <2>1, AnchorInt
  <2>3. \A r \in S : r.id \in Nat
    BY <2>1 DEF RowReads
  <2>4. QED
    BY <2>2, <2>3
<1>3. \A x, y \in S : x.id = y.id => x = y
  BY DEF Readable
<1>4. \A x, y \in S : <<x, y>> \in LaterRows(S) <=> EarlierRow(y, x)
  BY DEF LaterRows
<1>5. \A x \in S : ~EarlierRow(x, x)
  BY <1>2 DEF EarlierRow
<1>6. \A x, y, z \in S : EarlierRow(y, x) /\ EarlierRow(z, y) => EarlierRow(z, x)
  BY <1>2 DEF EarlierRow
<1>7. \A x, y \in S : x # y => EarlierRow(x, y) \/ EarlierRow(y, x)
  BY <1>2, <1>3 DEF EarlierRow
<1>8. QED
  BY <1>1, <1>4, <1>5, <1>6, <1>7 DEF Orders

\* The first m places hold m rows.
LEMMA FirstPlaces ==
    ASSUME NEW S, IsFiniteSet(S), NEW B, Orders(B, S), NEW m \in Nat, m <= Cardinality(S),
           NEW first, first = {x \in S : PlaceIn(B, S)[x] < m}
    PROVE  Cardinality(first) = m
<1> DEFINE place == PlaceIn(B, S)
           n == Cardinality(S)
           T == 0 .. m - 1
           f == [x \in first |-> place[x]]
<1>1. n \in Nat
  BY FS_CardinalityType
<1>2. /\ \A x \in S : place[x] \in 0 .. n - 1
      /\ \A x, y \in S : <<x, y>> \in B => place[x] < place[y]
      /\ \A a \in 0 .. n - 1 : \E x \in S : place[x] = a
  BY PlacesAreTaken
<1> HIDE DEF place, n
<1>3. first = {x \in S : place[x] < m}
  BY DEF place
<1>4. \A x \in first : f[x] \in T
  BY <1>1, <1>2, <1>3
<1>5. \A x, y \in first : f[x] = f[y] => x = y
  <2> SUFFICES ASSUME NEW x \in first, NEW y \in first, place[x] = place[y]
               PROVE  x = y
    OBVIOUS
  <2>1. x \in S /\ y \in S /\ place[x] \in Int
    BY <1>1, <1>2, <1>3
  <2>2. <<x, y>> \notin B /\ <<y, x>> \notin B
    BY <1>2, <2>1
  <2>3. QED
    BY <2>1, <2>2 DEF Orders
<1>6. \A a \in T : \E x \in first : f[x] = a
  BY <1>1, <1>2, <1>3 DEF n
<1>7. Renames(f, first, T)
  <2> HIDE DEF f, T
  <2>1. QED
    BY <1>4, <1>5, <1>6 DEF Renames
<1>8. IsFiniteSet(first)
  BY <1>3, FS_Subset
<1>9. Cardinality(T) = Cardinality(first)
  BY <1>7, <1>8, SameCount, Zenon
<1>10. QED
  BY <1>9, CountUpTo

LEMMA LatestRows ==
    ASSUME NEW R, Readable(R), NEW agent, NEW rowsMax \in Nat \ {0},
           NEW own, own = {r \in R : Verified(r) /\ r.agent = agent},
           NEW window, window = AgentPageActivities(R, agent, rowsMax)
    PROVE  /\ own \in SUBSET R /\ window.activities \in SUBSET own
           /\ ~window.truncated => window.activities = own
<1> DEFINE B == LaterRows(own)
           place == PlaceIn(B, own)
           latest == {r \in own : place[r] < rowsMax}
<1>1. own \in SUBSET R /\ (\A r \in own : Verified(r)) /\ latest \in SUBSET own
  OBVIOUS
<1>2. IsFiniteSet(own) /\ Orders(B, own)
  BY <1>1, LaterOrdered
<1>3. \A r \in own : {x \in own : EarlierRow(r, x)} = Before(B, own, r)
  BY DEF Before, LaterRows
<1>4. \A r \in own : Cardinality({x \in own : EarlierRow(r, x)}) = place[r]
  <2>1. \A r \in own : place[r] = Cardinality(Before(B, own, r))
    BY DEF PlaceIn
  <2>2. QED
    BY <1>3, <2>1, Zenon
<1>5. {r \in own : Cardinality({x \in own : EarlierRow(r, x)}) < rowsMax} = latest
  BY <1>4
<1> HIDE DEF place, latest, B
<1>6. window.activities = latest /\ window.truncated = (Cardinality(latest) = rowsMax)
  BY <1>5 DEF AgentPageActivities
<1>7. Cardinality(own) \in Nat /\ \A r \in own : place[r] \in 0 .. Cardinality(own) - 1
  BY <1>2, PlacesAreTaken, FS_CardinalityType DEF place
<1>8. CASE rowsMax <= Cardinality(own)
  <2>1. Cardinality(latest) = rowsMax
    <3>1. latest = {x \in own : PlaceIn(B, own)[x] < rowsMax} /\ rowsMax \in Nat
      BY DEF latest, place
    <3>2. QED
      BY <1>2, <1>8, <3>1, FirstPlaces
  <2>2. QED
    BY <1>1, <1>6, <2>1
<1>9. CASE ~(rowsMax <= Cardinality(own))
  <2>1. \A r \in own : place[r] < rowsMax
    BY <1>7, <1>9
  <2>2. latest = own
    BY <2>1 DEF latest
  <2>3. QED
    BY <1>1, <1>6, <2>2
<1>10. QED
  BY <1>8, <1>9

\* What a row adds to the volumes of a page.
VolumeIs(R) == [r \in R |-> PricedVolumeOf(r)]

LEMMA PageVolume ==
    ASSUME NEW R, Readable(R), NEW Q \in SUBSET R
    PROVE  /\ IsFiniteSet(Q)
           /\ \A r \in R : VolumeIs(R)[r] \in Nat
           /\ SumOver(Q, PricedVolumeOf) = SumFunctionOnSet(VolumeIs(R), Q)
           /\ SumFunctionOnSet(VolumeIs(R), Q) = UsdInSum(Deploying(Q))
<1>1. /\ IsFiniteSet(Q) /\ Deploying(Q) \in SUBSET Q
      /\ \A r \in Q : r \in Deploying(Q) <=> DeploysCapital(r)
  BY FS_Subset DEF Readable, Deploying
<1>2. /\ \A r \in R : UsdIn(R)[r] \in Nat
      /\ UsdInSum(Deploying(Q)) = SumFunctionOnSet(UsdIn(R), Deploying(Q))
  BY <1>1, UsdInSumIs
<1>3. \A r \in R : /\ DeploysCapital(r) => VolumeIs(R)[r] = UsdIn(R)[r]
                   /\ ~DeploysCapital(r) => VolumeIs(R)[r] = 0
  BY DEF VolumeIs, PricedVolumeOf, UsdIn
<1>4. \A r \in R : VolumeIs(R)[r] \in Nat
  BY <1>2, <1>3
<1>5. SumFunctionOnSet(VolumeIs(R), Q) = SumFunctionOnSet(UsdIn(R), Deploying(Q))
  <2>1. \A r \in Q : VolumeIs(R)[r] \in Int
    BY <1>4
  <2>2. \A r \in Deploying(Q) : UsdIn(R)[r] = VolumeIs(R)[r]
    BY <1>1, <1>3
  <2>3. \A r \in Q \ Deploying(Q) : VolumeIs(R)[r] = 0
    BY <1>1, <1>3
  <2>4. QED
    BY <1>1, <2>1, <2>2, <2>3, SumWhere
<1>6. SumOver(Q, PricedVolumeOf) = SumFunctionOnSet(VolumeIs(R), Q)
  <2> DEFINE f == [r \in Q |-> PricedVolumeOf(r)]
  <2>1. SumOver(Q, PricedVolumeOf) = SumFunction(f)
    BY DEF SumOver
  <2>2. DOMAIN f = Q /\ \A r \in Q : f[r] = VolumeIs(R)[r]
    BY DEF VolumeIs
  <2> HIDE DEF f
  <2>3. QED
    BY <1>1, <2>1, <2>2, SumOverIs
<1>7. QED
  BY <1>1, <1>2, <1>4, <1>5, <1>6

\* A breakdown of the activities by a key shares out what they deployed.
LEMMA BreakdownTotal ==
    ASSUME NEW R, Readable(R), NEW Q \in SUBSET R, NEW keyOf, DOMAIN keyOf = Q,
           NEW b, b = Breakdown(keyOf)
    PROVE  SumFunction([k \in DOMAIN b |-> b[k].volume]) = UsdInSum(Deploying(Q))
<1> DEFINE D == Range(keyOf)
           Own(k) == {r \in Q : keyOf[r] = k}
           group == [k \in D |-> Own(k)]
           v == [k \in DOMAIN b |-> b[k].volume]
<1>1. DOMAIN b = D /\ \A k \in D : b[k].volume = SumOver(Own(k), PricedVolumeOf)
  BY DEF Breakdown
<1>2. IsFiniteSet(Q)
  BY PageVolume
<1>3. D = {keyOf[r] : r \in Q}
  BY DEF Range
<1>4. IsFiniteSet(D)
  <2>1. IsFiniteSet({keyOf[r] : r \in Q})
    BY <1>2, FiniteImage
  <2> HIDE DEF D
  <2>2. QED
    BY <1>3, <2>1
<1>5. Partition(group, Q, D)
  <2>1. \A k \in D : group[k] = Own(k)
    OBVIOUS
  <2>2. \A r \in Q : keyOf[r] \in D
    BY <1>3
  <2> HIDE DEF group, D
  <2>3. QED
    BY <2>1, <2>2 DEF Partition
<1>6. \A k \in D : v[k] = SumFunctionOnSet(VolumeIs(R), group[k])
  <2>1. ASSUME NEW k \in D
        PROVE  v[k] = SumFunctionOnSet(VolumeIs(R), group[k])
    <3>1. v[k] = b[k].volume /\ group[k] = Own(k) /\ Own(k) \in SUBSET R
      BY <1>1
    <3> HIDE DEF Own, group, v
    <3>2. SumOver(Own(k), PricedVolumeOf) = SumFunctionOnSet(VolumeIs(R), Own(k))
      BY <3>1, PageVolume
    <3>3. QED
      BY <1>1, <3>1, <3>2, Zenon
  <2>2. QED
    BY <2>1
<1>7. DOMAIN v = D
  BY <1>1
<1> HIDE DEF D, group, v
<1>8. \A r \in Q : VolumeIs(R)[r] \in Int
  BY PageVolume
<1>9. SumFunctionOnSet(v, D) = SumFunctionOnSet(VolumeIs(R), Q)
  BY <1>2, <1>4, <1>5, <1>6, <1>8, SumGroups
<1>10. SumFunction(v) = SumFunctionOnSet(v, D)
  BY <1>4, <1>7, SumOverIs
<1>11. SumFunctionOnSet(VolumeIs(R), Q) = UsdInSum(Deploying(Q))
  BY PageVolume
<1>12. QED
  BY <1>9, <1>10, <1>11, Zenon DEF v

LEMMA LargestOf ==
    ASSUME NEW S, IsFiniteSet(S), S # {}, S \in SUBSET Int
    PROVE  Max(S) \in S
<1> DEFINE minus == [x \in S |-> 0 - x]
           T == {minus[x] : x \in S}
<1>1. IsFiniteSet(T) /\ T # {} /\ T \in SUBSET Int
  <2>1. IsFiniteSet(T)
    <3> HIDE DEF minus
    <3>1. QED
      BY FiniteImage
  <2>2. T # {}
    OBVIOUS
  <2>3. \A x \in S : minus[x] \in Int
    OBVIOUS
  <2> HIDE DEF minus
  <2>4. T \in SUBSET Int
    BY <2>3
  <2>5. QED
    BY <2>1, <2>2, <2>4
<1>2. Min(T) \in T /\ \A y \in T : Min(T) <= y
  <2> HIDE DEF T
  <2>1. QED
    BY <1>1, MinInt
<1>3. PICK x \in S : Min(T) = 0 - x
  BY <1>2
<1>4. \A y \in S : 0 - y \in T
  OBVIOUS
<1> HIDE DEF T
<1>5. \A y \in S : x >= y
  BY <1>2, <1>3, <1>4
<1>6. QED
  BY <1>5 DEF Max

\* No day deployed more than all the activities did, nor did the days together.
LEMMA DaysTotal ==
    ASSUME NEW R, Readable(R), NEW Q \in SUBSET R, \A r \in Q : Verified(r), NEW time \in Int,
           NEW capital, capital = CapitalDeployed(Q, time), NEW all, all = UsdInSum(Deploying(Q))
    PROVE  /\ SumFunction([d \in DOMAIN capital.daily |-> capital.daily[d]]) \in Nat
           /\ SumFunction([d \in DOMAIN capital.daily |-> capital.daily[d]]) <= all
           /\ capital.peak \in Nat /\ capital.peak <= all
<1> DEFINE D == BucketStarts(TrailingStart(time), DayOf(time), DayTicks)
           On(d) == {r \in Q : DayOf(TimeAnchor(r)) = d}
           group == [d \in D |-> On(d)]
           daily == capital.daily
           v == [d \in DOMAIN daily |-> daily[d]]
           S == {0} \cup {daily[d] : d \in DOMAIN daily}
<1>1. /\ DOMAIN daily = D /\ \A d \in D : daily[d] = SumOver(On(d), PricedVolumeOf)
      /\ capital.peak = Max(S)
  BY DEF CapitalDeployed
<1>2. DayTicks \in Nat \ {0} /\ TrailingDays \in Int
  BY FeedAssumption, ReadsAssumption
<1>3. IsFiniteSet(D)
  BY <1>2, BucketWindow DEF TrailingStart, DayOf
<1>4. /\ IsFiniteSet(Q) /\ all = SumFunctionOnSet(VolumeIs(R), Q)
      /\ \A r \in Q : VolumeIs(R)[r] \in Nat
  BY PageVolume
<1>5. Disjoint(group, Q, D)
  <2>1. \A d \in D : group[d] = On(d)
    OBVIOUS
  <2> HIDE DEF group, D
  <2>2. QED
    BY <2>1 DEF Disjoint
<1>6. \A d \in D : /\ v[d] = daily[d]
                   /\ v[d] = SumFunctionOnSet(VolumeIs(R), group[d])
                   /\ group[d] \in SUBSET Q
  <2>1. ASSUME NEW d \in D
        PROVE  /\ v[d] = daily[d]
               /\ v[d] = SumFunctionOnSet(VolumeIs(R), group[d])
               /\ group[d] \in SUBSET Q
    <3>1. v[d] = daily[d] /\ group[d] = On(d) /\ On(d) \in SUBSET R /\ On(d) \in SUBSET Q
      BY <1>1
    <3> HIDE DEF On, group, v
    <3>2. SumOver(On(d), PricedVolumeOf) = SumFunctionOnSet(VolumeIs(R), On(d))
      BY <3>1, PageVolume
    <3>3. QED
      BY <1>1, <3>1, <3>2, Zenon
  <2>2. QED
    BY <2>1
<1>7. DOMAIN v = D
  BY <1>1
<1> HIDE DEF D, group, v
<1>8. SumFunctionOnSet(v, D) <= all
  BY <1>3, <1>4, <1>5, <1>6, SumOfParts
<1>9. SumFunction(v) = SumFunctionOnSet(v, D)
  BY <1>3, <1>7, SumOverIs
<1>10. all \in Nat /\ \A d \in D : daily[d] \in Nat /\ daily[d] <= all
  <2>1. \A d \in D : /\ SumFunctionOnSet(VolumeIs(R), group[d]) \in Nat
                     /\ SumFunctionOnSet(VolumeIs(R), group[d]) <= all
    BY <1>4, <1>6, SumNat
  <2>2. all \in Nat
    BY <1>4, SumNat
  <2>3. QED
    BY <1>6, <2>1, <2>2
<1>11. Max(S) \in S
  <2>1. IsFiniteSet({daily[d] : d \in DOMAIN daily})
    <3>1. IsFiniteSet({daily[d] : d \in D})
      BY <1>3, FiniteImage
    <3>2. QED
      BY <1>1, <3>1
  <2>2. IsFiniteSet(S)
    BY <2>1, FS_Singleton, FS_Union
  <2>3. S \in SUBSET Int /\ S # {}
    BY <1>1, <1>10
  <2> HIDE DEF S
  <2>4. QED
    BY <2>2, <2>3, LargestOf
<1>12. \A x \in S : x \in Nat /\ x <= all
  BY <1>1, <1>10
<1>13. SumFunctionOnSet(v, D) \in Nat
  <2>1. \A d \in D : v[d] \in Nat
    BY <1>6, <1>10
  <2>2. QED
    BY <1>3, <2>1, SumNat
<1>14. QED
  BY <1>1, <1>8, <1>9, <1>11, <1>12, <1>13 DEF v

\* The page counts a row as priced, unpriced or awaiting a price as SQL does.
LEMMA PageCoverage ==
    ASSUME NEW own, (\A r \in own : RowReads(r) /\ Verified(r)), NEW time,
           NEW coverage, coverage = PricingCoverage(own, None, time)
    PROVE  /\ ContributionCount(own, "contributes_usd") = coverage.priced
           /\ ContributionCount(own, "contributes_no_usd") = coverage.unpriced
           /\ ContributionCount(own, "awaiting_a_price") = coverage.pending
<1> DEFINE led == LeaderRows(own, None, time)
           Kind(kind) == {r \in own : UsdContributionOf(r) = kind}
           A == {r \in led : ContributesUsd(r)}
           B == {r \in led : ContributesNoUsd(r)}
           C == {r \in led : AwaitingAPrice(r)}
<1>1. \A r : r \in led <=> r \in own /\ DeploysCapital(r)
  BY DEF LeaderRows, InOpenWindow
<1>2. coverage.priced = Cardinality(A) /\ coverage.unpriced = Cardinality(B)
        /\ coverage.pending = Cardinality(C)
  BY DEF PricingCoverage
<1> HIDE DEF led
<1>3. ASSUME NEW r \in own
      PROVE  /\ UsdContributionOf(r) = "contributes_usd" <=> DeploysCapital(r) /\ ContributesUsd(r)
             /\ UsdContributionOf(r) = "contributes_no_usd" <=> DeploysCapital(r) /\ ContributesNoUsd(r)
             /\ UsdContributionOf(r) = "awaiting_a_price" <=> DeploysCapital(r) /\ AwaitingAPrice(r)
  <2>1. r.pricing \in {"pending", "server_priced", "unpriced"}
    BY DEF RowReads
  <2>2. CASE ~DeploysCapital(r)
    <3>1. UsdContributionOf(r) = "outside_usd_figures"
      BY <2>2 DEF UsdContributionOf
    <3>2. QED
      BY <2>2, <3>1
  <2>3. CASE DeploysCapital(r) /\ r.pricing = "pending"
    <3>1. UsdContributionOf(r) = "awaiting_a_price"
      BY <2>3 DEF UsdContributionOf
    <3>2. QED
      BY <2>3, <3>1 DEF ContributesUsd, ContributesNoUsd, AwaitingAPrice
  <2>4. CASE DeploysCapital(r) /\ r.pricing # "pending"
    <3>1. UsdContributionOf(r) =
            IF \/ r.pricing = "unpriced"
               \/ r.pricing = "server_priced" /\ r.usdIn = None
               \/ r.pricing = "server_priced" /\ r.out # None /\ r.usdOut = None
            THEN "contributes_no_usd" ELSE "contributes_usd"
      BY <2>4 DEF UsdContributionOf
    <3>2. QED
      BY <2>1, <2>4, <3>1 DEF ContributesUsd, ContributesNoUsd, AwaitingAPrice
  <2>5. QED
    BY <2>2, <2>3, <2>4
<1>4. /\ Kind("contributes_usd") = A /\ Kind("contributes_no_usd") = B
      /\ Kind("awaiting_a_price") = C
  BY <1>1, <1>3
<1> HIDE DEF A, B, C
<1>5. \A kind : ContributionCount(own, kind) = Cardinality(Kind(kind))
  BY DEF ContributionCount
<1> HIDE DEF Kind
<1>6. QED
  BY <1>2, <1>4, <1>5, Zenon

LEMMA PageFigures ==
    ASSUME NEW R, Readable(R), now \in Int, NEW agent,
           NEW own, own = {r \in R : Verified(r) /\ r.agent = agent},
           NEW window, window = AgentPageActivities(R, agent, RowsMax),
           NEW page, page = ToAgentPage(window, now, 1)
    PROVE  FiguresAgree(page, own)
<1> DEFINE Q == window.activities
           deployed == UsdInSum(Deploying(own))
           shown == UsdInSum(Deploying(Q))
           coverage == PricingCoverage(own, None, now)
           recent == InTrailingWindow(Q, now)
<1>1. /\ own \in SUBSET R /\ Q \in SUBSET own
      /\ ~window.truncated => Q = own
  BY LatestRows, ReadsAssumption
<1>2. /\ page.capital = CapitalDeployed(Q, now)
      /\ page.protocols = ProtocolBreakdown(Q) /\ page.chains = ChainBreakdown(Q)
      /\ page.count = Cardinality(Q) /\ page.count30d = Cardinality(recent)
      /\ page.unpriced = ContributionCount(Q, "contributes_no_usd")
      /\ page.unpriced30d = ContributionCount(recent, "contributes_no_usd")
      /\ page.priced = ContributionCount(Q, "contributes_usd")
      /\ page.awaiting = ContributionCount(Q, "awaiting_a_price")
      /\ page.truncated = window.truncated
  BY DEF ToAgentPage
<1> HIDE DEF Q, deployed, shown, coverage, recent
<1>3. Q \in SUBSET R /\ \A r \in own : RowReads(r) /\ Verified(r)
  BY <1>1 DEF Readable
<1>4. /\ IsFiniteSet(own) /\ IsFiniteSet(Q)
      /\ deployed = SumFunctionOnSet(VolumeIs(R), own) /\ shown = SumFunctionOnSet(VolumeIs(R), Q)
      /\ \A r \in own : VolumeIs(R)[r] \in Nat
  BY <1>1, <1>3, PageVolume DEF deployed, shown
<1>5. shown <= deployed /\ shown \in Nat /\ deployed \in Nat
  BY <1>1, <1>4, SumNat
<1>6. /\ SumFunction([p \in DOMAIN page.protocols |-> page.protocols[p].volume]) = shown
      /\ SumFunction([c \in DOMAIN page.chains |-> page.chains[c].volume]) = shown
  <2> DEFINE protocolOf == [r \in Q |-> r.protocol]
             chainOf == [r \in Q |-> <<r.family, r.chain>>]
  <2>1. page.protocols = Breakdown(protocolOf) /\ page.chains = Breakdown(chainOf)
    BY <1>2, Zenon DEF ProtocolBreakdown, ChainBreakdown
  <2>2. DOMAIN protocolOf = Q /\ DOMAIN chainOf = Q
    OBVIOUS
  <2> HIDE DEF protocolOf, chainOf
  <2>3. QED
    BY <1>3, <2>1, <2>2, BreakdownTotal DEF shown
<1>7. /\ SumFunction([d \in DOMAIN page.capital.daily |-> page.capital.daily[d]]) \in Nat
      /\ SumFunction([d \in DOMAIN page.capital.daily |-> page.capital.daily[d]]) <= shown
      /\ page.capital.peak \in Nat /\ page.capital.peak <= shown
  <2>1. \A r \in Q : Verified(r)
    BY <1>1, <1>3
  <2>2. QED
    BY <1>2, <1>3, <2>1, DaysTotal DEF shown
<1>8. recent \in SUBSET Q
  BY DEF recent, InTrailingWindow
<1>9. page.count30d <= page.count /\ page.unpriced30d <= page.unpriced
  <2> DEFINE A == {r \in recent : UsdContributionOf(r) = "contributes_no_usd"}
             B == {r \in Q : UsdContributionOf(r) = "contributes_no_usd"}
  <2>1. A \in SUBSET B /\ IsFiniteSet(B)
    BY <1>4, <1>8, FS_Subset
  <2>2. page.unpriced30d = Cardinality(A) /\ page.unpriced = Cardinality(B)
    BY <1>2, Zenon DEF ContributionCount
  <2> HIDE DEF A, B
  <2>3. Cardinality(A) <= Cardinality(B)
    BY <2>1, FS_Subset
  <2>4. Cardinality(recent) <= Cardinality(Q)
    BY <1>4, <1>8, FS_Subset
  <2>5. QED
    BY <1>2, <2>2, <2>3, <2>4, Zenon
<1>10. Q = own => /\ shown = deployed
                  /\ page.priced = coverage.priced /\ page.unpriced = coverage.unpriced
                  /\ page.awaiting = coverage.pending
  <2>1. /\ ContributionCount(own, "contributes_usd") = coverage.priced
        /\ ContributionCount(own, "contributes_no_usd") = coverage.unpriced
        /\ ContributionCount(own, "awaiting_a_price") = coverage.pending
    BY <1>3, PageCoverage DEF coverage
  <2>2. QED
    BY <1>2, <2>1, Zenon DEF shown, deployed
<1>11. /\ SumFunction([d \in DOMAIN page.capital.daily |-> page.capital.daily[d]]) <= deployed
       /\ page.capital.peak <= deployed
  <2> DEFINE daily == SumFunction([d \in DOMAIN page.capital.daily |-> page.capital.daily[d]])
             peak == page.capital.peak
  <2>1. daily \in Nat /\ peak \in Nat /\ daily <= shown /\ peak <= shown
    BY <1>7
  <2> HIDE DEF daily, peak
  <2>2. daily <= deployed /\ peak <= deployed
    BY <1>5, <2>1
  <2>3. QED
    BY <2>2 DEF daily, peak
<1>12. QED
  BY <1>1, <1>2, <1>6, <1>9, <1>10, <1>11, Zenon DEF FiguresAgree, SumOver, deployed, coverage

-----------------------------------------------------------------------------
(* An agent's page *)

LEMMA PageBooks ==
    ASSUME NEW R, Readable(R), NEW activities \in SUBSET R, (\A r \in activities : Verified(r)),
           NEW T, T = {r \in activities : IsTrade(r)}
    PROVE  BooksBalance(RealizedResult(activities), T)
<1>1. T \in SUBSET R /\ \A r \in T : IsTrade(r) /\ Verified(r)
  OBVIOUS
<1>2. \A r \in T : RowReads(r)
  BY <1>1 DEF Readable
<1>3. Tradable(T)
  <2>1. IsFiniteSet(T)
    BY <1>1, FS_Subset DEF Readable
  <2>2. ASSUME NEW r \in T
        PROVE  r.paid \in Nat /\ r.got \in Nat /\ r.usdIn \in Nat /\ r.usdOut \in Nat
    <3>1. r.paid # None /\ r.got # None /\ r.usdIn # None /\ r.usdOut # None
      BY <1>1 DEF IsTrade
    <3>2. QED
      BY <1>2, <3>1 DEF RowReads
  <2>3. QED
    BY <2>1, <2>2 DEF Tradable
<1>4. Dated(T)
  <2>1. ASSUME NEW r \in T
        PROVE  ObservedAtSeconds(r) \in Int /\ r.id \in Nat
    <3>1. TimeAnchor(r) \in Int
      BY <1>1, <1>2, AnchorInt
    <3>2. SecondTicks \in Nat \ {0}
      BY ReadsAssumption
    <3>3. r.id \in Nat
      BY <1>2 DEF RowReads
    <3>4. TimeAnchor(r) \div SecondTicks \in Int
      BY <3>1, <3>2
    <3>5. QED
      BY <3>3, <3>4 DEF ObservedAtSeconds
  <2>2. \A x, y \in T : x.id = y.id => x = y
    BY <1>1 DEF Readable
  <2>3. QED
    BY <2>1, <2>2 DEF Dated
<1>5. QED
  BY <1>3, <1>4, BooksAreKept, Zenon

LEMMA PageAgrees == FeedInv => AgentPageAgrees
<1> SUFFICES ASSUME FeedInv, NEW a \in {r.agent : r \in Table}
             PROVE  LET window == AgentPageActivities(Table, a, RowsMax)
                        page == ToAgentPage(window, now, 1)
                    IN /\ FiguresAgree(page, {r \in Table : Verified(r) /\ r.agent = a})
                       /\ BooksBalance(page.realized, {r \in window.activities : IsTrade(r)})
  BY Zenon DEF AgentPageAgrees
<1> DEFINE window == AgentPageActivities(Table, a, RowsMax)
           page == ToAgentPage(window, now, 1)
           own == {r \in Table : Verified(r) /\ r.agent = a}
<1>1. Readable(Table) /\ now \in Int /\ RowsMax \in Nat \ {0}
  BY TableReadable, ReadsAssumption DEF FeedInv
<1>2. FiguresAgree(page, own)
  BY <1>1, PageFigures
<1>3. own \in SUBSET Table /\ window.activities \in SUBSET own
  BY DEF AgentPageActivities
<1>4. window.activities \in SUBSET Table /\ \A r \in window.activities : Verified(r)
  BY <1>3
<1>5. page.realized = RealizedResult(window.activities)
  BY DEF ToAgentPage
<1> HIDE DEF window, page
<1>6. BooksBalance(RealizedResult(window.activities), {r \in window.activities : IsTrade(r)})
  BY <1>1, <1>4, PageBooks
<1>7. BooksBalance(page.realized, {r \in window.activities : IsTrade(r)})
  BY <1>5, <1>6, Zenon
<1>8. QED
  BY <1>2, <1>7, Zenon DEF window, page, own

\* Whatever the agent traded and however its purchases and sales fall into the
\* lots: its page says what SQL says of its rows, and every dollar paid for a
\* lot is either matched by a sale or still on hand, so the realised result is
\* what the sales of tokens bought before brought less what is no longer held.
THEOREM AgentPageKeepsBooks == Spec => []AgentPageAgrees
<1>1. QED
  BY WalkKeepsItsPlace, PageAgrees, PTL

=============================================================================
