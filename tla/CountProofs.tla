------------------------------- MODULE CountProofs -------------------------------
(***************************************************************************)
(* What a query of the statistics returns (Stat) and what used_memory says *)
(* (Zmalloc), for every set of threads, blocks, sizes and values.  Both    *)
(* are sums over finite sets, which the first part is about; the two       *)
(* libraries share no state, so each has an inductive invariant.           *)
(***************************************************************************)
EXTENDS Counters, FiniteSetTheorems, WellFoundedInduction, TLAPS

-----------------------------------------------------------------------------
(* Sums over finite sets.                                                  *)

\* Of sets of subsets of a finite set, one has no other below it.
LEMMA LeastSubset ==
    ASSUME NEW S, IsFiniteSet(S), NEW B \in SUBSET (SUBSET S), B # {}
    PROVE  \E T \in B : \A U \in B : U \subseteq T => U = T
<1> DEFINE R == StrictSubsetOrdering(S)
<1>1. IsWellFoundedOn(R, SUBSET S)
  BY FS_StrictSubsetOrderingWellFounded, FS_FiniteSubsetsOfFinite, Zenon
<1>2. \A U \in SUBSET S, T \in SUBSET S : U \subseteq T /\ U # T => <<U, T>> \in R
  BY DEF StrictSubsetOrdering
<1> HIDE DEF R
<1>3. PICK T \in B : \A U \in B : ~(<<U, T>> \in R)
  BY <1>1, WFMin
<1> QED BY <1>2, <1>3, Zenon

Chosen(s) == CHOOSE x \in s : TRUE
Adds(f, S, g) ==
    g = [s \in SUBSET S |-> IF s = {} THEN 0 ELSE f[Chosen(s)] + g[s \ {Chosen(s)}]]

\* A sum takes the elements of a set in the order CHOOSE takes them.
LEMMA SumIsFold ==
    ASSUME NEW f, NEW S
    PROVE  SumFunctionOnSet(f, S) = (CHOOSE g : Adds(f, S, g))[S]
BY DEF SumFunctionOnSet, FoldFunctionOnSet, MapThenFoldSet, Adds, Chosen

\* What CHOOSE takes is an element.
LEMMA ChosenIn == ASSUME NEW s, s # {} PROVE Chosen(s) \in s
BY DEF Chosen

\* On the sets on which two such functions are both defined they agree.
LEMMA AddsUnique ==
    ASSUME NEW f, NEW S, IsFiniteSet(S), NEW T \in SUBSET S, NEW g, Adds(f, S, g),
           NEW h, Adds(f, T, h)
    PROVE  \A s \in SUBSET T : g[s] = h[s]
<1> DEFINE B == {s \in SUBSET T : g[s] # h[s]}
<1>1. IsFiniteSet(T)
  BY FS_Subset
<1> SUFFICES ASSUME B # {} PROVE FALSE
  OBVIOUS
<1>2. PICK s \in B : \A u \in B : u \subseteq s => u = s
  <2> HIDE DEF B
  <2>1. B \in SUBSET (SUBSET T)
    BY DEF B
  <2> QED BY <1>1, <2>1, LeastSubset
<1>3. s \in SUBSET T /\ s \in SUBSET S /\ g[s] # h[s]
  BY <1>2
<1>4. /\ g[s] = IF s = {} THEN 0 ELSE f[Chosen(s)] + g[s \ {Chosen(s)}]
      /\ h[s] = IF s = {} THEN 0 ELSE f[Chosen(s)] + h[s \ {Chosen(s)}]
  BY <1>3, Zenon DEF Adds
<1>5. s # {}
  BY <1>3, <1>4
<1> DEFINE r == s \ {Chosen(s)}
<1>6. r \in SUBSET T /\ r \subseteq s /\ r # s
  BY <1>3, <1>5, ChosenIn
<1>7. g[r] = h[r]
  BY <1>2, <1>6
<1> QED BY <1>3, <1>4, <1>5, <1>7

\* There is a function that adds up every subset of a finite set.
LEMMA AddsExists ==
    ASSUME NEW f, NEW S, IsFiniteSet(S) PROVE \E g : Adds(f, S, g)
<1> DEFINE B == {T \in SUBSET S : ~\E g : Adds(f, T, g)}
<1> SUFFICES ASSUME B # {} PROVE FALSE
  OBVIOUS
<1>1. PICK T \in B : \A U \in B : U \subseteq T => U = T
  <2> HIDE DEF B
  <2>1. B \in SUBSET (SUBSET S)
    BY DEF B
  <2> QED BY <2>1, LeastSubset
<1>2. T \in SUBSET S /\ IsFiniteSet(T) /\ ~\E g : Adds(f, T, g)
  BY <1>1, FS_Subset
<1> DEFINE G(s) == CHOOSE g : Adds(f, s, g)
           sum(s) == IF s = {} THEN 0 ELSE f[Chosen(s)] + G(s \ {Chosen(s)})[s \ {Chosen(s)}]
           h == [s \in SUBSET T |-> sum(s)]
<1>3. ASSUME NEW s \in SUBSET T, s # T PROVE Adds(f, s, G(s)) /\ IsFiniteSet(s)
  <2>1. IsFiniteSet(s) /\ s \in SUBSET S /\ s \notin B
    BY <1>1, <1>2, <1>3, FS_Subset, Zenon
  <2> QED BY <2>1
<1>4. ASSUME NEW s \in SUBSET T, s # T PROVE G(s)[s] = sum(s)
  <2> DEFINE r == s \ {Chosen(s)}
  <2>1. Adds(f, s, G(s)) /\ IsFiniteSet(s)
    BY <1>3, <1>4
  <2>2. G(s)[s] = IF s = {} THEN 0 ELSE f[Chosen(s)] + G(s)[r]
    <3> HIDE DEF G
    <3> QED BY <2>1, Zenon DEF Adds
  <2>3. CASE s = {}
    BY <2>2, <2>3
  <2>4. CASE s # {}
    <3>1. r \in SUBSET T /\ r # T /\ r \in SUBSET s
      BY <1>4, <2>4, ChosenIn
    <3>2. Adds(f, r, G(r))
      BY <1>3, <3>1, Zenon
    <3>3. G(s)[r] = G(r)[r]
      <4> HIDE DEF G, r
      <4> QED BY <2>1, <3>1, <3>2, AddsUnique
    <3> QED BY <2>2, <2>4, <3>3
  <2> QED BY <2>3, <2>4
<1>5. ASSUME NEW s \in SUBSET T
      PROVE  h[s] = IF s = {} THEN 0 ELSE f[Chosen(s)] + h[s \ {Chosen(s)}]
  <2> DEFINE r == s \ {Chosen(s)}
  <2>1. h[s] = sum(s)
    OBVIOUS
  <2>2. CASE s = {}
    BY <2>1, <2>2
  <2>3. CASE s # {}
    <3>1. r \in SUBSET T /\ r # T
      BY <2>3, ChosenIn
    <3>2. h[r] = G(r)[r]
      BY <1>4, <3>1, Zenon
    <3> QED BY <2>1, <2>3, <3>2
  <2> QED BY <2>2, <2>3
<1>6. Adds(f, T, h)
  <2> HIDE DEF sum
  <2>1. h = [s \in SUBSET T |-> h[s]]
    OBVIOUS
  <2> HIDE DEF h
  <2> QED BY <1>5, <2>1, Zenon DEF Adds
<1> QED BY <1>2, <1>6

\* The sum over nothing, and the sum with the element that is chosen first.
LEMMA SumChosen ==
    ASSUME NEW f, NEW S, IsFiniteSet(S)
    PROVE  SumFunctionOnSet(f, S)
             = IF S = {} THEN 0
               ELSE f[Chosen(S)] + SumFunctionOnSet(f, S \ {Chosen(S)})
<1> DEFINE G(s) == CHOOSE g : Adds(f, s, g)
           r == S \ {Chosen(S)}
<1>1. r \in SUBSET S /\ IsFiniteSet(r)
  BY FS_Subset
<1>2. Adds(f, S, G(S)) /\ Adds(f, r, G(r))
  <2> HIDE DEF r
  <2> QED BY <1>1, AddsExists
<1>3. SumFunctionOnSet(f, S) = G(S)[S] /\ SumFunctionOnSet(f, r) = G(r)[r]
  BY SumIsFold
<1> HIDE DEF G
<1>4. G(S)[S] = IF S = {} THEN 0 ELSE f[Chosen(S)] + G(S)[r]
  BY <1>2, Zenon DEF Adds
<1>5. G(S)[r] = G(r)[r]
  <2> HIDE DEF r
  <2> QED BY <1>1, <1>2, AddsUnique
<1> QED BY <1>3, <1>4, <1>5

\* The integers are closed under sums.
LEMMA SumType ==
    ASSUME NEW f, NEW S, IsFiniteSet(S), \A x \in S : f[x] \in Int
    PROVE  SumFunctionOnSet(f, S) \in Int
<1> DEFINE B == {T \in SUBSET S : SumFunctionOnSet(f, T) \notin Int}
<1> SUFFICES ASSUME B # {} PROVE FALSE
  OBVIOUS
<1>1. PICK T \in B : \A U \in B : U \subseteq T => U = T
  <2>1. B \in SUBSET (SUBSET S)
    OBVIOUS
  <2> HIDE DEF B
  <2> QED BY <2>1, LeastSubset
<1>2. T \in SUBSET S /\ IsFiniteSet(T) /\ SumFunctionOnSet(f, T) \notin Int
  BY <1>1, FS_Subset
<1> DEFINE r == T \ {Chosen(T)}
<1>3. SumFunctionOnSet(f, T) = IF T = {} THEN 0 ELSE f[Chosen(T)] + SumFunctionOnSet(f, r)
  BY <1>2, SumChosen
<1>4. T # {}
  BY <1>2, <1>3
<1>5. Chosen(T) \in T
  BY <1>4, ChosenIn
<1>6. SumFunctionOnSet(f, r) \in Int
  BY <1>1, <1>2, <1>5
<1> QED BY <1>2, <1>3, <1>4, <1>5, <1>6

\* Any element may be taken out of a sum.
LEMMA SumRemove ==
    ASSUME NEW f, NEW S, IsFiniteSet(S), \A x \in S : f[x] \in Int, NEW a \in S
    PROVE  SumFunctionOnSet(f, S) = f[a] + SumFunctionOnSet(f, S \ {a})
<1> DEFINE Sum(T) == SumFunctionOnSet(f, T)
           B == {T \in SUBSET S : \E x \in T : Sum(T) # f[x] + Sum(T \ {x})}
<1> SUFFICES ASSUME B # {} PROVE FALSE
  BY Zenon
<1>1. PICK T \in B : \A U \in B : U \subseteq T => U = T
  <2>1. B \in SUBSET (SUBSET S)
    OBVIOUS
  <2> HIDE DEF B
  <2> QED BY <2>1, LeastSubset
<1>2. T \in SUBSET S /\ IsFiniteSet(T)
  BY <1>1, FS_Subset
<1>3. PICK x \in T : Sum(T) # f[x] + Sum(T \ {x})
  BY <1>1
<1> DEFINE c == Chosen(T)
<1>4. \A U \in SUBSET S : Sum(U) \in Int
  BY FS_Subset, SumType
<1>5. c \in T
  BY <1>3, ChosenIn
<1>6. Sum(T) = f[c] + Sum(T \ {c})
  BY <1>2, <1>3, SumChosen
<1>7. c # x
  BY <1>3, <1>6, Zenon
<1> HIDE DEF Sum, c
<1>8. T \ {c} \in SUBSET S /\ T \ {x} \in SUBSET S /\ T \ {c, x} \in SUBSET S
      /\ T \ {c} \subseteq T /\ T \ {c} # T /\ T \ {x} \subseteq T /\ T \ {x} # T
      /\ x \in T \ {c} /\ c \in T \ {x}
      /\ (T \ {c}) \ {x} = T \ {c, x} /\ (T \ {x}) \ {c} = T \ {c, x}
  BY <1>2, <1>5, <1>7
<1>9. T \ {c} \notin B /\ T \ {x} \notin B
  <2> HIDE DEF B
  <2> QED BY <1>1, <1>8
<1>10. Sum(T \ {c}) = f[x] + Sum(T \ {c, x})
  BY <1>8, <1>9, Zenon
<1>11. Sum(T \ {x}) = f[c] + Sum(T \ {c, x})
  BY <1>8, <1>9, Zenon
<1>12. f[c] \in Int /\ f[x] \in Int /\ Sum(T \ {c, x}) \in Int
  BY <1>2, <1>4, <1>5, <1>8
<1> QED BY <1>3, <1>6, <1>10, <1>11, <1>12

\* ... and put in.
LEMMA SumAdd ==
    ASSUME NEW f, NEW S, IsFiniteSet(S), NEW a, a \notin S,
           \A x \in S \cup {a} : f[x] \in Int
    PROVE  SumFunctionOnSet(f, S \cup {a}) = f[a] + SumFunctionOnSet(f, S)
<1> DEFINE T == S \cup {a}
<1>1. IsFiniteSet(T) /\ a \in T /\ T \ {a} = S
  BY FS_AddElement
<1> HIDE DEF T
<1>2. \A x \in T : f[x] \in Int
  BY DEF T
<1>3. SumFunctionOnSet(f, T) = f[a] + SumFunctionOnSet(f, T \ {a})
  BY <1>1, <1>2, SumRemove
<1> QED BY <1>1, <1>3 DEF T

\* A sum of larger numbers is larger.
LEMMA SumMonotone ==
    ASSUME NEW S, IsFiniteSet(S), NEW f, NEW g,
           \A x \in S : f[x] \in Int /\ g[x] \in Int /\ f[x] <= g[x]
    PROVE  SumFunctionOnSet(f, S) <= SumFunctionOnSet(g, S)
<1> DEFINE F(T) == SumFunctionOnSet(f, T)
           G(T) == SumFunctionOnSet(g, T)
           B == {T \in SUBSET S : ~(F(T) <= G(T))}
<1> SUFFICES ASSUME B # {} PROVE FALSE
  OBVIOUS
<1>1. PICK T \in B : \A U \in B : U \subseteq T => U = T
  <2>1. B \in SUBSET (SUBSET S)
    OBVIOUS
  <2> HIDE DEF B
  <2> QED BY <2>1, LeastSubset
<1>2. T \in SUBSET S /\ IsFiniteSet(T) /\ ~(F(T) <= G(T))
  BY <1>1, FS_Subset
<1>3. \A U \in SUBSET S : F(U) \in Int /\ G(U) \in Int
  BY FS_Subset, SumType
<1> DEFINE c == Chosen(T)
<1>4. /\ F(T) = IF T = {} THEN 0 ELSE f[c] + F(T \ {c})
      /\ G(T) = IF T = {} THEN 0 ELSE g[c] + G(T \ {c})
  BY <1>2, SumChosen
<1>5. T # {}
  BY <1>2, <1>4
<1>6. c \in T
  BY <1>5, ChosenIn
<1> HIDE DEF F, G, c
<1>7. F(T \ {c}) <= G(T \ {c}) /\ T \ {c} \in SUBSET S
  BY <1>1, <1>2, <1>6
<1>8. /\ f[c] \in Int /\ g[c] \in Int /\ f[c] <= g[c]
      /\ F(T \ {c}) \in Int /\ G(T \ {c}) \in Int
  BY <1>2, <1>3, <1>6, <1>7
<1> QED BY <1>2, <1>4, <1>5, <1>7, <1>8

\* A sum depends on the summands only.
LEMMA SumSame ==
    ASSUME NEW S, IsFiniteSet(S), NEW f, NEW g,
           \A x \in S : f[x] \in Int /\ g[x] = f[x]
    PROVE  SumFunctionOnSet(f, S) = SumFunctionOnSet(g, S)
<1>1. SumFunctionOnSet(f, S) <= SumFunctionOnSet(g, S)
  BY SumMonotone
<1>2. SumFunctionOnSet(g, S) <= SumFunctionOnSet(f, S)
  BY SumMonotone
<1>3. SumFunctionOnSet(f, S) \in Int /\ SumFunctionOnSet(g, S) \in Int
  BY SumType
<1> QED BY <1>1, <1>2, <1>3

\* A sum in which one summand has changed.
LEMMA SumChange ==
    ASSUME NEW S, IsFiniteSet(S), NEW a \in S, NEW f, NEW g,
           \A x \in S : f[x] \in Int /\ g[x] \in Int, \A x \in S \ {a} : g[x] = f[x]
    PROVE  /\ SumFunctionOnSet(g, S) = SumFunctionOnSet(f, S) - f[a] + g[a]
           /\ SumFunctionOnSet(g, S) \in Int /\ SumFunctionOnSet(f, S) \in Int
<1>1. /\ SumFunctionOnSet(f, S) = f[a] + SumFunctionOnSet(f, S \ {a})
      /\ SumFunctionOnSet(g, S) = g[a] + SumFunctionOnSet(g, S \ {a})
  BY SumRemove
<1>2. IsFiniteSet(S \ {a})
  BY FS_Subset
<1>3. SumFunctionOnSet(f, S \ {a}) = SumFunctionOnSet(g, S \ {a})
  BY <1>2, SumSame
<1>4. /\ SumFunctionOnSet(f, S \ {a}) \in Int
      /\ SumFunctionOnSet(f, S) \in Int /\ SumFunctionOnSet(g, S) \in Int
  BY <1>2, SumType
<1>5. f[a] \in Int /\ g[a] \in Int
  OBVIOUS
<1> QED BY <1>1, <1>3, <1>4, <1>5

\* Summands that are 0 can be left out.
LEMMA SumZeros ==
    ASSUME NEW T, IsFiniteSet(T), NEW S \in SUBSET T, NEW f,
           \A x \in S : f[x] \in Int, \A x \in T \ S : f[x] = 0
    PROVE  SumFunctionOnSet(f, T) = SumFunctionOnSet(f, S)
<1> DEFINE Sum(U) == SumFunctionOnSet(f, U)
           B == {U \in SUBSET T : S \subseteq U /\ Sum(U) # Sum(S)}
<1>0. \A x \in T : f[x] \in Int
  OBVIOUS
<1> SUFFICES ASSUME B # {} PROVE FALSE
  OBVIOUS
<1>1. PICK U \in B : \A V \in B : V \subseteq U => V = U
  <2>1. B \in SUBSET (SUBSET T)
    OBVIOUS
  <2> HIDE DEF B
  <2> QED BY <2>1, LeastSubset
<1>2. U \in SUBSET T /\ IsFiniteSet(U) /\ S \subseteq U /\ Sum(U) # Sum(S) /\ IsFiniteSet(S)
  BY <1>1, FS_Subset
<1>3. PICK x \in U : x \notin S
  BY <1>2
<1>4. Sum(U) = f[x] + Sum(U \ {x})
  BY <1>0, <1>2, SumRemove
<1> HIDE DEF Sum
<1>5. U \ {x} \notin B
  <2> HIDE DEF B
  <2> QED BY <1>1, <1>3
<1>6. Sum(U \ {x}) = Sum(S)
  BY <1>2, <1>3, <1>5
<1>7. f[x] = 0 /\ Sum(S) \in Int
  BY <1>2, <1>3, SumType DEF Sum
<1> QED BY <1>2, <1>4, <1>6, <1>7

\* Without negative summands a part is no more than the whole.
LEMMA SumPart ==
    ASSUME NEW T, IsFiniteSet(T), NEW S \in SUBSET T, NEW f, \A x \in T : f[x] \in Nat
    PROVE  /\ SumFunctionOnSet(f, S) <= SumFunctionOnSet(f, T)
           /\ SumFunctionOnSet(f, S) \in Nat
<1> DEFINE g == [x \in T |-> IF x \in S THEN f[x] ELSE 0]
           z == [x \in T |-> 0]
<1>1. /\ IsFiniteSet(S) /\ IsFiniteSet({})
      /\ \A x \in T : g[x] \in Int /\ f[x] \in Int /\ g[x] <= f[x] /\ z[x] = 0
      /\ \A x \in S : g[x] = f[x] /\ f[x] \in Int /\ z[x] <= f[x]
      /\ \A x \in T \ S : g[x] = 0
  BY FS_Subset, FS_EmptySet
<1> HIDE DEF g, z
<1>2. SumFunctionOnSet(f, S) = SumFunctionOnSet(g, S)
  BY <1>1, SumSame
<1>3. SumFunctionOnSet(g, T) = SumFunctionOnSet(g, S)
  BY <1>1, SumZeros
<1>4. SumFunctionOnSet(g, T) <= SumFunctionOnSet(f, T)
  BY <1>1, SumMonotone
<1>5. SumFunctionOnSet(z, S) = SumFunctionOnSet(z, {})
  BY <1>1, SumZeros
<1>6. SumFunctionOnSet(z, {}) = 0
  BY <1>1, SumChosen, Zenon
<1>7. SumFunctionOnSet(z, S) <= SumFunctionOnSet(f, S)
  BY <1>1, SumMonotone
<1>8. SumFunctionOnSet(f, S) \in Int
  BY <1>1, SumType
<1> QED BY <1>2, <1>3, <1>4, <1>5, <1>6, <1>7, <1>8

\* The sum of nothing.
LEMMA EmptySum == ASSUME NEW f PROVE SumFunctionOnSet(f, {}) = 0
BY FS_EmptySet, SumChosen

\* Sums of one and two numbers.
LEMMA ShortSums ==
    ASSUME NEW x \in Int, NEW y \in Int
    PROVE  SumFunction(<<>>) = 0 /\ SumFunction(<<x>>) = x /\ SumFunction(<<x, y>>) = x + y
<1>1. SumFunction(<<>>) = 0
  <2>1. DOMAIN <<>> = {}
    OBVIOUS
  <2> QED BY <2>1, EmptySum DEF SumFunction
<1>2. SumFunction(<<x>>) = x
  <2> DEFINE f == <<x>>
  <2>1. DOMAIN f = {1} /\ f[1] = x
    OBVIOUS
  <2>2. IsFiniteSet({1}) /\ {1} \ {1} = {}
    BY FS_Singleton
  <2> HIDE DEF f
  <2>3. SumFunctionOnSet(f, {1}) = f[1] + SumFunctionOnSet(f, {1} \ {1})
    BY <2>1, <2>2, SumRemove
  <2> QED BY <2>1, <2>2, <2>3, EmptySum DEF SumFunction, f
<1>3. SumFunction(<<x, y>>) = x + y
  <2> DEFINE f == <<x, y>>
  <2>1. DOMAIN f = {1, 2} /\ f[1] = x /\ f[2] = y
    OBVIOUS
  <2>2. /\ {1} \ {1} = {} /\ {1, 2} \ {2} = {1}
        /\ {1} \cup {2} = {1, 2} /\ 2 \notin {1}
    OBVIOUS
  <2>3. IsFiniteSet({1}) /\ IsFiniteSet({1, 2})
    <3>1. IsFiniteSet({1})
      BY FS_Singleton, Zenon
    <3>2. IsFiniteSet({1} \cup {2})
      BY <3>1, FS_AddElement, Zenon
    <3> QED BY <2>2, <3>1, <3>2, Zenon
  <2> HIDE DEF f
  <2>4. SumFunctionOnSet(f, {1}) = f[1] + SumFunctionOnSet(f, {1} \ {1})
    BY <2>1, <2>3, SumRemove
  <2>5. SumFunctionOnSet(f, {1, 2}) = f[2] + SumFunctionOnSet(f, {1, 2} \ {2})
    BY <2>1, <2>3, SumRemove
  <2> QED BY <2>1, <2>2, <2>4, <2>5, EmptySum DEF SumFunction, f
<1> QED BY <1>1, <1>2, <1>3

-----------------------------------------------------------------------------
(* Stat.                                                                   *)

Maps == UNION {[K -> Int] : K \in SUBSET AllKeys}

\* The counter of thread t, and whether its maximum is at least v.
Hits(t) == IF data[t] = None THEN 0 ELSE Lookup(data[t], "hits")
HasPeak(t, v) == data[t] # None /\ "peak" \in DOMAIN data[t] /\ v <= data[t]["peak"]

HitsOf == [t \in Threads |-> Hits(t)]

\* The threads whose map the running query has read.
Visited == {list[i] : i \in 1 .. iter.pos - 1}

StatTypes ==
    /\ key \in [Threads -> BOOLEAN] /\ pc \in [Threads -> {"idle", "push"}]
    /\ list \in Seq(Threads) /\ storage \in Nat
    /\ data \in [Threads -> Maps \cup {None}]
    /\ query \in Queries \cup {None}
    /\ iter \in [storage : Nat, pos : Nat \ {0}] /\ iter.storage <= storage
    /\ result.sum \in [Keys -> Int] /\ result.max \in [Keys -> Int]
    /\ before.sum \in Int /\ before.max \in Int

\* The vector lists each map that is complete once; one that is not is empty.
StatLists ==
    /\ \A t \in Threads : /\ data[t] # None <=> key[t]
                          /\ (\E i \in DOMAIN list : list[i] = t)
                                <=> (key[t] /\ pc[t] = "idle")
                          /\ pc[t] = "push" => key[t] /\ data[t] = <<>>
    /\ \A i, j \in DOMAIN list : list[i] = list[j] => i = j

StatValues ==
    \A t \in Threads : data[t] # None =>
        /\ "hits" \in DOMAIN data[t] => data[t]["hits"] >= 0
        /\ "peak" \in DOMAIN data[t] => data[t]["peak"] >= 0

\* What a query has found, r, after the maps of V lies between what those maps hold,
\* and the truth b of its beginning less what the other maps hold.
SumWindow(h, V, r, b) ==
    /\ r <= SumFunctionOnSet(h, V)
    /\ b <= r + SumFunctionOnSet(h, Threads \ V)

MaxWindow(V, r, b) ==
    /\ INT64_MIN <= r
    /\ b <= r \/ \E t \in Threads \ V : HasPeak(t, b)
    /\ r = INT64_MIN \/ \E t \in Threads : HasPeak(t, r)

Window ==
    query # None /\ iter.storage = storage =>
        /\ iter.pos <= Len(list) + 1
        /\ Asked("sum", "hits") => SumWindow(HitsOf, Visited, result.sum["hits"], before.sum)
        /\ Asked("max", "peak") => MaxWindow(Visited, result.max["peak"], before.max)

StatInv == ~destroyed => StatTypes /\ StatLists /\ StatValues /\ Window

-----------------------------------------------------------------------------
(* The maps.                                                               *)

\* A map that was just made.
LEMMA EmptyMap == <<>> \in Maps /\ <<>> # None /\ DOMAIN <<>> = {}
<1>1. DOMAIN <<>> = {}
  OBVIOUS
<1>2. <<>> \in [{} -> Int]
  OBVIOUS
<1>3. {} \in SUBSET AllKeys
  OBVIOUS
<1> QED BY <1>1, <1>2, <1>3, StatConstants, Zenon DEF Maps

\* What is known of the map of a thread that has one.
LEMMA MapFacts ==
    ASSUME NEW f \in Maps
    PROVE  /\ f # None /\ DOMAIN f \subseteq AllKeys /\ f \in [DOMAIN f -> Int]
           /\ \A k \in DOMAIN f : f[k] \in Int
           /\ \A k : Lookup(f, k) \in Int
<1>1. PICK K \in SUBSET AllKeys : f \in [K -> Int]
  BY Zenon DEF Maps
<1>2. f # None
  BY <1>1, StatConstants, Zenon
<1>3. DOMAIN f = K
  BY <1>1
<1>4. \A k \in DOMAIN f : f[k] \in Int
  BY <1>1, <1>3
<1>5. 0 \in Int
  OBVIOUS
<1> QED BY <1>1, <1>2, <1>3, <1>4, <1>5, Zenon DEF Lookup

\* Map g is f with value v for key k.
IsPut(g, f, k, v) ==
    /\ g \in Maps /\ DOMAIN g = DOMAIN f \cup {k} /\ g[k] = v
    /\ \A x \in DOMAIN f \ {k} : g[x] = f[x]
    /\ Lookup(g, k) = v
    /\ \A x \in AllKeys \ {k} : Lookup(g, x) = Lookup(f, x)

\* Setting a statistic changes one entry.
LEMMA PutFacts ==
    ASSUME NEW f \in Maps, NEW k \in AllKeys, NEW v \in Int
    PROVE  IsPut(Put(f, k, v), f, k, v)
<1> DEFINE K == DOMAIN f \cup {k}
           g == Put(f, k, v)
<1>1. K \in SUBSET AllKeys /\ \A x \in DOMAIN f : f[x] \in Int
  BY MapFacts
<1>2. /\ g \in [K -> Int] /\ DOMAIN g = K /\ g[k] = v
      /\ \A x \in DOMAIN f \ {k} : g[x] = f[x]
  BY <1>1 DEF Put
<1> HIDE DEF g
<1>3. g \in Maps
  BY <1>1, <1>2, Zenon DEF Maps
<1>4. Lookup(g, k) = v /\ \A x \in AllKeys \ {k} : Lookup(g, x) = Lookup(f, x)
  BY <1>2 DEF Lookup
<1> QED BY <1>2, <1>3, <1>4, Zenon DEF g, IsPut

\* A counter is a number.
LEMMA HitsType ==
    ASSUME StatTypes, NEW t \in Threads
    PROVE  /\ Hits(t) \in Int /\ HitsOf[t] = Hits(t)
           /\ data[t] = None \/ data[t] \in Maps
<1>1. data[t] = None \/ data[t] \in Maps
  BY Zenon DEF StatTypes
<1>2. Hits(t) \in Int
  <2>1. CASE data[t] = None
    BY <2>1 DEF Hits
  <2>2. CASE data[t] # None
    BY <1>1, <2>2, MapFacts, Zenon DEF Hits
  <2> QED BY <2>1, <2>2
<1> QED BY <1>1, <1>2, Zenon DEF HitsOf

\* The same of the counters of all threads.
LEMMA HitsTypes == StatTypes => \A t \in Threads : HitsOf[t] \in Int /\ HitsOf[t] = Hits(t)
BY HitsType

\* The counter "hits" is only incremented, from 0.
LEMMA HitsNat ==
    ASSUME StatTypes, StatValues PROVE \A t \in Threads : HitsOf[t] \in Nat
<1> SUFFICES ASSUME NEW t \in Threads PROVE HitsOf[t] \in Nat
  BY Zenon
<1>1. Hits(t) \in Int /\ HitsOf[t] = Hits(t)
  BY HitsType
<1>2. Hits(t) >= 0
  BY DEF Hits, StatValues, Lookup
<1> QED BY <1>1, <1>2

\* The maps a query has visited are maps of threads.
LEMMA VisitedType ==
    ASSUME StatTypes, iter.pos <= Len(list) + 1
    PROVE  /\ Visited \subseteq Threads /\ IsFiniteSet(Visited)
           /\ IsFiniteSet(Threads \ Visited) /\ IsFiniteSet(Threads)
           /\ \A i \in 1 .. iter.pos - 1 : i \in DOMAIN list
<1>1. list \in Seq(Threads) /\ iter.pos \in Nat \ {0} /\ Len(list) \in Nat
  BY DEF StatTypes
<1>2. \A i \in 1 .. iter.pos - 1 : i \in DOMAIN list /\ list[i] \in Threads
  BY <1>1
<1>3. Visited \subseteq Threads
  BY <1>2 DEF Visited
<1>4. IsFiniteSet(Threads)
  BY StatConstants
<1> QED BY <1>2, <1>3, <1>4, FS_Subset

-----------------------------------------------------------------------------
(* The true sum and the true maximum.                                      *)

\* The true sum is the sum of all threads' counters.
LEMMA TotalIsSum ==
    ASSUME StatTypes PROVE Total("hits") = SumFunctionOnSet(HitsOf, Threads)
<1> DEFINE g == [t \in Registered |-> Lookup(data[t], "hits")]
<1>1. Registered \in SUBSET Threads /\ IsFiniteSet(Threads)
  BY StatConstants DEF Registered
<1>2. IsFiniteSet(Registered)
  BY <1>1, FS_Subset
<1>3. \A t \in Registered : g[t] = HitsOf[t] /\ HitsOf[t] \in Int
  BY HitsType DEF Registered, Hits
<1>4. \A t \in Threads \ Registered : HitsOf[t] = 0
  BY HitsType DEF Registered, Hits
<1>5. DOMAIN g = Registered
  OBVIOUS
<1>6. Total("hits") = SumFunctionOnSet(g, Registered)
  BY <1>5, Zenon DEF Total, SumFunction
<1> HIDE DEF g
<1>7. SumFunctionOnSet(g, Registered) = SumFunctionOnSet(HitsOf, Registered)
  BY <1>2, <1>3, SumSame
<1>8. SumFunctionOnSet(HitsOf, Threads) = SumFunctionOnSet(HitsOf, Registered)
  BY <1>1, <1>3, <1>4, SumZeros
<1> QED BY <1>6, <1>7, <1>8

\* A finite set of numbers has a greatest one.
LEMMA FiniteMaximum ==
    ASSUME NEW S, IsFiniteSet(S), S # {}, \A x \in S : x \in Int
    PROVE  \E m \in S : \A x \in S : x <= m
<1> DEFINE Top(U) == \E m \in U : \A x \in U : x <= m
           B == {U \in SUBSET S : U # {} /\ ~Top(U)}
<1> SUFFICES ASSUME B # {} PROVE FALSE
  OBVIOUS
<1>1. PICK U \in B : \A V \in B : V \subseteq U => V = U
  <2>1. B \in SUBSET (SUBSET S)
    OBVIOUS
  <2> HIDE DEF B
  <2> QED BY <2>1, LeastSubset
<1>2. U \in SUBSET S /\ U # {} /\ ~Top(U)
  BY <1>1
<1>3. PICK x \in U : TRUE
  BY <1>2
<1>4. U \ {x} \notin B
  <2> HIDE DEF B
  <2> QED BY <1>1, <1>3
<1>5. CASE U \ {x} = {}
  <2>1. \A y \in U : y = x
    BY <1>5
  <2>2. x <= x
    BY <1>2, <1>3
  <2> QED BY <1>2, <1>3, <2>1, <2>2
<1>6. CASE Top(U \ {x})
  <2>1. PICK m \in U \ {x} : \A y \in U \ {x} : y <= m
    BY <1>6
  <2>2. m \in Int /\ x \in Int /\ \A y \in U : y \in Int
    BY <1>2, <1>3, <2>1
  <2>3. CASE x <= m
    <3>1. \A y \in U : y <= m
      BY <2>1, <2>3
    <3> QED BY <1>2, <2>1, <3>1
  <2>4. CASE m < x
    <3>1. \A y \in U : y <= x
      BY <2>1, <2>2, <2>4
    <3> QED BY <1>2, <1>3, <3>1
  <2> QED BY <2>2, <2>3, <2>4
<1> QED BY <1>2, <1>4, <1>5, <1>6

\* The true maximum is held by a thread, or is that of no thread.
LEMMA GreatestFacts ==
    ASSUME StatTypes
    PROVE  /\ Greatest("peak") \in Int
           /\ \/ Greatest("peak") = INT64_MIN
              \/ \E t \in Threads : HasPeak(t, Greatest("peak"))
           /\ \A t \in Threads, v \in Int : HasPeak(t, v) => v <= Greatest("peak")
           /\ StatValues => INT64_MIN <= Greatest("peak")
<1> DEFINE P == {u \in Registered : "peak" \in DOMAIN data[u]}
           vs == {data[t]["peak"] : t \in P}
           G == Greatest("peak")
<1>1. \A t \in P : /\ t \in Threads /\ data[t] # None
                   /\ data[t]["peak"] \in Int /\ "peak" \in DOMAIN data[t]
  <2> SUFFICES ASSUME NEW t \in P
               PROVE  /\ t \in Threads /\ data[t] # None
                      /\ data[t]["peak"] \in Int /\ "peak" \in DOMAIN data[t]
    OBVIOUS
  <2>1. t \in Threads /\ data[t] # None /\ "peak" \in DOMAIN data[t]
    BY DEF Registered
  <2>2. data[t] \in Maps
    BY <2>1, HitsType
  <2> QED BY <2>1, <2>2, MapFacts, Zenon
<1>2. \A v \in vs : v \in Int
  BY <1>1
<1>3. INT64_MIN \in Int /\ INT64_MIN < 0
  BY StatConstants
<1>4. G = IF vs = {} THEN INT64_MIN ELSE CHOOSE v \in vs : \A w \in vs : w <= v
  BY Zenon DEF Greatest
<1>5. CASE vs = {}
  <2>1. G = INT64_MIN
    BY <1>4, <1>5
  <2>2. \A t \in Threads, v \in Int : ~HasPeak(t, v)
    BY <1>5, Zenon DEF HasPeak, Registered
  <2> QED BY <1>3, <2>1, <2>2
<1>6. CASE vs # {}
  <2>1. IsFiniteSet(P)
    <3>1. P \subseteq Threads /\ IsFiniteSet(Threads)
      BY <1>1, StatConstants
    <3> QED BY <3>1, FS_Subset
  <2>2. IsFiniteSet(vs)
    <3> DEFINE f == [t \in P |-> data[t]["peak"]]
    <3>1. f \in Surjection(P, vs)
      BY DEF Surjection
    <3> HIDE DEF f, P, vs
    <3> QED BY <2>1, <3>1, FS_Surjection
  <2>3. \E m \in vs : \A w \in vs : w <= m
    <3> HIDE DEF vs
    <3> QED BY <1>2, <1>6, <2>2, FiniteMaximum
  <2>4. G \in vs /\ \A w \in vs : w <= G
    <3> HIDE DEF vs, G
    <3> QED BY <1>4, <1>6, <2>3, Zenon
  <2>5. PICK t \in P : G = data[t]["peak"]
    BY <2>4
  <2> HIDE DEF G
  <2>6. G \in Int
    BY <1>1, <2>5
  <2>7. HasPeak(t, G) /\ t \in Threads
    <3>1. G <= data[t]["peak"]
      BY <2>5, <2>6
    <3> QED BY <1>1, <3>1, Zenon DEF HasPeak
  <2>8. ASSUME NEW u \in Threads, NEW v \in Int, HasPeak(u, v) PROVE v <= G
    <3>1. u \in P /\ v <= data[u]["peak"]
      BY <2>8, Zenon DEF HasPeak, Registered
    <3>2. data[u]["peak"] <= G /\ data[u]["peak"] \in Int
      BY <1>1, <2>4, <3>1, Zenon
    <3> QED BY <2>6, <3>1, <3>2
  <2>9. ASSUME StatValues PROVE INT64_MIN <= G
    <3>1. data[t]["peak"] >= 0
      BY <1>1, <2>5, <2>9, Zenon DEF StatValues
    <3> QED BY <1>3, <2>5, <2>6, <3>1
  <2> QED BY <2>6, <2>7, <2>8, <2>9, Zenon DEF G
<1> QED BY <1>5, <1>6

-----------------------------------------------------------------------------
(* The steps.                                                              *)

\* Counters and maxima only grow.
Grown ==
    \A t \in Threads : /\ Hits(t) <= Hits(t)'
                       /\ \A v \in Int : HasPeak(t, v) => HasPeak(t, v)'

\* A window of a sum stays one when counters grow.
LEMMA SumGrows ==
    ASSUME NEW h, NEW g, NEW V \in SUBSET Threads, NEW r \in Int, NEW b \in Int,
           \A t \in Threads : h[t] \in Int /\ g[t] \in Int /\ h[t] <= g[t],
           SumWindow(h, V, r, b)
    PROVE  SumWindow(g, V, r, b)
<1> DEFINE U == Threads \ V
<1>1. IsFiniteSet(V) /\ IsFiniteSet(U)
  BY StatConstants, FS_Subset
<1>2. SumFunctionOnSet(h, V) <= SumFunctionOnSet(g, V)
  BY <1>1, SumMonotone
<1>3. SumFunctionOnSet(h, U) <= SumFunctionOnSet(g, U)
  BY <1>1, SumMonotone
<1>4. /\ SumFunctionOnSet(h, V) \in Int /\ SumFunctionOnSet(g, V) \in Int
      /\ SumFunctionOnSet(h, U) \in Int /\ SumFunctionOnSet(g, U) \in Int
  BY <1>1, SumType
<1> QED BY <1>2, <1>3, <1>4 DEF SumWindow

\* A window of a maximum stays one when the maxima grow.
LEMMA MaxGrows ==
    ASSUME NEW V, NEW r \in Int, NEW b \in Int, MaxWindow(V, r, b), Grown
    PROVE  MaxWindow(V, r, b)'
BY Zenon DEF MaxWindow, Grown

\* The counters of the state and of the next one.
LEMMA HitsGrow ==
    ASSUME StatTypes, StatTypes', Grown
    PROVE  \A t \in Threads :
              HitsOf[t] \in Int /\ HitsOf'[t] \in Int /\ HitsOf[t] <= HitsOf'[t]
<1>1. \A t \in Threads : HitsOf[t] \in Int /\ HitsOf[t] = Hits(t)
  BY HitsTypes, Zenon
<1>2. (\A t \in Threads : HitsOf[t] \in Int /\ HitsOf[t] = Hits(t))'
  BY HitsTypes, PTL
<1> QED BY <1>1, <1>2, Zenon DEF Grown

\* A step outside of the query that lowers nothing keeps its window.
LEMMA WindowGrows ==
    ASSUME StatTypes, StatTypes', Window, Grown,
           UNCHANGED <<list, storage, query, iter, result, before>>
    PROVE  Window'
<1>1. Visited' = Visited /\ (\A op, k : Asked(op, k)' <=> Asked(op, k))
  BY Zenon DEF Visited, Asked
<1>2. SUFFICES ASSUME query # None, iter.storage = storage
               PROVE  /\ iter.pos <= Len(list) + 1
                      /\ Asked("sum", "hits") =>
                           SumWindow(HitsOf', Visited, result.sum["hits"], before.sum)
                      /\ Asked("max", "peak") =>
                           MaxWindow(Visited, result.max["peak"], before.max)'
  BY <1>1, Zenon DEF Window, SumWindow
<1>3. iter.pos <= Len(list) + 1
  BY <1>2 DEF Window
<1>4. Visited \in SUBSET Threads
  BY <1>3, VisitedType
<1>5. ASSUME Asked("sum", "hits")
      PROVE  SumWindow(HitsOf', Visited, result.sum["hits"], before.sum)
  <2>1. result.sum["hits"] \in Int /\ before.sum \in Int
    BY <1>5 DEF StatTypes, Asked
  <2>2. SumWindow(HitsOf, Visited, result.sum["hits"], before.sum)
    BY <1>2, <1>5, Zenon DEF Window
  <2> QED BY <1>4, <2>1, <2>2, HitsGrow, SumGrows, Zenon
<1>6. ASSUME Asked("max", "peak") PROVE MaxWindow(Visited, result.max["peak"], before.max)'
  <2>1. result.max["peak"] \in Int /\ before.max \in Int
    BY <1>6 DEF StatTypes, Asked
  <2>2. MaxWindow(Visited, result.max["peak"], before.max)
    BY <1>2, <1>6, Zenon DEF Window
  <2>3. PICK V \in SUBSET Threads, r \in Int, b \in Int :
            V = Visited /\ r = result.max["peak"] /\ b = before.max
    BY <1>4, <2>1, Zenon
  <2>4. MaxWindow(V, r, b)'
    BY <2>2, <2>3, MaxGrows, Zenon
  <2>5. V = Visited' /\ r = result'.max["peak"] /\ b = before'.max
    BY <1>1, <2>3, Zenon
  <2> QED BY <2>4, <2>5, Zenon
<1> QED BY <1>3, <1>5, <1>6

\* A thread's map takes value v for key k.
Puts(t, k, v) ==
    /\ data[t] # None /\ pc[t] = "idle"
    /\ data' = [data EXCEPT ![t] = Put(data[t], k, v)]
    /\ k = "gauge" \/ Lookup(data[t], k) <= v
    /\ UNCHANGED <<key, pc, list, storage, destroyed>>

\* Setting an entry of a thread's map keeps the invariant.
LEMMA PutStep ==
    ASSUME StatTypes, StatLists, StatValues, NEW t \in Threads, NEW k \in Keys, NEW v \in Int,
           Puts(t, k, v)
    PROVE  data' \in [Threads -> Maps \cup {None}] /\ StatLists' /\ StatValues' /\ Grown
<1> DEFINE f == data[t]
           g == Put(f, k, v)
<1>1. f \in Maps /\ k \in AllKeys
  BY HitsType, StatConstants DEF Puts
<1>2. /\ g \in Maps /\ DOMAIN g = DOMAIN f \cup {k} /\ g[k] = v
      /\ \A x \in DOMAIN f \ {k} : g[x] = f[x]
      /\ Lookup(g, k) = v
      /\ \A x \in AllKeys \ {k} : Lookup(g, x) = Lookup(f, x)
  <2>1. IsPut(g, f, k, v)
    BY <1>1, PutFacts, Zenon
  <2> QED BY <2>1, Zenon DEF IsPut
<1>3. g # None /\ f # None /\ (\A x : Lookup(f, x) \in Int) /\ \A x \in DOMAIN f : f[x] \in Int
  BY <1>1, <1>2, MapFacts, Zenon
<1> HIDE DEF g
<1>4. data' = [data EXCEPT ![t] = g]
  BY Zenon DEF Puts, g
<1>5. data \in [Threads -> Maps \cup {None}]
  BY DEF StatTypes
<1>6. data' \in [Threads -> Maps \cup {None}] /\ data'[t] = g
      /\ \A u \in Threads \ {t} : data'[u] = data[u]
  BY <1>2, <1>4, <1>5
<1>7. StatLists'
  <2>1. \A u \in Threads : data'[u] # None <=> data[u] # None
    BY <1>3, <1>6
  <2>2. \A u \in Threads : pc[u] = "push" => data'[u] = data[u]
    BY <1>6 DEF Puts
  <2>3. UNCHANGED <<key, pc, list>>
    BY Zenon DEF Puts
  <2>4. ASSUME NEW u \in Threads
        PROVE  /\ data'[u] # None <=> key[u]
               /\ pc[u] = "push" => key[u] /\ data'[u] = <<>>
    BY <2>1, <2>2, Zenon DEF StatLists
  <2> QED BY <2>3, <2>4, Zenon DEF StatLists
<1>8. /\ v \in Int
      /\ k = "hits" \/ k = "peak" => Lookup(f, k) >= 0 /\ v >= 0 /\ Lookup(f, k) <= v
  <2>1. k = "hits" \/ k = "peak" => Lookup(f, k) >= 0
    BY <1>3 DEF Lookup, StatValues
  <2>2. k = "hits" \/ k = "peak" => Lookup(f, k) <= v
    BY DEF Puts
  <2> QED BY <1>3, <2>1, <2>2
<1>9. StatValues'
  <2>1. ASSUME NEW u \in Threads, data'[u] # None
        PROVE  /\ "hits" \in DOMAIN data'[u] => data'[u]["hits"] >= 0
               /\ "peak" \in DOMAIN data'[u] => data'[u]["peak"] >= 0
    <3>1. CASE u = t
      <4>1. "hits" \in DOMAIN g => g["hits"] >= 0
        BY <1>2, <1>3, <1>8, Zenon DEF StatValues
      <4>2. "peak" \in DOMAIN g => g["peak"] >= 0
        BY <1>2, <1>3, <1>8, Zenon DEF StatValues
      <4> QED BY <1>6, <3>1, <4>1, <4>2, Zenon
    <3>2. CASE u # t
      BY <1>6, <2>1, <3>2, Zenon DEF StatValues
    <3> QED BY <3>1, <3>2
  <2> QED BY <2>1, Zenon DEF StatValues
<1>10. Grown
  <2>1. ASSUME NEW u \in Threads
        PROVE  Hits(u) <= Hits(u)' /\ \A w \in Int : HasPeak(u, w) => HasPeak(u, w)'
    <3>1. CASE u = t
      <4>1. Hits(u) = Lookup(f, "hits") /\ Hits(u)' = Lookup(g, "hits")
        BY <1>3, <1>6, <3>1, Zenon DEF Hits
      <4>2. Lookup(f, "hits") <= Lookup(g, "hits")
        <5>1. CASE k = "hits"
          BY <1>2, <1>8, <5>1, Zenon
        <5>2. CASE k # "hits"
          <6>1. Lookup(g, "hits") = Lookup(f, "hits")
            BY <1>2, <5>2 DEF AllKeys
          <6> QED BY <1>3, <6>1
        <5> QED BY <5>1, <5>2
      <4>3. ASSUME NEW w \in Int, "peak" \in DOMAIN f, w <= f["peak"]
            PROVE  "peak" \in DOMAIN g /\ w <= g["peak"]
        <5>1. CASE k = "peak"
          <6>1. f["peak"] <= v
            BY <1>8, <4>3, <5>1, Zenon DEF Lookup
          <6> QED BY <1>2, <1>3, <4>3, <5>1, <6>1
        <5>2. CASE k # "peak"
          BY <1>2, <4>3, <5>2, Zenon
        <5> QED BY <5>1, <5>2
      <4>4. ASSUME NEW w \in Int, HasPeak(u, w) PROVE HasPeak(u, w)'
        BY <1>3, <1>6, <3>1, <4>3, <4>4, Zenon DEF HasPeak
      <4> QED BY <4>1, <4>2, <4>4
    <3>2. CASE u # t
      <4>1. data'[u] = data[u]
        BY <1>6, <3>2
      <4>2. Hits(u)' = Hits(u) /\ Hits(u) \in Int
        BY <4>1, HitsType, Zenon DEF Hits
      <4>3. Hits(u) <= Hits(u)'
        BY <4>2
      <4> QED BY <4>1, <4>3, Zenon DEF HasPeak
    <3> QED BY <3>1, <3>2
  <2> QED BY <2>1, Zenon DEF Grown
<1> QED BY <1>6, <1>7, <1>9, <1>10

\* The registry and the maps stay, and no query goes on that did not.
LEMMA SameStep ==
    ASSUME StatTypes, StatLists, StatValues, Window, query' = query \/ query' = None,
           UNCHANGED <<key, pc, list, storage, data, iter, result, before>>
    PROVE  StatTypes' /\ StatLists' /\ StatValues' /\ Window'
<1>1. StatTypes' /\ StatLists' /\ StatValues'
  BY Zenon DEF StatTypes, StatLists, StatValues
<1>2. CASE query' = query
  <2>1. HitsOf' = HitsOf /\ Visited' = Visited
    BY Zenon DEF Visited, HitsOf, Hits
  <2>2. \A op, k : Asked(op, k)' <=> Asked(op, k)
    BY <1>2, Zenon DEF Asked
  <2>3. MaxWindow(Visited, result.max["peak"], before.max)'
            <=> MaxWindow(Visited, result.max["peak"], before.max)
    BY <2>1, Zenon DEF MaxWindow, HasPeak
  <2>4. Window'
    BY <1>2, <2>1, <2>2, <2>3 DEF Window
  <2> QED BY <1>1, <2>4
<1>3. CASE query' = None
  BY <1>1, <1>3, Zenon DEF Window
<1> QED BY <1>1, <1>2, <1>3

\* stat_init_thread_data() up to the push: a map that no query sees yet.
LEMMA InitThreadStep ==
    ASSUME StatTypes, StatLists, StatValues, Window, NEW t \in Threads, InitThreadData(t)
    PROVE  StatTypes' /\ StatLists' /\ StatValues' /\ Window'
<1>1. /\ UNCHANGED <<list, storage, query, iter, result, before>>
      /\ ~key[t] /\ pc[t] = "idle"
  BY DEF InitThreadData, reading
<1>2. /\ key' \in [Threads -> BOOLEAN] /\ key'[t] = TRUE
      /\ pc' \in [Threads -> {"idle", "push"}] /\ pc'[t] = "push"
      /\ \A u \in Threads \ {t} : key'[u] = key[u] /\ pc'[u] = pc[u]
  BY DEF InitThreadData, StatTypes
<1>3. /\ data' \in [Threads -> Maps \cup {None}] /\ data'[t] = <<>>
      /\ \A u \in Threads \ {t} : data'[u] = data[u]
  <2> DEFINE e == <<>>
  <2>1. e \in Maps /\ data' = [data EXCEPT ![t] = e] /\ data \in [Threads -> Maps \cup {None}]
    BY EmptyMap, Zenon DEF InitThreadData, StatTypes
  <2> HIDE DEF e
  <2>2. /\ data' \in [Threads -> Maps \cup {None}] /\ data'[t] = e
        /\ \A u \in Threads \ {t} : data'[u] = data[u]
    BY <2>1
  <2> QED BY <2>2, Zenon DEF e
<1>4. data[t] = None /\ ~\E i \in DOMAIN list : list[i] = t
  BY <1>1, Zenon DEF StatLists
<1>5. StatTypes'
  BY <1>1, <1>2, <1>3, Zenon DEF StatTypes
<1>6. StatLists'
  <2>1. ASSUME NEW u \in Threads
        PROVE  /\ data'[u] # None <=> key'[u]
               /\ (\E i \in DOMAIN list : list[i] = u) <=> (key'[u] /\ pc'[u] = "idle")
               /\ pc'[u] = "push" => key'[u] /\ data'[u] = <<>>
    <3>1. CASE u = t
      <4>1. pc'[u] # "idle"
        BY <1>2, <3>1
      <4> QED BY <1>2, <1>3, <1>4, <3>1, <4>1, EmptyMap, Zenon
    <3>2. CASE u # t
      <4>1. /\ data[u] # None <=> key[u]
            /\ (\E i \in DOMAIN list : list[i] = u) <=> (key[u] /\ pc[u] = "idle")
            /\ pc[u] = "push" => key[u] /\ data[u] = <<>>
        BY Zenon DEF StatLists
      <4>2. key'[u] = key[u] /\ pc'[u] = pc[u] /\ data'[u] = data[u]
        BY <1>2, <1>3, <3>2, Zenon
      <4> QED BY <4>1, <4>2, Zenon
    <3> QED BY <3>1, <3>2
  <2>2. \A i, j \in DOMAIN list : list[i] = list[j] => i = j
    BY Zenon DEF StatLists
  <2> QED BY <1>1, <2>1, <2>2, Zenon DEF StatLists
<1>7. StatValues'
  <2>1. "hits" \notin DOMAIN data'[t] /\ "peak" \notin DOMAIN data'[t]
    BY <1>3, EmptyMap, Zenon
  <2> QED BY <1>3, <2>1, Zenon DEF StatValues
<1>8. Grown
  <2>1. ASSUME NEW u \in Threads
        PROVE  Hits(u) <= Hits(u)' /\ \A w \in Int : HasPeak(u, w) => HasPeak(u, w)'
    <3>1. CASE u = t
      <4>1. Hits(u) = 0 /\ ~\E w : HasPeak(u, w)
        BY <1>4, <3>1, Zenon DEF Hits, HasPeak
      <4>2. Hits(u)' = 0
        <5>1. data'[u] # None /\ "hits" \notin DOMAIN data'[u]
          BY <1>3, <3>1, EmptyMap, Zenon
        <5> QED BY <5>1, Zenon DEF Hits, Lookup
      <4> QED BY <4>1, <4>2
    <3>2. CASE u # t
      <4>1. data'[u] = data[u]
        BY <1>3, <3>2, Zenon
      <4>2. Hits(u)' = Hits(u) /\ Hits(u) \in Int
        BY <4>1, HitsType, Zenon DEF Hits
      <4>3. Hits(u) <= Hits(u)'
        BY <4>2
      <4> QED BY <4>1, <4>3, Zenon DEF HasPeak
    <3> QED BY <3>1, <3>2
  <2> QED BY <2>1, Zenon DEF Grown
<1>9. Window'
  BY <1>1, <1>5, <1>8, WindowGrows, Zenon
<1> QED BY <1>5, <1>6, <1>7, <1>9

\* The push: either the storage moves, or the query finds one map more.
LEMMA PushStep ==
    ASSUME StatTypes, StatLists, StatValues, Window, NEW t \in Threads, PushThreadData(t)
    PROVE  StatTypes' /\ StatLists' /\ StatValues' /\ Window'
<1>1. /\ UNCHANGED <<key, data, query, iter, result, before>>
      /\ list' = Append(list, t) /\ pc[t] = "push"
      /\ storage' = storage \/ storage' = storage + 1
      /\ storage \in Nat /\ iter \in [storage : Nat, pos : Nat \ {0}]
      /\ iter.storage <= storage /\ iter.storage \in Nat /\ iter.pos \in Nat \ {0}
  BY DEF PushThreadData, reading, StatTypes
<1>2. /\ pc' \in [Threads -> {"idle", "push"}] /\ pc'[t] = "idle"
      /\ \A u \in Threads \ {t} : pc'[u] = pc[u]
  BY DEF PushThreadData, StatTypes
<1>3. /\ list \in Seq(Threads) /\ Len(list) \in Nat
      /\ list' \in Seq(Threads) /\ Len(list') = Len(list) + 1
      /\ DOMAIN list = 1 .. Len(list) /\ DOMAIN list' = 1 .. Len(list) + 1
      /\ list'[Len(list) + 1] = t /\ \A i \in 1 .. Len(list) : list'[i] = list[i]
  BY <1>1 DEF StatTypes
<1>4. /\ key[t] /\ data[t] = <<>> /\ \A i \in DOMAIN list : list[i] # t
  <2>1. key[t] /\ data[t] = <<>>
    BY <1>1, Zenon DEF StatLists
  <2>2. pc[t] # "idle"
    BY <1>1
  <2> QED BY <2>1, <2>2, Zenon DEF StatLists
<1>5. StatTypes'
  <2>1. storage' \in Nat /\ iter.storage <= storage'
    BY <1>1
  <2> QED BY <1>1, <1>2, <1>3, <2>1, Zenon DEF StatTypes
<1>6. StatLists'
  <2>1. ASSUME NEW u \in Threads
        PROVE  (\E i \in DOMAIN list' : list'[i] = u)
               <=> (\E i \in DOMAIN list : list[i] = u) \/ u = t
    BY <1>3
  <2>2. ASSUME NEW u \in Threads
        PROVE  /\ (\E i \in DOMAIN list' : list'[i] = u) <=> (key[u] /\ pc'[u] = "idle")
               /\ pc'[u] = "push" => key[u] /\ data[u] = <<>>
    <3>1. CASE u = t
      <4>1. pc'[u] # "push"
        BY <1>2, <3>1
      <4> QED BY <1>2, <1>4, <2>1, <3>1, <4>1, Zenon
    <3>2. CASE u # t
      BY <1>2, <2>1, <3>2, Zenon DEF StatLists
    <3> QED BY <3>1, <3>2
  <2>3. ASSUME NEW i \in DOMAIN list', NEW j \in DOMAIN list', list'[i] = list'[j] PROVE i = j
    <3>1. i \in DOMAIN list \/ i = Len(list) + 1
      BY <1>3
    <3>2. j \in DOMAIN list \/ j = Len(list) + 1
      BY <1>3
    <3>3. CASE i \in DOMAIN list /\ j \in DOMAIN list
      <4>1. list[i] = list[j]
        BY <1>3, <2>3, <3>3
      <4> QED BY <3>3, <4>1, Zenon DEF StatLists
    <3>4. ASSUME NEW a \in DOMAIN list, list'[a] = list'[Len(list) + 1] PROVE FALSE
      BY <1>3, <1>4, <3>4
    <3> QED BY <2>3, <3>1, <3>2, <3>3, <3>4
  <2> QED BY <1>1, <2>2, <2>3, Zenon DEF StatLists
<1>7. StatValues'
  BY <1>1, Zenon DEF StatValues
<1>8. Window'
  <2>1. CASE storage' = storage
    <3>1. SUFFICES ASSUME query # None, iter.storage = storage
                   PROVE  /\ iter.pos <= Len(list') + 1
                          /\ Visited' = Visited
      BY <1>1, <2>1, Zenon DEF Window, Asked, SumWindow, MaxWindow, HasPeak, HitsOf, Hits
    <3>2. iter.pos <= Len(list) + 1
      BY <3>1, Zenon DEF Window
    <3>3. \A i \in 1 .. iter.pos - 1 : list'[i] = list[i]
      BY <1>1, <1>3, <3>2
    <3>4. Visited' = Visited
      BY <1>1, <3>3, Zenon DEF Visited
    <3> QED BY <1>1, <1>3, <3>2, <3>4
  <2>2. CASE storage' = storage + 1
    <3>1. iter'.storage # storage'
      BY <1>1, <2>2
    <3> QED BY <3>1, Zenon DEF Window
  <2> QED BY <1>1, <2>1, <2>2
<1> QED BY <1>5, <1>6, <1>7, <1>8

\* Reading a statistic enters it with 0.
LEMMA TouchStep ==
    ASSUME StatTypes, StatLists, StatValues, Window, NEW t \in Threads, NEW k \in Keys,
           NEW v \in Int, Puts(t, k, v), Touch(t)
    PROVE  StatTypes' /\ StatLists' /\ StatValues' /\ Window'
<1>1. data' \in [Threads -> Maps \cup {None}] /\ StatLists' /\ StatValues' /\ Grown
  BY PutStep, Zenon
<1>2. UNCHANGED <<key, pc, list, storage, query, iter, result, before>>
  BY Zenon DEF Touch, registry, reading
<1>3. StatTypes'
  BY <1>1, <1>2, Zenon DEF StatTypes
<1> QED BY <1>1, <1>2, <1>3, WindowGrows, Zenon

\* stat_increment() and the like.
LEMMA UpdateSteps ==
    ASSUME StatTypes, StatLists, StatValues, Window, NEW t \in Threads,
           \/ StatIncr(t) \/ StatDecr(t)
           \/ \E v \in Values : StatSet(t, v) \/ StatSetMax(t, v)
           \/ \E k \in Keys : StatGet(t, k)
    PROVE  StatTypes' /\ StatLists' /\ StatValues' /\ Window'
<1>1. /\ Touch(t) /\ data[t] # None /\ pc[t] = "idle"
      /\ UNCHANGED <<key, pc, list, storage, destroyed>>
  BY DEF StatIncr, StatDecr, StatSet, StatSetMax, StatGet, Touch, registry
<1>2. data[t] \in Maps /\ \A k : Lookup(data[t], k) \in Int
  BY <1>1, HitsType, MapFacts, Zenon
<1>3. CASE StatIncr(t)
  <2> DEFINE n == Lookup(data[t], "hits")
  <2>1. "hits" \in Keys /\ data' = [data EXCEPT ![t] = Put(data[t], "hits", n + 1)]
    BY <1>3, Zenon DEF StatIncr, Update
  <2>2. n + 1 \in Int /\ n <= n + 1
    BY <1>2
  <2> QED BY <1>1, <2>1, <2>2, TouchStep, Zenon DEF Puts
<1>4. CASE StatDecr(t)
  <2> DEFINE n == Lookup(data[t], "gauge")
  <2>1. "gauge" \in Keys /\ data' = [data EXCEPT ![t] = Put(data[t], "gauge", n - 1)]
    BY <1>4, Zenon DEF StatDecr, Update
  <2>2. n - 1 \in Int
    BY <1>2
  <2> QED BY <1>1, <2>1, <2>2, TouchStep, Zenon DEF Puts
<1>5. ASSUME NEW v \in Values, StatSet(t, v)
      PROVE  StatTypes' /\ StatLists' /\ StatValues' /\ Window'
  <2>1. "gauge" \in Keys /\ data' = [data EXCEPT ![t] = Put(data[t], "gauge", v)]
    BY <1>5, Zenon DEF StatSet, Update
  <2>2. v \in Int
    BY StatConstants
  <2> QED BY <1>1, <2>1, <2>2, TouchStep, Zenon DEF Puts
<1>6. ASSUME NEW v \in Values, StatSetMax(t, v)
      PROVE  StatTypes' /\ StatLists' /\ StatValues' /\ Window'
  <2> DEFINE n == Lookup(data[t], "peak")
             m == IF v > n THEN v ELSE n
  <2>1. "peak" \in Keys /\ data' = [data EXCEPT ![t] = Put(data[t], "peak", m)]
    BY <1>6, Zenon DEF StatSetMax, Update
  <2>2. v \in Int
    BY StatConstants
  <2>3. m \in Int /\ n <= m
    BY <1>2, <2>2
  <2> HIDE DEF m
  <2> QED BY <1>1, <2>1, <2>3, TouchStep, Zenon DEF Puts
<1>7. ASSUME NEW k \in Keys, StatGet(t, k)
      PROVE  StatTypes' /\ StatLists' /\ StatValues' /\ Window'
  <2> DEFINE n == Lookup(data[t], k)
  <2>1. data' = [data EXCEPT ![t] = Put(data[t], k, n)]
    BY <1>7, Zenon DEF StatGet
  <2>2. n \in Int /\ n <= n
    BY <1>2
  <2> QED BY <1>1, <2>1, <2>2, TouchStep, Zenon DEF Puts
<1> QED BY <1>3, <1>4, <1>5, <1>6, <1>7

\* A query begins with nothing visited, and its window is the truth.
LEMMA BeginQueryStep ==
    ASSUME StatTypes, StatLists, StatValues, Window, NEW q \in Queries, QueryBegin(q)
    PROVE  StatTypes' /\ StatLists' /\ StatValues' /\ Window'
<1>1. /\ UNCHANGED <<key, pc, list, storage, data>> /\ query' = q
      /\ iter' = [storage |-> storage, pos |-> 1] /\ result' = NoResult
      /\ before' = [sum |-> Total("hits"), max |-> Greatest("peak")]
  BY Zenon DEF QueryBegin, registry
<1>2. /\ before'.sum = Total("hits") /\ before'.max = Greatest("peak")
      /\ iter'.pos = 1 /\ iter'.storage = storage
  BY <1>1
<1>3. /\ result'.sum \in [Keys -> Int] /\ result'.max \in [Keys -> Int]
      /\ "hits" \in Keys => result'.sum["hits"] = 0
      /\ "peak" \in Keys => result'.max["peak"] = INT64_MIN
  BY <1>1, StatConstants DEF NoResult
<1>4. /\ HitsOf' = HitsOf /\ \A t, v : HasPeak(t, v)' <=> HasPeak(t, v)
  BY <1>1, Zenon DEF HitsOf, Hits, HasPeak
<1>5. Total("hits") = SumFunctionOnSet(HitsOf, Threads) /\ Total("hits") \in Int
  <2>1. \A t \in Threads : HitsOf[t] \in Int
    BY HitsType
  <2> QED BY <2>1, TotalIsSum, SumType, StatConstants
<1>6. /\ Greatest("peak") \in Int
      /\ Greatest("peak") = INT64_MIN \/ \E t \in Threads : HasPeak(t, Greatest("peak"))
  BY GreatestFacts, Zenon
<1>7. StatTypes'
  <2>1. iter' \in [storage : Nat, pos : Nat \ {0}] /\ iter'.storage <= storage
    BY <1>1 DEF StatTypes
  <2> QED BY <1>1, <1>2, <1>3, <1>5, <1>6, <2>1, Zenon DEF StatTypes
<1>8. StatLists' /\ StatValues'
  BY <1>1, Zenon DEF StatLists, StatValues
<1>9. Visited' = {} /\ Threads \ {} = Threads
  BY <1>2 DEF Visited
<1>10. iter'.pos <= Len(list') + 1
  BY <1>1, <1>2 DEF StatTypes
<1>11. ASSUME "hits" \in Keys PROVE SumWindow(HitsOf, {}, result'.sum["hits"], before'.sum)
  <2>1. SumFunctionOnSet(HitsOf, {}) = 0
    BY EmptySum
  <2>2. /\ result'.sum["hits"] = 0 /\ before'.sum \in Int
        /\ before'.sum = SumFunctionOnSet(HitsOf, Threads \ {})
    BY <1>2, <1>3, <1>5, <1>9, <1>11, Zenon
  <2> QED BY <2>1, <2>2 DEF SumWindow
<1>12. ASSUME "peak" \in Keys PROVE MaxWindow(Visited, result.max["peak"], before.max)'
  <2>1. result'.max["peak"] = INT64_MIN /\ before'.max = Greatest("peak") /\ INT64_MIN \in Int
    BY <1>2, <1>3, <1>12, StatConstants
  <2>2. INT64_MIN <= INT64_MIN
    BY <2>1
  <2>3. (\E t \in Threads : HasPeak(t, Greatest("peak")))
           => \E t \in Threads : HasPeak(t, before.max)'
    BY <1>1, <2>1, Zenon DEF HasPeak
  <2>4. \/ before'.max <= result'.max["peak"]
        \/ \E t \in Threads \ Visited' : HasPeak(t, before.max)'
    BY <1>6, <1>9, <2>1, <2>2, <2>3
  <2> QED BY <2>1, <2>2, <2>4, Zenon DEF MaxWindow, HasPeak
<1>13. Window'
  <2>1. \A op, k : Asked(op, k)' => k \in Keys
    BY Zenon DEF Asked
  <2>2. Asked("sum", "hits")' => SumWindow(HitsOf', Visited', result'.sum["hits"], before'.sum)
    BY <1>4, <1>9, <1>11, <2>1, Zenon
  <2>3. Asked("max", "peak")' => MaxWindow(Visited, result.max["peak"], before.max)'
    BY <1>12, <2>1, Zenon
  <2> QED BY <1>10, <2>2, <2>3, Zenon DEF Window, SumWindow
<1> QED BY <1>7, <1>8, <1>13

\* One more map.
LEMMA SumVisit ==
    ASSUME NEW h, \A u \in Threads : h[u] \in Int, NEW V \in SUBSET Threads,
           NEW t \in Threads \ V, NEW r \in Int, NEW b \in Int, SumWindow(h, V, r, b)
    PROVE  SumWindow(h, V \cup {t}, r + h[t], b)
<1> DEFINE U == Threads \ V
           W == V \cup {t}
<1>1. IsFiniteSet(V) /\ IsFiniteSet(U) /\ IsFiniteSet(W)
  BY StatConstants, FS_Subset
<1>2. W \ {t} = V /\ U \ {t} = Threads \ W
  OBVIOUS
<1>3. SumFunctionOnSet(h, W) = h[t] + SumFunctionOnSet(h, W \ {t})
  BY <1>1, SumRemove
<1>4. SumFunctionOnSet(h, U) = h[t] + SumFunctionOnSet(h, U \ {t})
  BY <1>1, SumRemove
<1>5. IsFiniteSet(U \ {t})
  BY <1>1, FS_Subset
<1>6. /\ SumFunctionOnSet(h, V) \in Int /\ SumFunctionOnSet(h, U \ {t}) \in Int /\ h[t] \in Int
  BY <1>1, <1>5, SumType
<1>7. r <= SumFunctionOnSet(h, V) /\ b <= r + SumFunctionOnSet(h, U)
  BY DEF SumWindow
<1> HIDE DEF U, W
<1>8. /\ r + h[t] <= SumFunctionOnSet(h, W)
      /\ b <= (r + h[t]) + SumFunctionOnSet(h, Threads \ W)
  <2> DEFINE x == h[t]
             v == SumFunctionOnSet(h, V)
             w == SumFunctionOnSet(h, W)
             u == SumFunctionOnSet(h, U)
             z == SumFunctionOnSet(h, Threads \ W)
  <2>1. w = x + v /\ u = x + z /\ v \in Int /\ z \in Int /\ x \in Int /\ r <= v /\ b <= r + u
    BY <1>2, <1>3, <1>4, <1>6, <1>7, Zenon
  <2> HIDE DEF x, v, w, u, z
  <2>2. r + x <= w /\ b <= (r + x) + z
    BY <2>1
  <2> QED BY <2>2, Zenon DEF x, w, z
<1> QED BY <1>8 DEF SumWindow, W

\* Visiting a map keeps the window of a maximum.
LEMMA MaxVisit ==
    ASSUME StatTypes, NEW V \in SUBSET Threads, NEW t \in Threads \ V, data[t] # None,
           NEW r \in Int, NEW b \in Int, NEW s \in Int, MaxWindow(V, r, b),
           s = IF "peak" \in DOMAIN data[t] THEN Max2(r, data[t]["peak"]) ELSE r
    PROVE  MaxWindow(V \cup {t}, s, b)
<1>1. INT64_MIN \in Int
  BY StatConstants
<1>2. "peak" \in DOMAIN data[t] => data[t]["peak"] \in Int
  BY HitsType, MapFacts, Zenon
<1>3. /\ r <= s
      /\ \A v \in Int : HasPeak(t, v) => v <= s
      /\ s = r \/ (HasPeak(t, s) /\ s # r)
  BY <1>2 DEF Max2, HasPeak
<1>4. INT64_MIN <= s
  BY <1>1, <1>3 DEF MaxWindow
<1>5. b <= s \/ \E u \in Threads \ (V \cup {t}) : HasPeak(u, b)
  <2>1. CASE b <= r
    BY <1>3, <2>1
  <2>2. ASSUME NEW u \in Threads \ V, HasPeak(u, b)
        PROVE  b <= s \/ \E w \in Threads \ (V \cup {t}) : HasPeak(w, b)
    BY <1>3, <2>2, Zenon
  <2> QED BY <2>1, <2>2, Zenon DEF MaxWindow
<1>6. s = INT64_MIN \/ \E u \in Threads : HasPeak(u, s)
  BY <1>3, Zenon DEF MaxWindow
<1> QED BY <1>4, <1>5, <1>6, Zenon DEF MaxWindow

\* One turn of the loop of a query.
LEMMA VisitStep ==
    ASSUME StatTypes, StatLists, StatValues, Window, QueryVisit
    PROVE  StatTypes' /\ StatLists' /\ StatValues' /\ Window'
<1> DEFINE t == list[iter.pos]
           f == data[t]
           ks == IF query.op = "all" THEN Keys ELSE {query.key}
<1>1. /\ UNCHANGED <<key, pc, list, storage, query, before, destroyed>>
      /\ query # None /\ iter.storage = storage /\ iter.pos \in DOMAIN list
      /\ iter' = [iter EXCEPT !.pos = @ + 1]
      /\ result' = [sum |-> AddToSum(f, ks), max |-> AddToMax(f, ks)]
      /\ data' = IF query.op = "sum"
                 THEN [data EXCEPT ![t] = Put(f, query.key, Lookup(f, query.key))] ELSE data
  BY Zenon DEF QueryVisit, InRange, registry
<1>2. /\ iter \in [storage : Nat, pos : Nat \ {0}] /\ list \in Seq(Threads)
      /\ query \in Queries /\ iter.pos \in 1 .. Len(list) /\ Len(list) \in Nat
      /\ result.sum \in [Keys -> Int] /\ result.max \in [Keys -> Int]
      /\ before.sum \in Int /\ before.max \in Int /\ iter.storage <= storage
      /\ data \in [Threads -> Maps \cup {None}]
  BY <1>1 DEF StatTypes
<1>3. /\ iter' \in [storage : Nat, pos : Nat \ {0}]
      /\ iter'.pos = iter.pos + 1 /\ iter'.storage = iter.storage /\ iter.pos \in Nat \ {0}
  BY <1>1, <1>2
<1>4. t \in Threads /\ \A i \in 1 .. Len(list) : list[i] \in Threads
  BY <1>2
<1>5. data[t] # None /\ pc[t] = "idle"
  BY <1>1, <1>4, Zenon DEF StatLists
<1>6. f \in Maps
  BY <1>4, <1>5, HitsType, Zenon
<1>7. (\A k \in DOMAIN f : f[k] \in Int) /\ (\A k : Lookup(f, k) \in Int)
  BY <1>6, MapFacts, Zenon
<1>8. /\ query.op = "all" \/ (query.op \in {"sum", "max"} /\ query.key \in Keys)
  BY <1>2 DEF Queries
<1>9. Visited \in SUBSET Threads /\ t \notin Visited /\ Visited' = Visited \cup {t}
  <2>1. \A i \in 1 .. iter.pos - 1 : i \in DOMAIN list /\ i # iter.pos
    BY <1>2, <1>3
  <2>2. Visited \in SUBSET Threads
    BY <1>2, <1>4, <2>1 DEF Visited
  <2>3. t \notin Visited
    BY <1>1, <2>1, Zenon DEF Visited, StatLists
  <2>4. 1 .. iter'.pos - 1 = (1 .. iter.pos - 1) \cup {iter.pos}
    BY <1>3
  <2>5. Visited' = {list[i] : i \in 1 .. iter'.pos - 1}
    BY <1>1, Zenon DEF Visited
  <2>6. Visited' = Visited \cup {t}
    BY <2>4, <2>5, Zenon DEF Visited
  <2> QED BY <2>2, <2>3, <2>6
<1>10. /\ result'.sum = AddToSum(f, ks) /\ result'.max = AddToMax(f, ks)
  BY <1>1
<1>11. /\ result'.sum \in [Keys -> Int] /\ result'.max \in [Keys -> Int]
  BY <1>2, <1>7, <1>10 DEF AddToSum, AddToMax, Max2
<1>12. data' \in [Threads -> Maps \cup {None}] /\ StatLists' /\ StatValues' /\ Grown
  <2>1. CASE query.op = "sum"
    <3> DEFINE k == query.key
               v == Lookup(f, k)
    <3>1. k \in Keys
      BY <1>8, <2>1
    <3>2. v \in Int /\ v <= v
      BY <1>7
    <3>3. Puts(t, k, v)
      BY <1>1, <1>5, <2>1, <3>2, Zenon DEF Puts
    <3> HIDE DEF t, k, v
    <3> QED BY <1>4, <3>1, <3>2, <3>3, PutStep, Zenon
  <2>2. CASE query.op # "sum"
    <3>1. data' = data
      BY <1>1, <2>2, Zenon
    <3>2. StatLists' /\ StatValues'
      BY <1>1, <3>1, Zenon DEF StatLists, StatValues
    <3>3. \A u \in Threads : Hits(u) <= Hits(u)
      BY HitsType
    <3>4. Grown
      BY <3>1, <3>3, Zenon DEF Grown, Hits, HasPeak
    <3> QED BY <1>2, <3>1, <3>2, <3>4, Zenon
  <2> QED BY <2>1, <2>2
<1>13. StatTypes'
  <2>1. iter'.storage <= storage'
    BY <1>1, <1>2, <1>3, Zenon
  <2> QED BY <1>1, <1>3, <1>11, <1>12, <2>1, Zenon DEF StatTypes
<1>14. ASSUME Asked("sum", "hits")
       PROVE  SumWindow(HitsOf', Visited', result'.sum["hits"], before'.sum)
  <2>1. "hits" \in Keys /\ "hits" \in ks
    <3>1. "hits" \in Keys /\ (query.op = "all" \/ query.key = "hits")
      BY <1>14 DEF Asked
    <3> QED BY <3>1
  <2>2. result'.sum["hits"] = result.sum["hits"] + HitsOf[t]
    <3>1. HitsOf[t] = Lookup(f, "hits")
      BY <1>4, <1>5, HitsType, Zenon DEF Hits
    <3>2. result'.sum["hits"] = result.sum["hits"] + Lookup(f, "hits")
      BY <1>10, <2>1, Zenon DEF AddToSum
    <3> QED BY <3>1, <3>2, Zenon
  <2>3. SumWindow(HitsOf, Visited, result.sum["hits"], before.sum)
    BY <1>1, <1>14, Zenon DEF Window
  <2>4. /\ result.sum["hits"] \in Int /\ result'.sum["hits"] \in Int
        /\ \A u \in Threads : HitsOf[u] \in Int
    BY <1>2, <1>11, <2>1, HitsType
  <2> HIDE DEF t, ks
  <2>5. SumWindow(HitsOf, Visited \cup {t}, result.sum["hits"] + HitsOf[t], before.sum)
    <3>1. t \in Threads \ Visited
      BY <1>4, <1>9
    <3> QED BY <1>2, <1>9, <2>3, <2>4, <3>1, SumVisit, Zenon
  <2>6. SumWindow(HitsOf, Visited', result'.sum["hits"], before.sum)
    BY <1>9, <2>2, <2>5, Zenon
  <2>7. Visited' \in SUBSET Threads
    BY <1>4, <1>9
  <2>8. SumWindow(HitsOf', Visited', result'.sum["hits"], before.sum)
    BY <1>2, <1>12, <1>13, <2>4, <2>6, <2>7, HitsGrow, SumGrows, Zenon
  <2> QED BY <1>1, <2>8, Zenon
<1>15. ASSUME Asked("max", "peak")
       PROVE  MaxWindow(Visited, result.max["peak"], before.max)'
  <2>1. "peak" \in Keys /\ "peak" \in ks
    <3>1. "peak" \in Keys /\ (query.op = "all" \/ query.key = "peak")
      BY <1>15 DEF Asked
    <3> QED BY <3>1
  <2>2. result'.max["peak"] =
           IF "peak" \in DOMAIN f THEN Max2(result.max["peak"], f["peak"])
           ELSE result.max["peak"]
    BY <1>10, <2>1, Zenon DEF AddToMax
  <2>3. MaxWindow(Visited, result.max["peak"], before.max)
    BY <1>1, <1>15, Zenon DEF Window
  <2>4. result.max["peak"] \in Int /\ result'.max["peak"] \in Int
    BY <1>2, <1>11, <2>1
  <2>5. t \in Threads \ Visited
    BY <1>4, <1>9
  <2> HIDE DEF t, ks
  <2>6. MaxWindow(Visited \cup {t}, result'.max["peak"], before.max)
    BY <1>2, <1>5, <1>9, <2>2, <2>3, <2>4, <2>5, MaxVisit, Zenon
  <2>7. Visited' \in SUBSET Threads
    BY <1>4, <1>9
  <2>8. PICK V \in SUBSET Threads, r \in Int, b \in Int :
            V = Visited' /\ r = result'.max["peak"] /\ b = before.max
    BY <1>2, <2>4, <2>7, Zenon
  <2>9. MaxWindow(V, r, b)
    BY <1>9, <2>6, <2>8, Zenon
  <2>10. MaxWindow(V, r, b)'
    BY <1>12, <2>9, MaxGrows, Zenon
  <2>11. V = Visited' /\ r = result'.max["peak"] /\ b = before'.max
    BY <1>1, <2>8, Zenon
  <2> QED BY <2>10, <2>11, Zenon
<1>16. iter'.pos <= Len(list') + 1
  BY <1>1, <1>2, <1>3
<1>17. Window'
  <2>1. \A op, k : Asked(op, k)' <=> Asked(op, k)
    BY <1>1, Zenon DEF Asked
  <2> QED BY <1>14, <1>15, <1>16, <2>1, Zenon DEF Window, SumWindow
<1> QED BY <1>12, <1>13, <1>17

\* The invariant of Stat holds initially.
LEMMA StatInit == ASSUME Init PROVE StatInv
<1>1. /\ key = [t \in Threads |-> FALSE] /\ pc = [t \in Threads |-> "idle"]
      /\ list = <<>> /\ storage = 0 /\ data = [t \in Threads |-> None] /\ query = None
      /\ iter = [storage |-> 0, pos |-> 1] /\ result = NoResult
      /\ before = [sum |-> 0, max |-> INT64_MIN] /\ INT64_MIN \in Int
  BY StatConstants DEF Init
<1>2. result.sum \in [Keys -> Int] /\ result.max \in [Keys -> Int]
  BY <1>1 DEF NoResult
<1>3. /\ iter \in [storage : Nat, pos : Nat \ {0}] /\ iter.storage <= storage
      /\ before.sum \in Int /\ before.max \in Int
  BY <1>1
<1>4. list \in Seq(Threads) /\ DOMAIN list = {}
  BY <1>1
<1>5. StatTypes
  BY <1>1, <1>2, <1>3, <1>4 DEF StatTypes
<1>6. StatLists /\ StatValues
  BY <1>1, <1>4 DEF StatLists, StatValues
<1>7. Window
  BY <1>1, Zenon DEF Window
<1> QED BY <1>5, <1>6, <1>7 DEF StatInv

\* Every step of Stat keeps it.
LEMMA StatNext == ASSUME StatInv, Next PROVE StatInv'
<1> SUFFICES ASSUME ~destroyed' PROVE StatTypes' /\ StatLists' /\ StatValues' /\ Window'
  BY Zenon DEF StatInv
<1>1. ~destroyed
  BY Zenon DEF Next, InitThreadData, PushThreadData, StatIncr, StatDecr, TouchDeleted, StatSet,
         StatSetMax, StatGet, Touch, StatDestroy, QueryBegin, QueryVisit, QueryEnd, QueryAstray
<1>2. StatTypes /\ StatLists /\ StatValues /\ Window
  BY <1>1, Zenon DEF StatInv
<1>3. ASSUME NEW t \in Threads, InitThreadData(t)
      PROVE  StatTypes' /\ StatLists' /\ StatValues' /\ Window'
  BY <1>2, <1>3, InitThreadStep, Zenon
<1>4. ASSUME NEW t \in Threads, PushThreadData(t)
      PROVE  StatTypes' /\ StatLists' /\ StatValues' /\ Window'
  BY <1>2, <1>4, PushStep, Zenon
<1>5. ASSUME NEW t \in Threads,
             \/ StatIncr(t) \/ StatDecr(t)
             \/ \E v \in Values : StatSet(t, v) \/ StatSetMax(t, v)
             \/ \E k \in Keys : StatGet(t, k)
      PROVE  StatTypes' /\ StatLists' /\ StatValues' /\ Window'
  BY <1>2, <1>5, UpdateSteps, Zenon
<1>6. ASSUME NEW t \in Threads, TouchDeleted(t)
      PROVE  StatTypes' /\ StatLists' /\ StatValues' /\ Window'
  BY <1>2, <1>6, SameStep, Zenon DEF TouchDeleted, Touch, registry, reading
<1>7. CASE StatDestroy
  BY <1>7, Zenon DEF StatDestroy
<1>8. ASSUME NEW q \in Queries, QueryBegin(q)
      PROVE  StatTypes' /\ StatLists' /\ StatValues' /\ Window'
  BY <1>2, <1>8, BeginQueryStep, Zenon
<1>9. CASE QueryVisit
  BY <1>2, <1>9, VisitStep, Zenon
<1>10. CASE QueryEnd
  BY <1>2, <1>10, SameStep, Zenon DEF QueryEnd, registry
<1>11. CASE QueryAstray
  BY <1>2, <1>11, SameStep, Zenon DEF QueryAstray, registry, reading
<1> QED BY <1>3, <1>4, <1>5, <1>6, <1>7, <1>8, <1>9, <1>10, <1>11, Zenon DEF Next

\* So does a step of another library.
LEMMA StatStutter == ASSUME StatInv, UNCHANGED vars PROVE StatInv'
<1> SUFFICES ASSUME ~destroyed' PROVE StatTypes' /\ StatLists' /\ StatValues' /\ Window'
  BY Zenon DEF StatInv
<1>1. ~destroyed
  BY DEF vars
<1> QED BY <1>1, SameStep, Zenon DEF StatInv, vars, registry, reading

\* At the end of its walk a query has read every map that holds anything.
LEMMA StatResult == ASSUME StatInv PROVE ResultWindow
<1>1. SUFFICES ASSUME Returning
               PROVE  /\ Asked("sum", "hits") =>
                           /\ before.sum <= result.sum["hits"]
                           /\ result.sum["hits"] <= Total("hits")
                      /\ Asked("max", "peak") =>
                           /\ before.max <= result.max["peak"]
                           /\ result.max["peak"] <= Greatest("peak")
  BY Zenon DEF ResultWindow
<1>2. /\ StatTypes /\ StatLists /\ StatValues /\ Window
      /\ query # None /\ iter.storage = storage /\ iter.pos = Len(list) + 1
  BY <1>1, Zenon DEF StatInv, Returning, AtEnd
<1>3. /\ DOMAIN list = 1 .. iter.pos - 1 /\ iter.pos <= Len(list) + 1
  BY <1>2 DEF StatTypes
<1>4. /\ Visited \in SUBSET Threads /\ IsFiniteSet(Visited)
      /\ IsFiniteSet(Threads \ Visited) /\ IsFiniteSet(Threads)
  BY <1>2, <1>3, VisitedType, Zenon
<1>5. ASSUME NEW t \in Threads \ Visited
      PROVE  HitsOf[t] = 0 /\ ~\E v : HasPeak(t, v)
  <2>1. ~\E i \in DOMAIN list : list[i] = t
    BY <1>3, Zenon DEF Visited
  <2>2. /\ ~(key[t] /\ pc[t] = "idle") /\ (data[t] # None <=> key[t])
        /\ pc[t] = "push" => data[t] = <<>>
    BY <1>2, <2>1, Zenon DEF StatLists
  <2>3. pc[t] \in {"idle", "push"} /\ key[t] \in BOOLEAN
    BY <1>2 DEF StatTypes
  <2>4. data[t] = None \/ data[t] = <<>>
    BY <2>2, <2>3
  <2>5. data[t] = None \/ DOMAIN data[t] = {}
    BY <2>4, EmptyMap, Zenon
  <2>6. HitsOf[t] = Hits(t)
    BY <1>2, HitsType
  <2>7. "hits" \notin {} /\ "peak" \notin {}
    OBVIOUS
  <2> QED BY <2>5, <2>6, <2>7, Zenon DEF Hits, Lookup, HasPeak
<1>6. ASSUME Asked("sum", "hits")
      PROVE  before.sum <= result.sum["hits"] /\ result.sum["hits"] <= Total("hits")
  <2>1. /\ result.sum["hits"] <= SumFunctionOnSet(HitsOf, Visited)
        /\ before.sum <= result.sum["hits"] + SumFunctionOnSet(HitsOf, Threads \ Visited)
    BY <1>2, <1>6, Zenon DEF Window, SumWindow
  <2>2. SumFunctionOnSet(HitsOf, Threads \ Visited) = 0
    <3>1. SumFunctionOnSet(HitsOf, Threads \ Visited) = SumFunctionOnSet(HitsOf, {})
      BY <1>4, <1>5, SumZeros
    <3> QED BY <3>1, EmptySum
  <2>3. /\ SumFunctionOnSet(HitsOf, Visited) <= SumFunctionOnSet(HitsOf, Threads)
        /\ SumFunctionOnSet(HitsOf, Visited) \in Int
    <3>1. \A t \in Threads : HitsOf[t] \in Nat
      BY <1>2, HitsNat
    <3> QED BY <1>4, <3>1, SumPart
  <2>4. SumFunctionOnSet(HitsOf, Threads) \in Int
    BY <1>2, <1>4, HitsTypes, SumType
  <2>5. Total("hits") = SumFunctionOnSet(HitsOf, Threads)
    BY <1>2, TotalIsSum
  <2>6. result.sum["hits"] \in Int /\ before.sum \in Int
    BY <1>2, <1>6 DEF StatTypes, Asked
  <2> DEFINE v == SumFunctionOnSet(HitsOf, Visited)
             w == SumFunctionOnSet(HitsOf, Threads)
             u == SumFunctionOnSet(HitsOf, Threads \ Visited)
  <2> HIDE DEF v, w, u
  <2>7. result.sum["hits"] <= v /\ before.sum <= result.sum["hits"] + u /\ u = 0 /\ v <= w
        /\ v \in Int /\ w \in Int /\ Total("hits") = w
    BY <2>1, <2>2, <2>3, <2>4, <2>5, Zenon DEF v, w, u
  <2> QED BY <2>6, <2>7
<1>7. ASSUME Asked("max", "peak")
      PROVE  before.max <= result.max["peak"] /\ result.max["peak"] <= Greatest("peak")
  <2>1. MaxWindow(Visited, result.max["peak"], before.max)
    BY <1>2, <1>7, Zenon DEF Window
  <2>2. result.max["peak"] \in Int
    BY <1>2, <1>7 DEF StatTypes, Asked
  <2>3. before.max <= result.max["peak"]
    BY <1>5, <2>1, Zenon DEF MaxWindow
  <2>4. result.max["peak"] <= Greatest("peak")
    BY <1>2, <2>1, <2>2, GreatestFacts, Zenon DEF MaxWindow
  <2> QED BY <2>3, <2>4
<1> QED BY <1>6, <1>7

-----------------------------------------------------------------------------
(* Zmalloc.                                                                *)

Prefixed(n) == MEM!Round(n) + MEM!PREFIX_SIZE

\* What Zmalloc sees of Functions.
LEMMA SameSum == ASSUME NEW f PROVE MEM!SumFunction(f) = SumFunction(f)
BY DEF MEM!SumFunction, SumFunction, MEM!SumFunctionOnSet, SumFunctionOnSet,
       MEM!FoldFunctionOnSet, FoldFunctionOnSet, MEM!MapThenFoldSet, MapThenFoldSet

\* The assumption on the constants, as the proofs use it.
LEMMA MemConstants ==
    /\ IsFiniteSet(Allocators) /\ IsFiniteSet(Blocks) /\ None \notin Blocks
    /\ Sizes \subseteq Nat /\ None \notin Nat
    /\ 2 ^ WordBits \in Nat \ {0}
    /\ \A f \in [Blocks -> Sizes] :
          SumFunctionOnSet([b \in Blocks |-> Prefixed(f[b])], Blocks) < 2 ^ WordBits
<1>1. ASSUME NEW f \in [Blocks -> Sizes]
      PROVE  SumFunctionOnSet([b \in Blocks |-> Prefixed(f[b])], Blocks) < 2 ^ WordBits
  <2> DEFINE g == [b \in Blocks |-> MEM!Round(f[b]) + MEM!PREFIX_SIZE]
  <2>1. SumFunction(g) < 2 ^ WordBits
    BY CounterConstants, Zenon
  <2>2. DOMAIN g = Blocks /\ g = [b \in Blocks |-> Prefixed(f[b])]
    BY Zenon DEF Prefixed
  <2> QED BY <2>1, <2>2, Zenon DEF SumFunction
<1> QED BY <1>1, CounterConstants

\* The calls that can be under way on block b of size k, the updates left to make:
\* zmalloc(), zrealloc() before its first and its second update, zfree().
Allocates(c, b, k) == c = MEM!Call(b, <<MEM!Round(k + MEM!PREFIX_SIZE)>>, FALSE)
Resizes(c, b, k, n) == c = MEM!Call(b, <<-MEM!Round(n), MEM!Round(k)>>, FALSE)
Resized(c, b, k) == c = MEM!Call(b, <<MEM!Round(k)>>, FALSE)
Frees(c, b, k) == c = MEM!Call(b, <<-MEM!Round(k + MEM!PREFIX_SIZE)>>, TRUE)

CallOn(c, b, k) ==
    \/ Allocates(c, b, k) \/ Resized(c, b, k) \/ Frees(c, b, k)
    \/ \E n \in Sizes : Resizes(c, b, k, n)

\* What used_memory holds of a block of size k when call c is under way on it.
CountedIn(c, k) ==
    CASE c.frees -> Prefixed(k)
      [] OTHER   -> Prefixed(k) - SumFunction(c.updates)

\* A split of used_memory among the blocks.
Ledger(share) ==
    /\ share \in [Blocks -> Nat]
    /\ used_memory = SumFunctionOnSet(share, Blocks)
    /\ \A b \in Blocks :
          /\ size[b] = None => share[b] = 0
          /\ MEM!Usable(b) => share[b] = Prefixed(size[b])
    /\ \A t \in Allocators :
          call[t] # MEM!Returned =>
              share[call[t].block] = CountedIn(call[t], size[call[t].block])

MemTypes ==
    /\ size \in [Blocks -> Sizes \cup {None}]
    /\ used_memory \in Nat
    /\ zmalloc_thread_safe \in BOOLEAN /\ overlap \in BOOLEAN /\ aborted \in BOOLEAN
    /\ reg \in [Allocators -> Nat \cup {None}]
    /\ DOMAIN call = Allocators
    /\ \A t \in Allocators :
          \/ call[t] = MEM!Returned
          \/ \E b \in Blocks : size[b] # None /\ CallOn(call[t], b, size[b])

\* A block is in the hands of one call, and only a call reads the counter.
MemCalls ==
    /\ \A t, u \in Allocators :
          /\ call[t] # MEM!Returned /\ call[u] # MEM!Returned
          /\ call[t].block = call[u].block
          => t = u
    /\ \A t \in Allocators : reg[t] # None => call[t] # MEM!Returned

MemCounts ==
    ~overlap =>
        /\ \A t \in Allocators : reg[t] # None => reg[t] = used_memory
        /\ \E share \in [Blocks -> Nat] : Ledger(share)

-----------------------------------------------------------------------------

\* A block with its prefix is as large as it is counted.
LEMMA RoundFacts ==
    ASSUME NEW n \in Nat
    PROVE  /\ MEM!Round(n) \in Nat /\ MEM!Round(n + MEM!PREFIX_SIZE) = Prefixed(n)
           /\ Prefixed(n) \in Nat /\ Prefixed(n) = MEM!Round(n) + 8
BY DEF MEM!Round, Prefixed, MEM!PREFIX_SIZE

\* A remainder is a natural number.
LEMMA ModType == ASSUME NEW m \in Nat \ {0}, NEW x \in Int PROVE x % m \in Nat
OBVIOUS

\* Numbers that fit are not changed by the width of size_t.
LEMMA ModSmall == ASSUME NEW m \in Nat \ {0}, NEW x \in Nat, x < m PROVE x % m = x
OBVIOUS

\* What is left of a call on block b, and what its next update does to the share of b.
CallOk(c, b, k) ==
    /\ c # MEM!Returned /\ c.block = b
    /\ c.frees \in BOOLEAN
    /\ Head(c.updates) \in Int
    /\ SumFunction(c.updates) \in Int
    /\ SumFunction(c.updates) = Head(c.updates) + SumFunction(Tail(c.updates))
    /\ CountedIn(c, k) \in Nat /\ CountedIn(c, k) + Head(c.updates) \in Nat
    /\ \E n \in Sizes : CountedIn(c, k) <= Prefixed(n)
    /\ CountedIn(c, k) + Head(c.updates) <= Prefixed(k)
    /\ c.frees => Tail(c.updates) = <<>> /\ CountedIn(c, k) + Head(c.updates) = 0
    /\ ~c.frees /\ Tail(c.updates) = <<>> =>
          CountedIn(c, k) + Head(c.updates) = Prefixed(k)
    /\ Tail(c.updates) # <<>> =>
          /\ Resized([c EXCEPT !.updates = Tail(c.updates)], b, k)
          /\ CountedIn(c, k) + Head(c.updates)
                = CountedIn([c EXCEPT !.updates = Tail(c.updates)], k)

\* A call with one update left, and one with two.
OneLeft(c, b, x, f) ==
    /\ c.block = b /\ c.frees = f
    /\ Head(c.updates) = x /\ Tail(c.updates) = <<>>
    /\ SumFunction(c.updates) = x /\ SumFunction(Tail(c.updates)) = 0

TwoLeft(c, b, x, y, f) ==
    /\ c.block = b /\ c.frees = f
    /\ Head(c.updates) = x /\ Tail(c.updates) # <<>>
    /\ SumFunction(c.updates) = x + y /\ SumFunction(Tail(c.updates)) = y
    /\ [c EXCEPT !.updates = Tail(c.updates)] = MEM!Call(b, <<y>>, f)

\* A call with one update left.
LEMMA OneUpdate ==
    ASSUME NEW b, NEW x \in Int, NEW f PROVE OneLeft(MEM!Call(b, <<x>>, f), b, x, f)
<1>1. Head(<<x>>) = x /\ Tail(<<x>>) = <<>>
  OBVIOUS
<1>2. SumFunction(<<x>>) = x /\ SumFunction(<<>>) = 0
  BY ShortSums, Zenon
<1>3. /\ MEM!Call(b, <<x>>, f).block = b /\ MEM!Call(b, <<x>>, f).updates = <<x>>
      /\ MEM!Call(b, <<x>>, f).frees = f
  BY SMT DEF MEM!Call
<1> QED BY <1>1, <1>2, <1>3, Zenon DEF OneLeft

\* A call with two updates left.
LEMMA TwoUpdates ==
    ASSUME NEW b, NEW x \in Int, NEW y \in Int, NEW f
    PROVE  TwoLeft(MEM!Call(b, <<x, y>>, f), b, x, y, f)
<1>1. Head(<<x, y>>) = x /\ Tail(<<x, y>>) = <<y>> /\ <<y>> # <<>>
  OBVIOUS
<1>2. SumFunction(<<x, y>>) = x + y /\ SumFunction(<<y>>) = y
  BY ShortSums, Zenon
<1>3. /\ MEM!Call(b, <<x, y>>, f).block = b /\ MEM!Call(b, <<x, y>>, f).updates = <<x, y>>
      /\ MEM!Call(b, <<x, y>>, f).frees = f
  BY SMT DEF MEM!Call
<1>4. [MEM!Call(b, <<x, y>>, f) EXCEPT !.updates = <<y>>] = MEM!Call(b, <<y>>, f)
  BY SMT DEF MEM!Call
<1> QED BY <1>1, <1>2, <1>3, <1>4, Zenon DEF TwoLeft

\* What each kind of call does to the share of its block with its next update.
LEMMA CallFacts ==
    ASSUME NEW b \in Blocks, NEW k \in Sizes, NEW c, CallOn(c, b, k)
    PROVE  CallOk(c, b, k)
<1>1. k \in Sizes /\ k \in Nat /\ b # None
  BY MemConstants
<1>2. /\ MEM!Round(k) \in Nat /\ MEM!Round(k + MEM!PREFIX_SIZE) = Prefixed(k)
      /\ Prefixed(k) \in Nat /\ Prefixed(k) = MEM!Round(k) + 8
  BY <1>1, RoundFacts
<1>3. MEM!Returned.block = None
  BY SMT DEF MEM!Call, MEM!Returned
<1>4. CASE Allocates(c, b, k)
  <2>0. Prefixed(k) \in Int
    BY <1>2
  <2>1. Prefixed(k) \in Int /\ c = MEM!Call(b, <<Prefixed(k)>>, FALSE)
    BY <1>2, <1>4, <2>0, Zenon DEF Allocates
  <2>2. OneLeft(c, b, Prefixed(k), FALSE)
    BY <2>1, OneUpdate, Zenon
  <2>3. CountedIn(c, k) = 0
    BY <1>2, <2>2 DEF CountedIn, OneLeft
  <2>4. /\ Head(c.updates) \in Int /\ SumFunction(c.updates) \in Int
        /\ SumFunction(c.updates) = Head(c.updates) + SumFunction(Tail(c.updates))
        /\ CountedIn(c, k) \in Nat /\ CountedIn(c, k) + Head(c.updates) \in Nat
        /\ CountedIn(c, k) <= Prefixed(k)
        /\ CountedIn(c, k) + Head(c.updates) <= Prefixed(k)
        /\ CountedIn(c, k) + Head(c.updates) = Prefixed(k)
    BY <1>2, <2>2, <2>3 DEF OneLeft
  <2>5. c # MEM!Returned
    BY <1>1, <1>3, <2>2, Zenon DEF OneLeft
  <2> QED BY <1>1, <2>2, <2>4, <2>5, Zenon DEF CallOk, OneLeft
<1>5. CASE Resized(c, b, k)
  <2>1. MEM!Round(k) \in Int /\ c = MEM!Call(b, <<MEM!Round(k)>>, FALSE)
    BY <1>2, <1>5 DEF Resized
  <2>2. OneLeft(c, b, MEM!Round(k), FALSE)
    BY <2>1, OneUpdate, Zenon
  <2>3. CountedIn(c, k) = 8
    BY <1>2, <2>2 DEF CountedIn, OneLeft
  <2>4. /\ Head(c.updates) \in Int /\ SumFunction(c.updates) \in Int
        /\ SumFunction(c.updates) = Head(c.updates) + SumFunction(Tail(c.updates))
        /\ CountedIn(c, k) \in Nat /\ CountedIn(c, k) + Head(c.updates) \in Nat
        /\ CountedIn(c, k) <= Prefixed(k)
        /\ CountedIn(c, k) + Head(c.updates) <= Prefixed(k)
        /\ CountedIn(c, k) + Head(c.updates) = Prefixed(k)
    BY <1>2, <2>2, <2>3 DEF OneLeft
  <2>5. c # MEM!Returned
    BY <1>1, <1>3, <2>2, Zenon DEF OneLeft
  <2> QED BY <1>1, <2>2, <2>4, <2>5, Zenon DEF CallOk, OneLeft
<1>6. CASE Frees(c, b, k)
  <2>0. -Prefixed(k) \in Int
    BY <1>2
  <2>1. -Prefixed(k) \in Int /\ c = MEM!Call(b, <<-Prefixed(k)>>, TRUE)
    BY <1>2, <1>6, <2>0, Zenon DEF Frees
  <2>2. OneLeft(c, b, -Prefixed(k), TRUE)
    BY <2>1, OneUpdate, Zenon
  <2>3. CountedIn(c, k) = Prefixed(k)
    BY <1>2, <2>2 DEF CountedIn, OneLeft
  <2>4. /\ Head(c.updates) \in Int /\ SumFunction(c.updates) \in Int
        /\ SumFunction(c.updates) = Head(c.updates) + SumFunction(Tail(c.updates))
        /\ CountedIn(c, k) \in Nat /\ CountedIn(c, k) + Head(c.updates) \in Nat
        /\ CountedIn(c, k) <= Prefixed(k)
        /\ CountedIn(c, k) + Head(c.updates) <= Prefixed(k)
        /\ CountedIn(c, k) + Head(c.updates) = 0
    <3> DEFINE p == Prefixed(k)
               s == SumFunction(c.updates)
               h == Head(c.updates)
               r == SumFunction(Tail(c.updates))
               n == CountedIn(c, k)
    <3>1. p \in Nat /\ h = -p /\ s = -p /\ r = 0 /\ n = p
      BY <1>2, <2>2, <2>3, Zenon DEF OneLeft
    <3> HIDE DEF p, s, h, r, n
    <3>2. /\ h \in Int /\ s \in Int /\ s = h + r
          /\ n \in Nat /\ n + h = 0 /\ n <= p /\ n + h <= p /\ n + h \in Nat
      BY <3>1
    <3> QED BY <3>2, Zenon DEF p, s, h, r, n
  <2>5. c # MEM!Returned
    BY <1>1, <1>3, <2>2, Zenon DEF OneLeft
  <2> QED BY <1>1, <2>2, <2>4, <2>5, Zenon DEF CallOk, OneLeft
<1>7. ASSUME NEW n \in Sizes, Resizes(c, b, k, n) PROVE CallOk(c, b, k)
  <2> DEFINE d == [c EXCEPT !.updates = Tail(c.updates)]
  <2>1. n \in Nat /\ MEM!Round(n) \in Nat /\ Prefixed(n) = MEM!Round(n) + 8
    BY MemConstants, RoundFacts
  <2>2. /\ -MEM!Round(n) \in Int /\ MEM!Round(k) \in Int
        /\ c = MEM!Call(b, <<-MEM!Round(n), MEM!Round(k)>>, FALSE)
    BY <1>2, <1>7, <2>1 DEF Resizes
  <2>3. TwoLeft(c, b, -MEM!Round(n), MEM!Round(k), FALSE)
    BY <2>2, TwoUpdates, Zenon
  <2> HIDE DEF d
  <2>4. CountedIn(c, k) = Prefixed(n)
    BY <1>2, <2>1, <2>3 DEF CountedIn, TwoLeft
  <2>5. d = MEM!Call(b, <<MEM!Round(k)>>, FALSE)
    BY <2>3, Zenon DEF TwoLeft, d
  <2>6. OneLeft(d, b, MEM!Round(k), FALSE)
    BY <2>2, <2>5, OneUpdate, Zenon
  <2>7. CountedIn(d, k) = 8
    BY <1>2, <2>6 DEF OneLeft, CountedIn
  <2>8. Resized(d, b, k)
    BY <2>5, Zenon DEF Resized
  <2>9. /\ CountedIn(c, k) + Head(c.updates) = 8
        /\ SumFunction(c.updates) \in Int /\ Head(c.updates) \in Int
        /\ SumFunction(c.updates) = Head(c.updates) + SumFunction(Tail(c.updates))
        /\ 8 <= Prefixed(k) /\ CountedIn(c, k) <= Prefixed(n) /\ CountedIn(c, k) \in Nat
    <3> DEFINE p == Prefixed(k)
               q == Prefixed(n)
               s == SumFunction(c.updates)
               h == Head(c.updates)
               r == SumFunction(Tail(c.updates))
               m == CountedIn(c, k)
               x == MEM!Round(n)
               y == MEM!Round(k)
    <3>1. /\ x \in Nat /\ y \in Nat /\ p = y + 8 /\ q = x + 8
          /\ h = -x /\ s = -x + y /\ r = y /\ m = q
      BY <1>2, <2>1, <2>3, <2>4, Zenon DEF TwoLeft
    <3> HIDE DEF p, q, s, h, r, m, x, y
    <3>2. /\ m + h = 8 /\ s \in Int /\ h \in Int /\ s = h + r
          /\ 8 <= p /\ m <= q /\ m \in Nat
      BY <3>1
    <3> QED BY <3>2, Zenon DEF p, q, s, h, r, m
  <2>10. /\ c # MEM!Returned /\ c.frees = FALSE /\ c.block = b
         /\ Tail(c.updates) # <<>>
    BY <1>1, <1>3, <2>3, Zenon DEF TwoLeft
  <2>11. 8 \in Nat
    OBVIOUS
  <2> QED BY <1>1, <2>7, <2>8, <2>9, <2>10, <2>11, Zenon DEF CallOk, d
<1> QED BY <1>4, <1>5, <1>6, <1>7 DEF CallOn

\* The call of a thread.
LEMMA ThreadCall ==
    ASSUME MemTypes, NEW t \in Allocators, call[t] # MEM!Returned
    PROVE  /\ call[t].block \in Blocks /\ size[call[t].block] \in Sizes
           /\ CallOn(call[t], call[t].block, size[call[t].block])
           /\ CallOk(call[t], call[t].block, size[call[t].block])
<1>1. PICK b \in Blocks : size[b] # None /\ CallOn(call[t], b, size[b])
  BY DEF MemTypes
<1>2. size[b] \in Sizes
  BY <1>1 DEF MemTypes
<1>3. CallOk(call[t], b, size[b])
  BY <1>1, <1>2, CallFacts, Zenon
<1>4. call[t].block = b
  BY <1>3, Zenon DEF CallOk
<1> QED BY <1>1, <1>2, <1>3, <1>4, Zenon

\* What is known of a thread that is in no call.
LEMMA NoCall ==
    ASSUME NEW b \in Blocks
    PROVE  /\ MEM!Returned.block = None /\ MEM!Returned.block # b /\ MEM!Returned.frees = FALSE
           /\ MEM!Returned.updates = <<>> /\ SumFunction(MEM!Returned.updates) = 0
<1>1. SumFunction(<<>>) = 0
  <2>1. 0 \in Int
    OBVIOUS
  <2> QED BY <2>1, ShortSums, Zenon
<1>2. MEM!Returned.block = None /\ MEM!Returned.updates = <<>> /\ MEM!Returned.frees = FALSE
  BY SMT DEF MEM!Call, MEM!Returned
<1> QED BY <1>1, <1>2, MemConstants

-----------------------------------------------------------------------------
(* The balance.                                                            *)

Live(b) == size[b] # None /\ ~MEM!Freeing(b)
PendingOf == [t \in Allocators |-> MEM!Pending(t)]
LiveSize == [b \in Blocks |-> IF Live(b) THEN MEM!ZmallocSize(b) ELSE 0]

Balanced ==
    ~overlap => used_memory + SumFunctionOnSet(PendingOf, Allocators)
                  = SumFunctionOnSet(LiveSize, Blocks)

\* The updates still to be made by a thread are a number.
LEMMA PendingType ==
    ASSUME MemTypes, NEW t \in Allocators
    PROVE  /\ PendingOf[t] = MEM!Pending(t) /\ MEM!Pending(t) \in Int
           /\ call[t] = MEM!Returned => MEM!Pending(t) = 0
<1>1. PendingOf[t] = MEM!Pending(t)
  BY Zenon DEF PendingOf
<1>2. CASE call[t] = MEM!Returned
  <2>1. SumFunction(<<>>) = 0
    <3>1. 0 \in Int
      OBVIOUS
    <3> QED BY <3>1, ShortSums, Zenon
  <2>2. MEM!Returned.updates = <<>>
    BY SMT DEF MEM!Returned, MEM!Call
  <2>3. MEM!Pending(t) = 0
    BY SameSum, <1>2, <2>1, <2>2, Zenon DEF MEM!Pending
  <2> QED BY <1>1, <2>3
<1>3. CASE call[t] # MEM!Returned
  BY SameSum, <1>1, <1>3, ThreadCall, Zenon DEF CallOk, MEM!Pending
<1> QED BY <1>2, <1>3

\* The size of a block in use is a number.
LEMMA LiveSizeType ==
    ASSUME MemTypes, NEW b \in Blocks
    PROVE  /\ LiveSize[b] = (IF Live(b) THEN MEM!ZmallocSize(b) ELSE 0)
           /\ LiveSize[b] \in Int
           /\ size[b] # None => MEM!ZmallocSize(b) = Prefixed(size[b]) /\ size[b] \in Nat
<1>1. LiveSize[b] = (IF Live(b) THEN MEM!ZmallocSize(b) ELSE 0)
  BY Zenon DEF LiveSize
<1>2. ASSUME size[b] # None PROVE /\ MEM!ZmallocSize(b) = Prefixed(size[b])
                                  /\ size[b] \in Nat /\ Prefixed(size[b]) \in Nat
  <2>1. size[b] \in Nat
    BY <1>2, MemConstants, Zenon DEF MemTypes
  <2> QED BY <2>1, RoundFacts, Zenon DEF MEM!ZmallocSize, Prefixed
<1> QED BY <1>1, <1>2 DEF Live

\* MemoryAccounted, with the blocks that are not counted at 0.
LEMMA AccountedIsBalanced ==
    ASSUME MemTypes PROVE MEM!MemoryAccounted <=> Balanced
<1> DEFINE L == {c \in Blocks : size[c] # None /\ ~MEM!Freeing(c)}
           g == [b \in L |-> MEM!ZmallocSize(b)]
<1>1. SumFunction(PendingOf) = SumFunctionOnSet(PendingOf, Allocators)
  <2>1. DOMAIN PendingOf = Allocators
    BY Zenon DEF PendingOf
  <2> QED BY <2>1, Zenon DEF SumFunction
<1>2. SumFunction(g) = SumFunctionOnSet(g, L)
  <2>1. DOMAIN g = L
    OBVIOUS
  <2> HIDE DEF g, L
  <2> QED BY <2>1, Zenon DEF SumFunction
<1>3. L \in SUBSET Blocks /\ IsFiniteSet(L) /\ IsFiniteSet(Blocks)
  BY MemConstants, FS_Subset
<1>4. \A b \in L : g[b] = LiveSize[b] /\ LiveSize[b] \in Int
  BY LiveSizeType DEF Live
<1>5. \A b \in Blocks \ L : LiveSize[b] = 0
  BY LiveSizeType DEF Live
<1>6. SumFunctionOnSet(g, L) = SumFunctionOnSet(LiveSize, Blocks)
  <2> HIDE DEF L, g
  <2>1. SumFunctionOnSet(g, L) = SumFunctionOnSet(LiveSize, L)
    BY <1>3, <1>4, SumSame
  <2>2. SumFunctionOnSet(LiveSize, Blocks) = SumFunctionOnSet(LiveSize, L)
    BY <1>3, <1>4, <1>5, SumZeros
  <2> QED BY <2>1, <2>2
<1>7. MEM!MemoryAccounted
      <=> (~overlap => used_memory + SumFunction(PendingOf) = SumFunction(g))
  BY SameSum, Zenon DEF MEM!MemoryAccounted, PendingOf
<1> HIDE DEF g, L
<1> QED BY <1>1, <1>2, <1>6, <1>7, Zenon DEF Balanced

\* Both sums of the balance are over numbers.
LEMMA SummandTypes ==
    MemTypes => /\ \A u \in Allocators : PendingOf[u] = MEM!Pending(u) /\ PendingOf[u] \in Int
                /\ \A c \in Blocks : LiveSize[c] \in Int
BY PendingType, LiveSizeType

\* The balance after a step of thread t that concerns block b.
LEMMA BalanceStep ==
    ASSUME MemTypes, MemTypes', Balanced, ~overlap' => ~overlap,
           NEW t \in Allocators, NEW b \in Blocks,
           \A u \in Allocators \ {t} : MEM!Pending(u)' = MEM!Pending(u),
           \A c \in Blocks \ {b} : LiveSize'[c] = LiveSize[c],
           ~overlap' => (used_memory' - used_memory) + (MEM!Pending(t)' - MEM!Pending(t))
               = LiveSize'[b] - LiveSize[b]
    PROVE  Balanced'
<1> DEFINE p == PendingOf
           q == PendingOf'
           l == LiveSize
           m == LiveSize'
           P == SumFunctionOnSet(p, Allocators)
           Q == SumFunctionOnSet(q, Allocators)
           L == SumFunctionOnSet(l, Blocks)
           M == SumFunctionOnSet(m, Blocks)
<1>1. IsFiniteSet(Allocators) /\ IsFiniteSet(Blocks)
  BY MemConstants
<1>2. \A u \in Allocators : p[u] = MEM!Pending(u) /\ p[u] \in Int
  BY PendingType
<1>3. \A u \in Allocators : q[u] = MEM!Pending(u)' /\ q[u] \in Int
  <2>2. (\A u \in Allocators : PendingOf[u] = MEM!Pending(u) /\ PendingOf[u] \in Int)'
    BY SummandTypes, PTL
  <2> QED BY <2>2, Zenon
<1>4. \A c \in Blocks : l[c] \in Int
  BY LiveSizeType
<1>5. \A c \in Blocks : m[c] \in Int
  <2>2. (\A c \in Blocks : LiveSize[c] \in Int)'
    BY SummandTypes, PTL
  <2> QED BY <2>2, Zenon
<1>6. SUFFICES ASSUME ~overlap' PROVE used_memory' + Q = M
  BY Zenon DEF Balanced
<1>7. used_memory + P = L
  BY <1>6, Zenon DEF Balanced
<1>8. used_memory \in Int /\ used_memory' \in Int
  BY DEF MemTypes
<1> HIDE DEF p, q, l, m
<1>9. Q = P - p[t] + q[t] /\ P \in Int /\ Q \in Int
  BY <1>1, <1>2, <1>3, SumChange
<1>10. M = L - l[b] + m[b] /\ L \in Int /\ M \in Int
  <2>1. \A c \in Blocks \ {b} : m[c] = l[c]
    BY Zenon DEF m, l
  <2> QED BY <2>1, <1>1, <1>4, <1>5, SumChange
<1>11. (used_memory' - used_memory) + (q[t] - p[t]) = m[b] - l[b]
  BY <1>2, <1>3, <1>6, Zenon DEF m, l
<1> HIDE DEF P, Q, L, M
<1>12. p[t] \in Int /\ q[t] \in Int /\ m[b] \in Int /\ l[b] \in Int
  BY <1>2, <1>3, <1>4, <1>5
<1> QED BY <1>7, <1>8, <1>9, <1>10, <1>11, <1>12

-----------------------------------------------------------------------------
(* The steps.                                                              *)

MemInv == MemTypes /\ MemCalls /\ MemCounts /\ Balanced

\* Nobody's call is on block b.
Untouched(b) == \A u \in Allocators : call[u].block # b

\* Thread t begins call c on block b, which then has size k.
Begins(t, b, k, c) ==
    /\ call[t] = MEM!Returned /\ Untouched(b)
    /\ size' = [size EXCEPT ![b] = k]
    /\ call' = [call EXCEPT ![t] = c]
    /\ CallOn(c, b, k)
    /\ CountedIn(c, k) = IF size[b] = None THEN 0 ELSE Prefixed(size[b])
    /\ SumFunction(c.updates) = (IF c.frees THEN 0 ELSE Prefixed(k))
                                  - (IF size[b] = None THEN 0 ELSE Prefixed(size[b]))
    /\ UNCHANGED <<used_memory, zmalloc_thread_safe, reg, overlap, aborted>>

\* A call begins: nothing is counted yet, and the balance owes what it will do.
LEMMA BeginStep ==
    ASSUME MemInv, NEW t \in Allocators, NEW b \in Blocks, NEW k \in Sizes, NEW c,
           Begins(t, b, k, c)
    PROVE  MemInv'
<1>1. MemTypes /\ MemCalls /\ MemCounts /\ Balanced
  BY DEF MemInv
<1>2. CallOk(c, b, k)
  BY CallFacts, Zenon DEF Begins
<1>3. c # MEM!Returned /\ c.block = b /\ c.frees \in BOOLEAN
  BY <1>2, Zenon DEF CallOk
<1>4. /\ b # None /\ k \in Nat /\ k # None
      /\ \A d \in Blocks : MEM!Returned.block # d
  BY MemConstants, NoCall, Zenon
<1>5. /\ DOMAIN call' = Allocators /\ call'[t] = c
      /\ \A u \in Allocators \ {t} : call'[u] = call[u]
      /\ size' \in [Blocks -> Sizes \cup {None}] /\ size'[b] = k
      /\ \A d \in Blocks \ {b} : size'[d] = size[d]
  BY <1>1 DEF Begins, MemTypes
<1>6. \A u \in Allocators : call[u] # MEM!Returned =>
          /\ call[u].block \in Blocks \ {b} /\ size[call[u].block] # None
          /\ CallOn(call[u], call[u].block, size[call[u].block])
  <2> SUFFICES ASSUME NEW u \in Allocators, call[u] # MEM!Returned
               PROVE  /\ call[u].block \in Blocks \ {b} /\ size[call[u].block] # None
                      /\ CallOn(call[u], call[u].block, size[call[u].block])
    BY Zenon
  <2>1. /\ call[u].block \in Blocks /\ size[call[u].block] \in Sizes
        /\ CallOn(call[u], call[u].block, size[call[u].block])
    BY <1>1, ThreadCall, Zenon
  <2>2. call[u].block # b
    BY Zenon DEF Begins, Untouched
  <2>3. size[call[u].block] # None
    BY <2>1, MemConstants, Zenon
  <2> QED BY <2>1, <2>2, <2>3, Zenon
<1>7. MemTypes'
  <2>1. ASSUME NEW u \in Allocators
        PROVE  \/ call'[u] = MEM!Returned
               \/ \E d \in Blocks : size'[d] # None /\ CallOn(call'[u], d, size'[d])
    <3>1. CASE u = t
      BY <1>4, <1>5, <3>1, Zenon DEF Begins
    <3>2. CASE u # t
      <4>1. call'[u] = call[u]
        BY <1>5, <3>2
      <4>2. CASE call[u] # MEM!Returned
        <5>1. size'[call[u].block] = size[call[u].block]
          BY <1>5, <1>6, <4>2
        <5> QED BY <1>6, <4>1, <4>2, <5>1, Zenon
      <4> QED BY <4>1, <4>2
    <3> QED BY <3>1, <3>2
  <2> QED BY <1>1, <1>5, <2>1, Zenon DEF Begins, MemTypes
<1>8. MemCalls'
  <2>1. ASSUME NEW u \in Allocators, NEW v \in Allocators,
               call'[u] # MEM!Returned, call'[v] # MEM!Returned,
               call'[u].block = call'[v].block
        PROVE  u = v
    <3>1. CASE u # t /\ v # t
      BY <1>1, <1>5, <2>1, <3>1 DEF MemCalls
    <3>2. CASE u = t /\ v # t
      BY <1>3, <1>5, <1>6, <2>1, <3>2
    <3>3. CASE u # t /\ v = t
      BY <1>3, <1>5, <1>6, <2>1, <3>3, Zenon
    <3> QED BY <3>1, <3>2, <3>3
  <2>2. ASSUME NEW u \in Allocators, reg'[u] # None PROVE call'[u] # MEM!Returned
    BY <1>1, <1>3, <1>5, <2>2 DEF Begins, MemCalls
  <2> QED BY <2>1, <2>2, Zenon DEF MemCalls
<1>9. MemCounts'
  <2>0. SUFFICES ASSUME ~overlap'
                 PROVE  /\ \A u \in Allocators : reg'[u] # None => reg'[u] = used_memory'
                        /\ \E share \in [Blocks -> Nat] : Ledger(share)'
    BY Zenon DEF MemCounts
  <2>1. \A u \in Allocators : reg'[u] # None => reg'[u] = used_memory'
    BY <1>1, <2>0 DEF MemCounts, Begins
  <2>2. PICK share \in [Blocks -> Nat] : Ledger(share)
    BY <1>1, <2>0 DEF MemCounts, Begins
  <2>3. ASSUME NEW d \in Blocks, size'[d] = None PROVE share[d] = 0
    BY <1>4, <1>5, <2>2, <2>3 DEF Ledger
  <2>4. ASSUME NEW d \in Blocks, MEM!Usable(d)' PROVE share[d] = Prefixed(size'[d])
    <3>1. \A u \in Allocators : call'[u].block # d
      BY <2>4, Zenon DEF MEM!Usable
    <3>2. d # b
      BY <1>3, <1>5, <3>1
    <3>3. \A u \in Allocators : call[u].block # d
      BY <1>4, <1>5, <3>1, Zenon DEF Begins
    <3>4. size'[d] = size[d] /\ size'[d] # None
      BY <1>5, <2>4, <3>2 DEF MEM!Usable
    <3> QED BY <2>2, <3>3, <3>4, Zenon DEF Ledger, MEM!Usable
  <2>5. ASSUME NEW u \in Allocators, call'[u] # MEM!Returned
        PROVE  share[call'[u].block] = CountedIn(call'[u], size'[call'[u].block])
    <3>1. CASE u = t
      <4>1. size[b] # None => MEM!Usable(b)
        BY Zenon DEF Begins, Untouched, MEM!Usable
      <4>2. share[b] = IF size[b] = None THEN 0 ELSE Prefixed(size[b])
        BY <2>2, <4>1 DEF Ledger
      <4> QED BY <1>3, <1>5, <3>1, <4>2, Zenon DEF Begins
    <3>2. CASE u # t
      <4>1. call'[u] = call[u] /\ call[u] # MEM!Returned
        BY <1>5, <2>5, <3>2
      <4>2. size'[call[u].block] = size[call[u].block]
        BY <1>5, <1>6, <4>1
      <4> QED BY <2>2, <4>1, <4>2, Zenon DEF Ledger
    <3> QED BY <3>1, <3>2
  <2>6. used_memory' = SumFunctionOnSet(share, Blocks)
    BY <2>2, Zenon DEF Ledger, Begins
  <2>7. Ledger(share)'
    BY <2>3, <2>4, <2>5, <2>6, Zenon DEF Ledger
  <2> QED BY <2>1, <2>7, Zenon
<1>10. Balanced'
  <2>1. \A u \in Allocators \ {t} : MEM!Pending(u)' = MEM!Pending(u)
    BY SameSum, <1>5, Zenon DEF MEM!Pending
  <2>2. MEM!Pending(t)' = SumFunction(c.updates) /\ MEM!Pending(t) = 0
    <3>1. MEM!Pending(t) = 0
      BY <1>1, PendingType, Zenon DEF Begins
    <3> QED BY SameSum, <1>5, <3>1, Zenon DEF MEM!Pending
  <2>3. ASSUME NEW d \in Blocks \ {b} PROVE LiveSize'[d] = LiveSize[d]
    <3>1. ASSUME NEW u \in Allocators
          PROVE  (call'[u].block = d /\ call'[u].frees)
                 <=> (call[u].block = d /\ call[u].frees)
      BY <1>3, <1>4, <1>5 DEF Begins
    <3>2. MEM!Freeing(d)' <=> MEM!Freeing(d)
      BY <3>1, Zenon DEF MEM!Freeing
    <3>3. size'[d] = size[d]
      BY <1>5
    <3>4. LiveSize[d] = (IF size[d] # None /\ ~MEM!Freeing(d) THEN Prefixed(size[d]) ELSE 0)
      BY Zenon DEF LiveSize, Live, MEM!ZmallocSize, Prefixed
    <3>5. LiveSize'[d] = (IF size'[d] # None /\ ~MEM!Freeing(d)'
                          THEN Prefixed(size'[d]) ELSE 0)
      BY Zenon DEF LiveSize, Live, MEM!ZmallocSize, Prefixed
    <3> QED BY <3>2, <3>3, <3>4, <3>5, Zenon
  <2>4. LiveSize[b] = IF size[b] = None THEN 0 ELSE Prefixed(size[b])
    <3>1. ~MEM!Freeing(b)
      BY Zenon DEF Begins, Untouched, MEM!Freeing
    <3>2. LiveSize[b] = (IF size[b] # None /\ ~MEM!Freeing(b) THEN Prefixed(size[b]) ELSE 0)
      BY Zenon DEF LiveSize, Live, MEM!ZmallocSize, Prefixed
    <3> QED BY <3>1, <3>2, Zenon
  <2>5. LiveSize'[b] = IF c.frees THEN 0 ELSE Prefixed(k)
    <3>1. MEM!Freeing(b)' <=> c.frees
      <4>1. \A u \in Allocators : call'[u].block = b => u = t
        BY <1>5, Zenon DEF Begins, Untouched
      <4> QED BY <1>3, <1>5, <4>1, Zenon DEF MEM!Freeing
    <3>2. LiveSize'[b] = (IF size'[b] # None /\ ~MEM!Freeing(b)'
                          THEN Prefixed(size'[b]) ELSE 0)
      BY Zenon DEF LiveSize, Live, MEM!ZmallocSize, Prefixed
    <3> QED BY <1>3, <1>4, <1>5, <3>1, <3>2, Zenon
  <2>6. /\ used_memory' = used_memory /\ used_memory \in Int
        /\ SumFunction(c.updates) = LiveSize'[b] - LiveSize[b]
    BY <1>1, <2>4, <2>5 DEF Begins, MemTypes
  <2>7. SumFunction(c.updates) \in Int
    BY <1>2, Zenon DEF CallOk
  <2>8. (used_memory' - used_memory) + (MEM!Pending(t)' - MEM!Pending(t))
          = LiveSize'[b] - LiveSize[b]
    <3> DEFINE p == MEM!Pending(t)'
               q == SumFunction(c.updates)
               l == LiveSize'[b] - LiveSize[b]
    <3>1. /\ p = q /\ q = l /\ q \in Int /\ MEM!Pending(t) = 0
          /\ used_memory' = used_memory /\ used_memory \in Int
      BY <2>2, <2>6, <2>7, Zenon
    <3> HIDE DEF p, q, l
    <3>2. (used_memory' - used_memory) + (p - MEM!Pending(t)) = l
      BY <3>1
    <3> QED BY <3>2, Zenon DEF p, l
  <2>9. ~overlap' => ~overlap
    BY DEF Begins
  <2> QED BY <1>1, <1>7, <2>1, <2>3, <2>8, <2>9, BalanceStep, Zenon
<1> QED BY <1>7, <1>8, <1>9, <1>10, Zenon DEF MemInv

\* No share is larger than a block of some size, so used_memory fits its word.
LEMMA CounterFits ==
    ASSUME NEW share \in [Blocks -> Nat], Sizes # {},
           \A b \in Blocks : \E n \in Sizes : share[b] <= Prefixed(n)
    PROVE  /\ SumFunctionOnSet(share, Blocks) \in Nat
           /\ SumFunctionOnSet(share, Blocks) < 2 ^ WordBits
<1> DEFINE f == [b \in Blocks |-> CHOOSE n \in Sizes : share[b] <= Prefixed(n)]
           g == [b \in Blocks |-> Prefixed(f[b])]
<1>1. f \in [Blocks -> Sizes] /\ \A b \in Blocks : share[b] <= Prefixed(f[b])
  OBVIOUS
<1>2. \A b \in Blocks : f[b] \in Nat
  BY <1>1, MemConstants, Zenon
<1>3. SumFunctionOnSet(g, Blocks) < 2 ^ WordBits
  <2> HIDE DEF f
  <2> QED BY <1>1, MemConstants, Zenon
<1> HIDE DEF f
<1>4. \A b \in Blocks : /\ g[b] = Prefixed(f[b]) /\ g[b] \in Int /\ share[b] \in Int
                        /\ share[b] <= g[b]
  BY <1>1, <1>2, RoundFacts
<1>5. IsFiniteSet(Blocks) /\ Blocks \in SUBSET Blocks
  BY MemConstants
<1> HIDE DEF g
<1>6. SumFunctionOnSet(share, Blocks) <= SumFunctionOnSet(g, Blocks)
  BY <1>4, <1>5, SumMonotone
<1>7. SumFunctionOnSet(share, Blocks) \in Nat
  BY <1>5, SumPart
<1>8. SumFunctionOnSet(g, Blocks) \in Int /\ 2 ^ WordBits \in Int
  BY <1>4, <1>5, SumType, MemConstants
<1> QED BY <1>3, <1>6, <1>7, <1>8

\* An update of used_memory, atomic or not, as long as no two overlap.
LEMMA WriteStep ==
    ASSUME MemInv, NEW t \in Allocators, call[t] # MEM!Returned, NEW value \in Int,
           ~overlap => value = used_memory + Head(call[t].updates), MEM!Write(t, value)
    PROVE  MemInv'
<1> DEFINE c == call[t]
           b == c.block
           k == size[b]
           x == Head(c.updates)
           r == Tail(c.updates)
           e == [c EXCEPT !.updates = r]
<1>1. MemTypes /\ MemCalls /\ MemCounts /\ Balanced
  BY DEF MemInv
<1>2. b \in Blocks /\ k \in Sizes /\ CallOk(c, b, k) /\ CallOn(c, b, k)
  BY <1>1, ThreadCall, Zenon
<1>3. /\ \A d \in Blocks : MEM!Returned.block # d
      /\ k \in Nat /\ k # None /\ b # None
  BY <1>2, MemConstants, NoCall, Zenon
<1>4. e.block = b /\ e.frees = c.frees /\ e.updates = r
  <2>1. \E u, f : c = MEM!Call(b, u, f)
    BY <1>2, Zenon DEF CallOn, Allocates, Resized, Frees, Resizes
  <2>2. PICK u, f : c = MEM!Call(b, u, f)
    BY <2>1
  <2> HIDE DEF r
  <2> QED BY <2>2 DEF MEM!Call
<1>5. /\ DOMAIN call' = Allocators
      /\ call'[t] = IF r = <<>> THEN MEM!Returned ELSE e
      /\ \A u \in Allocators \ {t} : call'[u] = call[u]
  <2>1. call' = [call EXCEPT ![t] = IF r = <<>> THEN MEM!Returned ELSE e]
    BY Zenon DEF MEM!Write
  <2>2. DOMAIN call = Allocators
    BY <1>1 DEF MemTypes
  <2> HIDE DEF c, b, k, x, r, e
  <2> QED BY <2>1, <2>2, Zenon
<1>6. /\ size' \in [Blocks -> Sizes \cup {None}]
      /\ size'[b] = IF c.frees THEN None ELSE k
      /\ \A d \in Blocks \ {b} : size'[d] = size[d]
  <2>1. size' = IF c.frees THEN [size EXCEPT ![b] = None] ELSE size
    BY Zenon DEF MEM!Write
  <2>2. size \in [Blocks -> Sizes \cup {None}]
    BY <1>1 DEF MemTypes
  <2> HIDE DEF c, b, x, r, e
  <2> QED BY <1>2, <2>1, <2>2
<1>7. /\ reg' \in [Allocators -> Nat \cup {None}] /\ reg'[t] = None
      /\ \A u \in Allocators \ {t} : reg'[u] = reg[u]
      /\ overlap' = (overlap \/ \E u \in Allocators \ {t} : reg[u] # None)
      /\ zmalloc_thread_safe' = zmalloc_thread_safe /\ aborted' = aborted
      /\ used_memory' = value % 2 ^ WordBits
  BY <1>1 DEF MEM!Write, MemTypes
<1>8. used_memory' \in Nat /\ overlap' \in BOOLEAN
  <2>1. value % 2 ^ WordBits \in Nat
    BY ModType, MemConstants, Zenon
  <2> QED BY <1>7, <2>1, Zenon
<1> DEFINE CallsElse(u) ==
             call[u] # MEM!Returned => /\ call[u].block \in Blocks \ {b}
                                   /\ size[call[u].block] # None
                                   /\ CallOn(call[u], call[u].block, size[call[u].block])
<1>9. \A u \in Allocators \ {t} : CallsElse(u)
  <2> SUFFICES ASSUME NEW u \in Allocators \ {t}, call[u] # MEM!Returned
               PROVE  /\ call[u].block \in Blocks \ {b} /\ size[call[u].block] # None
                      /\ CallOn(call[u], call[u].block, size[call[u].block])
    BY Zenon
  <2>1. /\ call[u].block \in Blocks /\ size[call[u].block] \in Sizes
        /\ CallOn(call[u], call[u].block, size[call[u].block])
    BY <1>1, ThreadCall, Zenon
  <2>2. call[u].block # b
    BY <1>1, Zenon DEF MemCalls
  <2>3. size[call[u].block] # None
    BY <2>1, MemConstants, Zenon
  <2> QED BY <2>1, <2>2, <2>3
<1>10. /\ c.frees \in BOOLEAN /\ x \in Int
       /\ c.frees => r = <<>>
       /\ r # <<>> => Resized(e, b, k) /\ ~c.frees /\ e # MEM!Returned
  <2>1. /\ c.frees \in BOOLEAN /\ x \in Int
        /\ c.frees => r = <<>>
        /\ r # <<>> => Resized(e, b, k)
    BY <1>2, Zenon DEF CallOk
  <2>2. e # MEM!Returned
    BY <1>2, <1>3, <1>4, Zenon
  <2> QED BY <2>1, <2>2, Zenon
<1> HIDE DEF e, c, b, k, x, r
<1>11. MemTypes'
  <2>1. ASSUME NEW u \in Allocators
        PROVE  \/ call'[u] = MEM!Returned
               \/ \E d \in Blocks : size'[d] # None /\ CallOn(call'[u], d, size'[d])
    <3>1. CASE u = t
      <4>1. CASE r = <<>>
        BY <1>5, <3>1, <4>1, Zenon
      <4>2. CASE r # <<>>
        <5>1. call'[u] = e /\ CallOn(e, b, k)
          BY <1>5, <1>10, <3>1, <4>2, Zenon DEF CallOn
        <5>2. size'[b] = k
          BY <1>6, <1>10, <4>2, Zenon
        <5> QED BY <1>2, <1>3, <5>1, <5>2, Zenon
      <4> QED BY <4>1, <4>2
    <3>2. CASE u # t
      <4>1. call'[u] = call[u]
        BY <1>5, <3>2
      <4>2. CASE call[u] # MEM!Returned
        <5>1. size'[call[u].block] = size[call[u].block]
          BY <1>6, <1>9, <3>2, <4>2
        <5> QED BY <1>9, <3>2, <4>1, <4>2, <5>1, Zenon
      <4> QED BY <4>1, <4>2
    <3> QED BY <3>1, <3>2
  <2> QED BY <1>1, <1>5, <1>6, <1>7, <1>8, <2>1, Zenon DEF MemTypes
<1>12. MemCalls'
  <2>0. call'[t] # MEM!Returned => call'[t].block = b
    BY <1>4, <1>5, Zenon
  <2>1. ASSUME NEW u \in Allocators, NEW v \in Allocators,
               call'[u] # MEM!Returned, call'[v] # MEM!Returned,
               call'[u].block = call'[v].block
        PROVE  u = v
    <3>1. CASE u # t /\ v # t
      BY <1>1, <1>5, <2>1, <3>1 DEF MemCalls
    <3>2. CASE u = t /\ v # t
      BY <2>0, <1>5, <1>9, <2>1, <3>2
    <3>3. CASE u # t /\ v = t
      BY <2>0, <1>5, <1>9, <2>1, <3>3
    <3> QED BY <3>1, <3>2, <3>3
  <2>2. ASSUME NEW u \in Allocators, reg'[u] # None PROVE call'[u] # MEM!Returned
    BY <1>1, <1>5, <1>7, <2>2 DEF MemCalls
  <2> QED BY <2>1, <2>2, Zenon DEF MemCalls
<1>13. /\ ~overlap' => ~overlap
       /\ ~overlap' => value = used_memory + x
       /\ ~overlap' => \A u \in Allocators : reg'[u] = None
  BY <1>7, Zenon DEF x, c
<1>14. ASSUME ~overlap'
       PROVE  /\ used_memory' = used_memory + x
              /\ \E share \in [Blocks -> Nat] : Ledger(share)'
  <2>1. PICK share \in [Blocks -> Nat] : Ledger(share)
    BY <1>1, <1>13, <1>14, Zenon DEF MemCounts
  <2>2. share[b] = CountedIn(c, k)
    BY <2>1, Zenon DEF Ledger, c, b, k
  <2>3. /\ CountedIn(c, k) + x \in Nat /\ CountedIn(c, k) + x <= Prefixed(k)
        /\ c.frees => CountedIn(c, k) + x = 0
        /\ ~c.frees /\ r = <<>> => CountedIn(c, k) + x = Prefixed(k)
        /\ r # <<>> => CountedIn(c, k) + x = CountedIn(e, k)
    BY <1>2, Zenon DEF CallOk, x, r, e
  <2>4. PICK now \in [Blocks -> Nat] :
            /\ now[b] = CountedIn(c, k) + x
            /\ \A d \in Blocks \ {b} : now[d] = share[d]
    <3> DEFINE f == [share EXCEPT ![b] = @ + x]
    <3>1. /\ f \in [Blocks -> Nat] /\ f[b] = CountedIn(c, k) + x
          /\ \A d \in Blocks \ {b} : f[d] = share[d]
      BY <1>2, <2>2, <2>3
    <3> HIDE DEF f
    <3> QED BY <3>1, Zenon
  <2>5. ASSUME NEW d \in Blocks PROVE \E n \in Sizes : now[d] <= Prefixed(n)
    <3>1. CASE d = b
      BY <1>2, <2>3, <2>4, <3>1
    <3>2. ASSUME d # b, size[d] = None PROVE \E n \in Sizes : now[d] <= Prefixed(n)
      <4>1. now[d] = 0
        BY <2>1, <2>4, <3>2 DEF Ledger
      <4>2. Prefixed(k) \in Nat
        BY <1>3, RoundFacts
      <4> QED BY <1>2, <4>1, <4>2
    <3>3. ASSUME d # b, size[d] # None, Untouched(d)
          PROVE  \E n \in Sizes : now[d] <= Prefixed(n)
      <4>1. size[d] \in Sizes /\ size[d] \in Nat
        BY <1>1, <3>3, MemConstants, Zenon DEF MemTypes
      <4>2. now[d] = Prefixed(size[d])
        BY <2>1, <2>4, <3>3, Zenon DEF Ledger, MEM!Usable, Untouched
      <4>3. Prefixed(size[d]) <= Prefixed(size[d])
        BY <4>1, RoundFacts
      <4> QED BY <4>1, <4>2, <4>3
    <3>4. ASSUME d # b, NEW u \in Allocators, call[u].block = d
          PROVE  \E n \in Sizes : now[d] <= Prefixed(n)
      <4>1. call[u] # MEM!Returned
        BY <1>3, <3>4, Zenon
      <4>2. CallOk(call[u], d, size[d])
        BY <1>1, <3>4, <4>1, ThreadCall, Zenon
      <4>3. now[d] = CountedIn(call[u], size[d])
        BY <2>1, <2>4, <3>4, <4>1, Zenon DEF Ledger
      <4> QED BY <4>2, <4>3, Zenon DEF CallOk
    <3> QED BY <3>1, <3>2, <3>3, <3>4, Zenon DEF Untouched
  <2>6. /\ SumFunctionOnSet(now, Blocks) \in Nat
        /\ SumFunctionOnSet(now, Blocks) < 2 ^ WordBits
    BY <1>2, <2>4, <2>5, CounterFits
  <2>7. SumFunctionOnSet(now, Blocks) = used_memory + x
    <3>1. /\ IsFiniteSet(Blocks) /\ b \in Blocks
          /\ \A d \in Blocks : share[d] \in Int /\ now[d] \in Int
          /\ \A d \in Blocks \ {b} : now[d] = share[d]
          /\ share[b] \in Int /\ now[b] = share[b] + x
      BY <1>2, <2>2, <2>4, MemConstants
    <3>2. /\ SumFunctionOnSet(now, Blocks)
               = SumFunctionOnSet(share, Blocks) - share[b] + now[b]
          /\ SumFunctionOnSet(share, Blocks) \in Int
      BY <3>1, SumChange
    <3>3. used_memory = SumFunctionOnSet(share, Blocks)
      BY <2>1, Zenon DEF Ledger
    <3> QED BY <1>10, <3>1, <3>2, <3>3
  <2>8. used_memory' = used_memory + x
    <3> DEFINE S == SumFunctionOnSet(now, Blocks)
               M == 2 ^ WordBits
    <3>1. value = S /\ S \in Nat /\ S < M /\ M \in Nat \ {0}
      BY <1>13, <1>14, <2>6, <2>7, MemConstants, Zenon
    <3> HIDE DEF S, M
    <3>2. value % M = S
      BY <3>1, ModSmall
    <3> QED BY <1>7, <2>7, <3>2, Zenon DEF S, M
  <2>9. ASSUME NEW d \in Blocks, size'[d] = None PROVE now[d] = 0
    <3>1. CASE d = b
      BY <1>3, <1>6, <2>3, <2>4, <2>9, <3>1, Zenon
    <3>2. CASE d # b
      BY <1>6, <2>1, <2>4, <2>9, <3>2, Zenon DEF Ledger
    <3> QED BY <3>1, <3>2
  <2>10. ASSUME NEW d \in Blocks, MEM!Usable(d)' PROVE now[d] = Prefixed(size'[d])
    <3>1. \A u \in Allocators : call'[u].block # d
      BY <2>10, Zenon DEF MEM!Usable
    <3>2. size'[d] # None
      BY <2>10, Zenon DEF MEM!Usable
    <3>3. CASE d = b
      <4>1. r = <<>> /\ ~c.frees
        BY <1>4, <1>5, <1>6, <3>1, <3>2, <3>3, Zenon
      <4> QED BY <1>6, <2>3, <2>4, <3>3, <4>1, Zenon
    <3>4. CASE d # b
      <4>1. size'[d] = size[d]
        BY <1>6, <3>4, Zenon
      <4>2. \A u \in Allocators : call[u].block # d
        <5> SUFFICES ASSUME NEW u \in Allocators PROVE call[u].block # d
          BY Zenon
        <5>1. CASE u = t
          BY <3>4, <5>1 DEF b, c
        <5>2. CASE u # t
          BY <1>5, <3>1, <5>2, Zenon
        <5> QED BY <5>1, <5>2
      <4>3. share[d] = Prefixed(size[d])
        BY <2>1, <3>2, <4>1, <4>2, Zenon DEF Ledger, MEM!Usable
      <4> QED BY <2>4, <3>4, <4>1, <4>3, Zenon
    <3> QED BY <3>3, <3>4
  <2>11. ASSUME NEW u \in Allocators, call'[u] # MEM!Returned
         PROVE  now[call'[u].block] = CountedIn(call'[u], size'[call'[u].block])
    <3>1. CASE u = t
      <4>1. r # <<>> /\ call'[u] = e
        BY <1>5, <2>11, <3>1, Zenon
      <4>2. size'[b] = k /\ e.block = b
        BY <1>4, <1>6, <1>10, <4>1, Zenon
      <4> QED BY <2>3, <2>4, <4>1, <4>2, Zenon
    <3>2. CASE u # t
      <4>1. call'[u] = call[u] /\ call[u] # MEM!Returned
        BY <1>5, <2>11, <3>2
      <4>2. call[u].block \in Blocks \ {b}
        BY <1>9, <3>2, <4>1, Zenon
      <4>3. size'[call[u].block] = size[call[u].block]
        BY <1>6, <4>2, Zenon
      <4> QED BY <2>1, <2>4, <4>1, <4>2, <4>3, Zenon DEF Ledger
    <3> QED BY <3>1, <3>2
  <2>12. used_memory' = SumFunctionOnSet(now, Blocks)
    BY <2>7, <2>8, Zenon
  <2>13. Ledger(now)'
    BY <2>4, <2>9, <2>10, <2>11, <2>12, Zenon DEF Ledger
  <2> QED BY <2>4, <2>8, <2>13, Zenon
<1>15. MemCounts'
  BY <1>13, <1>14, Zenon DEF MemCounts
<1>16. Balanced'
  <2>1. \A u \in Allocators \ {t} : MEM!Pending(u)' = MEM!Pending(u)
    BY SameSum, <1>5, Zenon DEF MEM!Pending
  <2>2. MEM!Pending(t) = x + MEM!Pending(t)' /\ MEM!Pending(t) \in Int
    <3>1. SumFunction(c.updates) = x + SumFunction(r) /\ SumFunction(c.updates) \in Int
      BY <1>2, Zenon DEF CallOk, x, r
    <3>2. call'[t].updates = r
      <4>1. MEM!Returned.updates = <<>>
        BY SMT DEF MEM!Returned, MEM!Call
      <4> QED BY <1>4, <1>5, <4>1, Zenon
    <3> QED BY SameSum, <3>1, <3>2, Zenon DEF MEM!Pending, c
  <2>3. ASSUME NEW d \in Blocks PROVE LiveSize'[d] = LiveSize[d]
    <3>1. LiveSize[d] = (IF size[d] # None /\ ~MEM!Freeing(d) THEN Prefixed(size[d]) ELSE 0)
      BY Zenon DEF LiveSize, Live, MEM!ZmallocSize, Prefixed
    <3>2. LiveSize'[d] = (IF size'[d] # None /\ ~MEM!Freeing(d)'
                          THEN Prefixed(size'[d]) ELSE 0)
      BY Zenon DEF LiveSize, Live, MEM!ZmallocSize, Prefixed
    <3>3. CASE c.frees /\ d = b
      <4>1. MEM!Freeing(d)
        BY <3>3, Zenon DEF MEM!Freeing, c, b
      <4>2. size'[d] = None
        BY <1>6, <3>3, Zenon
      <4> QED BY <3>1, <3>2, <4>1, <4>2, Zenon
    <3>4. CASE ~(c.frees /\ d = b)
      <4>1. size'[d] = size[d]
        BY <1>6, <3>4, Zenon DEF k
      <4>2. \A u \in Allocators :
              (call'[u].block = d /\ call'[u].frees) <=> (call[u].block = d /\ call[u].frees)
        <5> SUFFICES ASSUME NEW u \in Allocators
                     PROVE  (call'[u].block = d /\ call'[u].frees)
                              <=> (call[u].block = d /\ call[u].frees)
          BY Zenon
        <5>1. CASE u = t
          BY <1>3, <1>4, <1>5, <3>4, <5>1, Zenon DEF c, b
        <5>2. CASE u # t
          BY <1>5, <5>2, Zenon
        <5> QED BY <5>1, <5>2
      <4>3. MEM!Freeing(d)' <=> MEM!Freeing(d)
        BY <4>2, Zenon DEF MEM!Freeing
      <4> QED BY <3>1, <3>2, <4>1, <4>3, Zenon
    <3> QED BY <3>3, <3>4
  <2>4. MEM!Pending(t)' \in Int
    <3>1. (\A u \in Allocators : PendingOf[u] = MEM!Pending(u) /\ PendingOf[u] \in Int)'
      BY <1>11, SummandTypes, PTL
    <3> QED BY <3>1, Zenon
  <2>5. LiveSize[b] \in Int /\ LiveSize'[b] = LiveSize[b]
    BY <1>1, <1>2, <2>3, LiveSizeType, Zenon
  <2>6. ~overlap' => (used_memory' - used_memory) + (MEM!Pending(t)' - MEM!Pending(t))
                       = LiveSize'[b] - LiveSize[b]
    <3>1. used_memory \in Int
      BY <1>1 DEF MemTypes
    <3> DEFINE p == MEM!Pending(t)
               q == MEM!Pending(t)'
               l == LiveSize[b]
               m == LiveSize'[b]
    <3> HIDE DEF p, q, l, m
    <3>2. ASSUME ~overlap' PROVE (used_memory' - used_memory) + (q - p) = m - l
      <4>1. /\ used_memory' = used_memory + x /\ p = x + q /\ q \in Int /\ x \in Int
            /\ l \in Int /\ m = l /\ used_memory \in Int
        BY <1>10, <1>14, <2>2, <2>4, <2>5, <3>1, <3>2, Zenon DEF p, q, l, m
      <4> QED BY <4>1
    <3> QED BY <3>2, Zenon DEF p, q, l, m
  <2> QED BY <1>1, <1>2, <1>11, <1>13, <2>1, <2>3, <2>6, BalanceStep, Zenon
<1> QED BY <1>11, <1>12, <1>15, <1>16, Zenon DEF MemInv

\* The invariant of Zmalloc holds initially.
LEMMA MemInit == ASSUME MEM!Init PROVE MemInv
<1>1. /\ size \in [Blocks -> Sizes \cup {None}] /\ \A b \in Blocks : size[b] = None
      /\ used_memory = 0 /\ zmalloc_thread_safe = FALSE
      /\ DOMAIN call = Allocators /\ \A t \in Allocators : call[t] = MEM!Returned
      /\ reg \in [Allocators -> Nat \cup {None}] /\ \A t \in Allocators : reg[t] = None
      /\ overlap = FALSE /\ aborted = FALSE
  BY DEF MEM!Init
<1>2. MemTypes
  BY <1>1, Zenon DEF MemTypes
<1>3. MemCalls
  BY <1>1 DEF MemCalls
<1>4. IsFiniteSet(Blocks) /\ IsFiniteSet(Allocators)
  BY MemConstants
<1>5. ASSUME NEW S, IsFiniteSet(S), NEW f, \A z \in S : f[z] = 0
      PROVE  SumFunctionOnSet(f, S) = 0
  <2>1. SumFunctionOnSet(f, S) = SumFunctionOnSet(f, {})
    BY <1>5, SumZeros
  <2> QED BY <2>1, EmptySum
<1>6. MemCounts
  <2> DEFINE z == [b \in Blocks |-> 0]
  <2>1. z \in [Blocks -> Nat] /\ \A b \in Blocks : z[b] = 0
    OBVIOUS
  <2> HIDE DEF z
  <2>2. used_memory = SumFunctionOnSet(z, Blocks)
    BY <1>1, <1>4, <1>5, <2>1
  <2>3. Ledger(z)
    BY <1>1, <2>1, <2>2, Zenon DEF Ledger, MEM!Usable
  <2> QED BY <1>1, <2>1, <2>3, Zenon DEF MemCounts
<1>7. Balanced
  <2>1. \A t \in Allocators : PendingOf[t] = 0
    BY <1>1, <1>2, PendingType
  <2>2. \A b \in Blocks : LiveSize[b] = 0
    BY <1>1 DEF LiveSize, Live
  <2>3. SumFunctionOnSet(PendingOf, Allocators) = 0 /\ SumFunctionOnSet(LiveSize, Blocks) = 0
    BY <1>4, <1>5, <2>1, <2>2
  <2> QED BY <1>1, <2>3 DEF Balanced
<1> QED BY <1>2, <1>3, <1>6, <1>7 DEF MemInv

\* zmalloc() begins.
LEMMA ZmallocStep ==
    ASSUME MemInv, NEW t \in Allocators, NEW b \in Blocks, NEW n \in Sizes,
           MEM!Zmalloc(t, b, n)
    PROVE  MemInv'
<1> DEFINE c == MEM!Call(b, <<MEM!Round(n + MEM!PREFIX_SIZE)>>, FALSE)
<1>1. n \in Nat /\ Prefixed(n) \in Int /\ MEM!Round(n + MEM!PREFIX_SIZE) = Prefixed(n)
  <2>1. n \in Nat
    BY MemConstants
  <2> QED BY <2>1, RoundFacts
<1>2. OneLeft(c, b, Prefixed(n), FALSE)
  BY <1>1, OneUpdate, Zenon
<1>3. Untouched(b)
  <2> SUFFICES ASSUME NEW u \in Allocators, call[u].block = b PROVE FALSE
    BY Zenon DEF Untouched
  <2>1. call[u] # MEM!Returned
    BY NoCall, Zenon
  <2>2. size[b] \in Sizes
    BY <2>1, ThreadCall, Zenon DEF MemInv
  <2> QED BY <2>2, MemConstants, Zenon DEF MEM!Zmalloc
<1>4. CallOn(c, b, n)
  BY Zenon DEF CallOn, Allocates
<1> HIDE DEF c
<1>5. CountedIn(c, n) = 0 /\ SumFunction(c.updates) = Prefixed(n) - 0 /\ c.frees = FALSE
  BY <1>1, <1>2 DEF OneLeft, CountedIn
<1>6. size[b] = None /\ call[t] = MEM!Returned
  BY Zenon DEF MEM!Zmalloc, MEM!Idle
<1>7. Begins(t, b, n, c)
  BY <1>3, <1>4, <1>5, <1>6, Zenon DEF Begins, MEM!Zmalloc, c
<1> QED BY <1>7, BeginStep, Zenon

\* zrealloc() begins.
LEMMA ZreallocStep ==
    ASSUME MemInv, NEW t \in Allocators, NEW b \in Blocks, NEW n \in Sizes,
           MEM!Zrealloc(t, b, n)
    PROVE  MemInv'
<1> DEFINE k == size[b]
           c == MEM!Call(b, <<-MEM!Round(k), MEM!Round(n)>>, FALSE)
<1>1. k \in Sizes /\ k # None /\ call[t] = MEM!Returned /\ Untouched(b)
  BY DEF MEM!Zrealloc, MEM!Usable, MEM!Idle, Untouched, MemInv, MemTypes
<1>2. /\ MEM!Round(k) \in Nat /\ MEM!Round(n) \in Nat
      /\ Prefixed(k) = MEM!Round(k) + 8 /\ Prefixed(n) = MEM!Round(n) + 8
  <2>1. k \in Nat /\ n \in Nat
    BY <1>1, MemConstants, Zenon
  <2> QED BY <2>1, RoundFacts
<1>3. -MEM!Round(k) \in Int /\ MEM!Round(n) \in Int
  BY <1>2
<1>4. TwoLeft(c, b, -MEM!Round(k), MEM!Round(n), FALSE)
  BY <1>3, TwoUpdates, Zenon
<1>5. CallOn(c, b, n)
  BY <1>1, Zenon DEF CallOn, Resizes
<1>6. call' = [call EXCEPT ![t] = c]
  BY Zenon DEF MEM!Zrealloc
<1> HIDE DEF c
<1>7. CountedIn(c, n) = Prefixed(k) /\ SumFunction(c.updates) = Prefixed(n) - Prefixed(k)
      /\ c.frees = FALSE
  BY <1>2, <1>4 DEF TwoLeft, CountedIn
<1>8. Begins(t, b, n, c)
  BY <1>1, <1>5, <1>6, <1>7, Zenon DEF Begins, MEM!Zrealloc
<1> QED BY <1>8, BeginStep, Zenon

\* zfree() begins.
LEMMA ZfreeStep ==
    ASSUME MemInv, NEW t \in Allocators, NEW b \in Blocks, MEM!Zfree(t, b) PROVE MemInv'
<1> DEFINE k == size[b]
           c == MEM!Call(b, <<-MEM!Round(k + MEM!PREFIX_SIZE)>>, TRUE)
<1>1. k \in Sizes /\ k # None /\ call[t] = MEM!Returned /\ Untouched(b)
  BY DEF MEM!Zfree, MEM!Usable, MEM!Idle, Untouched, MemInv, MemTypes
<1>2. Prefixed(k) \in Nat /\ MEM!Round(k + MEM!PREFIX_SIZE) = Prefixed(k)
  <2>1. k \in Nat
    BY <1>1, MemConstants, Zenon
  <2> QED BY <2>1, RoundFacts
<1>3. -Prefixed(k) \in Int
  BY <1>2
<1>4. OneLeft(c, b, -Prefixed(k), TRUE)
  BY <1>2, <1>3, OneUpdate, Zenon
<1>5. CallOn(c, b, k)
  BY Zenon DEF CallOn, Frees
<1>6. size' = [size EXCEPT ![b] = k]
  BY DEF MEM!Zfree, MemInv, MemTypes
<1>7. call' = [call EXCEPT ![t] = c]
  BY Zenon DEF MEM!Zfree
<1> HIDE DEF c
<1>8. /\ CountedIn(c, k) = Prefixed(k) /\ SumFunction(c.updates) = 0 - Prefixed(k)
      /\ c.frees = TRUE
  BY <1>2, <1>4 DEF OneLeft, CountedIn
<1> HIDE DEF k
<1>9. Begins(t, b, k, c)
  BY <1>1, <1>5, <1>6, <1>7, <1>8, Zenon DEF Begins, MEM!Zfree, k
<1> QED BY <1>1, <1>9, BeginStep, Zenon

\* Nothing the balance is about changes.
LEMMA MemSame ==
    ASSUME MemInv, UNCHANGED <<size, used_memory, call, overlap>>,
           zmalloc_thread_safe' \in BOOLEAN, aborted' \in BOOLEAN,
           reg' \in [Allocators -> Nat \cup {None}],
           \A t \in Allocators : reg'[t] # None =>
               /\ call[t] # MEM!Returned
               /\ reg'[t] = reg[t] \/ reg'[t] = used_memory
    PROVE  MemInv'
<1>1. MemTypes /\ MemCalls /\ MemCounts /\ Balanced
  BY DEF MemInv
<1>2. MemTypes'
  BY <1>1, Zenon DEF MemTypes
<1>3. MemCalls'
  BY <1>1, Zenon DEF MemCalls
<1>4. PendingOf' = PendingOf /\ LiveSize' = LiveSize
  BY SameSum, Zenon DEF PendingOf, MEM!Pending, LiveSize, Live, MEM!Freeing, MEM!ZmallocSize
<1>5. Balanced'
  BY <1>1, <1>4, Zenon DEF Balanced
<1>6. ASSUME NEW share PROVE Ledger(share)' <=> Ledger(share)
  BY Zenon DEF Ledger, MEM!Usable
<1>7. ASSUME ~overlap, NEW t \in Allocators, reg'[t] # None PROVE reg'[t] = used_memory
  BY <1>1, <1>7, Zenon DEF MemCounts
<1>8. MemCounts'
  BY <1>1, <1>6, <1>7, Zenon DEF MemCounts
<1> QED BY <1>2, <1>3, <1>5, <1>8, Zenon DEF MemInv

\* Every step of Zmalloc keeps the invariant.
LEMMA MemNext == ASSUME MemInv, MEM!Next PROVE MemInv'
<1>0. /\ MemTypes /\ MemCalls /\ MemCounts
      /\ zmalloc_thread_safe \in BOOLEAN /\ aborted \in BOOLEAN
      /\ reg \in [Allocators -> Nat \cup {None}] /\ used_memory \in Nat
      /\ \A t \in Allocators : reg[t] # None => call[t] # MEM!Returned
  BY DEF MemInv, MemTypes, MemCalls
<1>1. PICK t \in Allocators :
        \/ \E b \in Blocks : MEM!Zfree(t, b)
        \/ \E b \in Blocks, n \in Sizes : MEM!Zmalloc(t, b, n) \/ MEM!Zrealloc(t, b, n)
        \/ MEM!OutOfMemory(t) \/ MEM!EnableThreadSafeness(t)
        \/ MEM!UpdateAtomic(t) \/ MEM!UpdateRead(t) \/ MEM!UpdateWrite(t)
  BY Zenon DEF MEM!Next
<1>2. CASE \E b \in Blocks : MEM!Zfree(t, b)
  BY <1>2, ZfreeStep, Zenon
<1>3. CASE \E b \in Blocks, n \in Sizes : MEM!Zmalloc(t, b, n) \/ MEM!Zrealloc(t, b, n)
  BY <1>3, ZmallocStep, ZreallocStep, Zenon
<1>4. CASE MEM!OutOfMemory(t)
  BY <1>0, <1>4, MemSame DEF MEM!OutOfMemory
<1>5. CASE MEM!EnableThreadSafeness(t)
  BY <1>0, <1>5, MemSame DEF MEM!EnableThreadSafeness
<1>6. CASE MEM!UpdateRead(t)
  BY <1>0, <1>6, MemSame DEF MEM!UpdateRead, MEM!Idle
<1>7. CASE MEM!UpdateAtomic(t)
  <2>1. call[t] # MEM!Returned
    BY <1>7, Zenon DEF MEM!UpdateAtomic, MEM!Idle
  <2>2. Head(call[t].updates) \in Int
    BY <1>0, <2>1, ThreadCall, Zenon DEF CallOk
  <2>3. used_memory + Head(call[t].updates) \in Int
    BY <1>0, <2>2
  <2> QED BY <1>7, <2>1, <2>3, WriteStep, Zenon DEF MEM!UpdateAtomic
<1>8. CASE MEM!UpdateWrite(t)
  <2>1. reg[t] # None /\ call[t] # MEM!Returned
    BY <1>0, <1>8, Zenon DEF MEM!UpdateWrite
  <2>2. Head(call[t].updates) \in Int
    BY <1>0, <2>1, ThreadCall, Zenon DEF CallOk
  <2>3. reg[t] + Head(call[t].updates) \in Int
    BY <1>0, <2>1, <2>2
  <2>4. ~overlap => reg[t] = used_memory
    BY <1>0, <2>1, Zenon DEF MemCounts
  <2> QED BY <1>8, <2>1, <2>3, <2>4, WriteStep, Zenon DEF MEM!UpdateWrite
<1> QED BY <1>1, <1>2, <1>3, <1>4, <1>5, <1>6, <1>7, <1>8

\* So does a step of another library.
LEMMA MemStutter == ASSUME MemInv, UNCHANGED MEM!vars PROVE MemInv'
BY MemSame, Zenon DEF MEM!vars, MemInv, MemTypes, MemCalls

\* MemoryAccounted (zmalloc.cpp:182).
LEMMA MemAccounts == ASSUME MemInv PROVE MEM!MemoryAccounted
BY AccountedIsBalanced, Zenon DEF MemInv

-----------------------------------------------------------------------------
(* Both libraries.                                                         *)

CountInv == StatInv /\ MemInv

\* The inductive invariant of both libraries holds always.
THEOREM Invariance == CountSpec => []CountInv
<1>1. CountInit => CountInv
  BY StatInit, MemInit, Zenon DEF CountInit, CountInv
<1>2. CountInv /\ [CountNext]_countVars => CountInv'
  <2> SUFFICES ASSUME CountInv, [CountNext]_countVars PROVE CountInv'
    OBVIOUS
  <2>1. (Next \/ UNCHANGED vars) /\ (MEM!Next \/ UNCHANGED memory)
    BY Zenon DEF CountNext, countVars
  <2>2. StatInv'
    BY <2>1, StatNext, StatStutter, Zenon DEF CountInv
  <2>3. MemInv'
    BY <2>1, MemNext, MemStutter, Zenon DEF CountInv, memory, MEM!vars
  <2> QED BY <2>2, <2>3, Zenon DEF CountInv
<1> QED BY <1>1, <1>2, PTL DEF CountSpec

\* stat.cpp: whatever the threads count, and whenever they come and go, a query
\* returns at least the least and at most the greatest true value while it ran.
THEOREM Safety_QueryWindow == CountSpec => []QueryWindow
<1>1. CountInv => QueryWindow
  BY StatResult, Zenon DEF CountInv, QueryWindow
<1> QED BY <1>1, Invariance, PTL

\* zmalloc.cpp:108: for any threads, blocks and sizes, used_memory and the updates
\* under way add up to the blocks in use, until two updates overlap.
THEOREM Safety_MemoryCounted == CountSpec => []MemoryCounted
<1>1. CountInv => MemoryCounted
  BY MemAccounts, Zenon DEF CountInv, MemoryCounted
<1> QED BY <1>1, Invariance, PTL
=============================================================================
