---------------------------- MODULE TotalsProofs ----------------------------
(***************************************************************************)
(* Sums over finite sets.  MapThenSumSet of the community modules is the   *)
(* value of a recursive function on the subsets of a set; here is what the *)
(* proofs need of it: that the function exists, that no order of adding    *)
(* matters, and how a total changes when one term of it, or the set, does. *)
(***************************************************************************)
EXTENDS Integers, FiniteSets, FiniteSetsExt, FiniteSetTheorems, WellFoundedInduction, TLAPS

Pick(s) == CHOOSE x \in s : TRUE

(* g is the function that MapThenSumSet builds for the terms f. *)
Adds(g, f, S) ==
    g = [s \in SUBSET S |-> IF s = {} THEN 0 ELSE f[Pick(s)] + g[s \ {Pick(s)}]]

Total(f, S) == (CHOOSE g : Adds(g, f, S))[S]

Terms(f, S) == IsFiniteSet(S) /\ \A x \in S : f[x] \in Int

LEMMA PickIsMember ==
    ASSUME NEW s, s # {}
    PROVE  Pick(s) \in s
BY DEF Pick

(* Of the subsets of a finite set with some property, one has no proper    *)
(* subset with it.                                                         *)
LEMMA LeastSubset ==
    ASSUME NEW S, IsFiniteSet(S), NEW B, B \subseteq SUBSET S, B # {}
    PROVE  \E T \in B : \A U \in B : U \subseteq T => U = T
<1>1. IsWellFoundedOn(StrictSubsetOrdering(S), SUBSET S)
  BY FS_StrictSubsetOrderingWellFounded, FS_FiniteSubsetsOfFinite
<1>2. PICK T \in B : \A U \in B : <<U, T>> \notin StrictSubsetOrdering(S)
  BY <1>1, WFMin
<1>3. \A U \in B : U \subseteq T => U = T
  BY <1>2 DEF StrictSubsetOrdering
<1> QED
  BY <1>3

LEMMA AddsAt ==
    ASSUME NEW S, NEW f, NEW g, Adds(g, f, S), NEW s \in SUBSET S
    PROVE  g[s] = IF s = {} THEN 0 ELSE f[Pick(s)] + g[s \ {Pick(s)}]
BY DEF Adds

(* The function restricted to the subsets of a subset is its own.          *)
Below(g, T) == [s \in SUBSET T |-> g[s]]

LEMMA AddsBelow ==
    ASSUME NEW S, NEW f, NEW g, Adds(g, f, S), NEW T \in SUBSET S
    PROVE  Adds(Below(g, T), f, T)
<1> DEFINE h == [s \in SUBSET T |-> g[s]]
<1>1. ASSUME NEW s \in SUBSET T
      PROVE  h[s] = IF s = {} THEN 0 ELSE f[Pick(s)] + h[s \ {Pick(s)}]
  <2>1. h[s] = g[s] /\ h[s \ {Pick(s)}] = g[s \ {Pick(s)}]
    OBVIOUS
  <2>2. g[s] = IF s = {} THEN 0 ELSE f[Pick(s)] + g[s \ {Pick(s)}]
    BY DEF Adds
  <2> QED
    BY <2>1, <2>2
<1>2. h = [s \in SUBSET T |-> h[s]]
  OBVIOUS
<1> HIDE DEF h
<1>3. h = [s \in SUBSET T |-> IF s = {} THEN 0 ELSE f[Pick(s)] + h[s \ {Pick(s)}]]
  BY <1>1, <1>2
<1> QED
  BY <1>3 DEF Adds, Below, h

(* There is only one such function. *)
LEMMA AddsUnique ==
    ASSUME NEW S, IsFiniteSet(S), NEW f, NEW g, NEW h, Adds(g, f, S), Adds(h, f, S)
    PROVE  g = h
<1> DEFINE B == {s \in SUBSET S : g[s] # h[s]}
<1>1. B = {}
  <2> SUFFICES ASSUME B # {} PROVE FALSE
    OBVIOUS
  <2>1. PICK T \in B : \A U \in B : U \subseteq T => U = T
    <3>1. B \subseteq SUBSET S
      OBVIOUS
    <3> HIDE DEF B
    <3> QED
      BY <3>1, LeastSubset
  <2>2. g[T] = (IF T = {} THEN 0 ELSE f[Pick(T)] + g[T \ {Pick(T)}])
        /\ h[T] = (IF T = {} THEN 0 ELSE f[Pick(T)] + h[T \ {Pick(T)}])
    BY DEF Adds
  <2>3. CASE T = {}
    BY <2>2, <2>3
  <2>4. CASE T # {}
    <3>1. T \ {Pick(T)} # T /\ T \ {Pick(T)} \in SUBSET S
      BY <2>4, PickIsMember
    <3>2. g[T \ {Pick(T)}] = h[T \ {Pick(T)}]
      BY <2>1, <3>1
    <3> QED
      BY <2>2, <2>4, <3>2
  <2> QED
    BY <2>3, <2>4
<1>2. \A s \in SUBSET S : g[s] = h[s]
  BY <1>1
<1>3. g = [s \in SUBSET S |-> g[s]] /\ h = [s \in SUBSET S |-> h[s]]
  BY DEF Adds
<1> HIDE DEF B
<1> QED
  BY <1>2, <1>3

(* There is one: below every finite set, one element at a time. *)
LEMMA AddsExists ==
    ASSUME NEW S, NEW f, Terms(f, S)
    PROVE  \E g \in [SUBSET S -> Int] : Adds(g, f, S)
<1> DEFINE B == {T \in SUBSET S : ~ \E g \in [SUBSET T -> Int] : Adds(g, f, T)}
<1>0. IsFiniteSet(S)
  BY DEF Terms
<1>1. B = {}
  <2> SUFFICES ASSUME B # {} PROVE FALSE
    OBVIOUS
  <2>1. PICK T \in B : \A U \in B : U \subseteq T => U = T
    <3>1. B \subseteq SUBSET S
      OBVIOUS
    <3> HIDE DEF B
    <3> QED
      BY <1>0, <3>1, LeastSubset
  <2>2. IsFiniteSet(T)
    BY <1>0, FS_Subset
  <2>3. ASSUME NEW x \in T
        PROVE  \E g \in [SUBSET (T \ {x}) -> Int] : Adds(g, f, T \ {x})
    <3>1. T \ {x} \in SUBSET S /\ T \ {x} # T
      OBVIOUS
    <3>2. T \ {x} \notin B
      <4> HIDE DEF B
      <4> QED
        BY <2>1, <3>1
    <3> QED
      BY <3>1, <3>2
  <2> DEFINE G == [x \in T |-> CHOOSE g \in [SUBSET (T \ {x}) -> Int] : Adds(g, f, T \ {x})]
  <2>4. \A x \in T : G[x] \in [SUBSET (T \ {x}) -> Int] /\ Adds(G[x], f, T \ {x})
    BY <2>3
  <2> HIDE DEF G
  <2> DEFINE h == [s \in SUBSET T |-> IF s = {} THEN 0
                                     ELSE f[Pick(s)] + G[Pick(s)][s \ {Pick(s)}]]
  <2>5. h \in [SUBSET T -> Int]
    <3>1. ASSUME NEW s \in SUBSET T, s # {}
          PROVE  f[Pick(s)] + G[Pick(s)][s \ {Pick(s)}] \in Int
      <4>1. Pick(s) \in T /\ s \ {Pick(s)} \in SUBSET (T \ {Pick(s)})
        BY <3>1, PickIsMember
      <4>2. f[Pick(s)] \in Int /\ G[Pick(s)][s \ {Pick(s)}] \in Int
        BY <2>4, <4>1 DEF Terms
      <4> QED
        BY <4>2
    <3> QED
      BY <3>1
  <2>6. ASSUME NEW s \in SUBSET T, NEW x \in T, s \in SUBSET (T \ {x})
        PROVE  G[x][s] = h[s]
    <3> DEFINE C == {u \in SUBSET (T \ {x}) : G[x][u] # h[u]}
    <3>1. C = {}
      <4> SUFFICES ASSUME C # {} PROVE FALSE
        OBVIOUS
      <4>0. IsFiniteSet(T \ {x})
        BY <2>2, FS_Subset
      <4>1. PICK u \in C : \A v \in C : v \subseteq u => v = u
        <5>1. C \subseteq SUBSET (T \ {x})
          OBVIOUS
        <5> HIDE DEF C
        <5> QED
          BY <4>0, <5>1, LeastSubset
      <4>2. G[x][u] = IF u = {} THEN 0 ELSE f[Pick(u)] + G[x][u \ {Pick(u)}]
        <5>1. u \in SUBSET (T \ {x}) /\ Adds(G[x], f, T \ {x})
          BY <2>4
        <5> QED
          BY <5>1, AddsAt
      <4>3. CASE u = {}
        BY <4>2, <4>3
      <4>4. CASE u # {}
        <5>1. Pick(u) \in u /\ Pick(u) \in T
          BY <4>4, PickIsMember
        <5> DEFINE y == Pick(u)  d == u \ {y}
        <5>2. d \in SUBSET (T \ {x}) /\ d \in SUBSET (T \ {y}) /\ d # u
          BY <5>1
        <5>3. h[u] = f[y] + G[y][d]
          BY <4>4
        <5>4. G[x][d] = h[d]
          BY <4>1, <5>2
        <5>5. G[y][d] = G[x][d]
          <6> DEFINE W == (T \ {x}) \cap (T \ {y})
                     gx == Below(G[x], W)
                     gy == Below(G[y], W)
          <6>0. W \in SUBSET (T \ {x}) /\ W \in SUBSET (T \ {y})
            OBVIOUS
          <6>1. Adds(gx, f, W)
            <7>1. Adds(G[x], f, T \ {x})
              BY <2>4
            <7> HIDE DEF W
            <7> QED
              BY <6>0, <7>1, AddsBelow
          <6>2. Adds(gy, f, W)
            <7>1. Adds(G[y], f, T \ {y})
              BY <2>4, <5>1
            <7> HIDE DEF W, y
            <7> QED
              BY <6>0, <7>1, AddsBelow
          <6>3. IsFiniteSet(W)
            BY <2>2, FS_Subset
          <6>4. d \in SUBSET W /\ gx[d] = G[x][d] /\ gy[d] = G[y][d]
            BY <5>2 DEF Below
          <6> HIDE DEF gx, gy, W
          <6>5. gx = gy
            BY <6>1, <6>2, <6>3, AddsUnique
          <6> QED
            BY <6>4, <6>5
        <5>6. G[x][u] = h[u]
          BY <4>2, <4>4, <5>3, <5>5
        <5> QED
          BY <5>6
      <4> QED
        BY <4>3, <4>4
    <3> HIDE DEF h
    <3> QED
      BY <2>6, <3>1
  <2>7. ASSUME NEW s \in SUBSET T, s # {}
        PROVE  G[Pick(s)][s \ {Pick(s)}] = h[s \ {Pick(s)}]
    <3>1. Pick(s) \in T /\ s \ {Pick(s)} \in SUBSET (T \ {Pick(s)}) /\ s \ {Pick(s)} \in SUBSET T
      BY <2>7, PickIsMember
    <3> HIDE DEF h
    <3> QED
      BY <2>6, <3>1
  <2>8. Adds(h, f, T)
    <3>1. \A s \in SUBSET T : h[s] = IF s = {} THEN 0 ELSE f[Pick(s)] + h[s \ {Pick(s)}]
      BY <2>7
    <3>2. h = [s \in SUBSET T |-> h[s]]
      OBVIOUS
    <3> HIDE DEF h
    <3>3. h = [s \in SUBSET T |-> IF s = {} THEN 0 ELSE f[Pick(s)] + h[s \ {Pick(s)}]]
      BY <3>1, <3>2
    <3> QED
      BY <3>3 DEF Adds
  <2> HIDE DEF h
  <2> QED
    BY <2>5, <2>8
<1> QED
  BY <1>1

-----------------------------------------------------------------------------
(* The total is the value of that function.                                *)
LEMMA TotalIs ==
    ASSUME NEW S, NEW f, Terms(f, S), NEW g, Adds(g, f, S)
    PROVE  Total(f, S) = g[S]
<1>1. Adds(CHOOSE h : Adds(h, f, S), f, S)
  OBVIOUS
<1>2. g = (CHOOSE h : Adds(h, f, S))
  BY <1>1, AddsUnique DEF Terms
<1> QED
  BY <1>2 DEF Total

LEMMA TermsBelow ==
    ASSUME NEW S, NEW f, Terms(f, S), NEW T \in SUBSET S
    PROVE  Terms(f, T)
BY FS_Subset DEF Terms

LEMMA TotalBelow ==
    ASSUME NEW S, NEW f, Terms(f, S), NEW g, Adds(g, f, S), NEW T \in SUBSET S
    PROVE  Total(f, T) = g[T]
<1>1. Adds(Below(g, T), f, T) /\ Below(g, T)[T] = g[T]
  BY AddsBelow DEF Below
<1> QED
  BY <1>1, TermsBelow, TotalIs

LEMMA TotalType ==
    ASSUME NEW S, NEW f, Terms(f, S)
    PROVE  Total(f, S) \in Int
<1>1. PICK g \in [SUBSET S -> Int] : Adds(g, f, S)
  BY AddsExists
<1> QED
  BY <1>1, TotalIs

LEMMA TotalEmpty ==
    ASSUME NEW f
    PROVE  Total(f, {}) = 0
<1>1. Terms(f, {})
  BY FS_EmptySet DEF Terms
<1>2. PICK g \in [SUBSET {} -> Int] : Adds(g, f, {})
  BY <1>1, AddsExists
<1>3. g[{}] = 0
  BY <1>2 DEF Adds
<1> QED
  BY <1>1, <1>2, <1>3, TotalIs

LEMMA TotalPick ==
    ASSUME NEW S, NEW f, Terms(f, S), S # {}
    PROVE  Total(f, S) = f[Pick(S)] + Total(f, S \ {Pick(S)})
<1>1. PICK g \in [SUBSET S -> Int] : Adds(g, f, S)
  BY AddsExists
<1>2. g[S] = f[Pick(S)] + g[S \ {Pick(S)}]
  BY <1>1 DEF Adds
<1>3. Total(f, S) = g[S] /\ Total(f, S \ {Pick(S)}) = g[S \ {Pick(S)}]
  BY <1>1, TotalBelow
<1> QED
  BY <1>2, <1>3

(* Any element may be taken first. *)
LEMMA TotalTake ==
    ASSUME NEW S, NEW f, Terms(f, S), NEW x \in S
    PROVE  Total(f, S) = f[x] + Total(f, S \ {x})
<1> DEFINE B == {T \in SUBSET S : \E y \in T : Total(f, T) # f[y] + Total(f, T \ {y})}
<1>1. B = {}
  <2> SUFFICES ASSUME B # {} PROVE FALSE
    OBVIOUS
  <2>1. PICK T \in B : \A U \in B : U \subseteq T => U = T
    <3>1. B \subseteq SUBSET S /\ IsFiniteSet(S)
      BY DEF Terms
    <3> HIDE DEF B
    <3> QED
      BY <3>1, LeastSubset
  <2>2. PICK y \in T : Total(f, T) # f[y] + Total(f, T \ {y})
    OBVIOUS
  <2> DEFINE z == Pick(T)
  <2>3. z \in T /\ Total(f, T) = f[z] + Total(f, T \ {z})
    BY PickIsMember, TermsBelow, TotalPick
  <2>4. y # z
    BY <2>2, <2>3
  <2>5. T \ {z} \notin B /\ T \ {y} \notin B
    <3>1. T \ {z} # T /\ T \ {y} # T /\ T \ {z} \subseteq T /\ T \ {y} \subseteq T
      BY <2>3
    <3> HIDE DEF B, z
    <3> QED
      BY <2>1, <3>1
  <2>6. Total(f, T \ {z}) = f[y] + Total(f, (T \ {z}) \ {y})
    BY <2>2, <2>4, <2>5
  <2>7. Total(f, T \ {y}) = f[z] + Total(f, (T \ {y}) \ {z})
    BY <2>3, <2>4, <2>5
  <2>8. (T \ {y}) \ {z} = (T \ {z}) \ {y}
    OBVIOUS
  <2>9. f[y] \in Int /\ f[z] \in Int /\ Total(f, (T \ {z}) \ {y}) \in Int
    <3>1. Terms(f, (T \ {z}) \ {y})
      BY TermsBelow
    <3> QED
      BY <2>2, <2>3, <3>1, TotalType DEF Terms
  <2> DEFINE rest == Total(f, (T \ {z}) \ {y})
  <2>10. /\ Total(f, T) = f[z] + (f[y] + rest)
         /\ Total(f, T \ {y}) = f[z] + rest
         /\ rest \in Int
    BY <2>3, <2>6, <2>7, <2>8, <2>9
  <2> HIDE DEF B, z, rest
  <2> QED
    BY <2>2, <2>9, <2>10
<1> QED
  BY <1>1

(* Equal terms, equal totals. *)
LEMMA TotalSame ==
    ASSUME NEW S, NEW f, NEW h, Terms(f, S), \A x \in S : h[x] = f[x]
    PROVE  Total(h, S) = Total(f, S)
<1>1. PICK g \in [SUBSET S -> Int] : Adds(g, f, S)
  BY AddsExists
<1>2. Adds(g, h, S)
  BY <1>1, PickIsMember DEF Adds
<1>3. Terms(h, S)
  BY DEF Terms
<1> QED
  BY <1>1, <1>2, <1>3, TotalIs

(* One term changes. *)
LEMMA TotalChange ==
    ASSUME NEW S, NEW f, NEW h, Terms(f, S), Terms(h, S), NEW x \in S,
           \A y \in S : y # x => h[y] = f[y]
    PROVE  Total(h, S) = Total(f, S) - f[x] + h[x]
<1>1. Total(h, S) = h[x] + Total(h, S \ {x}) /\ Total(f, S) = f[x] + Total(f, S \ {x})
  BY TotalTake
<1>2. Total(h, S \ {x}) = Total(f, S \ {x})
  BY TermsBelow, TotalSame
<1>3. h[x] \in Int /\ f[x] \in Int /\ Total(f, S \ {x}) \in Int
  BY TermsBelow, TotalType DEF Terms
<1> QED
  BY <1>1, <1>2, <1>3

(* Totals add up term by term. *)
LEMMA TotalPlus ==
    ASSUME NEW S, NEW f, NEW g, NEW h, Terms(f, S), Terms(g, S),
           \A x \in S : h[x] = f[x] + g[x]
    PROVE  Total(h, S) = Total(f, S) + Total(g, S)
<1> DEFINE B == {T \in SUBSET S : Total(h, T) # Total(f, T) + Total(g, T)}
<1>0. Terms(h, S)
  BY DEF Terms
<1>1. B = {}
  <2> SUFFICES ASSUME B # {} PROVE FALSE
    OBVIOUS
  <2>1. PICK T \in B : \A U \in B : U \subseteq T => U = T
    <3>1. B \subseteq SUBSET S /\ IsFiniteSet(S)
      BY DEF Terms
    <3> HIDE DEF B
    <3> QED
      BY <3>1, LeastSubset
  <2>2. CASE T = {}
    BY <2>2, TotalEmpty
  <2>3. CASE T # {}
    <3>1. PICK x : x \in T
      BY <2>3
    <3> DEFINE R == T \ {x}
    <3>2. R \in SUBSET S /\ R # T /\ R \subseteq T
      BY <3>1
    <3>3. R \notin B
      <4> HIDE DEF B, R
      <4> QED
        BY <2>1, <3>2
    <3>4. Total(h, R) = Total(f, R) + Total(g, R)
      BY <3>2, <3>3
    <3>5. /\ Total(h, T) = h[x] + Total(h, R) /\ Total(f, T) = f[x] + Total(f, R)
          /\ Total(g, T) = g[x] + Total(g, R)
      BY <1>0, <3>1, TermsBelow, TotalTake
    <3>6. /\ f[x] \in Int /\ g[x] \in Int /\ h[x] = f[x] + g[x]
          /\ Total(f, R) \in Int /\ Total(g, R) \in Int
      BY <3>1, <3>2, TermsBelow, TotalType DEF Terms
    <3>7. Total(h, T) # Total(f, T) + Total(g, T)
      OBVIOUS
    <3> HIDE DEF B, R
    <3> QED
      BY <3>4, <3>5, <3>6, <3>7
  <2> QED
    BY <2>2, <2>3
<1> QED
  BY <1>1

(* No term is larger, nor is the total. *)
LEMMA TotalLeq ==
    ASSUME NEW S, NEW f, NEW h, Terms(f, S), Terms(h, S), \A x \in S : f[x] <= h[x]
    PROVE  Total(f, S) <= Total(h, S)
<1> DEFINE B == {T \in SUBSET S : ~ (Total(f, T) <= Total(h, T))}
<1>1. B = {}
  <2> SUFFICES ASSUME B # {} PROVE FALSE
    OBVIOUS
  <2>1. PICK T \in B : \A U \in B : U \subseteq T => U = T
    <3>1. B \subseteq SUBSET S /\ IsFiniteSet(S)
      BY DEF Terms
    <3> HIDE DEF B
    <3> QED
      BY <3>1, LeastSubset
  <2>2. CASE T = {}
    BY <2>2, TotalEmpty
  <2>3. CASE T # {}
    <3>1. PICK x : x \in T
      BY <2>3
    <3> DEFINE R == T \ {x}
    <3>2. R \in SUBSET S /\ R # T /\ R \subseteq T
      BY <3>1
    <3>3. R \notin B
      <4> HIDE DEF B, R
      <4> QED
        BY <2>1, <3>2
    <3>4. Total(f, R) <= Total(h, R)
      BY <3>2, <3>3
    <3>5. Total(h, T) = h[x] + Total(h, R) /\ Total(f, T) = f[x] + Total(f, R)
      BY <3>1, TermsBelow, TotalTake
    <3>6. /\ f[x] \in Int /\ h[x] \in Int /\ f[x] <= h[x]
          /\ Total(f, R) \in Int /\ Total(h, R) \in Int
      BY <3>1, <3>2, TermsBelow, TotalType DEF Terms
    <3>7. ~ (Total(f, T) <= Total(h, T))
      OBVIOUS
    <3> HIDE DEF B, R
    <3> QED
      BY <3>4, <3>5, <3>6, <3>7
  <2> QED
    BY <2>2, <2>3
<1> QED
  BY <1>1

(* Terms that are nothing make a total that is nothing. *)
LEMMA TotalZero ==
    ASSUME NEW S, NEW f, IsFiniteSet(S), \A x \in S : f[x] = 0
    PROVE  Total(f, S) = 0
<1>1. Terms(f, S)
  BY DEF Terms
<1>2. Total(f, S) = Total(f, S) + Total(f, S) /\ Total(f, S) \in Int
  BY <1>1, TotalPlus, TotalType
<1>3. \A t \in Int : t = t + t => t = 0
  OBVIOUS
<1> QED
  BY <1>2, <1>3

(* Adding up some of the terms is adding nothing for the others. *)
LEMMA TotalOfSome ==
    ASSUME NEW S, NEW T \in SUBSET S, NEW f, NEW h, Terms(f, T), IsFiniteSet(S),
           \A x \in S : h[x] = IF x \in T THEN f[x] ELSE 0
    PROVE  Terms(h, S) /\ Total(h, S) = Total(f, T)
<1>1. Terms(h, S)
  BY DEF Terms
<1> DEFINE B == {U \in SUBSET S : T \subseteq U /\ Total(h, U) # Total(h, T)}
<1>2. B = {}
  <2> SUFFICES ASSUME B # {} PROVE FALSE
    OBVIOUS
  <2>1. PICK U \in B : \A V \in B : V \subseteq U => V = U
    <3>1. B \subseteq SUBSET S
      OBVIOUS
    <3> HIDE DEF B
    <3> QED
      BY <3>1, LeastSubset
  <2>2. U # T
    OBVIOUS
  <2>3. PICK x \in U : x \notin T
    BY <2>2
  <2> DEFINE R == U \ {x}
  <2>4. R \in SUBSET S /\ R # U /\ R \subseteq U /\ T \subseteq R
    BY <2>3
  <2>5. R \notin B
    <3> HIDE DEF B, R
    <3> QED
      BY <2>1, <2>4
  <2>6. Total(h, R) = Total(h, T)
    BY <2>4, <2>5
  <2>7. Total(h, U) = h[x] + Total(h, R) /\ Total(h, R) \in Int /\ h[x] = 0
    BY <1>1, <2>3, TermsBelow, TotalTake, TotalType
  <2>8. Total(h, U) # Total(h, T)
    OBVIOUS
  <2> HIDE DEF B, R
  <2> QED
    BY <2>6, <2>7, <2>8
<1>3. Total(h, S) = Total(h, T)
  <2>1. S \in SUBSET S /\ T \subseteq S /\ S \notin B
    BY <1>2
  <2> QED
    BY <2>1
<1>4. Total(h, T) = Total(f, T)
  BY TotalSame
<1> QED
  BY <1>1, <1>3, <1>4

(* A total of terms that are not negative covers every one of them. *)
LEMMA TotalCovers ==
    ASSUME NEW S, NEW f, Terms(f, S), \A x \in S : f[x] >= 0
    PROVE  Total(f, S) >= 0 /\ \A x \in S : f[x] <= Total(f, S)
<1>1. ASSUME NEW T \in SUBSET S
      PROVE  Total(f, T) >= 0
  <2> DEFINE nothing == [x \in T |-> 0]
  <2>1. Terms(f, T)
    BY TermsBelow
  <2>2. Terms(nothing, T) /\ \A x \in T : nothing[x] <= f[x]
    BY <2>1 DEF Terms
  <2>3. Total(nothing, T) = 0
    BY <2>1, TotalZero DEF Terms
  <2> HIDE DEF nothing
  <2>4. Total(nothing, T) <= Total(f, T)
    BY <2>1, <2>2, TotalLeq
  <2>5. Total(f, T) \in Int
    BY <2>1, TotalType
  <2> QED
    BY <2>3, <2>4, <2>5
<1>2. ASSUME NEW x \in S
      PROVE  f[x] <= Total(f, S)
  <2>1. Total(f, S) = f[x] + Total(f, S \ {x}) /\ Total(f, S \ {x}) >= 0
    BY <1>1, TotalTake
  <2>2. f[x] \in Int /\ Total(f, S \ {x}) \in Int
    BY TermsBelow, TotalType DEF Terms
  <2> QED
    BY <2>1, <2>2
<1> QED
  BY <1>1, <1>2


(* A part and what is not in it make the whole. *)
LEMMA TotalParts ==
    ASSUME NEW D, NEW f, Terms(f, D), NEW S \in SUBSET D, NEW T \in SUBSET S
    PROVE  /\ Total(f, S) = Total(f, T) + Total(f, S \ T)
           /\ Total(f, S) \in Int /\ Total(f, T) \in Int /\ Total(f, S \ T) \in Int
<1> DEFINE U == S \ T
           g == [x \in S |-> IF x \in T THEN f[x] ELSE 0]
           h == [x \in S |-> IF x \in U THEN f[x] ELSE 0]
<1>1. Terms(f, S) /\ Terms(f, T) /\ Terms(f, U) /\ IsFiniteSet(S)
  BY TermsBelow DEF Terms
<1>2. /\ \A x \in S : g[x] = IF x \in T THEN f[x] ELSE 0
      /\ \A x \in S : h[x] = IF x \in U THEN f[x] ELSE 0
      /\ U \in SUBSET S
  OBVIOUS
<1>3. \A x \in S : f[x] = g[x] + h[x]
  BY <1>1 DEF Terms
<1> HIDE DEF g, h
<1>4. Terms(g, S) /\ Total(g, S) = Total(f, T) /\ Total(f, T) \in Int
  BY <1>1, <1>2, TotalOfSome, TotalType
<1>5. Terms(h, S) /\ Total(h, S) = Total(f, U) /\ Total(f, U) \in Int
  <2> HIDE DEF U
  <2> QED
    BY <1>1, <1>2, TotalOfSome, TotalType
<1>6. Total(f, S) = Total(g, S) + Total(h, S)
  BY <1>3, <1>4, <1>5, TotalPlus
<1> QED
  BY <1>4, <1>5, <1>6

(* Of terms that are not negative a part is no more than the whole. *)
LEMMA TotalWithin ==
    ASSUME NEW D, NEW f, Terms(f, D), \A x \in D : f[x] >= 0,
           NEW S \in SUBSET D, NEW T \in SUBSET S
    PROVE  Total(f, T) <= Total(f, S) /\ Total(f, T) \in Nat
<1>1. /\ Total(f, S) = Total(f, T) + Total(f, S \ T)
      /\ Total(f, S) \in Int /\ Total(f, T) \in Int /\ Total(f, S \ T) \in Int
  BY TotalParts
<1>2. Terms(f, T) /\ Terms(f, S \ T)
  BY TermsBelow
<1>3. Total(f, T) >= 0 /\ Total(f, S \ T) >= 0
  BY <1>2, TotalCovers
<1> QED
  BY <1>1, <1>3

Family(key, D, b) == {x \in D : key[x] = b}
Gathers(g, f, D, B, key) == \A b \in B : g[b] = Total(f, Family(key, D, b))

(* Adding up the terms family by family is adding up all of them. *)
LEMMA TotalFamilies ==
    ASSUME NEW D, NEW f, Terms(f, D), NEW B, IsFiniteSet(B), NEW key \in [D -> B],
           NEW g, Gathers(g, f, D, B, key)
    PROVE  Terms(g, B) /\ Total(g, B) = Total(f, D)
<1> DEFINE Of(U) == {x \in D : key[x] \in U}
           Bad == {U \in SUBSET B : Total(g, U) # Total(f, Of(U))}
<1>0. ASSUME NEW S \in SUBSET D, NEW T \in SUBSET S
      PROVE  /\ Total(f, S) = Total(f, T) + Total(f, S \ T)
             /\ Total(f, S) \in Int
  BY TotalParts
<1>1. Terms(g, B)
  <2>1. ASSUME NEW b \in B PROVE g[b] \in Int
    <3>1. Family(key, D, b) \in SUBSET D /\ g[b] = Total(f, Family(key, D, b))
      BY DEF Family, Gathers
    <3> QED
      BY <3>1, TermsBelow, TotalType
  <2> QED
    BY <2>1 DEF Terms
<1>2. Bad = {}
  <2> SUFFICES ASSUME Bad # {} PROVE FALSE
    OBVIOUS
  <2>1. PICK T \in Bad : \A U \in Bad : U \subseteq T => U = T
    <3>1. Bad \subseteq SUBSET B
      OBVIOUS
    <3> HIDE DEF Bad
    <3> QED
      BY <3>1, LeastSubset
  <2>2. CASE T = {}
    <3>1. Of(T) = {}
      BY <2>2
    <3>2. Total(g, T) # Total(f, Of(T))
      OBVIOUS
    <3> QED
      BY <2>2, <3>1, <3>2, TotalEmpty
  <2>3. CASE T # {}
    <3>1. PICK b : b \in T
      BY <2>3
    <3> DEFINE R == T \ {b}
               F == Family(key, D, b)
    <3>2. R \in SUBSET B /\ R # T /\ R \subseteq T
      BY <3>1
    <3>3. R \notin Bad
      <4> HIDE DEF Bad, R
      <4> QED
        BY <2>1, <3>2
    <3>4. Total(g, R) = Total(f, Of(R))
      BY <3>2, <3>3
    <3>5. Total(g, T) = g[b] + Total(g, R)
      BY <1>1, <3>1, TermsBelow, TotalTake
    <3>6. /\ Of(T) \in SUBSET D /\ F \in SUBSET Of(T) /\ Of(T) \ F = Of(R)
          /\ g[b] = Total(f, F)
      BY <3>1 DEF Family, Gathers
    <3>7. /\ Total(f, Of(T)) = Total(f, F) + Total(f, Of(T) \ F)
          /\ Total(f, Of(T)) \in Int
      <4>1. Of(T) \in SUBSET D /\ F \in SUBSET Of(T)
        BY <3>6
      <4> HIDE DEF Of, F, Bad, R
      <4> QED
        BY <1>0, <4>1
    <3>8. Total(g, T) # Total(f, Of(T))
      OBVIOUS
    <3> QED
      BY <3>4, <3>5, <3>6, <3>7, <3>8
  <2> QED
    BY <2>2, <2>3
<1>3. B \notin Bad
  BY <1>2
<1>4. Of(B) = D
  OBVIOUS
<1> QED
  BY <1>1, <1>3, <1>4

-----------------------------------------------------------------------------
(* Many records have a quantity; the sums over theirs are totals.          *)
QuantityOf(z, S) == MapThenSumSet(LAMBDA x : z[x].quantity, S)
QuantityTerms(z, S) == [x \in S |-> z[x].quantity]

LEMMA QuantityIsTotal ==
    ASSUME NEW z, NEW S, IsFiniteSet(S), \A x \in S : z[x].quantity \in Int
    PROVE  Terms(QuantityTerms(z, S), S) /\ QuantityOf(z, S) = Total(QuantityTerms(z, S), S)
<1> DEFINE f == QuantityTerms(z, S)
           Eq(h) == h = [s \in SUBSET S |-> IF s = {} THEN 0
                         ELSE LET x == CHOOSE x \in s : TRUE IN z[x].quantity + h[s \ {x}]]
<1>0. Terms(f, S)
  BY DEF Terms, QuantityTerms
<1>1. PICK g : Adds(g, f, S)
  BY <1>0, AddsExists
<1>2. Eq(g)
  BY <1>1, PickIsMember DEF Adds, Pick, QuantityTerms
<1>3. Eq(CHOOSE h : Eq(h))
  <2> HIDE DEF Eq
  <2> QED
    BY <1>2
<1>4. \A h : Eq(h) => Adds(h, f, S)
  BY PickIsMember DEF Adds, Pick, QuantityTerms
<1>5. QuantityOf(z, S) = (CHOOSE h : Eq(h))[S]
  BY DEF QuantityOf, MapThenSumSet, MapThenFoldSet
<1> HIDE DEF Eq, f
<1>6. QuantityOf(z, S) = Total(f, S)
  BY <1>0, <1>3, <1>4, <1>5, TotalIs
<1> QED
  BY <1>0, <1>6 DEF f

(* The quantities of a part, as terms of the whole. *)
LEMMA QuantityOfPart ==
    ASSUME NEW z, NEW D, IsFiniteSet(D), \A x \in D : z[x].quantity \in Int, NEW S \in SUBSET D
    PROVE  /\ Terms(QuantityTerms(z, D), D)
           /\ QuantityOf(z, S) = Total(QuantityTerms(z, D), S)
           /\ QuantityOf(z, S) \in Int
<1>1. Terms(QuantityTerms(z, D), D) /\ IsFiniteSet(S)
  BY FS_Subset, QuantityIsTotal
<1>2. Terms(QuantityTerms(z, S), S) /\ QuantityOf(z, S) = Total(QuantityTerms(z, S), S)
  BY <1>1, QuantityIsTotal
<1>3. Terms(QuantityTerms(z, D), S) /\ \A x \in S : QuantityTerms(z, S)[x] = QuantityTerms(z, D)[x]
  BY <1>1, TermsBelow DEF QuantityTerms
<1> QED
  BY <1>1, <1>2, <1>3, TotalSame, TotalType

LEMMA QuantityOfNone == ASSUME NEW z PROVE QuantityOf(z, {}) = 0
BY FS_EmptySet, QuantityIsTotal, TotalEmpty

(* One of all quantities changes. *)
LEMMA QuantityChange ==
    ASSUME NEW z, NEW w, NEW D, IsFiniteSet(D),
           \A y \in D : z[y].quantity \in Int /\ w[y].quantity \in Int, NEW x \in D,
           \A y \in D : y # x => w[y].quantity = z[y].quantity
    PROVE  /\ QuantityOf(w, D) = QuantityOf(z, D) - z[x].quantity + w[x].quantity
           /\ QuantityOf(z, D) \in Int /\ QuantityOf(w, D) \in Int
<1>1. /\ Terms(QuantityTerms(z, D), D) /\ QuantityOf(z, D) = Total(QuantityTerms(z, D), D)
      /\ Terms(QuantityTerms(w, D), D) /\ QuantityOf(w, D) = Total(QuantityTerms(w, D), D)
  BY QuantityIsTotal
<1>2. /\ \A y \in D : y # x => QuantityTerms(w, D)[y] = QuantityTerms(z, D)[y]
      /\ QuantityTerms(z, D)[x] = z[x].quantity /\ QuantityTerms(w, D)[x] = w[x].quantity
  BY DEF QuantityTerms
<1> QED
  BY <1>1, <1>2, TotalChange, TotalType

(* Nothing in it changes. *)
LEMMA QuantitySame ==
    ASSUME NEW z, NEW w, NEW S, IsFiniteSet(S), \A x \in S : z[x].quantity \in Int,
           \A x \in S : w[x].quantity = z[x].quantity
    PROVE  QuantityOf(w, S) = QuantityOf(z, S)
<1>1. /\ Terms(QuantityTerms(z, S), S) /\ QuantityOf(z, S) = Total(QuantityTerms(z, S), S)
      /\ QuantityOf(w, S) = Total(QuantityTerms(w, S), S)
  BY QuantityIsTotal
<1>2. \A x \in S : QuantityTerms(w, S)[x] = QuantityTerms(z, S)[x]
  BY DEF QuantityTerms
<1> QED
  BY <1>1, <1>2, TotalSame

(* One of some quantities changes, if it is among them. *)
LEMMA QuantityChangeIn ==
    ASSUME NEW z, NEW w, NEW D, IsFiniteSet(D),
           \A y \in D : z[y].quantity \in Int /\ w[y].quantity \in Int,
           NEW S \in SUBSET D, NEW x \in D,
           \A y \in D : y # x => w[y].quantity = z[y].quantity
    PROVE  /\ QuantityOf(w, S) = QuantityOf(z, S) +
                (IF x \in S THEN w[x].quantity - z[x].quantity ELSE 0)
           /\ QuantityOf(z, S) \in Int /\ QuantityOf(w, S) \in Int
<1>1. /\ IsFiniteSet(S)
      /\ \A y \in S : z[y].quantity \in Int /\ w[y].quantity \in Int
      /\ \A y \in S : y # x => w[y].quantity = z[y].quantity
      /\ z[x].quantity \in Int /\ w[x].quantity \in Int
  BY FS_Subset
<1>2. CASE x \in S
  <2>1. /\ QuantityOf(w, S) = QuantityOf(z, S) - z[x].quantity + w[x].quantity
        /\ QuantityOf(z, S) \in Int /\ QuantityOf(w, S) \in Int
    BY <1>1, <1>2, QuantityChange
  <2> QED
    BY <1>1, <1>2, <2>1
<1>3. CASE x \notin S
  <2>1. \A y \in S : w[y].quantity = z[y].quantity
    BY <1>1, <1>3
  <2>2. QuantityOf(w, S) = QuantityOf(z, S)
    BY <1>1, <2>1, QuantitySame
  <2>3. QuantityOf(z, S) \in Int
    BY QuantityOfPart
  <2> QED
    BY <1>3, <2>2, <2>3
<1> QED
  BY <1>2, <1>3

(* One record more. *)
LEMMA QuantityMore ==
    ASSUME NEW z, NEW w, NEW S, IsFiniteSet(S), \A y \in S : z[y].quantity \in Int,
           NEW x, x \notin S, w[x].quantity \in Int,
           \A y \in S : w[y].quantity = z[y].quantity
    PROVE  /\ QuantityOf(w, S \cup {x}) = QuantityOf(z, S) + w[x].quantity
           /\ QuantityOf(z, S) \in Int
<1> DEFINE D == S \cup {x}
           f == QuantityTerms(w, D)
<1>1. /\ IsFiniteSet(D) /\ S \in SUBSET D /\ x \in D /\ D \ {x} = S /\ f[x] = w[x].quantity
      /\ \A y \in D : w[y].quantity \in Int
  BY FS_AddElement DEF QuantityTerms
<1> HIDE DEF D, f
<1>2. Terms(f, D) /\ QuantityOf(w, D) = Total(f, D)
  BY <1>1, QuantityIsTotal DEF f
<1>3. QuantityOf(w, S) = Total(f, S) /\ QuantityOf(w, S) \in Int
  BY <1>1, QuantityOfPart DEF f
<1>4. Total(f, D) = f[x] + Total(f, S)
  <2>1. Total(f, D) = f[x] + Total(f, D \ {x})
    BY <1>1, <1>2, TotalTake
  <2> QED
    BY <1>1, <2>1
<1>5. QuantityOf(w, S) = QuantityOf(z, S)
  BY QuantitySame
<1>6. QuantityOf(w, D) = QuantityOf(z, S) + w[x].quantity /\ QuantityOf(z, S) \in Int
  <2>1. f[x] = w[x].quantity
    BY <1>1
  <2> QED
    BY <1>2, <1>3, <1>4, <1>5, <2>1
<1> QED
  BY <1>6 DEF D

(* One record less. *)
LEMMA QuantityLess ==
    ASSUME NEW z, NEW w, NEW S, IsFiniteSet(S), \A y \in S : z[y].quantity \in Int,
           NEW x \in S, \A y \in S : y # x => w[y].quantity = z[y].quantity
    PROVE  /\ QuantityOf(w, S \ {x}) = QuantityOf(z, S) - z[x].quantity
           /\ QuantityOf(z, S) \in Int
<1> DEFINE T == S \ {x}
<1>1. /\ IsFiniteSet(T) /\ T \cup {x} = S /\ x \notin T /\ z[x].quantity \in Int
      /\ \A y \in T : z[y].quantity \in Int
      /\ \A y \in T : w[y].quantity = z[y].quantity
      /\ \A y \in T : z[y].quantity = z[y].quantity
  BY FS_Subset
<1> HIDE DEF T
<1>2. /\ QuantityOf(z, T \cup {x}) = QuantityOf(z, T) + z[x].quantity
      /\ QuantityOf(z, T) \in Int
  BY <1>1, QuantityMore
<1>3. QuantityOf(w, T) = QuantityOf(z, T)
  BY <1>1, QuantitySame
<1>4. QuantityOf(w, T) = QuantityOf(z, S) - z[x].quantity /\ QuantityOf(z, S) \in Int
  <2>1. QuantityOf(z, S) = QuantityOf(z, T) + z[x].quantity
    BY <1>1, <1>2
  <2>2. z[x].quantity \in Int
    BY <1>1
  <2> QED
    BY <1>2, <1>3, <2>1, <2>2
<1> QED
  BY <1>4 DEF T

(* One record comes, goes or stays with another quantity. *)
LEMMA QuantityMoves ==
    ASSUME NEW z, NEW w, NEW S, NEW T, NEW x,
           IsFiniteSet(S), \A y \in S : z[y].quantity \in Int, w[x].quantity \in Int,
           \A y : y # x => (y \in T <=> y \in S),
           \A y \in S : y # x => w[y].quantity = z[y].quantity
    PROVE  /\ QuantityOf(w, T) = QuantityOf(z, S) + (IF x \in T THEN w[x].quantity ELSE 0)
                                                - (IF x \in S THEN z[x].quantity ELSE 0)
           /\ QuantityOf(z, S) \in Int
<1> DEFINE R == S \ {x}
<1>1. /\ IsFiniteSet(R) /\ x \notin R /\ \A y \in R : z[y].quantity \in Int
      /\ \A y \in R : w[y].quantity = z[y].quantity
  BY FS_Subset
<1>2. QuantityOf(w, R) = QuantityOf(z, R) /\ QuantityOf(z, R) \in Int
  <2>1. QuantityOf(w, R) = QuantityOf(z, R)
    <3> HIDE DEF R
    <3> QED
      BY <1>1, QuantitySame
  <2>2. QuantityOf(z, R) \in Int
    <3>1. R \in SUBSET R
      OBVIOUS
    <3> HIDE DEF R
    <3> QED
      BY <1>1, <3>1, QuantityOfPart
  <2> QED
    BY <2>1, <2>2
<1>3. x \in S => QuantityOf(z, S) = QuantityOf(z, R) + z[x].quantity /\ z[x].quantity \in Int
  <2>1. SUFFICES ASSUME x \in S
                 PROVE  QuantityOf(z, S) = QuantityOf(z, R) + z[x].quantity /\ z[x].quantity \in Int
    OBVIOUS
  <2>2. z[x].quantity \in Int /\ \A y \in S : y # x => z[y].quantity = z[y].quantity
    BY <2>1
  <2>3. QuantityOf(z, S \ {x}) = QuantityOf(z, S) - z[x].quantity /\ QuantityOf(z, S) \in Int
    BY <2>1, <2>2, QuantityLess
  <2> QED
    BY <2>2, <2>3
<1>4. x \notin S => S = R
  OBVIOUS
<1>5. x \in T => QuantityOf(w, T) = QuantityOf(z, R) + w[x].quantity
  <2>1. x \in T => T = R \cup {x}
    OBVIOUS
  <2> HIDE DEF R
  <2>2. QuantityOf(w, R \cup {x}) = QuantityOf(z, R) + w[x].quantity
    BY <1>1, QuantityMore
  <2> QED
    BY <2>1, <2>2
<1>6. x \notin T => T = R
  OBVIOUS
<1> HIDE DEF R
<1>7. x \notin S => QuantityOf(z, S) = QuantityOf(z, R)
  BY <1>4
<1>8. x \notin T => QuantityOf(w, T) = QuantityOf(z, R)
  BY <1>2, <1>6
<1> QED
  BY <1>2, <1>3, <1>5, <1>7, <1>8

LEMMA QuantityParts ==
    ASSUME NEW z, NEW S, IsFiniteSet(S), \A x \in S : z[x].quantity \in Int, NEW T \in SUBSET S
    PROVE  /\ QuantityOf(z, S) = QuantityOf(z, T) + QuantityOf(z, S \ T)
           /\ QuantityOf(z, S) \in Int /\ QuantityOf(z, T) \in Int
           /\ QuantityOf(z, S \ T) \in Int
<1>1. S \in SUBSET S /\ S \ T \in SUBSET S
  OBVIOUS
<1>2. /\ Terms(QuantityTerms(z, S), S)
      /\ QuantityOf(z, S) = Total(QuantityTerms(z, S), S)
      /\ QuantityOf(z, T) = Total(QuantityTerms(z, S), T)
      /\ QuantityOf(z, S \ T) = Total(QuantityTerms(z, S), S \ T)
  BY <1>1, QuantityOfPart
<1> QED
  BY <1>1, <1>2, TotalParts

LEMMA QuantityWithin ==
    ASSUME NEW z, NEW S, IsFiniteSet(S), \A x \in S : z[x].quantity \in Nat, NEW T \in SUBSET S
    PROVE  /\ QuantityOf(z, T) <= QuantityOf(z, S) /\ QuantityOf(z, T) \in Nat
           /\ QuantityOf(z, S) \in Nat /\ \A x \in S : z[x].quantity <= QuantityOf(z, S)
<1>1. S \in SUBSET S
  OBVIOUS
<1>2. /\ Terms(QuantityTerms(z, S), S) /\ QuantityOf(z, S) = Total(QuantityTerms(z, S), S)
      /\ QuantityOf(z, T) = Total(QuantityTerms(z, S), T)
  BY <1>1, QuantityOfPart
<1>3. \A x \in S : QuantityTerms(z, S)[x] >= 0 /\ QuantityTerms(z, S)[x] = z[x].quantity
  BY DEF QuantityTerms
<1> QED
  BY <1>1, <1>2, <1>3, TotalWithin, TotalCovers, TotalType

(* Every record of D gives up the quantities of a family of other records. *)
LEMMA QuantityDrawn ==
    ASSUME NEW z, NEW w, NEW D, IsFiniteSet(D),
           \A x \in D : z[x].quantity \in Int /\ w[x].quantity \in Int,
           NEW v, NEW S, IsFiniteSet(S), \A t \in S : v[t].quantity \in Int,
           NEW key \in [S -> D],
           \A x \in D : w[x].quantity =
               z[x].quantity - QuantityOf(v, Family(key, S, x))
    PROVE  /\ QuantityOf(w, D) = QuantityOf(z, D) - QuantityOf(v, S)
           /\ QuantityOf(w, D) \in Int /\ QuantityOf(z, D) \in Int
           /\ QuantityOf(v, S) \in Int
<1> DEFINE f == QuantityTerms(v, S)
           g == [x \in D |-> QuantityOf(v, Family(key, S, x))]
<1>1. /\ Terms(QuantityTerms(z, D), D) /\ QuantityOf(z, D) = Total(QuantityTerms(z, D), D)
      /\ Terms(QuantityTerms(w, D), D) /\ QuantityOf(w, D) = Total(QuantityTerms(w, D), D)
      /\ Terms(f, S) /\ QuantityOf(v, S) = Total(f, S)
  BY QuantityIsTotal
<1>2. ASSUME NEW x \in D
      PROVE  g[x] = Total(f, Family(key, S, x))
  <2>1. Family(key, S, x) \in SUBSET S /\ g[x] = QuantityOf(v, Family(key, S, x))
    BY DEF Family
  <2> QED
    BY <2>1, QuantityOfPart
<1>3. \A x \in D : w[x].quantity = z[x].quantity - g[x]
  OBVIOUS
<1> HIDE DEF f, g
<1>4. Terms(g, D) /\ Total(g, D) = Total(f, S)
  <2>1. Gathers(g, f, S, D, key)
    BY <1>2 DEF Gathers
  <2> QED
    BY <1>1, <2>1, TotalFamilies
<1>5. \A x \in D : QuantityTerms(z, D)[x] = QuantityTerms(w, D)[x] + g[x]
  BY <1>3, <1>4 DEF Terms, QuantityTerms
<1>6. Total(QuantityTerms(z, D), D) = Total(QuantityTerms(w, D), D) + Total(g, D)
  BY <1>1, <1>4, <1>5, TotalPlus
<1>7. /\ Total(g, D) \in Int /\ Total(QuantityTerms(w, D), D) \in Int
      /\ Total(QuantityTerms(z, D), D) \in Int
  BY <1>1, <1>4, TotalType
<1> QED
  BY <1>1, <1>4, <1>6, <1>7

-----------------------------------------------------------------------------
(* Others have an amount.                                                  *)
HeldBy(z, S) == MapThenSumSet(LAMBDA x : z[x].amount, S)
HeldTerms(z, S) == [x \in S |-> z[x].amount]

LEMMA HeldIsTotal ==
    ASSUME NEW z, NEW S, IsFiniteSet(S), \A x \in S : z[x].amount \in Nat
    PROVE  /\ Terms(HeldTerms(z, S), S) /\ HeldBy(z, S) = Total(HeldTerms(z, S), S)
           /\ HeldBy(z, S) \in Nat
<1> DEFINE f == HeldTerms(z, S)
           Eq(h) == h = [s \in SUBSET S |-> IF s = {} THEN 0
                         ELSE LET x == CHOOSE x \in s : TRUE IN z[x].amount + h[s \ {x}]]
<1>0. Terms(f, S) /\ \A x \in S : f[x] >= 0
  BY DEF Terms, HeldTerms
<1>1. PICK g : Adds(g, f, S)
  BY <1>0, AddsExists
<1>2. Eq(g)
  BY <1>1, PickIsMember DEF Adds, Pick, HeldTerms
<1>3. Eq(CHOOSE h : Eq(h))
  <2> HIDE DEF Eq
  <2> QED
    BY <1>2
<1>4. \A h : Eq(h) => Adds(h, f, S)
  BY PickIsMember DEF Adds, Pick, HeldTerms
<1>5. HeldBy(z, S) = (CHOOSE h : Eq(h))[S]
  BY DEF HeldBy, MapThenSumSet, MapThenFoldSet
<1> HIDE DEF Eq, f
<1>6. HeldBy(z, S) = Total(f, S)
  BY <1>0, <1>3, <1>4, <1>5, TotalIs
<1>7. HeldBy(z, S) \in Nat
  BY <1>0, <1>6, TotalType, TotalCovers
<1> QED
  BY <1>0, <1>6, <1>7 DEF f

(* One record more or less.                                                *)
LEMMA HeldTake ==
    ASSUME NEW z, NEW S, IsFiniteSet(S), \A x \in S : z[x].amount \in Nat, NEW x \in S
    PROVE  HeldBy(z, S) = z[x].amount + HeldBy(z, S \ {x})
<1>1. /\ Terms(HeldTerms(z, S), S) /\ HeldBy(z, S) = Total(HeldTerms(z, S), S)
  BY HeldIsTotal
<1>2. IsFiniteSet(S \ {x})
  BY FS_Subset
<1>3. /\ Terms(HeldTerms(z, S \ {x}), S \ {x})
      /\ HeldBy(z, S \ {x}) = Total(HeldTerms(z, S \ {x}), S \ {x})
  BY <1>2, HeldIsTotal
<1>4. Total(HeldTerms(z, S), S) = HeldTerms(z, S)[x] + Total(HeldTerms(z, S), S \ {x})
  BY <1>1, TotalTake
<1>5. Total(HeldTerms(z, S), S \ {x}) = Total(HeldTerms(z, S \ {x}), S \ {x})
  BY <1>3, TotalSame DEF HeldTerms
<1>6. HeldTerms(z, S)[x] = z[x].amount
  BY DEF HeldTerms
<1> QED
  BY <1>1, <1>3, <1>4, <1>5, <1>6

LEMMA HeldSame ==
    ASSUME NEW z, NEW w, NEW S, IsFiniteSet(S), \A x \in S : z[x].amount \in Nat,
           \A x \in S : w[x].amount = z[x].amount
    PROVE  HeldBy(w, S) = HeldBy(z, S)
<1>1. /\ Terms(HeldTerms(z, S), S) /\ HeldBy(z, S) = Total(HeldTerms(z, S), S)
      /\ Terms(HeldTerms(w, S), S) /\ HeldBy(w, S) = Total(HeldTerms(w, S), S)
  BY HeldIsTotal
<1>2. Total(HeldTerms(w, S), S) = Total(HeldTerms(z, S), S)
  BY <1>1, TotalSame DEF HeldTerms
<1> QED
  BY <1>1, <1>2

LEMMA HeldNone == ASSUME NEW z PROVE HeldBy(z, {}) = 0
BY FS_EmptySet, HeldIsTotal, TotalEmpty

(* What one record adds to a sum of amounts it may be in.                  *)
Adding(z, x, S) == IF x \in S THEN z[x].amount ELSE 0

LEMMA HeldSplit ==
    ASSUME NEW z, NEW S, IsFiniteSet(S), \A y \in S : z[y].amount \in Nat, NEW x
    PROVE  /\ HeldBy(z, S) = HeldBy(z, S \ {x}) + Adding(z, x, S)
           /\ HeldBy(z, S) \in Nat /\ HeldBy(z, S \ {x}) \in Nat /\ Adding(z, x, S) \in Nat
<1> DEFINE R == S \ {x}
<1>0. IsFiniteSet(R) /\ (x \notin S => R = S)
  BY FS_Subset
<1>1. HeldBy(z, S) \in Nat /\ HeldBy(z, R) \in Nat /\ Adding(z, x, S) \in Nat
  BY <1>0, HeldIsTotal DEF Adding
<1>2. x \in S => HeldBy(z, S) = z[x].amount + HeldBy(z, R)
  BY HeldTake
<1> HIDE DEF R
<1>3. x \notin S => HeldBy(z, S) = HeldBy(z, R)
  BY <1>0
<1>4. HeldBy(z, S) = HeldBy(z, R) + Adding(z, x, S)
  BY <1>1, <1>2, <1>3 DEF Adding
<1> QED
  BY <1>1, <1>4 DEF R

LEMMA HeldApart ==
    ASSUME NEW z, NEW S, NEW T, IsFiniteSet(S), IsFiniteSet(T), S \cap T = {},
           \A x \in S \cup T : z[x].amount \in Nat
    PROVE  HeldBy(z, S \cup T) = HeldBy(z, S) + HeldBy(z, T)
<1> DEFINE U == S \cup T
           f == [x \in U |-> IF x \in S THEN HeldTerms(z, S)[x] ELSE 0]
           g == [x \in U |-> IF x \in T THEN HeldTerms(z, T)[x] ELSE 0]
<1>0. IsFiniteSet(U)
  BY FS_Union
<1>1. /\ Terms(HeldTerms(z, S), S) /\ HeldBy(z, S) = Total(HeldTerms(z, S), S)
      /\ Terms(HeldTerms(z, T), T) /\ HeldBy(z, T) = Total(HeldTerms(z, T), T)
      /\ Terms(HeldTerms(z, U), U) /\ HeldBy(z, U) = Total(HeldTerms(z, U), U)
  BY <1>0, HeldIsTotal
<1>2. \A x \in U : /\ f[x] = IF x \in S THEN HeldTerms(z, S)[x] ELSE 0
                   /\ g[x] = IF x \in T THEN HeldTerms(z, T)[x] ELSE 0
  OBVIOUS
<1>3. \A x \in U : HeldTerms(z, U)[x] = f[x] + g[x]
  BY DEF HeldTerms
<1>4. S \in SUBSET U /\ T \in SUBSET U
  OBVIOUS
<1> HIDE DEF f, g, U
<1>5. Terms(f, U) /\ Total(f, U) = Total(HeldTerms(z, S), S)
  BY <1>0, <1>1, <1>2, <1>4, TotalOfSome
<1>6. Terms(g, U) /\ Total(g, U) = Total(HeldTerms(z, T), T)
  BY <1>0, <1>1, <1>2, <1>4, TotalOfSome
<1>7. Total(HeldTerms(z, U), U) = Total(f, U) + Total(g, U)
  BY <1>3, <1>5, <1>6, TotalPlus
<1> QED
  BY <1>1, <1>5, <1>6, <1>7 DEF U
=============================================================================
