------------------------------- MODULE Least -------------------------------
(***************************************************************************)
(* Least and greatest natural numbers, and what follows: an induction over *)
(* positions that a loop only moves forward through, and a function that   *)
(* such a loop computes.                                                   *)
(***************************************************************************)
EXTENDS Integers, FiniteSetsExt, TLAPS, WellFoundedInduction

(* Every non-empty set of natural numbers has a least element.             *)
LEMMA LeastNatural ==
    ASSUME NEW T, T \subseteq Nat, T # {}
    PROVE  \E m \in T : \A k \in T : m <= k
<1> DEFINE R == {s \in Nat \X Nat : s[1] < s[2]}
<1>1. OpToRel(<, Nat) = R
  BY DEF OpToRel
<1>2. IsWellFoundedOn(R, Nat)
  BY <1>1, NatLessThanWellFounded DEF OpToRel
<1>3. \A k, m \in Nat : <<k, m>> \notin R => m <= k
  OBVIOUS
<1> HIDE DEF R
<1>4. PICK m \in T : \A k \in T : <<k, m>> \notin R
  BY <1>2, WFMin
<1>5. QED
  BY <1>3, <1>4

(* It is what Min gives.                                                   *)
LEMMA MinIsLeast ==
    ASSUME NEW T, T \subseteq Nat, T # {}
    PROVE  Min(T) \in T /\ \A k \in T : Min(T) <= k
<1>1. PICK m \in T : \A k \in T : m <= k
  BY LeastNatural
<1>2. QED
  BY <1>1 DEF Min

(* Min gives the first number from p on that is in S, or n + 1.            *)
LEMMA FirstIn ==
    ASSUME NEW n \in Nat, NEW p \in Nat, NEW S, S \subseteq p..n
    PROVE  /\ Min(S \cup {n + 1}) \in S \cup {n + 1} /\ Min(S \cup {n + 1}) \in Nat
           /\ Min(S \cup {n + 1}) = n + 1 <=> S = {}
           /\ \A q \in p..(Min(S \cup {n + 1}) - 1) : q \notin S
<1>1. S \cup {n + 1} \subseteq Nat
  OBVIOUS
<1>2. PICK m : m = Min(S \cup {n + 1})
  OBVIOUS
<1>3. m \in S \cup {n + 1} /\ \A k \in S \cup {n + 1} : m <= k
  BY <1>1, <1>2, MinIsLeast
<1>4. m \in Nat /\ (m = n + 1 <=> S = {}) /\ \A q \in p..(m - 1) : q \notin S
  BY <1>3
<1>5. QED
  BY <1>2, <1>3, <1>4

(* A non-empty set of numbers up to n has a greatest one, which Max gives. *)
LEMMA MaxIsGreatest ==
    ASSUME NEW n \in Nat, NEW T, T \subseteq 0..n, T # {}
    PROVE  Max(T) \in T /\ \A k \in T : Max(T) >= k
<1> DEFINE D == {n - k : k \in T}
<1>1. D \subseteq Nat /\ D # {}
  OBVIOUS
<1>2. PICK d \in D : \A k \in D : d <= k
  BY <1>1, LeastNatural
<1>3. PICK m \in T : d = n - m
  OBVIOUS
<1>4. \A k \in T : m >= k
  <2>1. SUFFICES ASSUME NEW k \in T PROVE m >= k
    OBVIOUS
  <2>2. d <= n - k
    BY <1>2
  <2>3. m \in 0..n /\ k \in 0..n
    OBVIOUS
  <2>4. QED
    BY <2>2, <2>3, <1>3
<1>5. \E x \in T : \A k \in T : x >= k
  BY <1>4
<1>6. QED
  BY <1>5 DEF Max

(* What holds where a loop stops, and of a position when it holds of the   *)
(* next one, holds at every position.                                      *)
LEMMA Onwards ==
    ASSUME NEW n \in Nat, NEW next, NEW stops, NEW P,
           \A p \in 0..n : p \notin stops => next[p] \in (p + 1)..n,
           \A p \in 0..n : p \in stops => p \in P,
           \A p \in 0..n : p \notin stops /\ next[p] \in P => p \in P
    PROVE  0..n \subseteq P
<1> DEFINE B == {p \in 0..n : p \notin P}
<1>1. SUFFICES ASSUME B # {} PROVE FALSE
  OBVIOUS
<1>2. Max(B) \in B /\ \A k \in B : Max(B) >= k
  <2>1. B \subseteq 0..n
    OBVIOUS
  <2> HIDE DEF B
  <2>2. QED
    BY <1>1, <2>1, MaxIsGreatest
<1>3. PICK m \in B : \A k \in B : m >= k
  BY <1>2
<1>4. m \in 0..n /\ m \notin stops
  OBVIOUS
<1>5. next[m] \in (m + 1)..n /\ next[m] \in B
  BY <1>4
<1>6. QED
  BY <1>3, <1>4, <1>5

(* f is the function of where the loop stops: its equation, point by point.*)
Reaches(f, n, next, stops) ==
    /\ f = [p \in 0..n |-> f[p]]
    /\ \A p \in 0..n : f[p] = IF p \in stops THEN p ELSE f[next[p]]

(* There is one.                                                           *)
LEMMA WhereItStops ==
    ASSUME NEW n \in Nat, NEW next, NEW stops,
           \A p \in 0..n : p \notin stops => next[p] \in (p + 1)..n
    PROVE  \E f : Reaches(f, n, next, stops)
<1> DEFINE Good(f, k) == f = [p \in k..n |-> IF p \in stops THEN p ELSE f[next[p]]]
           P == {k \in 0..n : \E f : Good(f, k)}
           B == {k \in 0..n : k \notin P}
<1>1. n \in P
  <2> DEFINE f == [p \in n..n |-> p]
  <2>1. n \in stops
    OBVIOUS
  <2>2. n..n = {n}
    OBVIOUS
  <2>3. Good(f, n)
    BY <2>1, <2>2
  <2>4. QED
    BY <2>3
<1>2. ASSUME NEW k \in 0..n, k + 1 \in P PROVE k \in P
  <2>1. PICK f : Good(f, k + 1)
    BY <1>2
  <2> DEFINE g == [p \in k..n |-> IF p = k THEN IF k \in stops THEN k ELSE f[next[k]] ELSE f[p]]
  <2>2. \A p \in (k + 1)..n : f[p] = IF p \in stops THEN p ELSE f[next[p]]
    BY <2>1
  <2>3. \A p \in k..n : p \notin stops => next[p] \in (p + 1)..n /\ g[next[p]] = f[next[p]]
    OBVIOUS
  <2>4. \A p \in k..n : g[p] = IF p \in stops THEN p ELSE g[next[p]]
    <3>1. SUFFICES ASSUME NEW p \in k..n PROVE g[p] = IF p \in stops THEN p ELSE g[next[p]]
      OBVIOUS
    <3>2. CASE p = k
      BY <3>2, <2>3
    <3>3. CASE p # k
      <4>1. p \in (k + 1)..n
        BY <3>3
      <4>2. QED
        BY <4>1, <2>2, <2>3, <3>3
    <3>4. QED
      BY <3>2, <3>3
  <2>5. Good(g, k)
    <3> DEFINE h == [p \in k..n |-> IF p \in stops THEN p ELSE g[next[p]]]
    <3>1. DOMAIN g = k..n /\ \A p \in k..n : g[p] = h[p]
      BY <2>4
    <3>2. DOMAIN g = k..n /\ DOMAIN h = k..n
      OBVIOUS
    <3>3. g = h
      BY <3>1, <3>2
    <3>4. QED
      BY <3>3
  <2>6. QED
    BY <2>5
<1>3. SUFFICES 0 \in P
  <2>1. PICK f : f = [p \in 0..n |-> IF p \in stops THEN p ELSE f[next[p]]]
    BY <1>3
  <2>2. Reaches(f, n, next, stops)
    BY <2>1 DEF Reaches
  <2>3. QED
    BY <2>2
<1> HIDE DEF Good
<1>4. SUFFICES ASSUME B # {} PROVE FALSE
  OBVIOUS
<1>5. PICK m \in B : \A k \in B : m >= k
  <2>1. B \subseteq 0..n
    OBVIOUS
  <2> HIDE DEF B
  <2>2. QED
    BY <1>4, <2>1, MaxIsGreatest
<1>6. m \in 0..n /\ m \notin P /\ m # n
  BY <1>1
<1>7. m + 1 \in 0..n /\ m + 1 \in P
  <2>1. m + 1 \in 0..n
    BY <1>6
  <2>2. QED
    BY <2>1, <1>5, <1>6
<1>8. QED
  BY <1>2, <1>6, <1>7

(* What holds of a member of S when it holds of all of lower rank holds of *)
(* every member.                                                           *)
LEMMA ByRank ==
    ASSUME NEW S, NEW rank \in [S -> Nat], NEW P,
           \A m \in S : (\A k \in S : rank[k] < rank[m] => k \in P) => m \in P
    PROVE  S \subseteq P
<1> DEFINE B == S \ P
           T == {rank[m] : m \in B}
<1>1. SUFFICES ASSUME B # {} PROVE FALSE
  OBVIOUS
<1>2. T \subseteq Nat /\ T # {}
  BY <1>1
<1>3. PICK r \in T : \A k \in T : r <= k
  BY <1>2, LeastNatural
<1>4. PICK m \in B : rank[m] = r
  OBVIOUS
<1>5. ASSUME NEW k \in S, rank[k] < rank[m], k \notin P PROVE FALSE
  <2>1. rank[k] \in T
    BY <1>5
  <2>2. r <= rank[k] /\ rank[k] \in Nat /\ r \in Nat
    BY <2>1, <1>2, <1>3
  <2>3. QED
    BY <2>2, <1>4, <1>5
<1>6. QED
  BY <1>4, <1>5

(* step[m][f] is what a recursive definition makes of m when f is what it  *)
(* defines: it reads f at members of lower rank only.                      *)
StepsDown(S, V, b, rank, step) ==
    /\ V # {} /\ b \in Nat /\ rank \in [S -> 0..b]
    /\ step \in [S -> [[S -> V] -> V]]
    /\ \A m \in S : \A f, g \in [S -> V] :
         (\A k \in S : rank[k] < rank[m] => f[k] = g[k]) => step[m][f] = step[m][g]

Fixpoint(S, V, step, f) == f \in [S -> V] /\ \A m \in S : f[m] = step[m][f]

(* There is such a function.                                               *)
LEMMA Recursion ==
    ASSUME NEW S, NEW V, NEW b, NEW rank, NEW step, StepsDown(S, V, b, rank, step)
    PROVE  \E f : Fixpoint(S, V, step, f)
<1> DEFINE Good(f, r) == \A m \in S : rank[m] < r => f[m] = step[m][f]
           B == {r \in Nat : ~ \E f \in [S -> V] : Good(f, r)}
<1>0. /\ V # {} /\ b \in Nat /\ rank \in [S -> 0..b] /\ step \in [S -> [[S -> V] -> V]]
      /\ \A m \in S : \A f, g \in [S -> V] :
           (\A k \in S : rank[k] < rank[m] => f[k] = g[k]) => step[m][f] = step[m][g]
  BY DEF StepsDown
<1> USE <1>0
<1>1. SUFFICES ASSUME B # {} PROVE FALSE
  <2>1. b + 1 \notin B /\ b + 1 \in Nat
    <3> HIDE DEF B
    <3>1. QED
      BY <1>1
  <2>2. PICK f \in [S -> V] : Good(f, b + 1)
    BY <2>1
  <2>3. \A m \in S : rank[m] < b + 1
    OBVIOUS
  <2>4. QED
    BY <2>2, <2>3 DEF Fixpoint
<1>2. PICK r \in B : \A k \in B : r <= k
  <2>1. B \subseteq Nat
    OBVIOUS
  <2> HIDE DEF B
  <2>2. QED
    BY <2>1, <1>1, LeastNatural
<1>3. r # 0
  <2>1. PICK v \in V : TRUE
    OBVIOUS
  <2> DEFINE f == [m \in S |-> v]
  <2>2. f \in [S -> V] /\ \A m \in S : ~(rank[m] < 0)
    OBVIOUS
  <2>3. Good(f, 0)
    BY <2>2
  <2> HIDE DEF f
  <2>4. QED
    BY <2>2, <2>3
<1>4. r - 1 \in Nat /\ r - 1 \notin B
  <2>1. r \in Nat
    OBVIOUS
  <2>2. r - 1 \in Nat /\ ~(r <= r - 1)
    BY <2>1, <1>3
  <2>3. QED
    BY <2>2, <1>2
<1>5. PICK f \in [S -> V] : Good(f, r - 1)
  BY <1>4
<1> DEFINE g == [m \in S |-> IF rank[m] = r - 1 THEN step[m][f] ELSE f[m]]
<1>6. g \in [S -> V]
  OBVIOUS
<1>7. ASSUME NEW m \in S, rank[m] < r PROVE g[m] = step[m][g]
  <2>1. \A k \in S : rank[k] < rank[m] => g[k] = f[k]
    BY <1>7, <1>4
  <2> HIDE DEF g
  <2>2. step[m][g] = step[m][f]
    BY <2>1, <1>6
  <2>3. CASE rank[m] = r - 1
    BY <2>2, <2>3 DEF g
  <2>4. CASE rank[m] # r - 1
    <3>1. rank[m] < r - 1
      <4>1. \A x, y \in Nat : x < y /\ x # y - 1 => x < y - 1
        OBVIOUS
      <4>2. rank[m] \in Nat /\ r \in Nat
        OBVIOUS
      <4> HIDE DEF B
      <4>3. QED
        BY <4>1, <4>2, <2>4, <1>7
    <3>2. f[m] = step[m][f]
      BY <3>1, <1>5
    <3>3. QED
      BY <2>2, <3>2, <2>4 DEF g
  <2>5. QED
    BY <2>3, <2>4
<1>8. QED
  BY <1>6, <1>7
=============================================================================
