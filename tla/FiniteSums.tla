----------------------------- MODULE FiniteSums -----------------------------
(***************************************************************************)
(* Sums over finite sets.  The library defines them by a recursion that    *)
(* takes one chosen element after the other; here is what follows from it  *)
(* for every finite set: it has a solution, the elements may be taken in   *)
(* any order, and how a sum changes with its set and with its terms.  The  *)
(* induction is by a minimal counterexample.                               *)
(***************************************************************************)
EXTENDS Integers, FiniteSetTheorems, WellFoundedInduction, TLAPS

\* The recursion of the library's sums, and the sum of the values of a function.
Solves(g, f, S) ==
    g = [s \in SUBSET S |-> IF s = {} THEN 0
                            ELSE f[CHOOSE x \in s : TRUE] + g[s \ {CHOOSE x \in s : TRUE}]]
Total(f, S) == (CHOOSE g : Solves(g, f, S))[S]

\* Among subsets of a finite set some are minimal: what fails, fails first somewhere.
LEMMA SomeMinimal ==
  ASSUME NEW S, IsFiniteSet(S), NEW T, T \subseteq SUBSET S, T # {}
  PROVE  \E m \in T : \A u \in T : u \subseteq m => u = m
<1>1. IsWellFoundedOn(StrictSubsetOrdering(S), SUBSET S)
  BY FS_StrictSubsetOrderingWellFounded, FS_FiniteSubsetsOfFinite
<1>2. \E m \in T : \A u \in T : <<u, m>> \notin StrictSubsetOrdering(S)
  BY <1>1, WFMin
<1> QED BY <1>2 DEF StrictSubsetOrdering

\* Two functions that solve the recursion agree where both do.
LEMMA SameSum ==
  ASSUME NEW f, NEW A, NEW B, NEW g, NEW h, Solves(g, f, A), Solves(h, f, B),
         NEW s \in SUBSET A, s \subseteq B, IsFiniteSet(s)
  PROVE  g[s] = h[s]
<1> DEFINE T == {u \in SUBSET s : g[u] # h[u]}
<1>1. SUFFICES ASSUME T # {} PROVE FALSE
  OBVIOUS
<1>2. PICK m \in T : \A u \in T : u \subseteq m => u = m
  <2>1. T \subseteq SUBSET s
    OBVIOUS
  <2> HIDE DEF T
  <2> QED BY <1>1, <2>1, SomeMinimal
<1> DEFINE x == CHOOSE y \in m : TRUE
<1>3. \A u \in SUBSET s : /\ g[u] = IF u = {} THEN 0 ELSE f[CHOOSE y \in u : TRUE] + g[u \ {CHOOSE y \in u : TRUE}]
                          /\ h[u] = IF u = {} THEN 0 ELSE f[CHOOSE y \in u : TRUE] + h[u \ {CHOOSE y \in u : TRUE}]
  BY DEF Solves
<1>4. m # {} /\ x \in m
  BY <1>2, <1>3
<1>5. g[m \ {x}] = h[m \ {x}]
  BY <1>2, <1>4
<1> QED BY <1>2, <1>3, <1>4, <1>5

LEMMA SumExists ==
  ASSUME NEW f, NEW S, IsFiniteSet(S)
  PROVE  \E g : Solves(g, f, S)
<1> DEFINE T == {s \in SUBSET S : \A g : ~Solves(g, f, s)}
<1>1. SUFFICES ASSUME T # {} PROVE FALSE
  OBVIOUS
<1>2. PICK m \in T : \A u \in T : u \subseteq m => u = m
  <2>1. T \subseteq SUBSET S
    OBVIOUS
  <2> HIDE DEF T
  <2> QED BY <1>1, <2>1, SomeMinimal
<1> DEFINE G(u) == CHOOSE g : Solves(g, f, u)
           first(u) == CHOOSE x \in u : TRUE
           rest(u) == u \ {first(u)}
           h == [u \in SUBSET m |-> IF u = {} THEN 0 ELSE f[first(u)] + G(rest(u))[rest(u)]]
<1>3. \A u \in SUBSET m : u # m => Solves(G(u), f, u)
  BY <1>2
<1>4. ASSUME NEW u \in SUBSET m, u # {} PROVE h[rest(u)] = G(rest(u))[rest(u)]
  <2> DEFINE v == rest(u)
  <2>1. v \in SUBSET m /\ v # m
    BY <1>4
  <2>2. Solves(G(v), f, v)
    BY <2>1, <1>3
  <2>3. G(v)[v] = IF v = {} THEN 0 ELSE f[first(v)] + G(v)[rest(v)]
    <3> HIDE DEF G, v
    <3> QED BY <2>2 DEF Solves
  <2>4. CASE v = {}
    BY <2>1, <2>3, <2>4
  <2>5. CASE v # {}
    <3> DEFINE w == rest(v)
    <3>1. w \in SUBSET v /\ w \in SUBSET m /\ w # m /\ IsFiniteSet(w)
      BY <2>1, <2>5, <1>2, FS_Subset
    <3>2. Solves(G(w), f, w)
      BY <3>1, <1>3
    <3>3. G(v)[w] = G(w)[w]
      <4> HIDE DEF G, v, w
      <4> QED BY <2>2, <3>1, <3>2, SameSum
    <3>4. h[v] = f[first(v)] + G(w)[w]
      BY <2>1, <2>5
    <3> QED BY <2>3, <2>5, <3>3, <3>4
  <2> QED BY <2>4, <2>5
<1>5. Solves(h, f, m)
  <2>1. \A u \in SUBSET m : h[u] = IF u = {} THEN 0 ELSE f[first(u)] + G(rest(u))[rest(u)]
    BY DEF Solves
  <2>2. \A u \in SUBSET m : h[u] = IF u = {} THEN 0 ELSE f[first(u)] + h[rest(u)]
    <3> HIDE DEF G, h, first, rest
    <3> QED BY <1>4, <2>1
  <2>3. h = [u \in SUBSET m |-> h[u]]
    OBVIOUS
  <2> HIDE DEF G, h
  <2> QED BY <2>2, <2>3 DEF Solves
<1> QED BY <1>2, <1>5

\* The sum of nothing, and of a set without the element that the recursion takes first.
LEMMA SumIs ==
  ASSUME NEW f, NEW S, IsFiniteSet(S)
  PROVE  Total(f, S) = IF S = {} THEN 0
                       ELSE f[CHOOSE x \in S : TRUE] + Total(f, S \ {CHOOSE x \in S : TRUE})
<1> DEFINE G(u) == CHOOSE g : Solves(g, f, u)
           R == S \ {CHOOSE x \in S : TRUE}
<1>1. R \in SUBSET S /\ IsFiniteSet(R)
  BY FS_Subset
<1>2. Solves(G(S), f, S) /\ Solves(G(R), f, R)
  BY <1>1, SumExists
<1>3. G(S)[R] = G(R)[R]
  <2> HIDE DEF G, R
  <2> QED BY <1>1, <1>2, SameSum
<1>4. G(S)[S] = IF S = {} THEN 0 ELSE f[CHOOSE x \in S : TRUE] + G(S)[R]
  <2> HIDE DEF G
  <2> QED BY <1>2 DEF Solves
<1> QED BY <1>3, <1>4 DEF Total

\* Whatever solves the recursion has the sum.
LEMMA SolutionIsTotal ==
  ASSUME NEW f, NEW S, IsFiniteSet(S), NEW g, Solves(g, f, S)
  PROVE  g[S] = Total(f, S)
<1> DEFINE h == CHOOSE it : Solves(it, f, S)
<1>1. Solves(h, f, S)
  BY SumExists
<1>2. g[S] = h[S]
  <2> HIDE DEF h
  <2> QED BY <1>1, SameSum
<1> QED BY <1>2 DEF Total

\* A sum of numbers is a number.
LEMMA SumIsNat ==
  ASSUME NEW f, NEW S, IsFiniteSet(S), \A x \in S : f[x] \in Nat
  PROVE  Total(f, S) \in Nat
<1> DEFINE T == {u \in SUBSET S : Total(f, u) \notin Nat}
<1>1. SUFFICES ASSUME T # {} PROVE FALSE
  OBVIOUS
<1>2. PICK m \in T : \A u \in T : u \subseteq m => u = m
  <2>1. T \subseteq SUBSET S
    OBVIOUS
  <2> HIDE DEF T
  <2> QED BY <1>1, <2>1, SomeMinimal
<1> DEFINE x == CHOOSE y \in m : TRUE
<1>3. IsFiniteSet(m)
  BY <1>2, FS_Subset
<1>4. Total(f, m) = IF m = {} THEN 0 ELSE f[x] + Total(f, m \ {x})
  BY <1>3, SumIs
<1>5. m # {} /\ x \in m
  BY <1>2, <1>4
<1>6. Total(f, m \ {x}) \in Nat
  BY <1>2, <1>5
<1> HIDE DEF x
<1> QED BY <1>2, <1>4, <1>5, <1>6

LEMMA SumIsInt ==
  ASSUME NEW f, NEW S, IsFiniteSet(S), \A x \in S : f[x] \in Int
  PROVE  Total(f, S) \in Int
<1> DEFINE T == {u \in SUBSET S : Total(f, u) \notin Int}
<1>1. SUFFICES ASSUME T # {} PROVE FALSE
  OBVIOUS
<1>2. PICK m \in T : \A u \in T : u \subseteq m => u = m
  <2>1. T \subseteq SUBSET S
    OBVIOUS
  <2> HIDE DEF T
  <2> QED BY <1>1, <2>1, SomeMinimal
<1> DEFINE x == CHOOSE y \in m : TRUE
<1>3. IsFiniteSet(m)
  BY <1>2, FS_Subset
<1>4. Total(f, m) = IF m = {} THEN 0 ELSE f[x] + Total(f, m \ {x})
  BY <1>3, SumIs
<1>5. m # {} /\ x \in m
  BY <1>2, <1>4
<1>6. Total(f, m \ {x}) \in Int
  BY <1>2, <1>5
<1> HIDE DEF x
<1> QED BY <1>2, <1>4, <1>5, <1>6

\* Any element may be taken first.
LEMMA SumWithout ==
  ASSUME NEW f, NEW S, IsFiniteSet(S), \A x \in S : f[x] \in Int, NEW x \in S
  PROVE  Total(f, S) = f[x] + Total(f, S \ {x})
<1> DEFINE T == {u \in SUBSET S : \E y \in u : Total(f, u) # f[y] + Total(f, u \ {y})}
<1>1. SUFFICES ASSUME T # {} PROVE FALSE
  OBVIOUS
<1>2. PICK m \in T : \A u \in T : u \subseteq m => u = m
  <2>1. T \subseteq SUBSET S
    OBVIOUS
  <2> HIDE DEF T
  <2> QED BY <1>1, <2>1, SomeMinimal
<1>3. PICK y \in m : Total(f, m) # f[y] + Total(f, m \ {y})
  BY <1>2
<1> DEFINE c == CHOOSE z \in m : TRUE
           p == m \ {c}
           q == m \ {y}
<1>4. /\ m \in SUBSET S /\ IsFiniteSet(m) /\ IsFiniteSet(p) /\ IsFiniteSet(q)
      /\ c \in m /\ f[c] \in Int /\ f[y] \in Int
  BY <1>2, FS_Subset
<1>5. Total(f, m) = f[c] + Total(f, p)
  BY <1>4, SumIs
<1> HIDE DEF c
<1>6. y # c
  BY <1>3, <1>5
<1>t. \A u \in SUBSET S : u \subseteq m /\ u # m =>
         \A z \in u : Total(f, u) = f[z] + Total(f, u \ {z})
  BY <1>2
<1>7. Total(f, p) = f[y] + Total(f, p \ {y})
  <2>1. p \in SUBSET S /\ p \subseteq m /\ p # m /\ y \in p
    BY <1>4, <1>6
  <2> QED BY <1>t, <2>1
<1>8. Total(f, q) = f[c] + Total(f, q \ {c})
  <2>1. q \in SUBSET S /\ q \subseteq m /\ q # m /\ c \in q
    BY <1>4, <1>6
  <2> QED BY <1>t, <2>1
<1>9. p \ {y} = q \ {c} /\ IsFiniteSet(p \ {y})
  BY <1>4, FS_Subset
<1>10. Total(f, p \ {y}) \in Int
  BY <1>2, <1>9, SumIsInt
<1>11. Total(f, m) # f[y] + Total(f, q)
  BY <1>3
<1> HIDE DEF p, q
<1>12. PICK r \in Int : Total(f, p) = f[y] + r /\ Total(f, q) = f[c] + r
  BY <1>7, <1>8, <1>9, <1>10
<1>13. f[c] \in Int /\ f[y] \in Int
  BY <1>4
<1> QED BY <1>5, <1>11, <1>12, <1>13

\* Functions that agree on a set have the same sum on it.
LEMMA SumOfEqual ==
  ASSUME NEW f, NEW g, NEW S, IsFiniteSet(S), \A x \in S : f[x] = g[x]
  PROVE  Total(f, S) = Total(g, S)
<1> DEFINE T == {u \in SUBSET S : Total(f, u) # Total(g, u)}
<1>1. SUFFICES ASSUME T # {} PROVE FALSE
  OBVIOUS
<1>2. PICK m \in T : \A u \in T : u \subseteq m => u = m
  <2>1. T \subseteq SUBSET S
    OBVIOUS
  <2> HIDE DEF T
  <2> QED BY <1>1, <2>1, SomeMinimal
<1> DEFINE x == CHOOSE y \in m : TRUE
<1>3. IsFiniteSet(m)
  BY <1>2, FS_Subset
<1>4. /\ Total(f, m) = IF m = {} THEN 0 ELSE f[x] + Total(f, m \ {x})
      /\ Total(g, m) = IF m = {} THEN 0 ELSE g[x] + Total(g, m \ {x})
  BY <1>3, SumIs
<1>5. m # {} /\ x \in m
  BY <1>2, <1>4
<1>6. Total(f, m \ {x}) = Total(g, m \ {x})
  BY <1>2, <1>5
<1> HIDE DEF x
<1> QED BY <1>2, <1>4, <1>5, <1>6

\* A sum of zeros is zero.
LEMMA SumOfZeros ==
  ASSUME NEW f, NEW S, IsFiniteSet(S), \A x \in S : f[x] = 0
  PROVE  Total(f, S) = 0
<1> DEFINE T == {u \in SUBSET S : Total(f, u) # 0}
<1>1. SUFFICES ASSUME T # {} PROVE FALSE
  OBVIOUS
<1>2. PICK m \in T : \A u \in T : u \subseteq m => u = m
  <2>1. T \subseteq SUBSET S
    OBVIOUS
  <2> HIDE DEF T
  <2> QED BY <1>1, <2>1, SomeMinimal
<1> DEFINE x == CHOOSE y \in m : TRUE
<1>3. IsFiniteSet(m)
  BY <1>2, FS_Subset
<1>4. Total(f, m) = IF m = {} THEN 0 ELSE f[x] + Total(f, m \ {x})
  BY <1>3, SumIs
<1>5. m # {} /\ x \in m
  BY <1>2, <1>4
<1>6. Total(f, m \ {x}) = 0
  BY <1>2, <1>5
<1> HIDE DEF x
<1> QED BY <1>2, <1>4, <1>5, <1>6
=============================================================================
