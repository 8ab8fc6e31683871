----------------------------- MODULE FiniteFolds -----------------------------
(***************************************************************************)
(* Induction over finite sets, as the least number or the smallest set     *)
(* that would refute a claim, and what the folds of the community modules  *)
(* compute with its help: MapThenSumSet adds up, whatever the order.       *)
(***************************************************************************)
EXTENDS FiniteSetsExt, FunctionTheorems, FiniteSetTheorems, WellFoundedInduction, TLAPS

\* A nonempty set of numbers has a least member.
LEMMA Least ==
    ASSUME NEW T \in SUBSET Nat, T # {}
    PROVE  \E m \in T : \A k \in T : m <= k
<1>1. PICK m \in T : \A k \in T : <<k, m>> \notin OpToRel(<, Nat)
  BY NatLessThanWellFounded, WFMin
<1>2. \A k \in T : ~(k < m)
  BY <1>1 DEF OpToRel
<1> QED BY <1>2

\* So does a family of finite sets: one none of whose members can go.
LEMMA SmallestSet ==
    ASSUME NEW S, IsFiniteSet(S), NEW F \in SUBSET (SUBSET S), F # {}
    PROVE  \E s \in F : IsFiniteSet(s) /\ \A x \in s : s \ {x} \notin F
<1> DEFINE Sizes == {Cardinality(s) : s \in F}
<1>1. \A s \in F : IsFiniteSet(s) /\ Cardinality(s) \in Nat
  BY FS_Subset, FS_CardinalityType
<1>2. Sizes \in SUBSET Nat /\ Sizes # {}
  BY <1>1
<1> HIDE DEF Sizes
<1>3. PICK m \in Sizes : \A k \in Sizes : m <= k
  BY <1>2, Least
<1>4. PICK s \in F : Cardinality(s) = m
  BY <1>3 DEF Sizes
<1>5. ASSUME NEW x \in s, s \ {x} \in F PROVE FALSE
  <2>1. Cardinality(s \ {x}) = Cardinality(s) - 1
    BY <1>1, <1>4, FS_RemoveElement
  <2>2. m <= Cardinality(s \ {x})
    BY <1>3, <1>5 DEF Sizes
  <2> QED BY <1>1, <1>4, <2>1, <2>2
<1> QED BY <1>1, <1>5

\* A finite set of numbers has a largest member, which Max finds.
LEMMA MaxIn ==
    ASSUME NEW n \in Nat, NEW S \in SUBSET (1 .. n), S # {}
    PROVE  Max(S) \in S /\ \A i \in S : i <= Max(S)
<1> DEFINE T == {n - i : i \in S}
<1>1. PICK m \in T : \A k \in T : m <= k
  BY Least, T \in SUBSET Nat, T # {}
<1>2. PICK i \in S : m = n - i
  BY <1>1
<1>3. ASSUME NEW k \in S PROVE k <= i
  <2>1. m <= n - k
    BY <1>1
  <2> QED BY <1>2, <2>1
<1> QED BY <1>2, <1>3 DEF Max

\* A set of numbers and its last member: what a fold over a sequence goes by.
LEMMA LastOf ==
    ASSUME NEW n \in Nat, NEW S \in SUBSET (1 .. n), S # {}
    PROVE  \E x \in S : /\ x = Max(S) /\ x \in Nat
                        /\ S \ {x} \in SUBSET Nat /\ IsFiniteSet(S \ {x})
                        /\ \A i \in S \ {x} : i < x
                        /\ S = (S \ {x}) \cup {x}
<1>1. PICK x : x = Max(S)
  OBVIOUS
<1>2. x \in S /\ \A i \in S : i <= x
  BY <1>1, MaxIn
<1>3. IsFiniteSet(1 .. n)
  BY FS_Interval
<1>4. IsFiniteSet(S \ {x})
  BY <1>3, FS_Subset
<1>5. S \in SUBSET Nat
  OBVIOUS
<1>6. \A i \in S \ {x} : i < x
  BY <1>2, <1>5
<1> QED BY <1>1, <1>2, <1>4, <1>5, <1>6

\* Two functions that go on from the last member in the same way agree.
LEMMA FoldsAgree ==
    ASSUME NEW n \in Nat, NEW g, NEW h, g[{}] = h[{}],
           \A S \in SUBSET (1 .. n) :
              S # {} /\ g[S \ {Max(S)}] = h[S \ {Max(S)}] => g[S] = h[S]
    PROVE  g[1 .. n] = h[1 .. n]
<1> DEFINE F == {S \in SUBSET (1 .. n) : g[S] # h[S]}
<1> SUFFICES F = {}
  OBVIOUS
<1> SUFFICES ASSUME F # {} PROVE FALSE
  OBVIOUS
<1>1. IsFiniteSet(1 .. n) /\ F \in SUBSET (SUBSET (1 .. n))
  BY FS_Interval
<1> HIDE DEF F
<1>2. PICK S \in F : \A x \in S : S \ {x} \notin F
  BY <1>1, SmallestSet
<1>3. S \in SUBSET (1 .. n) /\ g[S] # h[S]
  BY <1>2 DEF F
<1>4. PICK x \in S : x = Max(S)
  BY <1>3, LastOf
<1>5. g[S \ {x}] = h[S \ {x}]
  BY <1>2, <1>3 DEF F
<1> QED BY <1>3, <1>4, <1>5

\* Moving a set of numbers does not change its size.
LEMMA ShiftedSize ==
    ASSUME NEW A \in SUBSET Nat, IsFiniteSet(A), NEW k \in Nat
    PROVE  Cardinality({i + k : i \in A}) = Cardinality(A)
<1> DEFINE B == {i + k : i \in A}
           f == [i \in A |-> i + k]
<1>1. f \in Bijection(A, B)
  <2>1. f \in [A -> B] /\ \A b \in B : \E i \in A : f[i] = b
    OBVIOUS
  <2>2. \A i, j \in A : f[i] = f[j] => i = j
    OBVIOUS
  <2> QED BY <2>1, <2>2, Fun_IsBij
<1>2. ExistsBijection(A, B)
  BY <1>1 DEF ExistsBijection
<1> QED BY <1>2, FS_Bijection

-----------------------------------------------------------------------------
(* Sums.                                                                   *)

AnyOf(S) == CHOOSE x \in S : TRUE

\* g adds up f over every subset of S.
AddsUp(g, f, S) ==
    g = [s \in SUBSET S |-> IF s = {} THEN 0 ELSE f[AnyOf(s)] + g[s \ {AnyOf(s)}]]

\* What MapThenSumSet computes.
Total(f, S) == (CHOOSE g : AddsUp(g, f, S))[S]

LEMMA AnyOfIn == ASSUME NEW S, S # {} PROVE AnyOf(S) \in S
BY DEF AnyOf

\* Two such functions agree where both are defined.
LEMMA AddsUpAgree ==
    ASSUME NEW S, NEW T, NEW U, IsFiniteSet(U), U \subseteq S, U \subseteq T,
           NEW f, NEW g, NEW h, AddsUp(g, f, S), AddsUp(h, f, T)
    PROVE  g[U] = h[U]
<1> DEFINE F == {s \in SUBSET U : g[s] # h[s]}
<1> SUFFICES ASSUME F # {} PROVE FALSE
  OBVIOUS
<1>1. F \in SUBSET (SUBSET U)
  OBVIOUS
<1>2. PICK s \in F : \A x \in s : s \ {x} \notin F
  BY <1>1, SmallestSet
<1> DEFINE x == AnyOf(s)
<1>3. s # {}
  BY DEF AddsUp
<1>4. x \in s
  BY <1>3, AnyOfIn
<1>5. g[s \ {x}] = h[s \ {x}]
  BY <1>2, <1>4
<1>6. g[s] = f[x] + g[s \ {x}] /\ h[s] = f[x] + h[s \ {x}]
  BY <1>3 DEF AddsUp
<1> QED BY <1>5, <1>6

\* There is one for every finite set, so that TLA+'s CHOOSE finds it.
LEMMA AddsUpExists ==
    ASSUME NEW S, IsFiniteSet(S), NEW f
    PROVE  \E g : AddsUp(g, f, S)
<1> DEFINE F == {s \in SUBSET S : ~\E g : AddsUp(g, f, s)}
<1> SUFFICES ASSUME F # {} PROVE FALSE
  OBVIOUS
<1>1. PICK s \in F : IsFiniteSet(s) /\ \A x \in s : s \ {x} \notin F
  BY SmallestSet, F \in SUBSET (SUBSET S)
<1> DEFINE x == AnyOf(s)
<1>2. s # {}
  <2> DEFINE g == [t \in SUBSET {} |-> 0]
  <2>1. AddsUp(g, f, {})
    BY DEF AddsUp
  <2> HIDE DEF g
  <2> QED BY <2>1
<1>3. x \in s
  BY <1>2, AnyOfIn
<1>4. \A y \in s : \E g : AddsUp(g, f, s \ {y})
  BY <1>1
<1> DEFINE G(y) == CHOOSE g : AddsUp(g, f, s \ {y})
<1>5. \A y \in s : AddsUp(G(y), f, s \ {y})
  BY <1>4
<1> HIDE DEF G
<1> DEFINE g == [t \in SUBSET s |-> IF t = {} THEN 0
                  ELSE f[AnyOf(t)] + G(AnyOf(t))[t \ {AnyOf(t)}]]
<1>6. ASSUME NEW y \in s, NEW t \in SUBSET (s \ {y})
      PROVE  g[t] = G(y)[t]
  <2>1. CASE t = {}
    BY <1>5, <2>1 DEF AddsUp
  <2>2. CASE t # {}
    <3> DEFINE z == AnyOf(t)
    <3>1. z \in t
      BY <2>2, AnyOfIn
    <3>2. G(y)[t] = f[z] + G(y)[t \ {z}]
      BY <1>5, <2>2 DEF AddsUp
    <3>3. g[t] = f[z] + G(z)[t \ {z}]
      BY <2>2
    <3>4. G(z)[t \ {z}] = G(y)[t \ {z}]
      <4> DEFINE u == t \ {z}
      <4>1. IsFiniteSet(u) /\ u \subseteq s \ {z} /\ u \subseteq s \ {y}
        BY <1>1, FS_Subset
      <4>2. AddsUp(G(z), f, s \ {z}) /\ AddsUp(G(y), f, s \ {y})
        BY <1>5, <3>1
      <4> HIDE DEF g, u, z
      <4>3. G(z)[u] = G(y)[u]
        BY <4>1, <4>2, AddsUpAgree
      <4> QED BY <4>3 DEF u
    <3> QED BY <3>2, <3>3, <3>4
  <2> QED BY <2>1, <2>2
<1>7. AddsUp(g, f, s)
  <2>1. ASSUME NEW t \in SUBSET s, t # {}
        PROVE  g[t] = f[AnyOf(t)] + g[t \ {AnyOf(t)}]
    <3>1. AnyOf(t) \in s
      BY <2>1, AnyOfIn
    <3>2. g[t \ {AnyOf(t)}] = G(AnyOf(t))[t \ {AnyOf(t)}]
      BY <1>6, <3>1
    <3> QED BY <2>1, <3>2
  <2> QED BY <2>1 DEF AddsUp
<1> QED BY <1>7

\* One step of the sum.
LEMMA TotalStep ==
    ASSUME NEW S, IsFiniteSet(S), NEW f
    PROVE  Total(f, S) = IF S = {} THEN 0
                         ELSE f[AnyOf(S)] + Total(f, S \ {AnyOf(S)})
<1> DEFINE g == CHOOSE g : AddsUp(g, f, S)
<1>1. AddsUp(g, f, S)
  BY AddsUpExists
<1> HIDE DEF g
<1>2. Total(f, S) = g[S]
  BY DEF Total, g
<1>3. CASE S = {}
  BY <1>1, <1>2, <1>3 DEF AddsUp
<1>4. CASE S # {}
  <2> DEFINE R == S \ {AnyOf(S)}
             h == CHOOSE h : AddsUp(h, f, R)
  <2>1. IsFiniteSet(R)
    BY FS_Subset
  <2>2. AddsUp(h, f, R)
    BY <2>1, AddsUpExists
  <2>3. Total(f, R) = h[R]
    BY DEF Total
  <2> HIDE DEF h
  <2>4. g[R] = h[R]
    BY <1>1, <2>1, <2>2, AddsUpAgree
  <2>5. g[S] = f[AnyOf(S)] + g[R]
    BY <1>1, <1>4 DEF AddsUp
  <2> QED BY <1>2, <1>4, <2>3, <2>4, <2>5
<1> QED BY <1>3, <1>4

\* Only what is added matters to the sum.
LEMMA TotalAgree ==
    ASSUME NEW S, IsFiniteSet(S), NEW f, NEW e, \A x \in S : f[x] = e[x]
    PROVE  Total(f, S) = Total(e, S)
<1> DEFINE g == CHOOSE g : AddsUp(g, f, S)
           h == CHOOSE h : AddsUp(h, e, S)
<1>1. AddsUp(g, f, S) /\ AddsUp(h, e, S)
  BY AddsUpExists
<1>2. Total(f, S) = g[S] /\ Total(e, S) = h[S]
  BY DEF Total
<1> HIDE DEF g, h
<1>3. AddsUp(h, f, S)
  <2>1. \A s \in SUBSET S : s # {} => f[AnyOf(s)] = e[AnyOf(s)]
    BY AnyOfIn
  <2> QED BY <1>1, <2>1 DEF AddsUp
<1>4. g[S] = h[S]
  BY <1>1, <1>3, AddsUpAgree
<1> QED BY <1>2, <1>4

\* A sum of numbers is a number.
LEMMA TotalType ==
    ASSUME NEW S, IsFiniteSet(S), NEW f, \A x \in S : f[x] \in Nat
    PROVE  Total(f, S) \in Nat
<1> DEFINE F == {s \in SUBSET S : Total(f, s) \notin Nat}
<1> SUFFICES ASSUME F # {} PROVE FALSE
  OBVIOUS
<1>1. PICK s \in F : IsFiniteSet(s) /\ \A x \in s : s \ {x} \notin F
  BY SmallestSet, F \in SUBSET (SUBSET S)
<1> HIDE DEF F
<1>0. Total(f, s) \notin Nat /\ s \subseteq S
  BY <1>1 DEF F
<1>2. s # {}
  <2>1. Total(f, s) = 0 \/ s # {}
    BY <1>1, TotalStep
  <2> QED BY <1>0, <2>1
<1>3. AnyOf(s) \in s
  BY <1>2, AnyOfIn
<1>4. Total(f, s \ {AnyOf(s)}) \in Nat
  BY <1>0, <1>1, <1>3 DEF F
<1>5. Total(f, s) = f[AnyOf(s)] + Total(f, s \ {AnyOf(s)})
  BY <1>1, <1>2, TotalStep
<1> QED BY <1>0, <1>3, <1>4, <1>5

\* Any element may be taken out of the sum first.
LEMMA TotalRemove ==
    ASSUME NEW S, IsFiniteSet(S), NEW f, \A y \in S : f[y] \in Nat, NEW a \in S
    PROVE  Total(f, S) = f[a] + Total(f, S \ {a})
<1> DEFINE F == {s \in SUBSET S : \E x \in s : Total(f, s) # f[x] + Total(f, s \ {x})}
<1> SUFFICES ASSUME F # {} PROVE FALSE
  OBVIOUS
<1>1. PICK s \in F : IsFiniteSet(s) /\ \A x \in s : s \ {x} \notin F
  BY SmallestSet, F \in SUBSET (SUBSET S)
<1>2. PICK x \in s : Total(f, s) # f[x] + Total(f, s \ {x})
  BY <1>1
<1> DEFINE y == AnyOf(s)
           r == (s \ {x}) \ {y}
<1>3. y \in s /\ Total(f, s) = f[y] + Total(f, s \ {y})
  BY <1>1, <1>2, AnyOfIn, TotalStep
<1>4. x # y
  BY <1>2, <1>3
<1>5. Total(f, s \ {y}) = f[x] + Total(f, r)
  <2>1. s \ {y} \notin F /\ x \in s \ {y} /\ (s \ {y}) \ {x} = r
    BY <1>1, <1>3, <1>4
  <2> QED BY <2>1
<1>6. Total(f, s \ {x}) = f[y] + Total(f, r)
  <2>1. s \ {x} \notin F /\ y \in s \ {x}
    BY <1>1, <1>3, <1>4
  <2> QED BY <2>1
<1>7. Total(f, r) \in Nat /\ f[x] \in Nat /\ f[y] \in Nat
  BY <1>1, <1>3, TotalType, FS_Subset
<1> HIDE DEF y, r, F
<1> QED BY <1>2, <1>3, <1>5, <1>6, <1>7
=============================================================================
