----------------------------- MODULE Sums_proofs -----------------------------
(***************************************************************************)
(* Lemmas about sums of whole numbers over finite sets.  An induction over  *)
(* the subsets of a finite set is a search for a smallest counterexample.   *)
(***************************************************************************)
EXTENDS Integers, Functions, FiniteSetTheorems, WellFoundedInduction, TLAPS

IntOn(f, S) == \A x \in S : f[x] \in Int

\* The recursion that defines a sum over the subsets of T.
Pick(s) == CHOOSE x \in s : TRUE
SumStep(f, s, g) == IF s = {} THEN 0 ELSE f[Pick(s)] + g[s \ {Pick(s)}]
IsSum(f, T, g) == g = [s \in SUBSET T |-> SumStep(f, s, g)]
TheSum(f, T) == CHOOSE g : IsSum(f, T, g)

\* A set of subsets of a finite set has a smallest member.
LEMMA Smallest ==
    ASSUME NEW S, IsFiniteSet(S), NEW T \in SUBSET (SUBSET S), T # {}
    PROVE  \E u \in T : \A v \in T : v \subseteq u => v = u
<1>1. IsWellFoundedOn(StrictSubsetOrdering(S), FiniteSubsetsOf(S))
  BY FS_StrictSubsetOrderingWellFounded
<1>2. \A v \in T : v \in FiniteSubsetsOf(S)
  BY FS_Subset DEF FiniteSubsetsOf
<1>3. PICK u \in T : \A v \in T : <<v, u>> \notin StrictSubsetOrdering(S)
  BY <1>1, <1>2, WFMin, Zenon
<1>4. ASSUME NEW v \in T, v \subseteq u, v # u PROVE FALSE
  <2>1. v \in SUBSET S /\ u \in SUBSET S
    OBVIOUS
  <2>2. <<v, u>> \in StrictSubsetOrdering(S)
    BY <2>1, <1>4 DEF StrictSubsetOrdering
  <2> QED BY <2>2, <1>3
<1> QED BY <1>4

LEMMA PickIn == ASSUME NEW s, s # {} PROVE Pick(s) \in s
BY DEF Pick

\* Two such recursions agree on the sets both are defined for.
LEMMA SumUnique ==
    ASSUME NEW f, NEW T, NEW S \in SUBSET T, IsFiniteSet(S), NEW g, NEW h,
           IsSum(f, S, g), IsSum(f, T, h)
    PROVE  \A s \in SUBSET S : g[s] = h[s]
<1> DEFINE Bad == {s \in SUBSET S : g[s] # h[s]}
<1> SUFFICES ASSUME Bad # {} PROVE FALSE
  OBVIOUS
<1>1. PICK u \in Bad : \A v \in Bad : v \subseteq u => v = u
  <2>1. Bad \in SUBSET (SUBSET S)
    OBVIOUS
  <2> HIDE DEF Bad
  <2> QED BY <2>1, Smallest
<1>2. u \in SUBSET S /\ u \in SUBSET T
  OBVIOUS
<1>3. g[u] = SumStep(f, u, g) /\ h[u] = SumStep(f, u, h)
  <2>1. g[u] = SumStep(f, u, g)
    BY <1>2, Zenon DEF IsSum
  <2>2. h[u] = SumStep(f, u, h)
    BY <1>2, Zenon DEF IsSum
  <2> QED BY <2>1, <2>2
<1>4. CASE u = {}
  BY <1>3, <1>4 DEF SumStep
<1>5. CASE u # {}
  <2> DEFINE v == u \ {Pick(u)}
  <2>1. v \subseteq u /\ v # u
    BY <1>5, PickIn
  <2>2. v \in SUBSET S /\ v \notin Bad
    BY <2>1, <1>1
  <2>3. g[v] = h[v]
    BY <2>2
  <2> QED BY <1>3, <1>5, <2>3 DEF SumStep
<1> QED BY <1>4, <1>5

\* The recursion has a solution.
LEMMA SumExists ==
    ASSUME NEW f, NEW S, IsFiniteSet(S)
    PROVE  \A T \in SUBSET S : IsSum(f, T, TheSum(f, T))
<1> DEFINE Bad == {T \in SUBSET S : ~ \E g : IsSum(f, T, g)}
<1>0. SUFFICES Bad = {}
  <2> SUFFICES ASSUME NEW T \in SUBSET S PROVE IsSum(f, T, TheSum(f, T))
    OBVIOUS
  <2>1. \E g : IsSum(f, T, g)
    BY <1>0
  <2> QED BY <2>1, Zenon DEF TheSum
<1> SUFFICES ASSUME Bad # {} PROVE FALSE
  OBVIOUS
<1>1. PICK T \in Bad : \A v \in Bad : v \subseteq T => v = T
  <2>1. Bad \in SUBSET (SUBSET S)
    OBVIOUS
  <2> HIDE DEF Bad
  <2> QED BY <2>1, Smallest
<1>2. \A v \in SUBSET T : v # T => IsSum(f, v, TheSum(f, v)) /\ IsFiniteSet(v)
  <2> SUFFICES ASSUME NEW v \in SUBSET T, v # T
               PROVE  IsSum(f, v, TheSum(f, v)) /\ IsFiniteSet(v)
    OBVIOUS
  <2>1. v \in SUBSET S /\ v \notin Bad
    BY <1>1
  <2>2. \E g : IsSum(f, v, g)
    BY <2>1
  <2>3. IsSum(f, v, TheSum(f, v))
    BY <2>2, Zenon DEF TheSum
  <2> QED BY <2>1, <2>3, FS_Subset
<1> DEFINE val(s) == IF s = {} THEN 0
                     ELSE f[Pick(s)] + TheSum(f, s \ {Pick(s)})[s \ {Pick(s)}]
           h == [s \in SUBSET T |-> val(s)]
<1>3. ASSUME NEW v \in SUBSET T, v # T PROVE TheSum(f, v)[v] = val(v)
  <2>1. IsSum(f, v, TheSum(f, v))
    BY <1>2, <1>3
  <2>2. TheSum(f, v)[v] = SumStep(f, v, TheSum(f, v))
    BY <2>1, Zenon DEF IsSum
  <2>3. CASE v = {}
    BY <2>2, <2>3 DEF SumStep
  <2>4. CASE v # {}
    <3> DEFINE w == v \ {Pick(v)}
    <3>1. w \in SUBSET T /\ w # T /\ w \subseteq v /\ w \in SUBSET w
      BY <2>4, PickIn, <1>3
    <3>2. TheSum(f, w)[w] = TheSum(f, v)[w]
      <4>1. IsFiniteSet(w) /\ IsSum(f, w, TheSum(f, w))
        BY <3>1, <1>2
      <4>2. w \in SUBSET v /\ w \in SUBSET w
        BY <3>1
      <4> HIDE DEF w
      <4>3. \A s \in SUBSET w : TheSum(f, w)[s] = TheSum(f, v)[s]
        BY <4>1, <4>2, <2>1, SumUnique
      <4> QED BY <4>2, <4>3
    <3> QED BY <2>2, <2>4, <3>2 DEF SumStep
  <2> QED BY <2>3, <2>4
<1>4. ASSUME NEW s \in SUBSET T PROVE h[s] = SumStep(f, s, h)
  <2>1. h[s] = val(s)
    OBVIOUS
  <2>2. CASE s = {}
    BY <2>1, <2>2 DEF SumStep
  <2>3. CASE s # {}
    <3> DEFINE w == s \ {Pick(s)}
    <3>1. w \in SUBSET T /\ w # T
      BY <2>3, PickIn
    <3>2. h[w] = TheSum(f, w)[w]
      BY <3>1, <1>3, Zenon
    <3> HIDE DEF h
    <3> QED BY <2>1, <2>3, <3>2 DEF SumStep
  <2> QED BY <2>2, <2>3
<1>5. h = [s \in SUBSET T |-> SumStep(f, s, h)]
  <2>1. h = [s \in SUBSET T |-> h[s]]
    OBVIOUS
  <2> HIDE DEF h
  <2> QED BY <2>1, <1>4
<1>6. IsSum(f, T, h)
  <2> HIDE DEF h
  <2> QED BY <1>5 DEF IsSum
<1> QED BY <1>6

\* What the library defines is that recursion.
LEMMA SumIs ==
    ASSUME NEW f, NEW S
    PROVE  SumFunctionOnSet(f, S) = TheSum(f, S)[S]
BY DEF SumFunctionOnSet, FoldFunctionOnSet, MapThenFoldSet, TheSum, IsSum, SumStep, Pick

LEMMA SumAgree ==
    ASSUME NEW f, NEW S, IsFiniteSet(S), NEW v \in SUBSET S
    PROVE  TheSum(f, v)[v] = TheSum(f, S)[v]
<1>1. IsSum(f, S, TheSum(f, S)) /\ IsSum(f, v, TheSum(f, v)) /\ IsFiniteSet(v)
  BY SumExists, FS_Subset
<1>2. \A s \in SUBSET v : TheSum(f, v)[s] = TheSum(f, S)[s]
  <2>1. ASSUME NEW g, NEW h, IsSum(f, v, g), IsSum(f, S, h)
        PROVE  \A s \in SUBSET v : g[s] = h[s]
    BY <1>1, <2>1, SumUnique
  <2> QED BY <1>1, <2>1
<1> QED BY <1>2

LEMMA SumStepIs ==
    ASSUME NEW f, NEW S, IsFiniteSet(S), S # {}
    PROVE  SumFunctionOnSet(f, S) = f[Pick(S)] + SumFunctionOnSet(f, S \ {Pick(S)})
<1> DEFINE v == S \ {Pick(S)}
<1>1. v \subseteq S /\ v \in SUBSET S /\ S \in SUBSET S
  OBVIOUS
<1>2. IsSum(f, S, TheSum(f, S)) /\ IsSum(f, v, TheSum(f, v)) /\ IsFiniteSet(v)
  <2>1. IsSum(f, S, TheSum(f, S)) /\ IsSum(f, v, TheSum(f, v))
    <3> HIDE DEF v
    <3> QED BY <1>1, SumExists
  <2> QED BY <2>1, <1>1, FS_Subset
<1>3. TheSum(f, S)[S] = f[Pick(S)] + TheSum(f, S)[v]
  <2>1. TheSum(f, S)[S] = SumStep(f, S, TheSum(f, S))
    BY <1>1, <1>2, Zenon DEF IsSum
  <2> QED BY <2>1 DEF SumStep
<1>4. TheSum(f, v)[v] = TheSum(f, S)[v]
  BY SumAgree
<1> QED BY <1>3, <1>4, SumIs

LEMMA SumEmpty == ASSUME NEW f PROVE SumFunctionOnSet(f, {}) = 0
<1>1. IsSum(f, {}, TheSum(f, {}))
  BY SumExists, FS_EmptySet
<1>2. TheSum(f, {})[{}] = SumStep(f, {}, TheSum(f, {}))
  BY <1>1, Zenon DEF IsSum
<1> QED BY <1>2, SumIs DEF SumStep

\* From here on the sum is opaque.
LEMMA SumType ==
    ASSUME NEW f, NEW S, IsFiniteSet(S), IntOn(f, S)
    PROVE  SumFunctionOnSet(f, S) \in Int
<1> DEFINE Bad == {s \in SUBSET S : SumFunctionOnSet(f, s) \notin Int}
<1> SUFFICES ASSUME Bad # {} PROVE FALSE
  OBVIOUS
<1>1. PICK s \in Bad : \A v \in Bad : v \subseteq s => v = s
  <2>1. Bad \in SUBSET (SUBSET S)
    OBVIOUS
  <2> HIDE DEF Bad
  <2> QED BY <2>1, Smallest
<1>2. s # {}
  BY SumEmpty
<1>3. IsFiniteSet(s) /\ Pick(s) \in s
  BY <1>2, PickIn, FS_Subset
<1>4. SumFunctionOnSet(f, s \ {Pick(s)}) \in Int
  BY <1>1, <1>3
<1>5. f[Pick(s)] \in Int
  BY <1>3 DEF IntOn
<1> QED BY <1>2, <1>3, <1>4, <1>5, SumStepIs

\* Any element can be taken out of a sum.
LEMMA SumRemove ==
    ASSUME NEW f, NEW S, IsFiniteSet(S), IntOn(f, S), NEW x \in S
    PROVE  SumFunctionOnSet(f, S) = f[x] + SumFunctionOnSet(f, S \ {x})
<1> DEFINE Sum(s) == SumFunctionOnSet(f, s)
           Bad == {s \in SUBSET S : \E y \in s : Sum(s) # f[y] + Sum(s \ {y})}
<1> SUFFICES ASSUME Bad # {} PROVE FALSE
  OBVIOUS
<1>1. PICK s \in Bad : \A v \in Bad : v \subseteq s => v = s
  <2>1. Bad \in SUBSET (SUBSET S)
    OBVIOUS
  <2> HIDE DEF Bad
  <2> QED BY <2>1, Smallest
<1>2. PICK y \in s : Sum(s) # f[y] + Sum(s \ {y})
  OBVIOUS
<1> DEFINE z == Pick(s)
<1>3. IsFiniteSet(s) /\ z \in s /\ s \in SUBSET S /\ s # {}
  BY <1>2, PickIn, FS_Subset
<1>4. Sum(s) = f[z] + Sum(s \ {z})
  BY <1>3, SumStepIs
<1>5. z # y
  BY <1>2, <1>4
<1>6. Sum(s \ {z}) = f[y] + Sum((s \ {z}) \ {y})
  <2>1. s \ {z} \in SUBSET S /\ s \ {z} \subseteq s /\ s \ {z} # s /\ y \in s \ {z}
    BY <1>3, <1>5
  <2> QED BY <2>1, <1>1
<1>7. Sum(s \ {y}) = f[z] + Sum((s \ {y}) \ {z})
  <2>1. s \ {y} \in SUBSET S /\ s \ {y} \subseteq s /\ s \ {y} # s /\ z \in s \ {y}
    BY <1>3, <1>5
  <2> QED BY <2>1, <1>1
<1>8. (s \ {y}) \ {z} = (s \ {z}) \ {y}
  OBVIOUS
<1>9. f[y] \in Int /\ f[z] \in Int /\ Sum((s \ {y}) \ {z}) \in Int
  <2>1. f[y] \in Int /\ f[z] \in Int
    BY <1>3 DEF IntOn
  <2>2. IsFiniteSet((s \ {y}) \ {z}) /\ IntOn(f, (s \ {y}) \ {z})
    BY <1>3, FS_Subset DEF IntOn
  <2> QED BY <2>1, <2>2, SumType
<1>10. Sum(s) = f[y] + Sum(s \ {y})
  <2> DEFINE u == (s \ {y}) \ {z}
  <2>1. Sum(s \ {z}) = f[y] + Sum(u) /\ Sum(s \ {y}) = f[z] + Sum(u)
    BY <1>6, <1>7, <1>8
  <2>2. Sum(s) = f[z] + (f[y] + Sum(u))
    BY <1>4, <2>1
  <2> HIDE DEF Sum, z, u
  <2> QED BY <1>9, <2>1, <2>2 DEF u
<1> QED BY <1>2, <1>10

\* A sum grows with its terms.
LEMMA SumMonotone ==
    ASSUME NEW f, NEW g, NEW S, IsFiniteSet(S), IntOn(f, S), IntOn(g, S),
           \A x \in S : f[x] <= g[x]
    PROVE  SumFunctionOnSet(f, S) <= SumFunctionOnSet(g, S)
<1> DEFINE F(s) == SumFunctionOnSet(f, s)
           G(s) == SumFunctionOnSet(g, s)
           Bad == {s \in SUBSET S : ~ (F(s) <= G(s))}
<1> SUFFICES ASSUME Bad # {} PROVE FALSE
  OBVIOUS
<1>1. PICK s \in Bad : \A v \in Bad : v \subseteq s => v = s
  <2>1. Bad \in SUBSET (SUBSET S)
    OBVIOUS
  <2> HIDE DEF Bad
  <2> QED BY <2>1, Smallest
<1>2. s # {}
  BY SumEmpty
<1>3. PICK z \in s : TRUE
  BY <1>2
<1> DEFINE v == s \ {z}
<1>4. /\ IsFiniteSet(s) /\ IsFiniteSet(v)
      /\ IntOn(f, s) /\ IntOn(g, s) /\ IntOn(f, v) /\ IntOn(g, v)
  BY <1>3, FS_Subset DEF IntOn
<1>5. F(s) = f[z] + F(v) /\ G(s) = g[z] + G(v)
  BY <1>4, SumRemove
<1>6. F(v) <= G(v)
  <2>1. v \in SUBSET S /\ v \subseteq s /\ v # s
    OBVIOUS
  <2> QED BY <2>1, <1>1
<1>7. f[z] \in Int /\ g[z] \in Int /\ f[z] <= g[z] /\ F(v) \in Int /\ G(v) \in Int
  BY <1>4, SumType DEF IntOn
<1>8. F(s) <= G(s)
  <2> HIDE DEF F, G, v
  <2> QED BY <1>5, <1>6, <1>7
<1> QED BY <1>8

\* A sum depends on the terms in its set only.
LEMMA SumSame ==
    ASSUME NEW f, NEW g, NEW S, IsFiniteSet(S), IntOn(f, S), \A x \in S : f[x] = g[x]
    PROVE  SumFunctionOnSet(f, S) = SumFunctionOnSet(g, S)
<1>1. IntOn(g, S) /\ (\A x \in S : f[x] <= g[x]) /\ (\A x \in S : g[x] <= f[x])
  BY DEF IntOn
<1>2. SumFunctionOnSet(f, S) <= SumFunctionOnSet(g, S)
  BY <1>1, SumMonotone
<1>3. SumFunctionOnSet(g, S) <= SumFunctionOnSet(f, S)
  BY <1>1, SumMonotone
<1>4. SumFunctionOnSet(f, S) \in Int /\ SumFunctionOnSet(g, S) \in Int
  BY <1>1, SumType
<1> QED BY <1>2, <1>3, <1>4

\* A sum of zeros is zero, and one of no negative terms is not negative.
LEMMA SumZero ==
    ASSUME NEW f, NEW S, IsFiniteSet(S), \A x \in S : f[x] = 0
    PROVE  SumFunctionOnSet(f, S) = 0
<1> DEFINE Bad == {s \in SUBSET S : SumFunctionOnSet(f, s) # 0}
<1> SUFFICES ASSUME Bad # {} PROVE FALSE
  OBVIOUS
<1>1. PICK s \in Bad : \A v \in Bad : v \subseteq s => v = s
  <2>1. Bad \in SUBSET (SUBSET S)
    OBVIOUS
  <2> HIDE DEF Bad
  <2> QED BY <2>1, Smallest
<1>2. s # {}
  BY SumEmpty
<1>3. IsFiniteSet(s) /\ Pick(s) \in s
  BY <1>2, PickIn, FS_Subset
<1>4. SumFunctionOnSet(f, s \ {Pick(s)}) = 0
  BY <1>1, <1>3
<1> QED BY <1>2, <1>3, <1>4, SumStepIs

LEMMA SumNat ==
    ASSUME NEW f, NEW S, IsFiniteSet(S), \A x \in S : f[x] \in Nat
    PROVE  SumFunctionOnSet(f, S) \in Nat
<1> DEFINE zero == [x \in S |-> 0]
<1>1. IntOn(f, S) /\ IntOn(zero, S) /\ \A x \in S : zero[x] <= f[x]
  BY DEF IntOn
<1>2. SumFunctionOnSet(zero, S) = 0
  BY SumZero
<1>3. SumFunctionOnSet(zero, S) <= SumFunctionOnSet(f, S)
  <2> HIDE DEF zero
  <2> QED BY <1>1, SumMonotone
<1> QED BY <1>1, <1>2, <1>3, SumType

\* The sum when one term changes.
LEMMA SumAt ==
    ASSUME NEW f, NEW g, NEW S, IsFiniteSet(S), IntOn(f, S), IntOn(g, S), NEW x \in S,
           \A y \in S \ {x} : f[y] = g[y]
    PROVE  SumFunctionOnSet(g, S) = SumFunctionOnSet(f, S) + (g[x] - f[x])
<1> DEFINE v == S \ {x}
<1>1. IsFiniteSet(v) /\ IntOn(f, v) /\ IntOn(g, v) /\ f[x] \in Int /\ g[x] \in Int
  BY FS_Subset DEF IntOn
<1>2. /\ SumFunctionOnSet(f, S) = f[x] + SumFunctionOnSet(f, v)
      /\ SumFunctionOnSet(g, S) = g[x] + SumFunctionOnSet(g, v)
  BY SumRemove
<1>3. SumFunctionOnSet(f, v) = SumFunctionOnSet(g, v) /\ SumFunctionOnSet(f, v) \in Int
  <2> HIDE DEF v
  <2> QED BY <1>1, SumSame, SumType DEF v
<1> HIDE DEF v
<1> QED BY <1>1, <1>2, <1>3

\* The part of a sum is not more than the whole, if no term is negative.
LEMMA SumPart ==
    ASSUME NEW f, NEW S, IsFiniteSet(S), \A x \in S : f[x] \in Nat, NEW T \in SUBSET S
    PROVE  SumFunctionOnSet(f, T) <= SumFunctionOnSet(f, S)
<1> DEFINE F(s) == SumFunctionOnSet(f, s)
           Bad == {s \in SUBSET S : \E t \in SUBSET s : ~ (F(t) <= F(s))}
<1> SUFFICES ASSUME Bad # {} PROVE FALSE
  OBVIOUS
<1>1. PICK s \in Bad : \A v \in Bad : v \subseteq s => v = s
  <2>1. Bad \in SUBSET (SUBSET S)
    OBVIOUS
  <2> HIDE DEF Bad
  <2> QED BY <2>1, Smallest
<1>2. PICK t \in SUBSET s : ~ (F(t) <= F(s))
  OBVIOUS
<1>3. IntOn(f, s) /\ IsFiniteSet(s) /\ F(s) \in Int
  BY FS_Subset, SumType DEF IntOn
<1>4. PICK z \in s : z \notin t
  BY <1>2, <1>3
<1> DEFINE v == s \ {z}
<1>5. F(t) <= F(v)
  <2>1. v \in SUBSET S /\ v \subseteq s /\ v # s /\ t \in SUBSET v
    BY <1>4
  <2> QED BY <2>1, <1>1
<1>6. F(s) = f[z] + F(v)
  BY <1>3, SumRemove
<1>7. IntOn(f, t) /\ IsFiniteSet(t) /\ IntOn(f, v) /\ IsFiniteSet(v)
  BY <1>3, FS_Subset DEF IntOn
<1>8. F(t) \in Int /\ F(v) \in Int /\ f[z] \in Nat
  BY <1>7, SumType
<1> HIDE DEF F, v
<1>9. F(t) <= F(s)
  BY <1>5, <1>6, <1>8
<1> QED BY <1>2, <1>9

\* The sum of term by term sums.
LEMMA SumPlus ==
    ASSUME NEW f, NEW g, NEW h, NEW S, IsFiniteSet(S), IntOn(f, S), IntOn(g, S),
           \A x \in S : h[x] = f[x] + g[x]
    PROVE  SumFunctionOnSet(h, S) = SumFunctionOnSet(f, S) + SumFunctionOnSet(g, S)
<1> DEFINE F(s) == SumFunctionOnSet(f, s)
           G(s) == SumFunctionOnSet(g, s)
           H(s) == SumFunctionOnSet(h, s)
           Bad == {s \in SUBSET S : H(s) # F(s) + G(s)}
<1> SUFFICES ASSUME Bad # {} PROVE FALSE
  OBVIOUS
<1>1. PICK s \in Bad : \A v \in Bad : v \subseteq s => v = s
  <2>1. Bad \in SUBSET (SUBSET S)
    OBVIOUS
  <2> HIDE DEF Bad
  <2> QED BY <2>1, Smallest
<1>2. s # {}
  BY SumEmpty
<1>3. PICK z \in s : TRUE
  BY <1>2
<1> DEFINE v == s \ {z}
<1>4. /\ IsFiniteSet(s) /\ IsFiniteSet(v) /\ IntOn(h, s)
      /\ IntOn(f, s) /\ IntOn(g, s) /\ IntOn(f, v) /\ IntOn(g, v)
  BY <1>3, FS_Subset DEF IntOn
<1>5. F(s) = f[z] + F(v) /\ G(s) = g[z] + G(v) /\ H(s) = h[z] + H(v)
  BY <1>4, SumRemove
<1>6. H(v) = F(v) + G(v)
  <2>1. v \in SUBSET S /\ v \subseteq s /\ v # s
    OBVIOUS
  <2> QED BY <2>1, <1>1
<1>7. f[z] \in Int /\ g[z] \in Int /\ h[z] = f[z] + g[z] /\ F(v) \in Int /\ G(v) \in Int
  BY <1>4, SumType DEF IntOn
<1>8. H(s) = F(s) + G(s)
  <2> HIDE DEF F, G, H, v
  <2> QED BY <1>5, <1>6, <1>7
<1> QED BY <1>8

\* A factor of all terms is one of the sum.
LEMMA SumTimes ==
    ASSUME NEW c \in Int, NEW f, NEW h, NEW S, IsFiniteSet(S), IntOn(f, S),
           \A x \in S : h[x] = c * f[x]
    PROVE  SumFunctionOnSet(h, S) = c * SumFunctionOnSet(f, S)
<1> DEFINE F(s) == SumFunctionOnSet(f, s)
           H(s) == SumFunctionOnSet(h, s)
           Bad == {s \in SUBSET S : H(s) # c * F(s)}
<1> SUFFICES ASSUME Bad # {} PROVE FALSE
  OBVIOUS
<1>1. PICK s \in Bad : \A v \in Bad : v \subseteq s => v = s
  <2>1. Bad \in SUBSET (SUBSET S)
    OBVIOUS
  <2> HIDE DEF Bad
  <2> QED BY <2>1, Smallest
<1>2. s # {}
  <2>1. F({}) = 0 /\ H({}) = 0 /\ c * 0 = 0
    BY SumEmpty
  <2> HIDE DEF F, H
  <2> QED BY <2>1, <1>1
<1>3. PICK z \in s : TRUE
  BY <1>2
<1> DEFINE v == s \ {z}
<1>4. /\ IsFiniteSet(s) /\ IsFiniteSet(v) /\ IntOn(h, s)
      /\ IntOn(f, s) /\ IntOn(f, v)
  BY <1>3, FS_Subset DEF IntOn
<1>5. F(s) = f[z] + F(v) /\ H(s) = h[z] + H(v)
  BY <1>4, SumRemove
<1>6. H(v) = c * F(v)
  <2>1. v \in SUBSET S /\ v \subseteq s /\ v # s
    OBVIOUS
  <2> QED BY <2>1, <1>1
<1>7. f[z] \in Int /\ h[z] = c * f[z] /\ F(v) \in Int
  BY <1>4, SumType DEF IntOn
<1>8. H(s) = c * F(s)
  <2> HIDE DEF F, H, v
  <2>1. \A a, b \in Int : c * (a + b) = c * a + c * b
    OBVIOUS
  <2> QED BY <1>5, <1>6, <1>7, <2>1
<1> QED BY <1>8
=============================================================================
