----------------------------- MODULE SumLemmas -----------------------------
(***************************************************************************)
(* Sums over finite sets: what SumFunctionOnSet of the community module    *)
(* Functions computes.  That operator takes the members of a set one by    *)
(* one, in the order CHOOSE picks them; the theorems below say that the    *)
(* order makes no difference, and give the rules the proofs about money    *)
(* and stock need.  Where a textbook would use induction over the set, the *)
(* proofs look at a smallest set for which the claim fails.                *)
(***************************************************************************)
EXTENDS Integers, FiniteSets, Functions, FiniteSetTheorems, TLAPS

\* The member a fold takes next, and what it computes for every subset of S.

Pick(s) == CHOOSE x \in s : TRUE
IsSum(f, S, g) == g = [s \in SUBSET S |-> IF s = {} THEN 0 ELSE f[Pick(s)] + g[s \ {Pick(s)}]]

\* The sum, as the function that the fold defines by recursion.
LEMMA SumIs ==
  ASSUME NEW f, NEW S
  PROVE SumFunctionOnSet(f, S) = (CHOOSE g : IsSum(f, S, g))[S]
BY DEF SumFunctionOnSet, FoldFunctionOnSet, MapThenFoldSet, IsSum, Pick

\* A set of subsets of a finite set has a minimal member.
LEMMA SmallestSet ==
  ASSUME NEW S, IsFiniteSet(S), NEW bad \in SUBSET SUBSET S, bad # {}
  PROVE  \E T \in bad : \A U \in SUBSET T : U # T => U \notin bad
<1>1. IsWellFoundedOn(StrictSubsetOrdering(S), SUBSET S)
  BY FS_StrictSubsetOrderingWellFounded, FS_FiniteSubsetsOfFinite
<1>2. PICK T \in bad : \A U \in bad : ~(<<U, T>> \in StrictSubsetOrdering(S))
  BY <1>1, WFMin
<1> QED
  BY <1>2 DEF StrictSubsetOrdering

\* The member picked is a member.
LEMMA PickIn == ASSUME NEW s, s # {} PROVE Pick(s) \in s
BY DEF Pick

\* One unfolding of that recursion.
LEMMA IsSumAt ==
  ASSUME NEW S, NEW f, NEW g, IsSum(f, S, g), NEW s \in SUBSET S
  PROVE  g[s] = IF s = {} THEN 0 ELSE f[Pick(s)] + g[s \ {Pick(s)}]
<1> HIDE DEF Pick
<1> QED
  BY DEF IsSum

\* The recursion has one solution, whatever larger set it is read on.
LEMMA SumsAgree ==
  ASSUME NEW S, IsFiniteSet(S), NEW f, NEW A \in SUBSET S, NEW B \in SUBSET S, NEW g, NEW h,
         IsSum(f, A, g), IsSum(f, B, h), NEW s \in SUBSET (A \cap B)
  PROVE  g[s] = h[s]
<1> DEFINE bad == {t \in SUBSET (A \cap B) : g[t] # h[t]}
<1> SUFFICES ASSUME bad # {} PROVE FALSE
  OBVIOUS
<1>1. PICK t \in bad : \A u \in SUBSET t : u # t => u \notin bad
  <2>1. bad \in SUBSET SUBSET S
    OBVIOUS
  <2> HIDE DEF bad
  <2> QED
    BY <2>1, SmallestSet
<1>2. CASE t = {}
  <2>1. t \in SUBSET A /\ t \in SUBSET B
    BY <1>1
  <2>2. g[t] = 0 /\ h[t] = 0
    BY <1>2, <2>1, IsSumAt, SMTT(30)
  <2> QED
    BY <1>1, <2>2
<1>3. CASE t # {}
  <2>1. Pick(t) \in t
    BY <1>3, PickIn
  <2>2. g[t \ {Pick(t)}] = h[t \ {Pick(t)}]
    BY <1>1, <2>1
  <2>3. t \in SUBSET A /\ t \in SUBSET B
    BY <1>1
  <2>4. g[t] = f[Pick(t)] + g[t \ {Pick(t)}] /\ h[t] = f[Pick(t)] + h[t \ {Pick(t)}]
    BY <1>3, <2>3, IsSumAt
  <2> QED
    BY <1>1, <2>2, <2>4
<1> QED
  BY <1>2, <1>3


\* A solution of the recursion with integer values.
Good(f, s, g) == g \in [SUBSET s -> Int] /\ IsSum(f, s, g)

\* The recursion has a solution on every finite set.
LEMMA SumExists ==
  ASSUME NEW S, IsFiniteSet(S), NEW f, \A x \in S : f[x] \in Int
  PROVE  \E g : Good(f, S, g)
<1> DEFINE G(s) == CHOOSE g : Good(f, s, g)
           bad == {T \in SUBSET S : ~ \E g : Good(f, T, g)}
<1> SUFFICES ASSUME bad # {} PROVE FALSE
  OBVIOUS
<1>1. PICK T \in bad : \A u \in SUBSET T : u # T => u \notin bad
  <2>1. bad \in SUBSET SUBSET S
    OBVIOUS
  <2> HIDE DEF bad
  <2> QED
    BY <2>1, SmallestSet
<1>2. \A u \in SUBSET T : u # T => Good(f, u, G(u))
  BY <1>1
<1> HIDE DEF G
<1> DEFINE h == [s \in SUBSET T |-> IF s = {} THEN 0 ELSE f[Pick(s)] + G(s \ {Pick(s)})[s \ {Pick(s)}]]
<1>3. \A s \in SUBSET T : s # {} => Pick(s) \in s /\ f[Pick(s)] \in Int
  BY <1>1, PickIn
<1>4. \A u \in SUBSET T : u # T => G(u)[u] \in Int
  BY <1>2 DEF Good
<1>5. \A s \in SUBSET T : s # {} => s \ {Pick(s)} \in SUBSET T /\ s \ {Pick(s)} # T
  BY <1>3
<1>6. h \in [SUBSET T -> Int]
  BY <1>3, <1>4, <1>5
<1>7. ASSUME NEW u \in SUBSET T, u # T PROVE G(u)[u] = h[u]
  <2>1. CASE u = {}
    <3>1. G(u)[u] = 0
      BY <1>2, <1>7, <2>1, IsSumAt DEF Good
    <3> QED
      BY <2>1, <3>1
  <2>2. CASE u # {}
    <3> DEFINE v == u \ {Pick(u)}
    <3>1. v \in SUBSET u /\ v # T /\ v \in SUBSET T
      BY <1>5, <2>2
    <3>2. Good(f, v, G(v)) /\ Good(f, u, G(u))
      BY <1>2, <1>7, <3>1
    <3>3. G(u)[v] = G(v)[v]
      <4>1. u \in SUBSET S /\ v \in SUBSET S /\ v \in SUBSET (u \cap v)
        BY <3>1, <1>1
      <4> QED
        BY <3>2, <4>1, SumsAgree DEF Good
    <3>4. G(u)[u] = f[Pick(u)] + G(u)[v]
      BY <2>2, <3>2, IsSumAt DEF Good
    <3> QED
      BY <2>2, <3>3, <3>4
  <2> QED
    BY <2>1, <2>2
<1>8. IsSum(f, T, h)
  <2>1. \A s \in SUBSET T : s # {} => G(s \ {Pick(s)})[s \ {Pick(s)}] = h[s \ {Pick(s)}]
    BY <1>5, <1>7
  <2>2. h = [s \in SUBSET T |-> IF s = {} THEN 0 ELSE f[Pick(s)] + h[s \ {Pick(s)}]]
    BY <2>1
  <2> HIDE DEF h
  <2> QED
    BY <2>2 DEF IsSum
<1> QED
  BY <1>1, <1>6, <1>8 DEF Good

\* A sum is the member picked and the sum of the rest.
LEMMA SumUnfold ==
  ASSUME NEW S, IsFiniteSet(S), NEW f, \A x \in S : f[x] \in Int
  PROVE  /\ SumFunctionOnSet(f, S) \in Int
         /\ SumFunctionOnSet(f, S) =
              IF S = {} THEN 0 ELSE f[Pick(S)] + SumFunctionOnSet(f, S \ {Pick(S)})
<1> DEFINE g(s) == CHOOSE h : IsSum(f, s, h)
           rest == S \ {Pick(S)}
<1>1. \A s \in SUBSET S : IsFiniteSet(s)
  BY FS_Subset
<1>2. \A s \in SUBSET S : \E h : Good(f, s, h)
  BY <1>1, SumExists
<1>3. \A s \in SUBSET S : IsSum(f, s, g(s))
  BY <1>2 DEF Good
<1> HIDE DEF g
<1>4. \A s \in SUBSET S : g(s)[s] \in Int
  <2> TAKE s \in SUBSET S
  <2>1. PICK h : Good(f, s, h)
    BY <1>2
  <2>2. g(s)[s] = h[s]
    BY <1>3, <2>1, SumsAgree DEF Good
  <2> QED
    BY <2>1, <2>2 DEF Good
<1>5. g(S)[S] = IF S = {} THEN 0 ELSE f[Pick(S)] + g(S)[rest]
  BY <1>3, IsSumAt
<1>6. g(S)[rest] = g(rest)[rest]
  BY <1>3, SumsAgree, SMTT(30)
<1>7. \A s : SumFunctionOnSet(f, s) = g(s)[s]
  BY SumIs DEF g
<1> QED
  BY <1>4, <1>5, <1>6, <1>7

\* The sum over no element is zero.
THEOREM SumEmpty == ASSUME NEW f PROVE SumFunctionOnSet(f, {}) = 0
BY SumUnfold, FS_EmptySet

\* The sum of integers is an integer.
THEOREM SumType ==
  ASSUME NEW S, IsFiniteSet(S), NEW f, \A x \in S : f[x] \in Int
  PROVE  SumFunctionOnSet(f, S) \in Int
BY SumUnfold

\* Any element may be taken out of a sum first.
THEOREM SumRemove ==
  ASSUME NEW S, IsFiniteSet(S), NEW f, \A x \in S : f[x] \in Int, NEW y \in S
  PROVE  SumFunctionOnSet(f, S) = f[y] + SumFunctionOnSet(f, S \ {y})
<1> DEFINE bad == {t \in SUBSET S : \E x \in t : SumFunctionOnSet(f, t) # f[x] + SumFunctionOnSet(f, t \ {x})}
<1> SUFFICES ASSUME bad # {} PROVE FALSE
  OBVIOUS
<1>1. PICK t \in bad : \A u \in SUBSET t : u # t => u \notin bad
  <2>1. bad \in SUBSET SUBSET S
    OBVIOUS
  <2> HIDE DEF bad
  <2> QED
    BY <2>1, SmallestSet
<1>2. PICK x \in t : SumFunctionOnSet(f, t) # f[x] + SumFunctionOnSet(f, t \ {x})
  BY <1>1
<1>12. ASSUME NEW u \in SUBSET t, u # t, NEW z \in u
       PROVE  SumFunctionOnSet(f, u) = f[z] + SumFunctionOnSet(f, u \ {z})
  <2>1. u \notin bad /\ u \in SUBSET S
    BY <1>1, <1>12
  <2> QED
    BY <2>1
<1>3. \A s \in SUBSET t : IsFiniteSet(s) /\ \A z \in s : f[z] \in Int
  BY <1>1, FS_Subset
<1> DEFINE p == Pick(t)
           rest == t \ {x, p}
<1>4. p \in t /\ f[p] \in Int /\ f[x] \in Int
  BY <1>2, <1>3, PickIn
<1>5. SumFunctionOnSet(f, t) = f[p] + SumFunctionOnSet(f, t \ {p})
  BY <1>2, <1>3, SumUnfold
<1>6. p # x
  BY <1>2, <1>5
<1>7. SumFunctionOnSet(f, t \ {p}) = f[x] + SumFunctionOnSet(f, rest)
  <2>1. t \ {p} \in SUBSET t /\ t \ {p} # t /\ x \in t \ {p} /\ (t \ {p}) \ {x} = rest
    BY <1>4, <1>6
  <2> QED
    BY <1>12, <2>1
<1>8. SumFunctionOnSet(f, t \ {x}) = f[p] + SumFunctionOnSet(f, rest)
  <2>1. t \ {x} \in SUBSET t /\ t \ {x} # t /\ p \in t \ {x} /\ (t \ {x}) \ {p} = rest
    BY <1>4, <1>6
  <2> QED
    BY <1>12, <2>1
<1>9. SumFunctionOnSet(f, rest) \in Int
  <2>1. rest \in SUBSET t
    OBVIOUS
  <2> HIDE DEF rest
  <2> QED
    BY <1>3, <2>1, SumType
<1> QED
  BY <1>2, <1>4, <1>5, <1>7, <1>8, <1>9

\* An element added to the set adds its value to the sum.
THEOREM SumAdd ==
  ASSUME NEW S, IsFiniteSet(S), NEW y, y \notin S, NEW f, \A x \in S \cup {y} : f[x] \in Int
  PROVE  SumFunctionOnSet(f, S \cup {y}) = f[y] + SumFunctionOnSet(f, S)
<1>1. IsFiniteSet(S \cup {y})
  BY FS_AddElement
<1>2. (S \cup {y}) \ {y} = S
  OBVIOUS
<1> QED
  BY <1>1, <1>2, SumRemove

\* Functions ordered on a set have their sums ordered.
THEOREM SumLeq ==
  ASSUME NEW S, IsFiniteSet(S), NEW f, NEW g,
         \A x \in S : f[x] \in Int /\ g[x] \in Int /\ f[x] <= g[x]
  PROVE  SumFunctionOnSet(f, S) <= SumFunctionOnSet(g, S)
<1> DEFINE bad == {t \in SUBSET S : ~(SumFunctionOnSet(f, t) <= SumFunctionOnSet(g, t))}
<1> SUFFICES ASSUME bad # {} PROVE FALSE
  OBVIOUS
<1>1. PICK t \in bad : \A u \in SUBSET t : u # t => u \notin bad
  <2>1. bad \in SUBSET SUBSET S
    OBVIOUS
  <2> HIDE DEF bad
  <2> QED
    BY <2>1, SmallestSet
<1>2. t # {}
  <2>1. SumFunctionOnSet(f, {}) = 0 /\ SumFunctionOnSet(g, {}) = 0
    BY SumEmpty
  <2>2. ~(SumFunctionOnSet(f, t) <= SumFunctionOnSet(g, t))
    BY <1>1
  <2> HIDE DEF bad
  <2> QED
    BY <2>1, <2>2
<1>3. PICK x \in t : TRUE
  BY <1>2
<1>4. SumFunctionOnSet(f, t \ {x}) <= SumFunctionOnSet(g, t \ {x})
  BY <1>1
<1>5. IsFiniteSet(t) /\ IsFiniteSet(t \ {x})
  BY <1>1, FS_Subset
<1>6. /\ SumFunctionOnSet(f, t) = f[x] + SumFunctionOnSet(f, t \ {x})
      /\ SumFunctionOnSet(g, t) = g[x] + SumFunctionOnSet(g, t \ {x})
  BY <1>1, <1>5, SumRemove
<1>7. SumFunctionOnSet(f, t \ {x}) \in Int /\ SumFunctionOnSet(g, t \ {x}) \in Int
  BY <1>1, <1>5, SumType
<1> QED
  BY <1>1, <1>4, <1>6, <1>7

\* A sum depends on the values on the set alone.
THEOREM SumSame ==
  ASSUME NEW S, IsFiniteSet(S), NEW f, NEW g, \A x \in S : f[x] \in Int /\ f[x] = g[x]
  PROVE  SumFunctionOnSet(f, S) = SumFunctionOnSet(g, S)
<1>1. SumFunctionOnSet(f, S) <= SumFunctionOnSet(g, S) /\ SumFunctionOnSet(g, S) <= SumFunctionOnSet(f, S)
  BY SumLeq
<1>2. SumFunctionOnSet(f, S) \in Int /\ SumFunctionOnSet(g, S) \in Int
  BY SumType
<1> QED
  BY <1>1, <1>2

\* The sum of zeros is zero.
THEOREM SumZero ==
  ASSUME NEW S, IsFiniteSet(S), NEW f, \A x \in S : f[x] = 0
  PROVE  SumFunctionOnSet(f, S) = 0
<1> DEFINE bad == {t \in SUBSET S : SumFunctionOnSet(f, t) # 0}
<1> SUFFICES ASSUME bad # {} PROVE FALSE
  OBVIOUS
<1>1. PICK t \in bad : \A u \in SUBSET t : u # t => u \notin bad
  <2>1. bad \in SUBSET SUBSET S
    OBVIOUS
  <2> HIDE DEF bad
  <2> QED
    BY <2>1, SmallestSet
<1>2. PICK x \in t : TRUE
  BY <1>1, SumEmpty
<1>3. IsFiniteSet(t)
  BY <1>1, FS_Subset
<1>4. SumFunctionOnSet(f, t \ {x}) = 0
  BY <1>1
<1>5. SumFunctionOnSet(f, t) = f[x] + SumFunctionOnSet(f, t \ {x})
  BY <1>1, <1>3, SumRemove
<1> QED
  BY <1>1, <1>4, <1>5

\* The sum of naturals is a natural.
THEOREM SumNat ==
  ASSUME NEW S, IsFiniteSet(S), NEW f, \A x \in S : f[x] \in Nat
  PROVE  SumFunctionOnSet(f, S) \in Nat
<1> DEFINE zero == [x \in S |-> 0]
<1>1. SumFunctionOnSet(zero, S) = 0
  BY SumZero
<1>2. SumFunctionOnSet(zero, S) <= SumFunctionOnSet(f, S)
  BY SumLeq
<1> QED
  BY <1>1, <1>2, SumType

\* No element of a sum of naturals is above the sum.
THEOREM SumBounds ==
  ASSUME NEW S, IsFiniteSet(S), NEW f, \A x \in S : f[x] \in Nat, NEW y \in S
  PROVE  f[y] <= SumFunctionOnSet(f, S)
<1>1. SumFunctionOnSet(f, S) = f[y] + SumFunctionOnSet(f, S \ {y})
  BY SumRemove
<1>2. SumFunctionOnSet(f, S \ {y}) \in Nat
  BY FS_RemoveElement, SumNat
<1> QED
  BY <1>1, <1>2

\* The sums over two disjoint sets add up to the sum over their union.
THEOREM SumUnion ==
  ASSUME NEW A, IsFiniteSet(A), NEW B, IsFiniteSet(B), A \cap B = {},
         NEW f, \A x \in A \cup B : f[x] \in Int
  PROVE  SumFunctionOnSet(f, A \cup B) = SumFunctionOnSet(f, A) + SumFunctionOnSet(f, B)
<1> DEFINE bad == {t \in SUBSET B :
             SumFunctionOnSet(f, A \cup t) # SumFunctionOnSet(f, A) + SumFunctionOnSet(f, t)}
<1> SUFFICES ASSUME bad # {} PROVE FALSE
  OBVIOUS
<1>1. PICK t \in bad : \A u \in SUBSET t : u # t => u \notin bad
  <2>1. bad \in SUBSET SUBSET B
    OBVIOUS
  <2> HIDE DEF bad
  <2> QED
    BY <2>1, SmallestSet
<1>2. IsFiniteSet(t) /\ IsFiniteSet(A \cup t) /\ SumFunctionOnSet(f, A) \in Int
  BY <1>1, FS_Subset, FS_Union, SumType
<1>3. t # {}
  <2>1. SumFunctionOnSet(f, {}) = 0 /\ A \cup {} = A
    BY SumEmpty
  <2>2. SumFunctionOnSet(f, A \cup {}) = SumFunctionOnSet(f, A) + SumFunctionOnSet(f, {})
    BY <1>2, <2>1
  <2> QED
    BY <1>1, <2>2
<1>4. PICK x \in t : TRUE
  BY <1>3
<1>5. SumFunctionOnSet(f, A \cup (t \ {x})) = SumFunctionOnSet(f, A) + SumFunctionOnSet(f, t \ {x})
  BY <1>1
<1>6. SumFunctionOnSet(f, t) = f[x] + SumFunctionOnSet(f, t \ {x})
  BY <1>1, <1>2, SumRemove
<1>7. SumFunctionOnSet(f, A \cup t) = f[x] + SumFunctionOnSet(f, (A \cup t) \ {x})
  <2>1. x \in A \cup t /\ \A y \in A \cup t : f[y] \in Int
    BY <1>1
  <2> HIDE DEF bad
  <2> QED
    BY <1>2, <2>1, SumRemove
<1>8. (A \cup t) \ {x} = A \cup (t \ {x})
  BY <1>1
<1>9. SumFunctionOnSet(f, t \ {x}) \in Int /\ f[x] \in Int
  BY <1>1, <1>2, FS_RemoveElement, SumType
<1> QED
  BY <1>1, <1>2, <1>5, <1>6, <1>7, <1>8, <1>9

\* The sum of the sums is the sum of both functions.
THEOREM SumPlus ==
  ASSUME NEW S, IsFiniteSet(S), NEW f, NEW g, NEW h,
         \A x \in S : f[x] \in Int /\ g[x] \in Int /\ h[x] = f[x] + g[x]
  PROVE  SumFunctionOnSet(h, S) = SumFunctionOnSet(f, S) + SumFunctionOnSet(g, S)
<1> DEFINE bad == {t \in SUBSET S : SumFunctionOnSet(h, t) # SumFunctionOnSet(f, t) + SumFunctionOnSet(g, t)}
<1> SUFFICES ASSUME bad # {} PROVE FALSE
  OBVIOUS
<1>1. PICK t \in bad : \A u \in SUBSET t : u # t => u \notin bad
  <2>1. bad \in SUBSET SUBSET S
    OBVIOUS
  <2> HIDE DEF bad
  <2> QED
    BY <2>1, SmallestSet
<1>2. PICK x \in t : TRUE
  <2>1. SumFunctionOnSet(f, {}) = 0 /\ SumFunctionOnSet(g, {}) = 0 /\ SumFunctionOnSet(h, {}) = 0
    BY SumEmpty
  <2>2. SumFunctionOnSet(h, t) # SumFunctionOnSet(f, t) + SumFunctionOnSet(g, t)
    BY <1>1
  <2> HIDE DEF bad
  <2>3. t # {}
    <3> SUFFICES ASSUME t = {} PROVE FALSE
      OBVIOUS
    <3>1. SumFunctionOnSet(h, t) = 0 /\ SumFunctionOnSet(f, t) = 0 /\ SumFunctionOnSet(g, t) = 0
      BY <2>1
    <3> QED
      BY <2>2, <3>1
  <2> QED
    BY <2>3
<1>3. IsFiniteSet(t) /\ IsFiniteSet(t \ {x})
  BY <1>1, FS_Subset
<1>4. SumFunctionOnSet(h, t \ {x}) = SumFunctionOnSet(f, t \ {x}) + SumFunctionOnSet(g, t \ {x})
  BY <1>1
<1>5. /\ SumFunctionOnSet(f, t) = f[x] + SumFunctionOnSet(f, t \ {x})
      /\ SumFunctionOnSet(g, t) = g[x] + SumFunctionOnSet(g, t \ {x})
      /\ SumFunctionOnSet(h, t) = h[x] + SumFunctionOnSet(h, t \ {x})
  <2>1. \A y \in t : f[y] \in Int /\ g[y] \in Int /\ h[y] \in Int
    BY <1>1
  <2> QED
    BY <1>3, <2>1, SumRemove
<1>6. SumFunctionOnSet(f, t \ {x}) \in Int /\ SumFunctionOnSet(g, t \ {x}) \in Int /\ f[x] \in Int /\ g[x] \in Int
  BY <1>1, <1>3, SumType
<1>7. h[x] = f[x] + g[x]
  BY <1>1
<1> QED
  BY <1>1, <1>4, <1>5, <1>6, <1>7

\* Counting the same things under other names gives the same sum.
THEOREM SumRenamed ==
  ASSUME NEW S, IsFiniteSet(S), NEW T, IsFiniteSet(T), NEW name, NEW f, NEW g,
         \A x \in S : name[x] \in T /\ f[x] \in Int /\ f[x] = g[name[x]],
         \A x, y \in S : name[x] = name[y] => x = y,
         \A z \in T : \E x \in S : name[x] = z
  PROVE  SumFunctionOnSet(f, S) = SumFunctionOnSet(g, T)
<1> DEFINE Names(t) == {name[x] : x \in t}
           bad == {t \in SUBSET S : SumFunctionOnSet(f, t) # SumFunctionOnSet(g, Names(t))}
<1>0. Names(S) = T
  OBVIOUS
<1> SUFFICES ASSUME bad # {} PROVE FALSE
  BY <1>0
<1>1. PICK t \in bad : \A u \in SUBSET t : u # t => u \notin bad
  <2>1. bad \in SUBSET SUBSET S
    OBVIOUS
  <2> HIDE DEF bad
  <2> QED
    BY <2>1, SmallestSet
<1>2. PICK x \in t : TRUE
  <2>1. Names({}) = {}
    OBVIOUS
  <2> QED
    BY <1>1, <2>1, SumEmpty
<1>3. IsFiniteSet(t) /\ IsFiniteSet(Names(t))
  <2>1. Names(t) \in SUBSET T
    BY <1>1
  <2> QED
    BY <1>1, <2>1, FS_Subset
<1>4. Names(t) \ {name[x]} = Names(t \ {x})
  BY <1>1
<1>5. SumFunctionOnSet(f, t \ {x}) = SumFunctionOnSet(g, Names(t \ {x}))
  BY <1>1
<1>6. SumFunctionOnSet(f, t) = f[x] + SumFunctionOnSet(f, t \ {x})
  BY <1>1, <1>3, SumRemove
<1>7. name[x] \in Names(t) /\ \A z \in Names(t) : g[z] \in Int
  BY <1>1
<1>8. SumFunctionOnSet(g, Names(t)) = g[name[x]] + SumFunctionOnSet(g, Names(t) \ {name[x]})
  <2> HIDE DEF Names
  <2> QED
    BY <1>3, <1>7, SumRemove
<1> QED
  BY <1>1, <1>4, <1>5, <1>6, <1>8

-----------------------------------------------------------------------------
(* The sum by a shorter name, and more of its rules *)

Sum(f, S) == SumFunctionOnSet(f, S)

\* Whatever solves the recursion of a sum computes the sum.
LEMMA SumSolved ==
  ASSUME NEW S, IsFiniteSet(S), NEW f, \A x \in S : f[x] \in Int, NEW g, IsSum(f, S, g)
  PROVE  g[S] = Sum(f, S)
<1> DEFINE q == CHOOSE k : IsSum(f, S, k)
<1>1. IsSum(f, S, q)
  BY Zenon
<1> HIDE DEF q
<1>2. g[S] = q[S]
  BY <1>1, SumsAgree
<1> QED
  BY <1>2, SumIs DEF q, Sum

\* What adds nothing may be left out of a sum.
LEMMA SumSupport ==
  ASSUME NEW S, IsFiniteSet(S), NEW T \in SUBSET S, NEW f,
         \A x \in S : f[x] \in Int, \A x \in S \ T : f[x] = 0
  PROVE  Sum(f, S) = Sum(f, T)
<1>1. IsFiniteSet(T) /\ IsFiniteSet(S \ T)
  BY FS_Subset
<1>2. Sum(f, S \ T) = 0
  BY <1>1, SumZero DEF Sum
<1>3. S = T \cup (S \ T) /\ T \cap (S \ T) = {}
  OBVIOUS
<1>4. Sum(f, T \cup (S \ T)) = Sum(f, T) + Sum(f, S \ T)
  BY <1>1, <1>3, SumUnion DEF Sum
<1>5. Sum(f, T) \in Int
  BY <1>1, SumType DEF Sum
<1>6. Sum(f, S) = Sum(f, T) + Sum(f, S \ T)
  BY <1>3, <1>4, Zenon
<1> QED
  BY <1>2, <1>5, <1>6

\* A part of a sum of natural numbers.
LEMMA SumSubset ==
  ASSUME NEW S, IsFiniteSet(S), NEW T \in SUBSET S, NEW f, \A x \in S : f[x] \in Nat
  PROVE  Sum(f, T) \in Nat /\ Sum(f, S) \in Nat /\ Sum(f, T) <= Sum(f, S)
<1>1. IsFiniteSet(T) /\ IsFiniteSet(S \ T)
  BY FS_Subset
<1>2. Sum(f, T) \in Nat /\ Sum(f, S \ T) \in Nat /\ Sum(f, S) \in Nat
  BY <1>1, SumNat DEF Sum
<1>3. S = T \cup (S \ T) /\ T \cap (S \ T) = {}
  OBVIOUS
<1>4. Sum(f, T \cup (S \ T)) = Sum(f, T) + Sum(f, S \ T)
  BY <1>1, <1>3, SumUnion DEF Sum
<1> QED
  BY <1>2, <1>3, <1>4

\* A finite set of integers has a greatest one.
LEMMA HasMax ==
  ASSUME NEW S \in SUBSET Int, IsFiniteSet(S), S # {}
  PROVE  \E m \in S : \A x \in S : x <= m
<1> DEFINE bad == {T \in SUBSET S : T # {} /\ ~ \E m \in T : \A x \in T : x <= m}
<1> SUFFICES ASSUME bad # {} PROVE FALSE
  OBVIOUS
<1>1. PICK T \in bad : \A U \in SUBSET T : U # T => U \notin bad
  <2>1. bad \in SUBSET SUBSET S
    OBVIOUS
  <2> HIDE DEF bad
  <2> QED BY <2>1, SmallestSet
<1>2. PICK y \in T : TRUE
  BY <1>1
<1>3. y \in Int /\ T \in SUBSET Int
  BY <1>1
<1>4. CASE T \ {y} = {}
  <2>1. \A x \in T : x <= y
    BY <1>3, <1>4
  <2> QED BY <1>1, <2>1
<1>5. CASE T \ {y} # {}
  <2>1. T \ {y} \notin bad /\ T \ {y} \in SUBSET S
    BY <1>1, <1>2
  <2>2. PICK m \in T \ {y} : \A x \in T \ {y} : x <= m
    BY <1>5, <2>1
  <2>3. CASE y <= m
    BY <1>1, <1>3, <2>2, <2>3
  <2>4. CASE ~(y <= m)
    <3>1. \A x \in T : x <= y
      BY <1>3, <2>2, <2>4
    <3> QED BY <1>1, <3>1
  <2> QED BY <2>3, <2>4
<1> QED
  BY <1>4, <1>5

\* A function is changed at one place.
LEMMA SumPoint ==
  ASSUME NEW S, IsFiniteSet(S), NEW f, NEW g, NEW y \in S,
         \A x \in S : f[x] \in Int /\ g[x] \in Int, \A x \in S \ {y} : g[x] = f[x]
  PROVE  Sum(g, S) = Sum(f, S) - f[y] + g[y]
<1>1. Sum(f, S) = f[y] + Sum(f, S \ {y})
  BY SumRemove DEF Sum
<1>2. Sum(g, S) = g[y] + Sum(g, S \ {y})
  BY SumRemove DEF Sum
<1>3. IsFiniteSet(S \ {y})
  BY FS_RemoveElement
<1>4. Sum(g, S \ {y}) = Sum(f, S \ {y}) /\ Sum(f, S \ {y}) \in Int
  BY <1>3, SumSame, SumType DEF Sum
<1> QED
  BY <1>1, <1>2, <1>4

LEMMA TimesOneMore == ASSUME NEW n \in Int, NEW k \in Int PROVE n * k = n * (k - 1) + n
OBVIOUS

\* A sum of bounded terms is bounded.
LEMMA SumAtMost ==
  ASSUME NEW S, IsFiniteSet(S), NEW f, NEW n \in Nat, \A x \in S : f[x] \in Int /\ f[x] <= n
  PROVE  Sum(f, S) <= n * Cardinality(S)
<1> DEFINE bad == {t \in SUBSET S : ~(Sum(f, t) <= n * Cardinality(t))}
<1> SUFFICES ASSUME bad # {} PROVE FALSE
  OBVIOUS
<1>1. PICK t \in bad : \A u \in SUBSET t : u # t => u \notin bad
  <2>1. bad \in SUBSET SUBSET S
    OBVIOUS
  <2> HIDE DEF bad
  <2> QED
    BY <2>1, SmallestSet
<1>2. IsFiniteSet(t) /\ t \in SUBSET S
  BY <1>1, FS_Subset
<1>3. t # {}
  <2>1. Sum(f, {}) = 0 /\ Cardinality({}) = 0 /\ n * 0 = 0
    BY SumEmpty, FS_EmptySet DEF Sum
  <2>2. Sum(f, {}) <= n * Cardinality({})
    BY <2>1
  <2> QED
    BY <1>1, <2>2
<1>4. PICK x \in t : TRUE
  BY <1>3
<1>5. /\ Cardinality(t \ {x}) = Cardinality(t) - 1 /\ IsFiniteSet(t \ {x})
      /\ Cardinality(t) \in Nat /\ Cardinality(t \ {x}) \in Nat
  BY <1>2, <1>4, FS_RemoveElement, FS_CardinalityType
<1>6. Sum(f, t \ {x}) <= n * Cardinality(t \ {x})
  BY <1>1, <1>4
<1>7. Sum(f, t) = f[x] + Sum(f, t \ {x}) /\ Sum(f, t \ {x}) \in Int
  BY <1>2, <1>5, SumRemove, SumType DEF Sum
<1>8. n * Cardinality(t) = n * Cardinality(t \ {x}) + n
  BY <1>5, TimesOneMore
<1>9. n * Cardinality(t \ {x}) \in Int /\ f[x] \in Int /\ f[x] <= n
  BY <1>2, <1>5
<1> QED
  BY <1>1, <1>6, <1>7, <1>8, <1>9
\* A function on a finite set is greatest somewhere.
LEMMA HasGreatest ==
  ASSUME NEW S, IsFiniteSet(S), S # {}, NEW f, \A x \in S : f[x] \in Int
  PROVE  \E m \in S : \A x \in S : f[x] <= f[m]
<1> DEFINE bad == {T \in SUBSET S : T # {} /\ ~ \E m \in T : \A x \in T : f[x] <= f[m]}
<1> SUFFICES ASSUME bad # {} PROVE FALSE
  OBVIOUS
<1>1. PICK T \in bad : \A U \in SUBSET T : U # T => U \notin bad
  <2>1. bad \in SUBSET SUBSET S
    OBVIOUS
  <2> HIDE DEF bad
  <2> QED
    BY <2>1, SmallestSet
<1>2. PICK y \in T : TRUE
  BY <1>1
<1>3. \A x \in T : f[x] \in Int
  BY <1>1
<1>4. CASE T \ {y} = {}
  <2>1. \A x \in T : f[x] <= f[y]
    BY <1>3, <1>4
  <2> QED
    BY <1>1, <1>2, <2>1
<1>5. CASE T \ {y} # {}
  <2>1. T \ {y} \notin bad /\ T \ {y} \in SUBSET S
    BY <1>1, <1>2
  <2>2. PICK m \in T \ {y} : \A x \in T \ {y} : f[x] <= f[m]
    BY <1>5, <2>1
  <2>3. CASE f[y] <= f[m]
    BY <1>1, <1>3, <2>2, <2>3
  <2>4. CASE ~(f[y] <= f[m])
    <3>1. \A x \in T : f[x] <= f[y]
      BY <1>2, <1>3, <2>2, <2>4
    <3> QED
      BY <1>1, <1>2, <3>1
  <2> QED
    BY <2>3, <2>4
<1> QED
  BY <1>4, <1>5
=============================================================================
