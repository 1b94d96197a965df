-------------------------- MODULE OrderStock_proofs --------------------------
(***************************************************************************)
(* Proofs about the stock of orders, for any orders, lines, shelves,       *)
(* requests and handlers, and every value of the bounds.                   *)
(*                                                                         *)
(* A promise, a selection and an issue are sums over the lines of a shelf. *)
(* The first part turns the sums of the module into those of SumLemmas;    *)
(* then come the invariant that needs no assumption, the one for orders    *)
(* that are worked on by one handler, and one lemma per action for each.   *)
(***************************************************************************)
EXTENDS OrderStock, SumLemmas

-----------------------------------------------------------------------------
(* Sums *)

Qty(rows) == [l \in DOMAIN rows |-> rows[l].qty]

\* The fold of Units is such a solution.
LEMMA UnitsIs ==
  ASSUME NEW rows, NEW S \in SUBSET DOMAIN rows, IsFiniteSet(S), \A l \in S : rows[l].qty \in Int
  PROVE  Units(rows, S) = Sum(Qty(rows), S)
<1> DEFINE f == Qty(rows)
           Rec(g) == g = [s \in SUBSET S |-> IF s = {} THEN 0 ELSE rows[Pick(s)].qty + g[s \ {Pick(s)}]]
<1>1. \A g : Rec(g) <=> IsSum(f, S, g)
  <2> TAKE g
  <2> DEFINE a(s) == IF s = {} THEN 0 ELSE rows[Pick(s)].qty + g[s \ {Pick(s)}]
             b(s) == IF s = {} THEN 0 ELSE f[Pick(s)] + g[s \ {Pick(s)}]
  <2>1. \A s \in SUBSET S : a(s) = b(s)
    BY PickIn DEF Qty
  <2>2. [s \in SUBSET S |-> a(s)] = [s \in SUBSET S |-> b(s)]
    <3> HIDE DEF a, b
    <3> QED BY <2>1
  <2> QED
    BY <2>2 DEF IsSum
<1>2. Units(rows, S) = (CHOOSE g : Rec(g))[S]
  BY DEF Units, MapThenSumSet, MapThenFoldSet, Pick
<1>3. \A l \in S : f[l] \in Int
  BY DEF Qty
<1> HIDE DEF Rec, f
<1>4. PICK h : IsSum(f, S, h)
  BY <1>3, SumExists DEF Good
<1>5. Rec(CHOOSE g : Rec(g))
  BY <1>1, <1>4, Zenon
<1>6. (CHOOSE g : Rec(g))[S] = Sum(f, S)
  BY <1>1, <1>3, <1>5, SumSolved
<1> QED
  BY <1>2, <1>6 DEF f

\* So is the sum of the changes an issue books.
LEMMA SoldIs ==
  ASSUME NEW rows, NEW saw, NEW s, IsFiniteSet(OnShelf(rows, s)),
         \A l \in OnShelf(rows, s) : Before(rows, saw, l) - After(rows, saw, l) \in Int
  PROVE  Sold(rows, saw, s) =
           Sum([l \in OnShelf(rows, s) |-> Before(rows, saw, l) - After(rows, saw, l)], OnShelf(rows, s))
<1> DEFINE S == OnShelf(rows, s)
           B(l) == Before(rows, saw, l) - After(rows, saw, l)
           f == [l \in S |-> B(l)]
           Rec(g) == g = [t \in SUBSET S |-> IF t = {} THEN 0 ELSE B(Pick(t)) + g[t \ {Pick(t)}]]
<1>1. Sold(rows, saw, s) = (CHOOSE g : Rec(g))[S]
  BY DEF Sold, MapThenSumSet, MapThenFoldSet, Pick
<1> HIDE DEF B, S
<1>2. \A g : Rec(g) <=> IsSum(f, S, g)
  <2> TAKE g
  <2> DEFINE a(t) == IF t = {} THEN 0 ELSE B(Pick(t)) + g[t \ {Pick(t)}]
             b(t) == IF t = {} THEN 0 ELSE f[Pick(t)] + g[t \ {Pick(t)}]
  <2>1. \A t \in SUBSET S : a(t) = b(t)
    BY PickIn
  <2>2. [t \in SUBSET S |-> a(t)] = [t \in SUBSET S |-> b(t)]
    <3> HIDE DEF a, b
    <3> QED BY <2>1
  <2> QED
    BY <2>2 DEF IsSum
<1>3. IsFiniteSet(S) /\ \A l \in S : f[l] \in Int
  BY DEF S, B
<1> HIDE DEF Rec, f
<1>4. PICK h : IsSum(f, S, h)
  BY <1>3, SumExists DEF Good
<1>5. Rec(CHOOSE g : Rec(g))
  BY <1>2, <1>4, Zenon
<1>6. (CHOOSE g : Rec(g))[S] = Sum(f, S)
  BY <1>2, <1>3, <1>5, SumSolved
<1> QED
  BY <1>1, <1>6 DEF f, S, B

\* A sum of the values of a function is taken as it is.
LEMMA PlainSum == ASSUME NEW f, NEW S PROVE MapThenSumSet(LAMBDA l : f[l], S) = Sum(f, S)
BY DEF MapThenSumSet, Sum, SumFunctionOnSet, FoldFunctionOnSet

LEMMA MinIn ==
  ASSUME NEW S \in SUBSET Int, IsFiniteSet(S), S # {}
  PROVE  Min(S) \in S
<1> DEFINE N == {-x : x \in S}
<1>1. IsFiniteSet(N)
  <2>1. [x \in S |-> -x] \in Surjection(S, N)
    BY DEF Surjection
  <2> HIDE DEF N
  <2> QED BY <2>1, FS_Surjection
<1>2. N \in SUBSET Int /\ N # {}
  <2>1. \A x \in S : -x \in Int
    OBVIOUS
  <2> QED BY <2>1
<1>3. PICK m \in N : \A x \in N : x <= m
  <2> HIDE DEF N
  <2> QED BY <1>1, <1>2, HasMax
<1>4. PICK y \in S : m = -y
  BY <1>3
<1>5. \A x \in S : y <= x
  <2> TAKE x \in S
  <2>1. -x <= m /\ x \in Int /\ y \in Int
    BY <1>3
  <2> QED BY <1>4, <2>1
<1> QED
  BY <1>5 DEF Min

LEMMA Floors ==
  ASSUME NEW a \in Int, NEW b \in Nat
  PROVE  /\ Floor(a) \in Nat /\ (a \in Nat => Floor(a) = a)
         /\ Floor(Floor(a) - b) = Floor(a - b) /\ Floor(Floor(a) - b) <= Floor(a)
BY DEF Floor

\* The units of all lines, taken in the order of their ids from n units that
\* are never lowered below zero, lower n by their sum, but not below zero.
LEMMA Telescope ==
  ASSUME NEW S \in SUBSET Int, IsFiniteSet(S), NEW q, \A x \in S : q[x] \in Nat, NEW n \in Nat,
         NEW f, \A l \in S : f[l] = Floor(n - Sum(q, {k \in S : k < l})) - Floor(n - Sum(q, {k \in S : k < l}) - q[l])
  PROVE  Sum(f, S) = n - Floor(n - Sum(q, S))
<1> DEFINE F(T) == [l \in T |-> Floor(n - Sum(q, {k \in T : k < l})) - Floor(n - Sum(q, {k \in T : k < l}) - q[l])]
           Holds(T) == Sum(F(T), T) = n - Floor(n - Sum(q, T))
           bad == {T \in SUBSET S : ~Holds(T)}
<1>1. \A T \in SUBSET S : IsFiniteSet(T) /\ Sum(q, T) \in Nat
  BY FS_Subset, SumSubset
<1>2. \A T \in SUBSET S : \A l \in T : F(T)[l] \in Int
  <2> TAKE T \in SUBSET S
  <2> TAKE l \in T
  <2>1. Sum(q, {k \in T : k < l}) \in Nat /\ q[l] \in Nat
    BY <1>1
  <2>2. Floor(n - Sum(q, {k \in T : k < l})) \in Int /\ Floor(n - Sum(q, {k \in T : k < l}) - q[l]) \in Int
    BY <2>1 DEF Floor
  <2> QED BY <2>2
<1> HIDE DEF F
<1>3. bad = {}
  <2> SUFFICES ASSUME bad # {} PROVE FALSE
    OBVIOUS
  <2>1. PICK T \in bad : \A U \in SUBSET T : U # T => U \notin bad
    <3>1. bad \in SUBSET SUBSET S
      OBVIOUS
    <3> HIDE DEF bad
    <3> QED BY <3>1, SmallestSet
  <2>2. T # {}
    <3>1. Holds({})
      <4>1. Sum(F({}), {}) = 0 /\ Sum(q, {}) = 0
        BY SumEmpty DEF Sum
      <4> QED BY <4>1 DEF Floor
    <3> QED BY <2>1, <3>1
  <2>3. PICK m \in T : \A x \in T : x <= m
    <3>1. T \in SUBSET Int /\ IsFiniteSet(T)
      BY <1>1, <2>1
    <3> QED BY <2>2, <3>1, HasMax
  <2> DEFINE U == T \ {m}
  <2>4. Holds(U) /\ U \in SUBSET S
    BY <2>1, <2>3
  <2>5. \A l \in U : {k \in T : k < l} = {k \in U : k < l}
    <3> SUFFICES ASSUME NEW l \in U PROVE ~(m < l)
      OBVIOUS
    <3>1. l <= m /\ l \in Int /\ m \in Int
      BY <2>1, <2>3
    <3> QED BY <3>1
  <2>6. {k \in T : k < m} = U
    <3>1. \A k \in T : k \in Int /\ k <= m /\ m \in Int
      BY <2>1, <2>3
    <3>2. \A k \in T : k # m <=> k < m
      BY <3>1
    <3> QED BY <3>2
  <2>7. \A l \in U : F(T)[l] = F(U)[l]
    BY <2>5 DEF F
  <2>8. F(T)[m] = Floor(n - Sum(q, U)) - Floor(n - Sum(q, U) - q[m])
    BY <2>6 DEF F
  <2>9. Sum(F(T), T) = F(T)[m] + Sum(F(T), U)
    BY <1>1, <1>2, <2>1, <2>3, SumRemove, ZenonT(40) DEF Sum
  <2>10. Sum(F(T), U) = Sum(F(U), U)
    BY <1>1, <1>2, <2>1, <2>4, <2>7, SumSame, ZenonT(40) DEF Sum
  <2>11. Sum(q, T) = q[m] + Sum(q, U)
    <3>1. IsFiniteSet(T) /\ \A x \in T : q[x] \in Int
      BY <1>1, <2>1
    <3> QED BY <2>3, <3>1, SumRemove DEF Sum
  <2>12. Sum(q, U) \in Nat /\ q[m] \in Nat
    BY <1>1, <2>1, <2>4
  <2>13. Sum(F(U), U) = n - Floor(n - Sum(q, U))
    BY <2>4
  <2> HIDE DEF U, bad
  <2>14. Holds(T)
    BY <2>8, <2>9, <2>10, <2>11, <2>12, <2>13 DEF Floor
  <2> QED BY <2>1, <2>14 DEF bad
<1>4. Holds(S)
  BY <1>3
<1>5. \A l \in S : F(S)[l] = f[l]
  BY DEF F
<1>6. Sum(F(S), S) = Sum(f, S)
  BY <1>2, <1>5, SumSame DEF Sum
<1> QED
  BY <1>4, <1>6

LEMMA SumOpposite ==
  ASSUME NEW S, IsFiniteSet(S), NEW f, NEW g, \A x \in S : g[x] \in Int /\ f[x] = -g[x]
  PROVE  Sum(f, S) = -Sum(g, S) /\ Sum(g, S) \in Int
<1> DEFINE zero == [x \in S |-> 0]
<1>1. Sum(zero, S) = 0
  BY SumZero DEF Sum
<1>2. \A x \in S : zero[x] = f[x] + g[x] /\ f[x] \in Int /\ g[x] \in Int
  OBVIOUS
<1> HIDE DEF zero
<1>3. Sum(zero, S) = Sum(f, S) + Sum(g, S)
  BY <1>2, SumPlus DEF Sum
<1>4. Sum(f, S) \in Int /\ Sum(g, S) \in Int
  BY <1>2, SumType DEF Sum
<1> QED
  BY <1>1, <1>3, <1>4

-----------------------------------------------------------------------------
(* Promises *)

LEMMA ItemFacts ==
  /\ IsFiniteSet(Items) /\ Items \subseteq Nat \ {0} /\ Lines \subseteq Items
  /\ \A l \in Items : OrderOf[l] \in Orders /\ ShelfOf[l] \in Shelves
  /\ \A l \in Lines : Remainder[l] # 0 => Remainder[l] \in Items
<1>1. IsFiniteSet({Remainder[l] : l \in Lines})
  <2>1. [l \in Lines |-> Remainder[l]] \in Surjection(Lines, {Remainder[l] : l \in Lines})
    BY DEF Surjection
  <2> QED BY <2>1, FS_Surjection, StockAssumption
<1>2. IsFiniteSet({Remainder[l] : l \in Lines} \ {0})
  BY <1>1, FS_Difference
<1>3. IsFiniteSet(Items)
  BY <1>2, FS_Union, StockAssumption DEF Items
<1>4. Items \subseteq Nat \ {0} /\ Lines \subseteq Items /\ \A l \in Lines : Remainder[l] # 0 => Remainder[l] \in Items
  <2>1. Lines \subseteq Nat \ {0} /\ \A l \in Lines : Remainder[l] \in Nat
    BY StockAssumption
  <2> QED BY <2>1 DEF Items
<1>5. \A l \in Items : OrderOf[l] \in Orders /\ ShelfOf[l] \in Shelves
  BY StockAssumption
<1> QED
  BY <1>3, <1>4, <1>5

ItemsAt(s) == {l \in Items : ShelfOf[l] = s}

RowType == [status : {"none", "active", "unresolved", "released", "fulfilled"}, qty : Nat]

\* The units of its shelf an item is promised.
ShareOf(rows) == [l \in Items |-> IF rows[l].status = "active" THEN rows[l].qty ELSE 0]

LEMMA Shares ==
  ASSUME NEW rows \in [Items -> RowType], NEW s
  PROVE  /\ IsFiniteSet(ItemsAt(s))
         /\ \A l \in Items : ShareOf(rows)[l] \in Nat
         /\ Units(rows, OnShelf(rows, s) \cap {l \in Items : rows[l].status = "active"}) = Sum(ShareOf(rows), ItemsAt(s))
         /\ Sum(ShareOf(rows), ItemsAt(s)) \in Nat
<1> DEFINE act == OnShelf(rows, s) \cap {l \in Items : rows[l].status = "active"}
<1>1. IsFiniteSet(ItemsAt(s)) /\ act \in SUBSET ItemsAt(s) /\ IsFiniteSet(act)
  <2>1. act \in SUBSET ItemsAt(s) /\ ItemsAt(s) \in SUBSET Items
    BY DEF OnShelf, ItemsAt
  <2> HIDE DEF act
  <2> QED BY <2>1, ItemFacts, FS_Subset
<1>2. \A l \in Items : ShareOf(rows)[l] \in Nat /\ rows[l].qty \in Nat
  BY DEF ShareOf, RowType
<1>3. Units(rows, act) = Sum(Qty(rows), act)
  <2>1. act \in SUBSET DOMAIN rows /\ \A l \in act : rows[l].qty \in Int
    BY <1>2 DEF OnShelf
  <2> HIDE DEF act
  <2> QED BY <1>1, <2>1, UnitsIs
<1>4. Sum(ShareOf(rows), ItemsAt(s)) = Sum(ShareOf(rows), act)
  <2>1. \A l \in ItemsAt(s) \ act : ShareOf(rows)[l] = 0
    BY DEF ItemsAt, OnShelf, ShareOf
  <2>2. \A l \in ItemsAt(s) : ShareOf(rows)[l] \in Int
    BY <1>2 DEF ItemsAt
  <2> HIDE DEF act
  <2> QED BY <1>1, <2>1, <2>2, SumSupport
<1>5. Sum(Qty(rows), act) = Sum(ShareOf(rows), act)
  <2>1. \A l \in act : Qty(rows)[l] \in Int /\ Qty(rows)[l] = ShareOf(rows)[l]
    BY <1>2 DEF OnShelf, ShareOf, Qty
  <2> HIDE DEF act
  <2> QED BY <1>1, <2>1, SumSame DEF Sum
<1>6. Sum(ShareOf(rows), ItemsAt(s)) \in Nat
  <2>1. \A l \in ItemsAt(s) : ShareOf(rows)[l] \in Nat
    BY <1>2 DEF ItemsAt
  <2> QED BY <1>1, <2>1, SumSubset
<1> QED
  BY <1>1, <1>2, <1>3, <1>4, <1>5, <1>6

\* A promise before and after a step.
LEMMA PromisedIs ==
  ASSUME resv \in [Items -> RowType], NEW s
  PROVE  Promised(s) = Sum(ShareOf(resv), ItemsAt(s)) /\ Promised(s) \in Nat
BY Shares DEF Promised, Having

LEMMA PromisedNext ==
  ASSUME (resv \in [Items -> RowType])', NEW s
  PROVE  Promised(s)' = Sum(ShareOf(resv'), ItemsAt(s)) /\ Promised(s)' \in Nat
<1>1. Promised(s)' = Units(resv', OnShelf(resv', s) \cap {l \in Items : resv'[l].status = "active"})
  BY DEF Promised, Having, Units, MapThenSumSet, MapThenFoldSet, OnShelf
<1>2. resv' \in [Items -> RowType]
  BY DEF RowType
<1> QED
  BY <1>1, <1>2, Shares

\* The promise of a shelf changes by what the shares of its items change.
LEMMA PromisedMoves ==
  ASSUME resv \in [Items -> RowType], (resv \in [Items -> RowType])', NEW s, NEW d,
         \A l \in ItemsAt(s) : d[l] \in Int /\ ShareOf(resv')[l] = ShareOf(resv)[l] + d[l]
  PROVE  /\ Promised(s)' = Promised(s) + Sum(d, ItemsAt(s))
         /\ Promised(s) \in Nat /\ Promised(s)' \in Nat /\ Sum(d, ItemsAt(s)) \in Int
<1>1. resv' \in [Items -> RowType]
  BY DEF RowType
<1>2. IsFiniteSet(ItemsAt(s)) /\ \A l \in ItemsAt(s) : ShareOf(resv)[l] \in Int
  <2>1. IsFiniteSet(ItemsAt(s)) /\ \A l \in Items : ShareOf(resv)[l] \in Nat
    BY Shares
  <2> QED BY <2>1 DEF ItemsAt
<1>3. Sum(ShareOf(resv'), ItemsAt(s)) = Sum(ShareOf(resv), ItemsAt(s)) + Sum(d, ItemsAt(s))
  BY <1>2, SumPlus DEF Sum
<1>4. Sum(d, ItemsAt(s)) \in Int
  BY <1>2, SumType DEF Sum
<1> QED
  BY <1>3, <1>4, PromisedIs, PromisedNext

LEMMA PromisedSame ==
  ASSUME resv' = resv, NEW s
  PROVE  Promised(s)' = Promised(s)
BY DEF Promised, Having, Units, MapThenSumSet, MapThenFoldSet, OnShelf

\* One row of the reservations changes.
LEMMA OneRow ==
  ASSUME resv \in [Items -> RowType], (resv \in [Items -> RowType])', NEW l \in Items,
         \A k \in Items \ {l} : resv'[k] = resv[k], NEW s
  PROVE  /\ Promised(s)' = Promised(s) + (IF ShelfOf[l] = s THEN ShareOf(resv')[l] - ShareOf(resv)[l] ELSE 0)
         /\ Promised(s) \in Nat /\ Promised(s)' \in Nat
<1> DEFINE d == [k \in Items |-> ShareOf(resv')[k] - ShareOf(resv)[k]]
<1>1. resv' \in [Items -> RowType]
  BY DEF RowType
<1>2. \A k \in Items : ShareOf(resv')[k] \in Nat /\ ShareOf(resv)[k] \in Nat
  BY <1>1, Shares
<1>3. \A k \in Items \ {l} : ShareOf(resv')[k] = ShareOf(resv)[k]
  BY DEF ShareOf
<1>4. \A k \in ItemsAt(s) : d[k] \in Int /\ ShareOf(resv')[k] = ShareOf(resv)[k] + d[k]
  BY <1>2 DEF ItemsAt
<1>5. \A k \in ItemsAt(s) : k # l => d[k] = 0
  BY <1>2, <1>3 DEF ItemsAt
<1>6. d[l] = ShareOf(resv')[l] - ShareOf(resv)[l] /\ d[l] \in Int
  BY <1>2
<1> HIDE DEF d
<1>7. IsFiniteSet(ItemsAt(s))
  BY Shares
<1>8. Sum(d, ItemsAt(s)) = IF ShelfOf[l] = s THEN d[l] ELSE 0
  <2>1. CASE ShelfOf[l] = s
    <3>1. {l} \in SUBSET ItemsAt(s) /\ \A k \in ItemsAt(s) \ {l} : d[k] = 0
      BY <1>5, <2>1 DEF ItemsAt
    <3>2. Sum(d, ItemsAt(s)) = Sum(d, {l})
      BY <1>4, <1>7, <3>1, SumSupport
    <3>3. Sum(d, {l}) = d[l] + Sum(d, {l} \ {l})
      BY <1>6, FS_Singleton, SumRemove DEF Sum
    <3>4. Sum(d, {l} \ {l}) = 0
      <4>1. {l} \ {l} = {}
        OBVIOUS
      <4> QED BY <4>1, SumEmpty DEF Sum
    <3> QED BY <1>6, <2>1, <3>2, <3>3, <3>4
  <2>2. CASE ShelfOf[l] # s
    <3>1. \A k \in ItemsAt(s) : d[k] = 0
      BY <1>5, <2>2 DEF ItemsAt
    <3> QED BY <1>7, <2>2, <3>1, SumZero DEF Sum
  <2> QED BY <2>1, <2>2
<1>9. Promised(s)' = Promised(s) + Sum(d, ItemsAt(s)) /\ Promised(s) \in Nat /\ Promised(s)' \in Nat
  BY <1>4, PromisedMoves
<1> QED
  BY <1>6, <1>8, <1>9

-----------------------------------------------------------------------------
(* Rows that were read *)

Partly(f, S, T) == DOMAIN f \subseteq S /\ f \in [DOMAIN f -> T]

LEMMA RequiredIs ==
  ASSUME NEW rows, Partly(rows, Items, RowType), NEW s
  PROVE  /\ IsFiniteSet(OnShelf(rows, s)) /\ OnShelf(rows, s) \in SUBSET ItemsAt(s)
         /\ \A l \in DOMAIN rows : Qty(rows)[l] = rows[l].qty /\ rows[l].qty \in Nat
         /\ Required(rows, s) = Sum(Qty(rows), OnShelf(rows, s)) /\ Required(rows, s) \in Nat
         /\ \A T \in SUBSET OnShelf(rows, s) :
              /\ Units(rows, T) = Sum(Qty(rows), T) /\ Units(rows, T) \in Nat
              /\ Units(rows, T) <= Required(rows, s)
<1>1. OnShelf(rows, s) \in SUBSET ItemsAt(s) /\ OnShelf(rows, s) \in SUBSET Items
  BY DEF OnShelf, ItemsAt, Partly
<1>2. IsFiniteSet(OnShelf(rows, s))
  BY <1>1, ItemFacts, FS_Subset
<1>3. \A l \in DOMAIN rows : Qty(rows)[l] = rows[l].qty /\ rows[l].qty \in Nat
  BY DEF Qty, Partly, RowType
<1>4. \A T \in SUBSET OnShelf(rows, s) : Units(rows, T) = Sum(Qty(rows), T) /\ IsFiniteSet(T)
  <2> TAKE T \in SUBSET OnShelf(rows, s)
  <2>1. IsFiniteSet(T)
    BY <1>2, FS_Subset
  <2>2. T \in SUBSET DOMAIN rows /\ \A l \in T : rows[l].qty \in Int
    BY <1>3 DEF OnShelf
  <2> QED BY <2>1, <2>2, UnitsIs
<1>5. \A l \in OnShelf(rows, s) : Qty(rows)[l] \in Nat
  BY <1>3 DEF OnShelf
<1>6. Required(rows, s) = Sum(Qty(rows), OnShelf(rows, s))
  BY <1>4 DEF Required
<1>7. \A T \in SUBSET OnShelf(rows, s) :
        Sum(Qty(rows), T) \in Nat /\ Sum(Qty(rows), T) <= Sum(Qty(rows), OnShelf(rows, s))
  BY <1>2, <1>5, SumSubset
<1> QED
  BY <1>1, <1>2, <1>3, <1>4, <1>6, <1>7

LEMMA HeldRows ==
  ASSUME NEW rows, Partly(rows, Items, RowType)
  PROVE  /\ Partly(ActiveRows(rows), Items, RowType)
         /\ DOMAIN ActiveRows(rows) = {k \in DOMAIN rows : rows[k].status = "active"}
         /\ \A l \in DOMAIN ActiveRows(rows) : ActiveRows(rows)[l] = rows[l]
         /\ (\A l \in DOMAIN rows : rows[l].status = "active") => ActiveRows(rows) = rows
BY DEF Partly, ActiveRows

\* Rows that are as they were read stop to be active.
LEMMA Withdrawn ==
  ASSUME resv \in [Items -> RowType], (resv \in [Items -> RowType])',
         NEW rows, Partly(rows, Items, RowType),
         \A l \in DOMAIN rows : rows[l] = resv[l] /\ resv'[l].status # "active",
         \A l \in Items \ DOMAIN rows : resv'[l] = resv[l], NEW s
  PROVE  /\ Promised(s)' = Promised(s) - Required(ActiveRows(rows), s)
         /\ Promised(s) \in Nat /\ Promised(s)' \in Nat
<1> DEFINE held == ActiveRows(rows)
           d == [l \in Items |-> IF l \in DOMAIN held THEN -rows[l].qty ELSE 0]
<1>0. Partly(held, Items, RowType) /\ DOMAIN held = {k \in DOMAIN rows : rows[k].status = "active"}
      /\ \A l \in DOMAIN held : held[l] = rows[l]
  BY HeldRows
<1> HIDE DEF held
<1>1. \A l \in DOMAIN rows : rows[l].qty \in Nat
  BY RequiredIs
<1>2. \A l \in Items : d[l] \in Int
  BY <1>0, <1>1
<1>3. \A l \in Items : ShareOf(resv')[l] = ShareOf(resv)[l] + d[l]
  <2> TAKE l \in Items
  <2>1. resv[l].qty \in Nat
    BY DEF RowType
  <2>2. CASE l \in DOMAIN held
    <3>1. ShareOf(resv')[l] = 0 /\ ShareOf(resv)[l] = rows[l].qty /\ d[l] = -rows[l].qty
      BY <1>0, <2>2 DEF ShareOf
    <3> QED BY <1>0, <1>1, <2>2, <3>1
  <2>3. CASE l \notin DOMAIN held
    <3>1. d[l] = 0
      BY <2>3
    <3>2. ShareOf(resv')[l] = ShareOf(resv)[l] /\ ShareOf(resv)[l] \in Int
      BY <1>0, <2>1, <2>3 DEF ShareOf
    <3> QED BY <3>1, <3>2
  <2> QED BY <2>2, <2>3
<1>4. \A l \in ItemsAt(s) : d[l] \in Int /\ ShareOf(resv')[l] = ShareOf(resv)[l] + d[l]
  BY <1>2, <1>3 DEF ItemsAt
<1>5. \A l \in OnShelf(held, s) : Qty(held)[l] \in Int /\ d[l] = -Qty(held)[l]
  BY <1>0, <1>1 DEF OnShelf, Qty, Partly
<1>6. \A l \in ItemsAt(s) \ OnShelf(held, s) : d[l] = 0
  BY DEF ItemsAt, OnShelf
<1> HIDE DEF d
<1>7. Sum(d, ItemsAt(s)) = Sum(d, OnShelf(held, s))
  <2>1. OnShelf(held, s) \in SUBSET ItemsAt(s)
    BY <1>0, RequiredIs
  <2>2. IsFiniteSet(ItemsAt(s))
    BY Shares
  <2> QED BY <1>4, <1>6, <2>1, <2>2, SumSupport
<1>8. Sum(d, OnShelf(held, s)) = -Required(held, s) /\ Required(held, s) \in Nat
  BY <1>0, <1>5, RequiredIs, SumOpposite
<1>9. Promised(s)' = Promised(s) + Sum(d, ItemsAt(s)) /\ Promised(s) \in Nat /\ Promised(s)' \in Nat
  BY <1>4, PromisedMoves
<1> QED
  BY <1>7, <1>8, <1>9 DEF held

\* Rows X among those read, as they were read, become active.
LEMMA Resumed ==
  ASSUME resv \in [Items -> RowType], (resv \in [Items -> RowType])',
         NEW rows, Partly(rows, Items, RowType), NEW X \in SUBSET DOMAIN rows,
         \A l \in X : /\ rows[l].qty = resv[l].qty /\ resv[l].status # "active"
                      /\ resv'[l].status = "active" /\ resv'[l].qty = resv[l].qty,
         \A l \in Items \ X : resv'[l] = resv[l], NEW s
  PROVE  /\ Promised(s)' = Promised(s) + Units(rows, OnShelf(rows, s) \cap X)
         /\ Promised(s) \in Nat /\ Promised(s)' \in Nat
<1> DEFINE d == [l \in Items |-> IF l \in X THEN rows[l].qty ELSE 0]
           T == OnShelf(rows, s) \cap X
<1>1. \A l \in DOMAIN rows : rows[l].qty \in Nat /\ l \in Items
  BY RequiredIs DEF Partly
<1>2. \A l \in Items : d[l] \in Int /\ ShareOf(resv')[l] = ShareOf(resv)[l] + d[l]
  <2> TAKE l \in Items
  <2>1. resv[l].qty \in Nat
    BY DEF RowType
  <2> QED BY <1>1, <2>1 DEF ShareOf
<1>3. \A l \in ItemsAt(s) : d[l] \in Int /\ ShareOf(resv')[l] = ShareOf(resv)[l] + d[l]
  BY <1>2 DEF ItemsAt
<1>4. \A l \in ItemsAt(s) \ T : d[l] = 0
  BY DEF ItemsAt, OnShelf
<1>5. T \in SUBSET OnShelf(rows, s) /\ T \in SUBSET ItemsAt(s)
  BY RequiredIs
<1>6. \A l \in T : d[l] \in Int /\ d[l] = Qty(rows)[l]
  BY <1>1 DEF Qty
<1> HIDE DEF d, T
<1>7. Sum(d, ItemsAt(s)) = Sum(d, T)
  BY <1>3, <1>4, <1>5, Shares, SumSupport, ZenonT(40)
<1>8. Sum(d, T) = Units(rows, T)
  <2>1. IsFiniteSet(T)
    BY <1>5, RequiredIs, FS_Subset
  <2>2. Sum(d, T) = Sum(Qty(rows), T)
    BY <1>6, <2>1, SumSame DEF Sum
  <2> QED BY <1>5, <2>2, RequiredIs
<1>9. Promised(s)' = Promised(s) + Sum(d, ItemsAt(s)) /\ Promised(s) \in Nat /\ Promised(s)' \in Nat
  BY <1>3, PromisedMoves
<1> QED
  BY <1>7, <1>8, <1>9 DEF T

\* The cached sum added up anew is the promise.
LEMMA Recounted ==
  ASSUME NEW rows \in [Items -> RowType], NEW s
  PROVE  Required(ActiveRows(rows), s) = Sum(ShareOf(rows), ItemsAt(s))
<1> DEFINE held == ActiveRows(rows)
<1>0. Partly(rows, Items, RowType)
  BY DEF Partly
<1>1. /\ Partly(held, Items, RowType) /\ DOMAIN held = {k \in Items : rows[k].status = "active"}
      /\ \A l \in DOMAIN held : held[l] = rows[l]
  BY <1>0, HeldRows
<1> HIDE DEF held
<1>2. OnShelf(held, s) = OnShelf(rows, s) \cap {l \in Items : rows[l].status = "active"}
  BY <1>1 DEF OnShelf
<1>3. Required(held, s) = Sum(Qty(held), OnShelf(held, s)) /\ IsFiniteSet(OnShelf(held, s))
  BY <1>1, RequiredIs
<1>4. Sum(Qty(held), OnShelf(held, s)) = Sum(Qty(rows), OnShelf(held, s))
  <2>1. \A l \in OnShelf(held, s) : Qty(held)[l] \in Int /\ Qty(held)[l] = Qty(rows)[l]
    <3>1. \A l \in DOMAIN held : held[l].qty \in Nat /\ held[l] = rows[l] /\ l \in DOMAIN rows
      BY <1>1, RequiredIs
    <3> QED BY <3>1 DEF OnShelf, Qty
  <2> QED BY <1>3, <2>1, SumSame DEF Sum
<1>5. Sum(Qty(rows), OnShelf(held, s)) = Units(rows, OnShelf(held, s))
  <2>1. OnShelf(held, s) \in SUBSET OnShelf(rows, s)
    BY <1>2
  <2> QED BY <1>0, <2>1, RequiredIs
<1>6. Units(rows, OnShelf(held, s)) = Sum(ShareOf(rows), ItemsAt(s))
  BY <1>2, Shares
<1> QED
  BY <1>3, <1>4, <1>5, <1>6 DEF held

\* An issue books what it takes off the quantity it has read, in whatever
\* pieces it gives the stock before and after each line.
LEMMA SoldIsTaken ==
  ASSUME NEW rows, Partly(rows, Items, RowType), NEW saw, NEW s, OnShelf(rows, s) # {} => saw[s] \in Nat
  PROVE  /\ \A l \in OnShelf(rows, s) :
              /\ Before(rows, saw, l) \in Nat /\ After(rows, saw, l) \in Nat
              /\ After(rows, saw, l) <= Before(rows, saw, l)
              /\ Required(rows, s) <= saw[s] => Before(rows, saw, l) - After(rows, saw, l) = rows[l].qty
         /\ Sold(rows, saw, s) = IF OnShelf(rows, s) = {} THEN 0 ELSE saw[s] - Floor(saw[s] - Required(rows, s))
<1> DEFINE S == OnShelf(rows, s)
           q == Qty(rows)
           n == saw[s]
           f == [l \in S |-> Before(rows, saw, l) - After(rows, saw, l)]
           low(l) == {k \in S : k < l}
<1>1. /\ IsFiniteSet(S) /\ S \in SUBSET Items
      /\ \A l \in S : q[l] = rows[l].qty /\ q[l] \in Nat
      /\ Required(rows, s) = Sum(q, S) /\ Required(rows, s) \in Nat
      /\ \A T \in SUBSET S : Units(rows, T) = Sum(q, T) /\ Units(rows, T) \in Nat
  BY RequiredIs DEF OnShelf, Partly
<1>2. S \in SUBSET Int
  <2>1. Items \in SUBSET Int
    BY ItemFacts
  <2> HIDE DEF S, q
  <2> QED BY <1>1, <2>1
<1>3. \A l \in S : /\ Before(rows, saw, l) = Floor(n - Sum(q, low(l)))
                   /\ After(rows, saw, l) = Floor(Floor(n - Sum(q, low(l))) - q[l])
                   /\ Sum(q, low(l)) \in Nat
  <2> TAKE l \in S
  <2>1. ShelfOf[l] = s
    BY DEF OnShelf
  <2>2. low(l) \in SUBSET S
    OBVIOUS
  <2>3. Units(rows, low(l)) = Sum(q, low(l)) /\ Sum(q, low(l)) \in Nat
    <3> HIDE DEF S, q, low
    <3> QED BY <1>1, <2>2
  <2>4. Before(rows, saw, l) = Floor(n - Units(rows, low(l)))
    BY <2>1 DEF Before
  <2> QED BY <1>1, <2>3, <2>4 DEF After
<1>4. S # {} => n \in Nat
  OBVIOUS
<1> HIDE DEF S, q, n
<1>5. \A l \in S : /\ Before(rows, saw, l) \in Nat /\ After(rows, saw, l) \in Nat
                   /\ After(rows, saw, l) <= Before(rows, saw, l)
                   /\ f[l] = Floor(n - Sum(q, low(l))) - Floor(n - Sum(q, low(l)) - q[l])
  <2> TAKE l \in S
  <2>1. n - Sum(q, low(l)) \in Int /\ q[l] \in Nat
    BY <1>1, <1>3, <1>4
  <2> HIDE DEF low
  <2>2. /\ Floor(n - Sum(q, low(l))) \in Nat
        /\ Floor(Floor(n - Sum(q, low(l))) - q[l]) = Floor(n - Sum(q, low(l)) - q[l])
        /\ Floor(Floor(n - Sum(q, low(l))) - q[l]) <= Floor(n - Sum(q, low(l)))
    BY <2>1, Floors
  <2>3. Floor(Floor(n - Sum(q, low(l))) - q[l]) \in Nat
    <3>1. Floor(n - Sum(q, low(l))) - q[l] \in Int
      BY <2>1, <2>2
    <3> QED BY <3>1, Floors
  <2> QED BY <1>3, <2>2, <2>3
<1>6. \A l \in S : Required(rows, s) <= n => Before(rows, saw, l) - After(rows, saw, l) = rows[l].qty
  <2> SUFFICES ASSUME NEW l \in S, Required(rows, s) <= n
               PROVE  Before(rows, saw, l) - After(rows, saw, l) = rows[l].qty
    OBVIOUS
  <2>1. low(l) \cup {l} \in SUBSET S /\ l \notin low(l) /\ IsFiniteSet(low(l))
    <3>1. low(l) \in SUBSET S /\ l \in Int
      BY <1>2
    <3> QED BY <1>1, <3>1, FS_Subset
  <2>2. Sum(q, low(l) \cup {l}) = q[l] + Sum(q, low(l))
    <3>1. \A x \in low(l) \cup {l} : q[x] \in Int
      BY <1>1, <2>1
    <3> HIDE DEF low
    <3> QED BY <2>1, <3>1, SumAdd DEF Sum
  <2>3. Sum(q, low(l) \cup {l}) <= Sum(q, S)
    <3> HIDE DEF low
    <3> QED BY <1>1, <2>1, SumSubset
  <2>4. q[l] \in Nat /\ q[l] = rows[l].qty /\ n \in Nat /\ Sum(q, low(l)) \in Nat /\ Sum(q, S) <= n /\ Sum(q, S) \in Nat
    BY <1>1, <1>3, <1>4
  <2> HIDE DEF low
  <2>5. n - Sum(q, low(l)) >= q[l]
    BY <2>2, <2>3, <2>4
  <2>6. Floor(n - Sum(q, low(l))) = n - Sum(q, low(l))
    BY <2>4, <2>5 DEF Floor
  <2>7. Floor(n - Sum(q, low(l)) - q[l]) = n - Sum(q, low(l)) - q[l]
    BY <2>4, <2>5 DEF Floor
  <2> QED BY <1>3, <2>4, <2>6, <2>7
<1>7. Sold(rows, saw, s) = Sum(f, S)
  <2>1. \A l \in S : Before(rows, saw, l) - After(rows, saw, l) \in Int
    <3> SUFFICES ASSUME NEW l \in S PROVE Before(rows, saw, l) - After(rows, saw, l) \in Int
      OBVIOUS
    <3>1. Before(rows, saw, l) \in Nat /\ After(rows, saw, l) \in Nat
      BY <1>5
    <3> QED BY <3>1
  <2> QED BY <1>1, <2>1, SoldIs DEF S
<1>8. CASE S = {}
  <2>1. Sum(f, S) = 0
    BY <1>8, SumEmpty DEF Sum
  <2> QED BY <1>7, <1>8, <2>1 DEF S
<1>9. CASE S # {}
  <2>1. \A l \in S : f[l] = Floor(n - Sum(q, {k \in S : k < l})) - Floor(n - Sum(q, {k \in S : k < l}) - q[l])
    <3> HIDE DEF f
    <3> QED BY <1>5
  <2>2. \A x \in S : q[x] \in Nat
    BY <1>1
  <2> HIDE DEF f
  <2>3. Sum(f, S) = n - Floor(n - Sum(q, S))
    BY <1>1, <1>2, <1>4, <1>9, <2>1, <2>2, Telescope
  <2> QED BY <1>1, <1>5, <1>6, <1>7, <1>9, <2>3 DEF S, n
<1> QED
  BY <1>8, <1>9

PickedAt(pick, s) == {l \in DOMAIN pick : ShelfOf[l] = s}

LEMMA PickedIs ==
  ASSUME NEW pick, Partly(pick, Items, Nat), NEW s
  PROVE  /\ Picked(pick, s) = Sum(pick, PickedAt(pick, s)) /\ Picked(pick, s) \in Nat
         /\ IsFiniteSet(PickedAt(pick, s)) /\ PickedAt(pick, s) \in SUBSET ItemsAt(s)
         /\ \A rows : /\ DOMAIN rows = DOMAIN pick
                      /\ \A l \in DOMAIN pick : rows[l].qty = pick[l]
                      /\ Partly(rows, Items, RowType)
                      => Required(rows, s) = Picked(pick, s)
<1>1. PickedAt(pick, s) \in SUBSET ItemsAt(s) /\ PickedAt(pick, s) \in SUBSET Items
  BY DEF PickedAt, ItemsAt, Partly
<1>2. IsFiniteSet(PickedAt(pick, s))
  BY <1>1, ItemFacts, FS_Subset
<1>3. \A l \in PickedAt(pick, s) : pick[l] \in Nat
  BY DEF PickedAt, Partly
<1>4. Picked(pick, s) = Sum(pick, PickedAt(pick, s))
  BY PlainSum DEF Picked, PickedAt
<1>5. Sum(pick, PickedAt(pick, s)) \in Nat
  BY <1>2, <1>3, SumSubset
<1>6. ASSUME NEW rows, DOMAIN rows = DOMAIN pick, \A l \in DOMAIN pick : rows[l].qty = pick[l],
             Partly(rows, Items, RowType)
      PROVE  Required(rows, s) = Picked(pick, s)
  <2>1. OnShelf(rows, s) = PickedAt(pick, s)
    BY <1>6 DEF OnShelf, PickedAt
  <2>2. Required(rows, s) = Sum(Qty(rows), PickedAt(pick, s))
    BY <1>6, <2>1, RequiredIs
  <2>3. \A l \in PickedAt(pick, s) : Qty(rows)[l] \in Int /\ Qty(rows)[l] = pick[l]
    BY <1>3, <1>6 DEF PickedAt, Qty
  <2> QED BY <1>2, <1>4, <2>2, <2>3, SumSame DEF Sum
<1> QED
  BY <1>1, <1>2, <1>4, <1>5, <1>6

\* Selected lines leave; what is split off them stays promised.
LEMMA SplitOff ==
  ASSUME resv \in [Items -> RowType], (resv \in [Items -> RowType])',
         NEW pick, Partly(pick, Items, Nat), NEW cut \in SUBSET (Lines \cap DOMAIN pick),
         \A l \in DOMAIN pick : /\ resv[l].status = "active" /\ resv'[l].status = "fulfilled"
                                /\ l \notin cut => pick[l] = resv[l].qty,
         \A l \in cut : /\ Remainder[l] # 0 /\ Remainder[l] \notin DOMAIN pick
                        /\ resv[Remainder[l]].status # "active"
                        /\ resv'[Remainder[l]] = [status |-> "active", qty |-> resv[l].qty - pick[l]],
         \A l \in Items : l \notin DOMAIN pick /\ l \notin {Remainder[k] : k \in cut} => resv'[l] = resv[l],
         NEW s
  PROVE  /\ Promised(s)' = Promised(s) - Picked(pick, s)
         /\ Promised(s) \in Nat /\ Promised(s)' \in Nat
<1> DEFINE P == PickedAt(pick, s)
           C == cut \cap P
           R == {Remainder[l] : l \in C}
           name == [l \in C |-> Remainder[l]]
           d == [l \in Items |-> ShareOf(resv')[l] - ShareOf(resv)[l]]
           e == [l \in P |-> resv[l].qty - pick[l]]
           lost == [l \in P |-> -pick[l]]
<1>1. IsFiniteSet(P) /\ P \in SUBSET ItemsAt(s) /\ Picked(pick, s) = Sum(pick, P) /\ Picked(pick, s) \in Nat
  BY PickedIs
<1>2. resv' \in [Items -> RowType] /\ \A l \in Items : resv[l].qty \in Nat
  BY DEF RowType
<1>3. \A l \in Items : ShareOf(resv')[l] \in Nat /\ ShareOf(resv)[l] \in Nat
  BY <1>2, Shares
<1>4. \A l \in ItemsAt(s) : d[l] \in Int /\ ShareOf(resv')[l] = ShareOf(resv)[l] + d[l]
  BY <1>3 DEF ItemsAt
<1>5. \A l \in P : pick[l] \in Nat /\ l \in Items /\ l \in DOMAIN pick /\ ShelfOf[l] = s
  BY DEF PickedAt, Partly
<1>6. \A l \in P : d[l] = -resv[l].qty
  BY <1>2, <1>5 DEF ShareOf
<1>7. \A l \in C : Remainder[l] \in Items /\ ShelfOf[Remainder[l]] = s /\ Remainder[l] \notin P
  <2> TAKE l \in C
  <2>1. l \in Lines /\ Remainder[l] # 0 /\ ShelfOf[l] = s
    BY <1>5
  <2> QED BY <2>1, ItemFacts, StockAssumption DEF PickedAt
<1>8. \A l \in C : d[Remainder[l]] = e[l]
  <2> TAKE l \in C
  <2>1. ShareOf(resv)[Remainder[l]] = 0 /\ ShareOf(resv')[Remainder[l]] = resv[l].qty - pick[l]
    <3>1. l \in cut /\ Remainder[l] \in Items
      BY <1>7
    <3>2. resv[Remainder[l]].status # "active"
          /\ resv'[Remainder[l]] = [status |-> "active", qty |-> resv[l].qty - pick[l]]
      BY <3>1
    <3>3. resv'[Remainder[l]].status = "active" /\ resv'[Remainder[l]].qty = resv[l].qty - pick[l]
      BY <3>2
    <3> HIDE DEF C
    <3> QED BY <3>1, <3>2, <3>3 DEF ShareOf
  <2>2. resv[l].qty \in Nat /\ pick[l] \in Nat
    BY <1>2, <1>5
  <2> QED BY <1>7, <2>1, <2>2
<1>9. IsFiniteSet(C) /\ IsFiniteSet(R) /\ R \in SUBSET ItemsAt(s) /\ P \cap R = {}
  <2>1. IsFiniteSet(C)
    BY <1>1, FS_Subset
  <2>2. R \in SUBSET ItemsAt(s) /\ P \cap R = {}
    BY <1>7 DEF ItemsAt
  <2>3. IsFiniteSet(R)
    <3> HIDE DEF R
    <3> QED BY <2>2, Shares, FS_Subset
  <2> QED BY <2>1, <2>2, <2>3
<1>10. \A l \in ItemsAt(s) \ (P \cup R) : d[l] = 0
  <2> TAKE l \in ItemsAt(s) \ (P \cup R)
  <2>1. l \in Items /\ ShelfOf[l] = s /\ l \notin DOMAIN pick
    BY DEF ItemsAt, PickedAt
  <2>2. l \notin {Remainder[k] : k \in cut}
    <3> SUFFICES ASSUME NEW k \in cut, l = Remainder[k] PROVE FALSE
      OBVIOUS
    <3>1. k \in Lines /\ k \in DOMAIN pick /\ Remainder[k] # 0
      OBVIOUS
    <3>2. ShelfOf[k] = s
      BY <2>1, <3>1, StockAssumption
    <3> QED BY <3>1, <3>2 DEF PickedAt
  <2>3. ShareOf(resv')[l] = ShareOf(resv)[l]
    BY <2>1, <2>2 DEF ShareOf
  <2> QED BY <1>3, <2>1, <2>3
<1>11. \A l \in P : e[l] \in Int /\ d[l] \in Int /\ lost[l] = d[l] + e[l] /\ lost[l] = -pick[l] /\ pick[l] \in Int
  <2> TAKE l \in P
  <2>1. resv[l].qty \in Nat /\ pick[l] \in Nat /\ d[l] = -resv[l].qty
    BY <1>2, <1>5, <1>6
  <2> HIDE DEF d
  <2> QED BY <2>1
<1>12. \A l \in P \ C : e[l] = 0
  <2> TAKE l \in P \ C
  <2>1. pick[l] = resv[l].qty /\ resv[l].qty \in Nat
    BY <1>2, <1>5
  <2> QED BY <2>1
<1>13. /\ \A x \in C : name[x] \in R /\ e[x] \in Int /\ e[x] = d[name[x]]
       /\ \A x, y \in C : name[x] = name[y] => x = y
       /\ \A z \in R : \E x \in C : name[x] = z
  <2>1. \A x \in C : name[x] \in R /\ e[x] \in Int /\ e[x] = d[name[x]]
    <3> TAKE x \in C
    <3>1. name[x] = Remainder[x] /\ x \in P
      OBVIOUS
    <3> HIDE DEF e, d
    <3> QED BY <1>8, <1>11, <3>1
  <2>2. \A x, y \in C : name[x] = name[y] => x = y
    <3> SUFFICES ASSUME NEW x \in C, NEW y \in C, Remainder[x] = Remainder[y] PROVE x = y
      OBVIOUS
    <3>1. x \in Lines /\ y \in Lines /\ Remainder[x] # 0
      OBVIOUS
    <3> QED BY <3>1, StockAssumption
  <2>3. \A z \in R : \E x \in C : name[x] = z
    OBVIOUS
  <2> QED BY <2>1, <2>2, <2>3
<1> HIDE DEF d, e, lost, name, P, C, R
<1>14. Sum(d, ItemsAt(s)) = Sum(d, P \cup R)
  <2>1. P \cup R \in SUBSET ItemsAt(s) /\ IsFiniteSet(ItemsAt(s))
    BY <1>1, <1>9, Shares
  <2> QED BY <1>4, <1>10, <2>1, SumSupport
<1>15. Sum(d, P \cup R) = Sum(d, P) + Sum(d, R)
  <2>1. \A x \in P \cup R : d[x] \in Int
    BY <1>1, <1>4, <1>9
  <2> QED BY <1>1, <1>9, <2>1, SumUnion DEF Sum
<1>16. Sum(e, C) = Sum(d, R)
  BY <1>9, <1>13, SumRenamed DEF Sum
<1>17. Sum(e, P) = Sum(e, C)
  <2>1. C \in SUBSET P
    BY DEF C
  <2> QED BY <1>1, <1>11, <1>12, <2>1, SumSupport
<1>18. Sum(lost, P) = Sum(d, P) + Sum(e, P)
  BY <1>1, <1>11, SumPlus DEF Sum
<1>19. Sum(lost, P) = -Sum(pick, P) /\ Sum(pick, P) \in Int
  BY <1>1, <1>11, SumOpposite
<1>20. Promised(s)' = Promised(s) + Sum(d, ItemsAt(s)) /\ Promised(s) \in Nat /\ Promised(s)' \in Nat
  BY <1>4, PromisedMoves, ZenonT(40)
<1> QED
  BY <1>1, <1>14, <1>15, <1>16, <1>17, <1>18, <1>19, <1>20

-----------------------------------------------------------------------------
(***************************************************************************)
(* The invariant of the tables and of what handlers have read.  It needs   *)
(* no assumption on who keeps apart.                                       *)
(***************************************************************************)

ItemType == [status : {"absent", "new", "reserved", "pending_reservation", "reservation_released", "fulfilled"},
             qty : Nat, before : Nat, after : Nat, origin : Nat]
ShelfType == [quantity : Nat, reserved : Nat]
EntryType == [req : Requests, line : Items, qty : Nat \ {0}, cancelled : BOOLEAN, at : Nat]

TablesOK ==
  /\ stock \in [Shelves -> ShelfType]
  /\ ledger \in [Shelves -> Int] /\ counts \in [Shelves -> 0 .. MaxCounts]
  /\ resv \in [Items -> RowType] /\ item \in [Items -> ItemType]
  /\ since \in [Items -> Nat] /\ answered \in [Items -> Nat] /\ sent \in [Orders -> BOOLEAN]
  /\ dispatches \subseteq EntryType
  /\ proc = [h \in Handlers |-> proc[h]]
  /\ spent \in 0 .. MaxOps

\* A row that does not exist yet has no units and no reservation; item and
\* reservation agree; the issue of an item follows no count still to come.
LineOK(l) ==
  /\ item[l].after <= item[l].before
  /\ resv[l].status # "none" => item[l].status # "absent" /\ resv[l].qty = item[l].qty
  /\ item[l].status = "absent" => item[l].qty = 0
  /\ since[l] <= counts[ShelfOf[l]]

WholeOK(l) ==
  /\ item[l].status # "absent"
  /\ Ordered[l] = item[l].qty + (IF Remainder[l] = 0 THEN 0 ELSE item[Remainder[l]].qty)

\* The rows a handler has read are rows of its order; since then they can
\* only have lost units, to a remainder.
RowsRead(p, rows) ==
  /\ Partly(rows, LinesOf(p.order), RowType)
  /\ \A l \in DOMAIN rows : resv[l].status # "none" /\ resv[l].qty <= rows[l].qty

Past(p) == p.at \in [Shelves -> Nat] /\ \A s \in Shelves : p.at[s] <= counts[s]

\* What a dispatch will split off does not exist yet, or the line it is split
\* off has changed since it was read.
PickRead(p) ==
  /\ RowsRead(p, p.rows) /\ DOMAIN p.pick = DOMAIN p.rows /\ p.req \in Requests
  /\ p.pick \in [DOMAIN p.pick -> Nat \ {0}]
  /\ \A l \in DOMAIN p.pick :
       /\ p.rows[l].status = "active" /\ p.pick[l] <= p.rows[l].qty
       /\ p.pick[l] < p.rows[l].qty =>
            /\ l \in Lines /\ Remainder[l] # 0
            /\ item[Remainder[l]].status = "absent" \/ resv[l].qty < p.rows[l].qty

Issues(p) == p.op \in {"ship", "handover"}

JobOK(p) ==
  \/ p = Idle
  \/ /\ p.order \in Orders
     /\ \/ /\ p.op = "reserve" /\ p.pc = "commit"
           /\ p.line \in LinesOf(p.order) /\ item[p.line].status # "absent" /\ p.at \in Nat
        \/ p.op \in {"release", "release_order", "reactivate"} /\ p.pc = "commit" /\ RowsRead(p, p.rows)
        \/ /\ p.op = "ship" /\ p.pc = "recover" /\ p.wait \subseteq LinesOf(p.order)
           /\ p = [op |-> "ship", pc |-> "recover", order |-> p.order, wait |-> p.wait]
        \/ Issues(p) /\ p.pc = "rows" /\ Past(p) /\ Partly(p.sure, Shelves, Nat)
        \/ Issues(p) /\ p.pc = "stock" /\ Past(p) /\ RowsRead(p, p.rows)
        \/ Issues(p) /\ p.pc = "commit" /\ Past(p) /\ RowsRead(p, p.rows) /\ p.saw \in [ShelvesOf(p.rows) -> Nat]
        \/ p.op = "dispatch" /\ p.pc = "stock" /\ PickRead(p)
        \/ /\ p.op = "dispatch" /\ p.pc = "commit" /\ PickRead(p) /\ Past(p)
           /\ p.saw \in [ShelvesOf(p.pick) -> ShelfType]
           /\ \A s \in ShelvesOf(p.pick) :
                Picked(p.pick, s) <= p.saw[s].quantity /\ Picked(p.pick, s) <= p.saw[s].reserved
        \/ /\ p.op = "cancel" /\ p.pc \in {"recent", "commit"}
           /\ p.entry \in EntryType /\ ~p.entry.cancelled /\ OrderOf[p.entry.line] = p.order
           /\ p.pc = "commit" => p.counted \in BOOLEAN
        \/ p.op = "correct" /\ p.pc = "truth" /\ Partly(p.took, LinesOf(p.order), [units : Nat, since : Nat])
        \/ p.op = "correct" /\ p.pc = "commit" /\ Partly(p.back, LinesOf(p.order), Nat)

CoreInv ==
  /\ TablesOK
  /\ \A l \in Items : LineOK(l)
  /\ \A l \in Lines : WholeOK(l)
  /\ \A h \in Handlers : JobOK(proc[h])
  /\ BooksFollowMovements

\* What every step respects: a row stays once it exists, a reservation can only
\* lose units, and a remainder appears with the units its line loses.
Onward ==
  /\ \A l \in Items :
       /\ item[l].status # "absent" => item'[l].status # "absent"
       /\ resv[l].status # "none" => resv'[l].status # "none" /\ resv'[l].qty <= resv[l].qty
  /\ \A l \in Lines :
       Remainder[l] # 0 /\ item[Remainder[l]].status = "absent" /\ item'[Remainder[l]].status # "absent" =>
         resv'[l].qty < resv[l].qty
  /\ \A s \in Shelves : counts[s] <= counts'[s]

LEMMA RowsReadOn ==
  ASSUME TablesOK, TablesOK', Onward, NEW h \in Handlers, proc'[h] = proc[h], RowsRead(proc[h], proc[h].rows)
  PROVE  RowsRead(proc[h], proc[h].rows)'
<1> DEFINE p == proc[h]
           rows == p.rows
<1>1. LinesOf(p.order)' = LinesOf(p.order)
  BY DEF LinesOf
<1>2. Partly(rows, LinesOf(p.order), RowType)'
  BY <1>1 DEF RowsRead, Partly, RowType
<1>3. \A l \in DOMAIN rows : l \in Items /\ rows[l].qty \in Nat
  BY DEF RowsRead, Partly, RowType, LinesOf
<1>4. \A l \in DOMAIN rows : resv'[l].status # "none" /\ resv'[l].qty <= rows[l].qty
  <2> TAKE l \in DOMAIN rows
  <2>1. resv[l].status # "none" /\ resv[l].qty <= rows[l].qty
    BY DEF RowsRead
  <2>2. resv'[l].status # "none" /\ resv'[l].qty <= resv[l].qty /\ resv[l].qty \in Nat /\ resv'[l].qty \in Nat
    BY <1>3, <2>1 DEF Onward, TablesOK, RowType
  <2> QED BY <1>3, <2>1, <2>2
<1> QED
  BY <1>2, <1>4 DEF RowsRead

LEMMA PastOn ==
  ASSUME TablesOK, TablesOK', Onward, NEW h \in Handlers, proc'[h] = proc[h], Past(proc[h])
  PROVE  Past(proc[h])'
<1>1. \A s \in Shelves : proc[h].at[s] <= counts'[s]
  <2> TAKE s \in Shelves
  <2>1. proc[h].at[s] <= counts[s] /\ counts[s] <= counts'[s]
    BY DEF Past, Onward
  <2>2. proc[h].at[s] \in Nat /\ counts[s] \in 0 .. MaxCounts /\ counts'[s] \in 0 .. MaxCounts
    BY DEF Past, TablesOK
  <2> QED BY <2>1, <2>2, StockAssumption
<1> QED
  BY <1>1 DEF Past

LEMMA PickReadOn ==
  ASSUME TablesOK, TablesOK', Onward, NEW h \in Handlers, proc'[h] = proc[h], PickRead(proc[h])
  PROVE  PickRead(proc[h])'
<1> DEFINE p == proc[h]
<1>1. RowsRead(p, p.rows)'
  BY RowsReadOn DEF PickRead
<1>2. \A l \in DOMAIN p.pick :
        p.pick[l] < p.rows[l].qty => item'[Remainder[l]].status = "absent" \/ resv'[l].qty < p.rows[l].qty
  <2> SUFFICES ASSUME NEW l \in DOMAIN p.pick, p.pick[l] < p.rows[l].qty, item'[Remainder[l]].status # "absent"
               PROVE  resv'[l].qty < p.rows[l].qty
    OBVIOUS
  <2>1. l \in DOMAIN p.rows /\ l \in Lines /\ Remainder[l] # 0 /\ l \in Items
    BY ItemFacts DEF PickRead
  <2>2. resv[l].status # "none" /\ resv[l].qty <= p.rows[l].qty /\ p.rows[l].qty \in Nat
    BY <2>1 DEF PickRead, RowsRead, Partly, RowType
  <2>3. resv'[l].qty <= resv[l].qty /\ resv[l].qty \in Nat /\ resv'[l].qty \in Nat
    BY <2>1, <2>2 DEF Onward, TablesOK, RowType
  <2>4. CASE item[Remainder[l]].status = "absent"
    <3>1. resv'[l].qty < resv[l].qty
      BY <2>1, <2>4 DEF Onward
    <3> QED BY <2>2, <2>3, <3>1
  <2>5. CASE resv[l].qty < p.rows[l].qty
    BY <2>2, <2>3, <2>5
  <2> QED BY <2>4, <2>5 DEF PickRead
<1> QED
  BY <1>1, <1>2 DEF PickRead

\* A handler's work stays what it is while others take steps.
LEMMA JobOn ==
  ASSUME TablesOK, TablesOK', Onward, NEW h \in Handlers, proc'[h] = proc[h], JobOK(proc[h])
  PROVE  JobOK(proc[h])'
<1>1. RowsRead(proc[h], proc[h].rows) => RowsRead(proc[h], proc[h].rows)'
  BY RowsReadOn
<1>2. Past(proc[h]) => Past(proc[h])'
  BY PastOn
<1>3. PickRead(proc[h]) => PickRead(proc[h])'
  BY PickReadOn
<1>4. proc[h].order' = proc[h].order /\ LinesOf(proc[h].order)' = LinesOf(proc[h].order)
      /\ Issues(proc[h])' = Issues(proc[h]) /\ Idle' = Idle
  BY DEF LinesOf, Issues, Idle
<1>5. ASSUME proc[h].line \in LinesOf(proc[h].order), item[proc[h].line].status # "absent"
      PROVE  item'[proc[h].line].status # "absent"
  BY <1>5 DEF LinesOf, Onward
<1>6. /\ ShelvesOf(proc[h].rows)' = ShelvesOf(proc[h].rows) /\ ShelvesOf(proc[h].pick)' = ShelvesOf(proc[h].pick)
      /\ \A s : Picked(proc[h].pick, s)' = Picked(proc[h].pick, s)
  BY DEF ShelvesOf, Picked, MapThenSumSet, MapThenFoldSet
<1> QED
  BY <1>1, <1>2, <1>3, <1>4, <1>5, <1>6, SMTT(30) DEF JobOK, Partly, EntryType, ShelfType

LEMMA CoreWrite ==
  ASSUME CoreInv, TablesOK', Onward,
         \A l \in Items : LineOK(l)', \A l \in Lines : WholeOK(l)', BooksFollowMovements',
         \A g \in Handlers : proc'[g] = proc[g] \/ JobOK(proc[g])'
  PROVE  CoreInv'
<1>1. \A g \in Handlers : JobOK(proc[g])'
  BY JobOn DEF CoreInv
<1> QED
  BY <1>1 DEF CoreInv

LEMMA IdleJob == JobOK(Idle) /\ JobOK(Idle)' /\ Idle.op = "idle"
BY DEF JobOK, Idle

\* A step that only gives handler h something to do.
LEMMA JobStep ==
  ASSUME CoreInv, NEW h \in Handlers, NEW rec, JobOK(rec), proc' = [proc EXCEPT ![h] = rec],
         spent' \in 0 .. MaxOps, UNCHANGED database
  PROVE  CoreInv'
<1>1. /\ stock' = stock /\ ledger' = ledger /\ counts' = counts /\ resv' = resv /\ item' = item /\ since' = since
      /\ answered' = answered /\ sent' = sent /\ dispatches' = dispatches
  BY DEF database
<1>2. proc = [g \in Handlers |-> proc[g]]
  BY DEF CoreInv, TablesOK
<1>3. proc' = [g \in Handlers |-> proc'[g]] /\ proc'[h] = rec /\ \A g \in Handlers \ {h} : proc'[g] = proc[g]
  BY <1>2
<1>4. TablesOK'
  BY <1>1, <1>3 DEF CoreInv, TablesOK
<1>5. Onward
  <2>1. \A s \in Shelves : counts[s] <= counts[s]
    BY StockAssumption DEF CoreInv, TablesOK
  <2>2. \A l \in Items : resv[l].qty <= resv[l].qty
    BY DEF CoreInv, TablesOK, RowType
  <2> QED BY <1>1, <2>1, <2>2 DEF Onward
<1>6. (\A l \in Items : LineOK(l)') /\ (\A l \in Lines : WholeOK(l)') /\ BooksFollowMovements'
  BY <1>1 DEF CoreInv, LineOK, WholeOK, BooksFollowMovements
<1>7. JobOK(rec)' <=> JobOK(rec)
  BY <1>1 DEF JobOK, RowsRead, PickRead, Past, Picked, MapThenSumSet, MapThenFoldSet, Issues, Idle,
              Partly, LinesOf, ShelvesOf, EntryType, ShelfType, RowType
<1>8. JobOK(proc[h])'
  <2>1. proc[h]' = rec
    BY <1>3
  <2>2. JobOK(proc[h])' <=> JobOK(rec)'
    BY <2>1
  <2> QED BY <1>7, <2>2
<1>9. \A g \in Handlers : proc'[g] = proc[g] \/ JobOK(proc[g])'
  BY <1>3, <1>8
<1> QED
  BY <1>4, <1>5, <1>6, <1>9, CoreWrite

LEMMA GivesUpStep ==
  ASSUME CoreInv, NEW h \in Handlers, GivesUp(h)
  PROVE  CoreInv'
<1>1. spent' \in 0 .. MaxOps
  BY DEF GivesUp, Goes, CoreInv, TablesOK
<1> QED
  BY <1>1, IdleJob, JobStep DEF GivesUp, Goes

LEMMA BeginStep ==
  ASSUME CoreInv, NEW h \in Handlers, NEW o, NEW op, NEW rec, Begin(h, op, o, rec), JobOK(rec)
  PROVE  CoreInv'
<1>1. spent' \in 0 .. MaxOps
  BY StockAssumption DEF Begin, CoreInv, TablesOK
<1> QED
  BY <1>1, JobStep DEF Begin

LEMMA GoesStep ==
  ASSUME CoreInv, NEW h \in Handlers, NEW rec, Goes(h, rec), JobOK(rec)
  PROVE  CoreInv'
<1>1. spent' \in 0 .. MaxOps
  BY DEF Goes, CoreInv, TablesOK
<1> QED
  BY <1>1, JobStep DEF Goes

\* A step that changes the status of reservations and items, and perhaps makes
\* the reservation of an item, but moves no units between items.
LEMMA StatusStep ==
  ASSUME CoreInv, TablesOK', BooksFollowMovements',
         \A l \in Items :
           /\ item'[l].qty = item[l].qty /\ item'[l].after <= item'[l].before
           /\ item'[l].status = "absent" <=> item[l].status = "absent"
           /\ resv[l].status # "none" => resv'[l].status # "none" /\ resv'[l].qty = resv[l].qty
           /\ resv[l].status = "none" /\ resv'[l].status # "none" =>
                item[l].status # "absent" /\ resv'[l].qty = item[l].qty
           /\ since'[l] <= counts'[ShelfOf[l]],
         \A s \in Shelves : counts[s] <= counts'[s],
         \A g \in Handlers : proc'[g] = proc[g] \/ JobOK(proc[g])'
  PROVE  CoreInv'
<1>1. \A l \in Items : LineOK(l)'
  BY DEF CoreInv, LineOK
<1>2. \A l \in Lines : WholeOK(l)'
  <2> TAKE l \in Lines
  <2>1. l \in Items /\ (Remainder[l] # 0 => Remainder[l] \in Items)
    BY ItemFacts
  <2> QED BY <2>1 DEF CoreInv, WholeOK
<1>3. Onward
  <2>1. \A l \in Items : resv[l].qty <= resv[l].qty
    BY DEF CoreInv, TablesOK, RowType
  <2>2. \A l \in Lines : Remainder[l] # 0 => Remainder[l] \in Items
    BY ItemFacts
  <2> QED BY <2>1, <2>2 DEF Onward
<1> QED
  BY <1>1, <1>2, <1>3, CoreWrite

\* What is known of a handler from where it stands.
LEMMA JobIs ==
  ASSUME CoreInv, NEW h \in Handlers
  PROVE  LET p == proc[h] IN
    /\ At(h, "reserve", "commit") =>
         p.order \in Orders /\ p.line \in LinesOf(p.order) /\ item[p.line].status # "absent" /\ p.at \in Nat
    /\ p.op \in {"release", "release_order", "reactivate"} =>
         p.pc = "commit" /\ p.order \in Orders /\ RowsRead(p, p.rows)
    /\ At(h, "ship", "recover") =>
         /\ p.order \in Orders /\ p.wait \subseteq LinesOf(p.order)
         /\ p = [op |-> "ship", pc |-> "recover", order |-> p.order, wait |-> p.wait]
    /\ Issuing(h) => p.order \in Orders /\ (p.pc = "recover" => p.op = "ship") /\ p.pc \in {"recover", "rows", "stock", "commit"}
    /\ Issuing(h) /\ p.pc = "rows" => Past(p) /\ Partly(p.sure, Shelves, Nat)
    /\ Issuing(h) /\ p.pc \in {"stock", "commit"} => Past(p) /\ RowsRead(p, p.rows)
    /\ Issuing(h) /\ p.pc = "commit" => p.saw \in [ShelvesOf(p.rows) -> Nat]
    /\ p.op = "dispatch" => p.order \in Orders /\ PickRead(p)
    /\ At(h, "dispatch", "commit") =>
         /\ Past(p) /\ p.saw \in [ShelvesOf(p.pick) -> ShelfType]
         /\ \A s \in ShelvesOf(p.pick) :
              Picked(p.pick, s) <= p.saw[s].quantity /\ Picked(p.pick, s) <= p.saw[s].reserved
    /\ p.op = "cancel" =>
         p.order \in Orders /\ p.entry \in EntryType /\ ~p.entry.cancelled /\ OrderOf[p.entry.line] = p.order
    /\ At(h, "cancel", "commit") => p.counted \in BOOLEAN
    /\ p.op = "correct" => p.order \in Orders
    /\ At(h, "correct", "truth") => Partly(p.took, LinesOf(p.order), [units : Nat, since : Nat])
    /\ At(h, "correct", "commit") => Partly(p.back, LinesOf(p.order), Nat)
<1>1. JobOK(proc[h])
  BY DEF CoreInv
<1> QED
  BY <1>1, IdleJob DEF JobOK, At, Issuing, Issues

LEMMA RestrictRead ==
  ASSUME CoreInv, NEW p, NEW S \in SUBSET LinesOf(p.order), \A l \in S : resv[l].status # "none"
  PROVE  RowsRead(p, Restrict(resv, S))
<1>1. \A l \in S : l \in Items /\ resv[l] \in RowType
  BY DEF CoreInv, TablesOK, LinesOf
<1>2. Partly(Restrict(resv, S), LinesOf(p.order), RowType)
  BY <1>1 DEF Partly, Restrict
<1>3. \A l \in S : resv[l].qty <= resv[l].qty
  BY <1>1 DEF RowType
<1> QED
  BY <1>2, <1>3 DEF RowsRead, Restrict

LEMMA CoreBeginReserve ==
  ASSUME CoreInv, NEW h \in Handlers, NEW l \in Items, BeginReserve(h, l)
  PROVE  CoreInv'
<1>1. PICK rec : rec = [op |-> "reserve", pc |-> "commit", order |-> OrderOf[l], line |-> l, at |-> counts[ShelfOf[l]]]
  OBVIOUS
<1>2. l \in LinesOf(OrderOf[l]) /\ OrderOf[l] \in Orders /\ counts[ShelfOf[l]] \in Nat
  BY ItemFacts, StockAssumption DEF CoreInv, TablesOK, LinesOf
<1>3. JobOK(rec)
  BY <1>1, <1>2 DEF JobOK, BeginReserve
<1> QED
  BY <1>1, <1>3, BeginStep DEF BeginReserve

LEMMA CoreBeginRelease ==
  ASSUME CoreInv, NEW h \in Handlers, NEW l \in Items, BeginRelease(h, l) \/ BeginReactivate(h, l)
  PROVE  CoreInv'
<1>1. PICK op \in {"release", "reactivate"} :
        /\ resv[l].status # "none"
        /\ Begin(h, op, OrderOf[l], [op |-> op, pc |-> "commit", order |-> OrderOf[l], rows |-> Restrict(resv, {l})])
  BY DEF BeginRelease, BeginReactivate, Open, Having
<1>2. PICK rec : rec = [op |-> op, pc |-> "commit", order |-> OrderOf[l], rows |-> Restrict(resv, {l})]
  OBVIOUS
<1>3. rec.order \in Orders /\ {l} \in SUBSET LinesOf(rec.order)
  BY <1>2, ItemFacts DEF LinesOf
<1>4. RowsRead(rec, Restrict(resv, {l}))
  BY <1>1, <1>3, RestrictRead
<1>5. JobOK(rec)
  BY <1>1, <1>2, <1>3, <1>4 DEF JobOK
<1> QED
  BY <1>1, <1>2, <1>5, BeginStep

LEMMA CoreBeginReleaseOrder ==
  ASSUME CoreInv, NEW h \in Handlers, NEW o \in Orders, BeginReleaseOrder(h, o)
  PROVE  CoreInv'
<1>1. PICK rec : rec = [op |-> "release_order", pc |-> "commit", order |-> o, rows |-> Restrict(resv, LinesOf(o) \cap Open)]
  OBVIOUS
<1>2. RowsRead(rec, Restrict(resv, LinesOf(o) \cap Open))
  <2>1. LinesOf(o) \cap Open \in SUBSET LinesOf(rec.order) /\ \A l \in LinesOf(o) \cap Open : resv[l].status # "none"
    BY <1>1 DEF Open, Having
  <2> QED BY <2>1, RestrictRead
<1>3. JobOK(rec)
  BY <1>1, <1>2 DEF JobOK
<1> QED
  BY <1>1, <1>3, BeginStep DEF BeginReleaseOrder

LEMMA CoreBeginShip ==
  ASSUME CoreInv, NEW h \in Handlers, NEW o \in Orders, BeginShip(h, o)
  PROVE  CoreInv'
<1>1. PICK rec : rec = [op |-> "ship", pc |-> "recover", order |-> o, wait |-> Pending(o)]
  OBVIOUS
<1>2. Pending(o) \subseteq LinesOf(o)
  BY DEF Pending
<1>3. JobOK(rec)
  BY <1>1, <1>2 DEF JobOK
<1> QED
  BY <1>1, <1>3, BeginStep DEF BeginShip

LEMMA NowIsPast ==
  ASSUME CoreInv, NEW p, p.at = counts
  PROVE  Past(p)
<1>1. counts \in [Shelves -> Nat] /\ \A s \in Shelves : counts[s] <= counts[s]
  BY StockAssumption DEF CoreInv, TablesOK
<1> QED
  BY <1>1 DEF Past

\* The quantities asked for on some shelves.
LEMMA SureRead ==
  ASSUME CoreInv, NEW S \in SUBSET Shelves
  PROVE  Partly([s \in S |-> stock[s].quantity], Shelves, Nat)
BY DEF CoreInv, TablesOK, ShelfType, Partly

LEMMA CoreCheckShip ==
  ASSUME CoreInv, NEW h \in Handlers, CheckShip(h)
  PROVE  CoreInv'
<1> DEFINE o == proc[h].order
           rows == Restrict(resv, LinesOf(o) \cap Having("active"))
           short == {s \in ShelvesOf(rows) : stock[s].quantity < Required(rows, s)}
<1>1. CASE GivesUp(h)
  BY <1>1, GivesUpStep
<1>2. CASE Goes(h, [op |-> "ship", pc |-> "rows", order |-> o, scope |-> LinesOf(o), at |-> counts,
                    sure |-> [s \in short |-> stock[s].quantity]])
  <2>1. PICK rec : rec = [op |-> "ship", pc |-> "rows", order |-> o, scope |-> LinesOf(o), at |-> counts,
                          sure |-> [s \in short |-> stock[s].quantity]]
    OBVIOUS
  <2>2. short \in SUBSET Shelves /\ o \in Orders
    <3>1. At(h, "ship", "recover")
      BY DEF CheckShip
    <3>2. DOMAIN rows \subseteq Items
      BY DEF Restrict, LinesOf
    <3> HIDE DEF rows
    <3>3. ShelvesOf(rows) \subseteq Shelves
      BY <3>2, ItemFacts DEF ShelvesOf
    <3>4. o \in Orders
      BY <3>1, JobIs
    <3> QED BY <3>3, <3>4
  <2> HIDE DEF short
  <2>3. Past(rec) /\ Partly(rec.sure, Shelves, Nat)
    BY <2>1, <2>2, NowIsPast, SureRead
  <2>4. JobOK(rec)
    BY <2>1, <2>2, <2>3 DEF JobOK, Issues
  <2> QED
    BY <1>2, <2>1, <2>4, GoesStep
<1> QED
  BY <1>1, <1>2 DEF CheckShip

LEMMA CoreBeginHandover ==
  ASSUME CoreInv, NEW h \in Handlers, NEW l \in Items, BeginHandover(h, l)
  PROVE  CoreInv'
<1> DEFINE s == ShelfOf[l]
           short == IF stock[s].quantity < resv[l].qty THEN {s} ELSE {}
<1>1. PICK rec : rec = [op |-> "handover", pc |-> "rows", order |-> OrderOf[l], scope |-> {l}, at |-> counts,
                        sure |-> [t \in short |-> stock[t].quantity]]
  OBVIOUS
<1>2. short \in SUBSET Shelves /\ OrderOf[l] \in Orders
  BY ItemFacts
<1>3. Begin(h, "handover", OrderOf[l], rec)
  BY <1>1 DEF BeginHandover
<1> HIDE DEF short
<1>4. Past(rec) /\ Partly(rec.sure, Shelves, Nat)
  BY <1>1, <1>2, NowIsPast, SureRead
<1>5. JobOK(rec)
  BY <1>1, <1>2, <1>4 DEF JobOK, Issues
<1> QED
  BY <1>3, <1>5, BeginStep

LEMMA CoreReadRows ==
  ASSUME CoreInv, NEW h \in Handlers, ReadRows(h)
  PROVE  CoreInv'
<1> DEFINE p == proc[h]
           S == LinesOf(p.order) \cap p.scope \cap Open
           rows == Restrict(resv, S)
<1>1. CASE GivesUp(h)
  BY <1>1, GivesUpStep
<1>2. CASE Goes(h, [op |-> p.op, pc |-> "stock", order |-> p.order, rows |-> rows, sure |-> p.sure, at |-> p.at])
  <2>1. PICK rec : rec = [op |-> p.op, pc |-> "stock", order |-> p.order, rows |-> rows, sure |-> p.sure, at |-> p.at]
    OBVIOUS
  <2>2. S \in SUBSET LinesOf(rec.order) /\ \A l \in S : resv[l].status # "none"
    BY <2>1 DEF Open, Having
  <2>3. RowsRead(rec, rows)
    <3> HIDE DEF S
    <3> QED BY <2>2, RestrictRead
  <2>4. p.order \in Orders /\ Past(p) /\ p.op \in {"ship", "handover"}
    BY JobIs DEF ReadRows, Issuing
  <2> HIDE DEF rows
  <2>5. Past(rec)
    BY <2>1, <2>4 DEF Past
  <2>6. JobOK(rec)
    BY <2>1, <2>3, <2>4, <2>5 DEF JobOK, Issues
  <2> QED
    BY <1>2, <2>1, <2>6, GoesStep DEF rows
<1> QED
  BY <1>1, <1>2 DEF ReadRows

LEMMA CoreReadStock ==
  ASSUME CoreInv, NEW h \in Handlers, ReadStock(h)
  PROVE  CoreInv'
<1> DEFINE p == proc[h]
           saw == [s \in ShelvesOf(p.rows) |-> stock[s].quantity]
<1>1. CASE GivesUp(h)
  BY <1>1, GivesUpStep
<1>2. CASE Goes(h, [op |-> p.op, pc |-> "commit", order |-> p.order, rows |-> p.rows, at |-> p.at, saw |-> saw])
  <2>1. PICK rec : rec = [op |-> p.op, pc |-> "commit", order |-> p.order, rows |-> p.rows, at |-> p.at, saw |-> saw]
    OBVIOUS
  <2>2. p.order \in Orders /\ Past(p) /\ RowsRead(p, p.rows) /\ p.op \in {"ship", "handover"}
    BY JobIs DEF ReadStock, Issuing
  <2>3. ShelvesOf(p.rows) \subseteq Shelves
    BY <2>2, ItemFacts DEF ShelvesOf, RowsRead, Partly, LinesOf
  <2>4. saw \in [ShelvesOf(p.rows) -> Nat]
    BY <2>3 DEF CoreInv, TablesOK, ShelfType
  <2> HIDE DEF saw
  <2>5. Past(rec) /\ RowsRead(rec, rec.rows) /\ rec.saw \in [ShelvesOf(rec.rows) -> Nat]
    BY <2>1, <2>2, <2>4 DEF Past, RowsRead
  <2>6. JobOK(rec)
    BY <2>1, <2>2, <2>5 DEF JobOK, Issues
  <2> QED
    BY <1>2, <2>1, <2>6, GoesStep
<1> QED
  BY <1>1, <1>2 DEF ReadStock

LEMMA CoreBeginDispatch ==
  ASSUME CoreInv, NEW h \in Handlers, NEW o \in Orders, NEW r \in Requests, NEW pick \in Picks(o),
         BeginDispatch(h, o, r, pick)
  PROVE  CoreInv'
<1>1. PICK rec : rec = [op |-> "dispatch", pc |-> "stock", order |-> o, req |-> r, pick |-> pick,
                        rows |-> Restrict(resv, DOMAIN pick)]
  OBVIOUS
<1> DEFINE ready == {l \in LinesOf(o) : resv[l].status = "active" /\ item[l].status = "reserved" /\ ~ReviewNeeded(l)}
<1>2. PICK S \in SUBSET ready :
        /\ pick \in [S -> 1 .. Max({resv[l].qty : l \in S})]
        /\ \A l \in S : pick[l] <= resv[l].qty /\ (Splits(l, pick[l]) => MaySplit(l))
  BY DEF Picks
<1>3. DOMAIN pick = S /\ S \in SUBSET LinesOf(o) /\ \A l \in S : resv[l].status = "active"
  BY <1>2
<1>4. \A l \in S : pick[l] \in Nat \ {0}
  <2> TAKE l \in S
  <2>1. pick[l] \in 1 .. Max({resv[k].qty : k \in S})
    BY <1>2
  <2> QED BY <2>1
<1>5. RowsRead(rec, Restrict(resv, S))
  <2>1. S \in SUBSET LinesOf(rec.order) /\ \A l \in S : resv[l].status # "none"
    BY <1>1, <1>3
  <2> QED BY <2>1, RestrictRead
<1>6. rec.rows = Restrict(resv, S) /\ DOMAIN rec.rows = S /\ rec.pick = pick /\ rec.req = r
      /\ \A l \in S : rec.rows[l] = resv[l]
  BY <1>1, <1>3 DEF Restrict
<1>7. pick \in [S -> Nat \ {0}]
  BY <1>2, <1>4
<1>8. \A l \in S : pick[l] < resv[l].qty =>
        l \in Lines /\ Remainder[l] # 0 /\ item[Remainder[l]].status = "absent"
  BY <1>2 DEF Splits, MaySplit
<1>9. PickRead(rec)
  <2> HIDE DEF ready
  <2> QED BY <1>2, <1>3, <1>5, <1>6, <1>7, <1>8 DEF PickRead
<1>10. JobOK(rec)
  BY <1>1, <1>9 DEF JobOK
<1> QED
  BY <1>1, <1>10, BeginStep DEF BeginDispatch

LEMMA PickShelves ==
  ASSUME NEW p, PickRead(p)
  PROVE  /\ Partly(p.pick, Items, Nat) /\ DOMAIN p.pick \in SUBSET LinesOf(p.order)
         /\ ShelvesOf(p.pick) \in SUBSET Shelves
         /\ \A s : s \notin ShelvesOf(p.pick) => Picked(p.pick, s) = 0
         /\ \A s : Picked(p.pick, s) \in Nat
<1>1. Partly(p.pick, Items, Nat) /\ DOMAIN p.pick \in SUBSET LinesOf(p.order)
  BY DEF PickRead, RowsRead, Partly, LinesOf
<1>2. ShelvesOf(p.pick) \in SUBSET Shelves
  BY <1>1, ItemFacts DEF ShelvesOf, Partly
<1>3. ASSUME NEW s, s \notin ShelvesOf(p.pick)
      PROVE  Picked(p.pick, s) = 0
  <2>1. PickedAt(p.pick, s) = {}
    BY <1>3 DEF PickedAt, ShelvesOf
  <2>2. Picked(p.pick, s) = Sum(p.pick, {})
    BY <1>1, <2>1, PickedIs
  <2> QED BY <2>2, SumEmpty DEF Sum
<1>4. \A s : Picked(p.pick, s) \in Nat
  BY <1>1, PickedIs
<1> QED
  BY <1>1, <1>2, <1>3, <1>4

LEMMA CoreReadDispatchStock ==
  ASSUME CoreInv, NEW h \in Handlers, ReadDispatchStock(h)
  PROVE  CoreInv'
<1> DEFINE p == proc[h]
           saw == Restrict(stock, ShelvesOf(p.pick))
           short == \E s \in ShelvesOf(p.pick) :
                      stock[s].quantity < Picked(p.pick, s) \/ stock[s].reserved < Picked(p.pick, s)
<1>1. CASE GivesUp(h)
  BY <1>1, GivesUpStep
<1>2. CASE ~short /\ Goes(h, [op |-> "dispatch", pc |-> "commit", order |-> p.order, req |-> p.req, pick |-> p.pick,
                              rows |-> p.rows, at |-> counts, saw |-> saw])
  <2>1. PICK rec : rec = [op |-> "dispatch", pc |-> "commit", order |-> p.order, req |-> p.req, pick |-> p.pick,
                          rows |-> p.rows, at |-> counts, saw |-> saw]
    OBVIOUS
  <2>2. p.order \in Orders /\ PickRead(p)
    BY JobIs DEF ReadDispatchStock, At
  <2>3. ShelvesOf(p.pick) \in SUBSET Shelves /\ \A s : Picked(p.pick, s) \in Nat
    BY <2>2, PickShelves
  <2>4. \A s \in ShelvesOf(p.pick) : stock[s] \in ShelfType
    BY <2>3 DEF CoreInv, TablesOK
  <2>5. saw \in [ShelvesOf(p.pick) -> ShelfType]
    BY <2>4 DEF Restrict
  <2>6. \A s \in ShelvesOf(p.pick) : Picked(p.pick, s) <= saw[s].quantity /\ Picked(p.pick, s) <= saw[s].reserved
    <3> TAKE s \in ShelvesOf(p.pick)
    <3>1. ~(stock[s].quantity < Picked(p.pick, s)) /\ ~(stock[s].reserved < Picked(p.pick, s))
      BY <1>2
    <3>2. stock[s].quantity \in Nat /\ stock[s].reserved \in Nat /\ Picked(p.pick, s) \in Nat /\ saw[s] = stock[s]
      BY <2>3, <2>4 DEF ShelfType, Restrict
    <3> QED BY <3>1, <3>2
  <2> HIDE DEF saw, short
  <2>7. PickRead(rec) /\ Past(rec)
    BY <2>1, <2>2, NowIsPast DEF PickRead, RowsRead
  <2>8. JobOK(rec)
    BY <2>1, <2>2, <2>5, <2>6, <2>7 DEF JobOK
  <2> QED
    BY <1>2, <2>1, <2>8, GoesStep
<1>3. GivesUp(h) \/ (~short /\ Goes(h, [op |-> "dispatch", pc |-> "commit", order |-> p.order, req |-> p.req,
                                        pick |-> p.pick, rows |-> p.rows, at |-> counts, saw |-> saw]))
  BY DEF ReadDispatchStock
<1> QED
  BY <1>1, <1>2, <1>3

LEMMA CoreBeginCancel ==
  ASSUME CoreInv, NEW h \in Handlers, NEW d \in dispatches, BeginCancel(h, d)
  PROVE  CoreInv'
<1>1. PICK rec : rec = [op |-> "cancel", pc |-> "recent", order |-> OrderOf[d.line], entry |-> d, saw |-> stock[ShelfOf[d.line]]]
  OBVIOUS
<1>2. d \in EntryType /\ ~d.cancelled /\ d.line \in Items
  BY DEF CoreInv, TablesOK, BeginCancel, EntryType
<1>3. OrderOf[d.line] \in Orders
  BY <1>2, ItemFacts
<1>4. JobOK(rec)
  BY <1>1, <1>2, <1>3 DEF JobOK
<1>5. Begin(h, "cancel", OrderOf[d.line], rec)
  BY <1>1 DEF BeginCancel
<1> QED
  BY <1>4, <1>5, BeginStep

LEMMA CoreReadRecent ==
  ASSUME CoreInv, NEW h \in Handlers, ReadRecent(h)
  PROVE  CoreInv'
<1>1. PICK rec : rec = [op |-> "cancel", pc |-> "commit", order |-> proc[h].order, entry |-> proc[h].entry,
                        saw |-> proc[h].saw, counted |-> counts[ShelfOf[proc[h].entry.line]] > proc[h].entry.at]
  OBVIOUS
<1>2. proc[h].op = "cancel"
  BY DEF ReadRecent, At
<1>3. rec.counted \in BOOLEAN
  <2>1. (counts[ShelfOf[proc[h].entry.line]] > proc[h].entry.at) \in BOOLEAN
    OBVIOUS
  <2> QED BY <1>1, <2>1
<1>4. JobOK(rec)
  BY <1>1, <1>2, <1>3, JobIs DEF JobOK
<1> QED
  BY <1>1, <1>4, GoesStep DEF ReadRecent

LEMMA CoreBeginCorrect ==
  ASSUME CoreInv, NEW h \in Handlers, NEW o \in Orders, BeginCorrect(h, o)
  PROVE  CoreInv'
<1> DEFINE took == [l \in LinesOf(o) \cap Having("fulfilled") |->
                     [units |-> item[l].before - item[l].after, since |-> since[l]]]
<1>1. PICK rec : rec = [op |-> "correct", pc |-> "truth", order |-> o, took |-> took]
  OBVIOUS
<1>2. \A l \in LinesOf(o) \cap Having("fulfilled") : took[l] \in [units : Nat, since : Nat]
  <2> TAKE l \in LinesOf(o) \cap Having("fulfilled")
  <2>1. l \in Items
    BY DEF LinesOf
  <2>2. item[l].before \in Nat /\ item[l].after \in Nat /\ item[l].after <= item[l].before /\ since[l] \in Nat
    BY <2>1 DEF CoreInv, TablesOK, ItemType, LineOK
  <2>3. item[l].before - item[l].after \in Nat
    BY <2>2
  <2> QED BY <2>2, <2>3
<1>3. Partly(took, LinesOf(o), [units : Nat, since : Nat])
  BY <1>2 DEF Partly
<1>4. Begin(h, "correct", o, rec)
  BY <1>1 DEF BeginCorrect
<1> HIDE DEF took
<1>5. JobOK(rec)
  BY <1>1, <1>3 DEF JobOK
<1> QED
  BY <1>4, <1>5, BeginStep

LEMMA CoreReadTruth ==
  ASSUME CoreInv, NEW h \in Handlers, ReadTruth(h)
  PROVE  CoreInv'
<1> DEFINE took == proc[h].took
           back == [l \in DOMAIN took |-> IF counts[ShelfOf[l]] > took[l].since THEN 0 ELSE took[l].units]
<1>1. PICK rec : rec = [op |-> "correct", pc |-> "commit", order |-> proc[h].order, back |-> back]
  OBVIOUS
<1>2. At(h, "correct", "truth") /\ proc[h].op = "correct"
  BY DEF ReadTruth, At
<1>3. Partly(took, LinesOf(proc[h].order), [units : Nat, since : Nat]) /\ proc[h].order \in Orders
  BY <1>2, JobIs
<1>4. \A l \in DOMAIN took : took[l].units \in Nat
  BY <1>3 DEF Partly
<1>5. Partly(back, LinesOf(proc[h].order), Nat)
  BY <1>3, <1>4 DEF Partly
<1>6. Goes(h, rec)
  BY <1>1 DEF ReadTruth
<1> HIDE DEF back
<1>7. JobOK(rec)
  BY <1>1, <1>3, <1>5 DEF JobOK
<1> QED
  BY <1>6, <1>7, GoesStep

-----------------------------------------------------------------------------
(* What a batch writes *)

LEMMA EndsStep ==
  ASSUME CoreInv, NEW h \in Handlers, Ends(h)
  PROVE  /\ spent' = spent /\ proc' = [g \in Handlers |-> proc'[g]] /\ proc'[h] = Idle
         /\ \A g \in Handlers \ {h} : proc'[g] = proc[g]
         /\ \A g \in Handlers : proc'[g] = proc[g] \/ JobOK(proc[g])'
<1>1. /\ spent' = spent /\ proc' = [g \in Handlers |-> proc'[g]] /\ proc'[h] = Idle
      /\ \A g \in Handlers \ {h} : proc'[g] = proc[g]
  BY DEF Ends, CoreInv, TablesOK
<1>2. JobOK(proc[h])'
  BY <1>1 DEF JobOK, Idle
<1> QED
  BY <1>1, <1>2

LEMMA ReserveMoreIs ==
  ASSUME CoreInv, NEW s \in Shelves, NEW n \in Nat
  PROVE  /\ ReserveMore(s, n) \in [Shelves -> ShelfType]
         /\ \A t \in Shelves : /\ ReserveMore(s, n)[t].quantity = stock[t].quantity
                               /\ ReserveMore(s, n)[t].reserved = stock[t].reserved + (IF t = s THEN n ELSE 0)
<1>1. stock \in [Shelves -> ShelfType]
  BY DEF CoreInv, TablesOK
<1>2. \A t \in Shelves : stock[t].quantity \in Nat /\ stock[t].reserved \in Nat
  BY <1>1 DEF ShelfType
<1> QED
  BY <1>1, <1>2 DEF ReserveMore, ShelfType

Statuses == {"none", "active", "unresolved", "released", "fulfilled"}
ItemStatuses == {"absent", "new", "reserved", "pending_reservation", "reservation_released", "fulfilled"}

LEMMA SetStatusIs ==
  ASSUME CoreInv, NEW S, NEW status \in Statuses
  PROVE  /\ SetStatus(S, status) \in [Items -> RowType]
         /\ \A l \in Items : /\ SetStatus(S, status)[l].qty = resv[l].qty
                             /\ SetStatus(S, status)[l].status = IF l \in S THEN status ELSE resv[l].status
                             /\ l \notin S => SetStatus(S, status)[l] = resv[l]
<1>1. \A l \in Items : resv[l] \in RowType
  BY DEF CoreInv, TablesOK
<1> QED
  BY <1>1 DEF SetStatus, RowType, Statuses

LEMMA MarkItemsIs ==
  ASSUME CoreInv, NEW S, NEW status \in ItemStatuses
  PROVE  /\ MarkItems(S, status) \in [Items -> ItemType]
         /\ \A l \in Items : /\ MarkItems(S, status)[l].qty = item[l].qty
                             /\ MarkItems(S, status)[l].status = IF l \in S THEN status ELSE item[l].status
                             /\ MarkItems(S, status)[l].after <= MarkItems(S, status)[l].before
                             /\ l \notin S => MarkItems(S, status)[l] = item[l]
<1>1. \A l \in Items : item[l] \in ItemType /\ item[l].after <= item[l].before
  BY DEF CoreInv, TablesOK, LineOK
<1>2. \A l \in Items : /\ Marked(l, status) \in ItemType /\ Marked(l, status).qty = item[l].qty
                        /\ Marked(l, status).status = status
                        /\ Marked(l, status).before = 0 /\ Marked(l, status).after = 0
  BY <1>1 DEF Marked, ItemType, ItemStatuses
<1>3. \A l \in Items : MarkItems(S, status)[l] = IF l \in S THEN Marked(l, status) ELSE item[l]
  BY DEF MarkItems
<1>4. MarkItems(S, status) \in [Items -> ItemType]
  BY <1>1, <1>2 DEF MarkItems
<1>5. \A l \in Items : MarkItems(S, status)[l].after <= MarkItems(S, status)[l].before
  BY <1>1, <1>2, <1>3
<1> QED
  BY <1>2, <1>3, <1>4, <1>5

LEMMA CoreCommitReserve ==
  ASSUME CoreInv, NEW h \in Handlers, CommitReserve(h)
  PROVE  CoreInv'
<1> DEFINE l == proc[h].line
           s == ShelfOf[l]
           n == item[l].qty
           enough == stock[s].quantity >= stock[s].reserved + n
<1>1. CASE GivesUp(h)
  BY <1>1, GivesUpStep
<1>2. CASE /\ resv[l].status = "none"
           /\ stock' = IF enough THEN ReserveMore(s, n) ELSE stock
           /\ resv' = [resv EXCEPT ![l] = [status |-> IF enough THEN "active" ELSE "unresolved", qty |-> n]]
           /\ item' = [item EXCEPT ![l] =
                [Marked(l, IF enough THEN "reserved" ELSE "pending_reservation") EXCEPT !.origin = proc[h].at]]
           /\ Ends(h)
           /\ UNCHANGED <<ledger, counts, since, answered, sent, dispatches>>
  <2>1. l \in Items /\ item[l].status # "absent" /\ proc[h].at \in Nat
    BY JobIs DEF CommitReserve, LinesOf
  <2>2. s \in Shelves /\ n \in Nat /\ item[l] \in ItemType
    BY <2>1, ItemFacts DEF CoreInv, TablesOK, ItemType
  <2>3. /\ stock' \in [Shelves -> ShelfType]
        /\ \A t \in Shelves : stock'[t].quantity = stock[t].quantity
    BY <1>2, <2>2, ReserveMoreIs DEF CoreInv, TablesOK
  <2>4. /\ resv' \in [Items -> RowType] /\ \A k \in Items \ {l} : resv'[k] = resv[k]
        /\ resv'[l].status # "none" /\ resv'[l].qty = n
    BY <1>2, <2>1, <2>2 DEF CoreInv, TablesOK, RowType
  <2>5. /\ item' \in [Items -> ItemType] /\ \A k \in Items \ {l} : item'[k] = item[k]
        /\ item'[l].status # "absent" /\ item'[l].qty = n /\ item'[l].before = 0 /\ item'[l].after = 0
    BY <1>2, <2>1, <2>2 DEF CoreInv, TablesOK, ItemType, Marked
  <2>6. TablesOK'
    BY <1>2, <2>3, <2>4, <2>5, EndsStep DEF CoreInv, TablesOK, ShelfType, RowType, ItemType, EntryType
  <2>7. BooksFollowMovements'
    BY <1>2, <2>3 DEF CoreInv, BooksFollowMovements
  <2>8. \A k \in Items :
          /\ item'[k].qty = item[k].qty /\ item'[k].after <= item'[k].before
          /\ item'[k].status = "absent" <=> item[k].status = "absent"
          /\ resv[k].status # "none" => resv'[k].status # "none" /\ resv'[k].qty = resv[k].qty
          /\ resv[k].status = "none" /\ resv'[k].status # "none" =>
               item[k].status # "absent" /\ resv'[k].qty = item[k].qty
          /\ since'[k] <= counts'[ShelfOf[k]]
    <3> TAKE k \in Items
    <3>1. LineOK(k) /\ since'[k] = since[k] /\ counts' = counts
      BY <1>2 DEF CoreInv
    <3>2. CASE k = l
      <4>1. resv[l].status = "none" /\ n \in Nat
        BY <1>2, <2>2
      <4> QED BY <2>1, <2>4, <2>5, <3>1, <3>2, <4>1 DEF LineOK
    <3>3. CASE k # l
      BY <2>4, <2>5, <3>1, <3>3 DEF LineOK
    <3> QED BY <3>2, <3>3
  <2>9. \A t \in Shelves : counts[t] <= counts'[t]
    BY <1>2, StockAssumption, SMTT(30) DEF CoreInv, TablesOK
  <2> QED
    BY <1>2, <2>6, <2>7, <2>8, <2>9, EndsStep, StatusStep
<1> QED
  BY <1>1, <1>2 DEF CommitReserve

\* A batch that sets the status of reservations X and of items Y that have one.
LEMMA StatusBatch ==
  ASSUME CoreInv, NEW X, NEW Y, NEW status \in Statuses \ {"none"}, NEW mark \in ItemStatuses \ {"absent"},
         resv' = SetStatus(X, status), item' = MarkItems(Y, mark),
         \A l \in Items : l \in X \cup Y => resv[l].status # "none",
         stock' \in [Shelves -> ShelfType], ledger' \in [Shelves -> Int], BooksFollowMovements',
         dispatches' \subseteq EntryType, sent' \in [Orders -> BOOLEAN],
         spent' \in 0 .. MaxOps, proc' = [g \in Handlers |-> proc'[g]],
         \A g \in Handlers : proc'[g] = proc[g] \/ JobOK(proc[g])',
         UNCHANGED <<counts, since, answered>>
  PROVE  CoreInv'
<1>1. /\ resv' \in [Items -> RowType]
      /\ \A l \in Items : resv'[l].qty = resv[l].qty /\ resv'[l].status = IF l \in X THEN status ELSE resv[l].status
  BY SetStatusIs
<1>2. /\ item' \in [Items -> ItemType]
      /\ \A l \in Items : /\ item'[l].qty = item[l].qty /\ item'[l].after <= item'[l].before
                          /\ item'[l].status = IF l \in Y THEN mark ELSE item[l].status
  BY MarkItemsIs
<1>3. TablesOK'
  BY <1>1, <1>2 DEF CoreInv, TablesOK, ShelfType, RowType, ItemType, EntryType
<1>4. \A l \in Items :
        /\ item'[l].qty = item[l].qty /\ item'[l].after <= item'[l].before
        /\ item'[l].status = "absent" <=> item[l].status = "absent"
        /\ resv[l].status # "none" => resv'[l].status # "none" /\ resv'[l].qty = resv[l].qty
        /\ resv[l].status = "none" /\ resv'[l].status # "none" =>
             item[l].status # "absent" /\ resv'[l].qty = item[l].qty
        /\ since'[l] <= counts'[ShelfOf[l]]
  <2> TAKE l \in Items
  <2>1. LineOK(l)
    BY DEF CoreInv
  <2> QED BY <1>1, <1>2, <2>1 DEF LineOK
<1>5. \A s \in Shelves : counts[s] <= counts'[s]
  BY StockAssumption DEF CoreInv, TablesOK
<1> QED
  BY <1>3, <1>4, <1>5, StatusStep

\* The cached sums of reservations are lowered, not below zero.
LEMMA LoweredIs ==
  ASSUME CoreInv, NEW rows, Partly(rows, Items, RowType),
         stock' = [s \in Shelves |-> [stock[s] EXCEPT !.reserved = Floor(@ - Required(rows, s))]]
  PROVE  /\ stock' \in [Shelves -> ShelfType]
         /\ \A s \in Shelves : /\ stock'[s].quantity = stock[s].quantity
                               /\ stock'[s].reserved = Floor(stock[s].reserved - Required(rows, s))
<1>1. \A s \in Shelves : stock[s] \in ShelfType /\ Required(rows, s) \in Nat
  BY RequiredIs DEF CoreInv, TablesOK
<1>2. \A s \in Shelves : Floor(stock[s].reserved - Required(rows, s)) \in Nat
  <2> TAKE s \in Shelves
  <2>1. stock[s].reserved - Required(rows, s) \in Int
    BY <1>1 DEF ShelfType
  <2> QED BY <2>1, Floors
<1> QED
  BY <1>1, <1>2 DEF ShelfType

LEMMA RowsOfJob ==
  ASSUME CoreInv, NEW p, NEW rows, RowsRead(p, rows)
  PROVE  /\ Partly(rows, Items, RowType) /\ Partly(ActiveRows(rows), Items, RowType)
         /\ DOMAIN rows \in SUBSET LinesOf(p.order)
         /\ \A l \in DOMAIN rows : l \in Items /\ resv[l].status # "none"
<1>1. Partly(rows, Items, RowType) /\ DOMAIN rows \in SUBSET LinesOf(p.order)
      /\ \A l \in DOMAIN rows : l \in Items /\ resv[l].status # "none"
  BY DEF RowsRead, Partly, LinesOf
<1> QED
  BY <1>1, HeldRows

LEMMA CoreCommitRelease ==
  ASSUME CoreInv, NEW h \in Handlers, CommitRelease(h) \/ CommitReleaseOrder(h)
  PROVE  CoreInv'
<1> DEFINE rows == proc[h].rows
<1>1. PICK X :
        /\ X \subseteq DOMAIN rows
        /\ stock' = [s \in Shelves |-> [stock[s] EXCEPT !.reserved = Floor(@ - Required(ActiveRows(rows), s))]]
        /\ resv' = SetStatus(X, "released")
        /\ item' = MarkItems(DOMAIN rows, "reservation_released")
  BY DEF CommitRelease, CommitReleaseOrder
<1>2. Ends(h) /\ UNCHANGED <<ledger, counts, since, answered, sent, dispatches>>
      /\ proc[h].op \in {"release", "release_order", "reactivate"}
  BY DEF CommitRelease, CommitReleaseOrder, At
<1>3. RowsRead(proc[h], rows)
  BY <1>2, JobIs
<1>4. /\ Partly(rows, Items, RowType) /\ Partly(ActiveRows(rows), Items, RowType)
      /\ \A l \in DOMAIN rows : resv[l].status # "none"
  BY <1>3, RowsOfJob
<1>5. stock' \in [Shelves -> ShelfType] /\ \A s \in Shelves : stock'[s].quantity = stock[s].quantity
  BY <1>1, <1>4, LoweredIs
<1>6. BooksFollowMovements'
  BY <1>2, <1>5 DEF CoreInv, BooksFollowMovements
<1>7. \A l \in Items : l \in X \cup DOMAIN rows => resv[l].status # "none"
  BY <1>1, <1>4
<1>8. "released" \in Statuses \ {"none"} /\ "reservation_released" \in ItemStatuses \ {"absent"}
  BY DEF Statuses, ItemStatuses
<1>9. spent' \in 0 .. MaxOps /\ ledger' \in [Shelves -> Int] /\ dispatches' \subseteq EntryType
      /\ sent' \in [Orders -> BOOLEAN]
  BY <1>2, EndsStep DEF CoreInv, TablesOK
<1> QED
  BY <1>1, <1>2, <1>5, <1>6, <1>7, <1>8, <1>9, EndsStep, StatusBatch, ZenonT(40)

LEMMA CoreCommitReactivate ==
  ASSUME CoreInv, NEW h \in Handlers, CommitReactivate(h)
  PROVE  CoreInv'
<1> DEFINE rows == proc[h].rows
           back == DOMAIN rows \cap Having("released")
           more(s) == Units(rows, OnShelf(rows, s) \cap back)
<1>1. /\ stock' = [s \in Shelves |-> [stock[s] EXCEPT !.reserved = @ + more(s)]]
      /\ resv' = SetStatus(back, "active")
      /\ item' = MarkItems(DOMAIN rows, "reserved")
      /\ Ends(h) /\ UNCHANGED <<ledger, counts, since, answered, sent, dispatches>>
      /\ proc[h].op \in {"release", "release_order", "reactivate"}
  BY DEF CommitReactivate, At
<1>2. RowsRead(proc[h], rows)
  BY <1>1, JobIs
<1>3. /\ Partly(rows, Items, RowType) /\ \A l \in DOMAIN rows : resv[l].status # "none"
  BY <1>2, RowsOfJob
<1>4. \A s \in Shelves : more(s) \in Nat
  <2> TAKE s \in Shelves
  <2>1. OnShelf(rows, s) \cap back \in SUBSET OnShelf(rows, s)
    OBVIOUS
  <2> HIDE DEF back
  <2> QED BY <1>3, <2>1, RequiredIs
<1>5. stock' \in [Shelves -> ShelfType] /\ \A s \in Shelves : stock'[s].quantity = stock[s].quantity
  <2> HIDE DEF more
  <2> QED BY <1>1, <1>4, SMTT(30) DEF CoreInv, TablesOK, ShelfType
<1>6. BooksFollowMovements'
  BY <1>1, <1>5 DEF CoreInv, BooksFollowMovements
<1>7. \A l \in Items : l \in back \cup DOMAIN rows => resv[l].status # "none"
  BY <1>3
<1>8. "active" \in Statuses \ {"none"} /\ "reserved" \in ItemStatuses \ {"absent"}
  BY DEF Statuses, ItemStatuses
<1>9. spent' \in 0 .. MaxOps /\ ledger' \in [Shelves -> Int] /\ dispatches' \subseteq EntryType
      /\ sent' \in [Orders -> BOOLEAN]
  BY <1>1, EndsStep DEF CoreInv, TablesOK
<1> HIDE DEF back, more
<1> QED
  BY <1>1, <1>5, <1>6, <1>7, <1>8, <1>9, EndsStep, StatusBatch, ZenonT(40)

\* Nothing is marked where no item is meant.
LEMMA NothingMarked ==
  ASSUME CoreInv, NEW status \in Statuses, NEW mark \in ItemStatuses
  PROVE  resv = SetStatus({}, status) /\ item = MarkItems({}, mark)
BY DEF CoreInv, TablesOK, SetStatus, MarkItems

\* The line looked at next is one of those that wait.
LEMMA NextWaiting ==
  ASSUME CoreInv, NEW h \in Handlers, At(h, "ship", "recover"), proc[h].wait # {}
  PROVE  Min(proc[h].wait) \in proc[h].wait /\ Min(proc[h].wait) \in Items
<1>1. proc[h].wait \subseteq Items
  BY JobIs DEF LinesOf
<1>2. proc[h].wait \in SUBSET Int /\ IsFiniteSet(proc[h].wait)
  <2>1. Items \in SUBSET Int
    BY ItemFacts
  <2> QED BY <1>1, <2>1, ItemFacts, FS_Subset
<1> QED
  BY <1>1, <1>2, MinIn

LEMMA CoreRecoverOne ==
  ASSUME CoreInv, NEW h \in Handlers, RecoverOne(h)
  PROVE  CoreInv'
<1> DEFINE p == proc[h]
           l == Min(p.wait)
           s == ShelfOf[l]
           claimed == /\ l \in Pending(p.order) /\ ~sent[p.order]
                      /\ stock[s].quantity >= stock[s].reserved + resv[l].qty
           X == IF claimed THEN {l} ELSE {}
<1>1. /\ At(h, "ship", "recover") /\ p.wait # {}
      /\ proc' = [proc EXCEPT ![h].wait = @ \ {l}]
      /\ stock' = IF claimed THEN ReserveMore(s, resv[l].qty) ELSE stock
      /\ resv' = IF claimed THEN SetStatus({l}, "active") ELSE resv
      /\ item' = IF claimed THEN MarkItems({l}, "reserved") ELSE item
      /\ UNCHANGED <<ledger, counts, since, answered, sent, dispatches, spent>>
  BY DEF RecoverOne
<1>2. /\ p.order \in Orders /\ p.wait \subseteq LinesOf(p.order)
      /\ p = [op |-> "ship", pc |-> "recover", order |-> p.order, wait |-> p.wait]
  BY <1>1, JobIs
<1>3. l \in Items /\ s \in Shelves /\ resv[l].qty \in Nat
  BY <1>1, NextWaiting, ItemFacts DEF CoreInv, TablesOK, RowType
<1>4. claimed => resv[l].status = "unresolved"
  BY DEF Pending
<1> HIDE DEF claimed, l
<1>5. resv' = SetStatus(X, "active") /\ item' = MarkItems(X, "reserved")
  BY <1>1, NothingMarked DEF Statuses, ItemStatuses
<1>6. stock' \in [Shelves -> ShelfType] /\ \A t \in Shelves : stock'[t].quantity = stock[t].quantity
  BY <1>1, <1>3, ReserveMoreIs DEF CoreInv, TablesOK
<1>7. BooksFollowMovements'
  BY <1>1, <1>6 DEF CoreInv, BooksFollowMovements
<1>8. proc = [g \in Handlers |-> proc[g]]
  BY DEF CoreInv, TablesOK
<1>9. /\ proc' = [g \in Handlers |-> proc'[g]] /\ \A g \in Handlers \ {h} : proc'[g] = proc[g]
      /\ proc'[h] = [p EXCEPT !.wait = @ \ {l}]
  BY <1>1, <1>8
<1>10. JobOK(proc[h])'
  <2>1. PICK o \in Orders, w \in SUBSET LinesOf(p.order) :
          o = p.order /\ p = [op |-> "ship", pc |-> "recover", order |-> o, wait |-> w]
    BY <1>2
  <2>2. proc'[h] = [op |-> "ship", pc |-> "recover", order |-> o, wait |-> w \ {l}]
    <3> HIDE DEF p
    <3> QED BY <1>9, <2>1, SMTT(30)
  <2>3. w \ {l} \subseteq {k \in Items : OrderOf[k] = o}
    BY <2>1 DEF LinesOf
  <2> HIDE DEF p
  <2> QED BY <2>2, <2>3 DEF JobOK, LinesOf
<1>11. \A k \in Items : k \in X \cup X => resv[k].status # "none"
  BY <1>4
<1>12. "active" \in Statuses \ {"none"} /\ "reserved" \in ItemStatuses \ {"absent"}
  BY DEF Statuses, ItemStatuses
<1>13. spent' \in 0 .. MaxOps /\ ledger' \in [Shelves -> Int] /\ dispatches' \subseteq EntryType
       /\ sent' \in [Orders -> BOOLEAN] /\ \A g \in Handlers : (proc'[g] = proc[g] \/ JobOK(proc[g])')
       /\ UNCHANGED <<counts, since, answered>>
  BY <1>1, <1>9, <1>10 DEF CoreInv, TablesOK
<1> HIDE DEF X
<1> QED
  BY <1>5, <1>6, <1>7, <1>9, <1>11, <1>12, <1>13, StatusBatch

\* A batch that issues rows.
LEMMA CoreCommitIssue ==
  ASSUME CoreInv, NEW h \in Handlers, CommitIssue(h)
  PROVE  CoreInv'
<1> DEFINE p == proc[h]
           o == p.order
           rows == p.rows
           saw == p.saw
           X == DOMAIN rows \cap Having("active")
<1>1. CASE GivesUp(h)
  BY <1>1, GivesUpStep
<1>2. CASE /\ SameStock(h)
           /\ stock' = [s \in Shelves |->
                IF s \in DOMAIN saw
                THEN [quantity |-> Floor(saw[s] - Required(rows, s)), reserved |-> Floor(stock[s].reserved - Required(rows, s))]
                ELSE stock[s]]
           /\ ledger' = [s \in Shelves |-> ledger[s] - Sold(rows, saw, s)]
           /\ item' = [l \in Items |->
                IF l \in DOMAIN rows
                THEN [item[l] EXCEPT !.status = "fulfilled", !.before = Before(rows, saw, l), !.after = After(rows, saw, l)]
                ELSE item[l]]
           /\ resv' = SetStatus(X, "fulfilled")
           /\ since' = [l \in Items |-> IF l \in X THEN p.at[ShelfOf[l]] ELSE since[l]]
           /\ sent' = IF p.op = "ship" THEN [sent EXCEPT ![o] = TRUE] ELSE sent
           /\ Ends(h)
           /\ UNCHANGED <<counts, answered, dispatches>>
  <2>1. Issuing(h) /\ p.pc = "commit"
    BY DEF CommitIssue
  <2>2. RowsRead(p, rows) /\ Past(p) /\ o \in Orders /\ saw \in [ShelvesOf(rows) -> Nat]
    BY <2>1, JobIs
  <2>3. Partly(rows, Items, RowType) /\ \A l \in DOMAIN rows : l \in Items /\ resv[l].status # "none"
    BY <2>2, RowsOfJob
  <2>4. \A s : s \in DOMAIN saw <=> OnShelf(rows, s) # {}
    BY <2>2 DEF ShelvesOf, OnShelf
  <2>5. \A s \in Shelves : OnShelf(rows, s) # {} => saw[s] \in Nat
    BY <2>2, <2>4
  <2>6. \A s \in Shelves : Required(rows, s) \in Nat
    BY <2>3, RequiredIs
  <2>7. \A s \in Shelves :
          Sold(rows, saw, s) = IF OnShelf(rows, s) = {} THEN 0 ELSE saw[s] - Floor(saw[s] - Required(rows, s))
    BY <2>3, <2>5, SoldIsTaken
  <2>8. \A l \in DOMAIN rows : /\ Before(rows, saw, l) \in Nat /\ After(rows, saw, l) \in Nat
                               /\ After(rows, saw, l) <= Before(rows, saw, l)
    <3> TAKE l \in DOMAIN rows
    <3>1. ShelfOf[l] \in Shelves /\ l \in OnShelf(rows, ShelfOf[l])
      BY <2>3, ItemFacts DEF OnShelf
    <3> HIDE DEF rows, saw
    <3> QED BY <2>3, <2>5, <3>1, SoldIsTaken
  <2> HIDE DEF rows, saw, o
  <2>9. \A s \in Shelves : /\ stock[s].quantity \in Nat /\ stock[s].reserved \in Nat /\ stock[s] \in ShelfType
                           /\ stock[s].quantity = ledger[s] /\ ledger[s] \in Int
    BY DEF CoreInv, TablesOK, ShelfType, BooksFollowMovements
  <2>10. \A s \in Shelves : s \in DOMAIN saw => stock[s].quantity = saw[s]
    BY <1>2 DEF SameStock, saw
  <2>11. \A s \in Shelves : /\ stock'[s] \in ShelfType /\ ledger'[s] \in Int /\ stock'[s].quantity = ledger'[s]
    <3> TAKE s \in Shelves
    <3>1. CASE s \in DOMAIN saw
      <4>1. saw[s] - Required(rows, s) \in Int /\ stock[s].reserved - Required(rows, s) \in Int
        BY <2>4, <2>5, <2>6, <2>9, <3>1
      <4>2. Floor(saw[s] - Required(rows, s)) \in Nat /\ Floor(stock[s].reserved - Required(rows, s)) \in Nat
        BY <4>1, Floors
      <4>3. stock'[s] = [quantity |-> Floor(saw[s] - Required(rows, s)),
                         reserved |-> Floor(stock[s].reserved - Required(rows, s))]
        BY <1>2, <3>1
      <4>4. ledger'[s] = ledger[s] - (saw[s] - Floor(saw[s] - Required(rows, s)))
        BY <1>2, <2>4, <2>7, <3>1
      <4>5. ledger[s] = saw[s] /\ saw[s] \in Nat
        BY <2>9, <2>10, <3>1
      <4> QED BY <4>2, <4>3, <4>4, <4>5 DEF ShelfType
    <3>2. CASE s \notin DOMAIN saw
      <4>1. stock'[s] = stock[s] /\ ledger'[s] = ledger[s] - 0
        BY <1>2, <2>4, <2>7, <3>2
      <4> QED BY <2>9, <4>1
    <3> QED BY <3>1, <3>2
  <2>12. stock' \in [Shelves -> ShelfType] /\ ledger' \in [Shelves -> Int] /\ BooksFollowMovements'
    <3>1. stock' = [s \in Shelves |-> stock'[s]] /\ ledger' = [s \in Shelves |-> ledger'[s]]
      BY <1>2
    <3> QED BY <2>11, <3>1 DEF BooksFollowMovements
  <2>13. /\ item' \in [Items -> ItemType]
         /\ \A l \in Items : /\ item'[l].qty = item[l].qty /\ item'[l].after <= item'[l].before
                             /\ item'[l].status = IF l \in DOMAIN rows THEN "fulfilled" ELSE item[l].status
    <3>1. \A l \in Items : item[l] \in ItemType /\ item[l].after <= item[l].before
      BY DEF CoreInv, TablesOK, LineOK
    <3>2. \A l \in Items : item'[l] = IF l \in DOMAIN rows
             THEN [item[l] EXCEPT !.status = "fulfilled", !.before = Before(rows, saw, l), !.after = After(rows, saw, l)]
             ELSE item[l]
      BY <1>2
    <3>3. item' = [l \in Items |-> item'[l]]
      BY <1>2
    <3>4. \A l \in Items : /\ item'[l] \in ItemType
                           /\ item'[l].qty = item[l].qty /\ item'[l].after <= item'[l].before
                           /\ item'[l].status = IF l \in DOMAIN rows THEN "fulfilled" ELSE item[l].status
      <4> TAKE l \in Items
      <4>1. CASE l \in DOMAIN rows
        <5>1. item'[l] = [item[l] EXCEPT !.status = "fulfilled", !.before = Before(rows, saw, l), !.after = After(rows, saw, l)]
          BY <3>2, <4>1
        <5> QED BY <2>8, <3>1, <4>1, <5>1, ZenonT(40) DEF ItemType
      <4>2. CASE l \notin DOMAIN rows
        BY <3>1, <3>2, <4>2
      <4> QED BY <4>1, <4>2
    <3> QED BY <3>3, <3>4
  <2>14. /\ resv' \in [Items -> RowType]
         /\ \A l \in Items : resv'[l].qty = resv[l].qty /\ resv'[l].status = IF l \in X THEN "fulfilled" ELSE resv[l].status
    <3>1. "fulfilled" \in Statuses
      BY DEF Statuses
    <3>2. resv' = SetStatus(X, "fulfilled")
      BY <1>2
    <3> HIDE DEF X
    <3> QED BY <3>1, <3>2, SetStatusIs
  <2>15. \A l \in Items : since'[l] \in Nat /\ since'[l] <= counts'[ShelfOf[l]]
    <3> TAKE l \in Items
    <3>1. ShelfOf[l] \in Shelves /\ since[l] \in Nat /\ since[l] <= counts[ShelfOf[l]] /\ counts' = counts
      BY <1>2, ItemFacts DEF CoreInv, TablesOK, LineOK
    <3>2. p.at[ShelfOf[l]] \in Nat /\ p.at[ShelfOf[l]] <= counts[ShelfOf[l]]
      BY <2>2, <3>1 DEF Past
    <3> QED BY <1>2, <3>1, <3>2
  <2>16. since' \in [Items -> Nat] /\ sent' \in [Orders -> BOOLEAN]
    <3>1. since' = [l \in Items |-> since'[l]]
      BY <1>2
    <3> QED BY <1>2, <2>2, <2>15, <3>1 DEF CoreInv, TablesOK
  <2>17. TablesOK'
    BY <1>2, <2>12, <2>13, <2>14, <2>16, EndsStep DEF CoreInv, TablesOK, ShelfType, RowType, ItemType, EntryType
  <2>18. \A l \in Items :
          /\ item'[l].qty = item[l].qty /\ item'[l].after <= item'[l].before
          /\ item'[l].status = "absent" <=> item[l].status = "absent"
          /\ resv[l].status # "none" => resv'[l].status # "none" /\ resv'[l].qty = resv[l].qty
          /\ resv[l].status = "none" /\ resv'[l].status # "none" =>
               item[l].status # "absent" /\ resv'[l].qty = item[l].qty
          /\ since'[l] <= counts'[ShelfOf[l]]
    <3> TAKE l \in Items
    <3>1. LineOK(l)
      BY DEF CoreInv
    <3>2. l \in X => l \in DOMAIN rows
      OBVIOUS
    <3> HIDE DEF X
    <3> QED BY <2>3, <2>13, <2>14, <2>15, <3>1, <3>2 DEF LineOK
  <2>19. \A s \in Shelves : counts[s] <= counts'[s]
    <3>1. counts' = counts
      BY <1>2
    <3> QED BY <3>1, StockAssumption DEF CoreInv, TablesOK
  <2> QED
    BY <1>2, <2>12, <2>17, <2>18, <2>19, EndsStep, StatusStep
<1> QED
  BY <1>1, <1>2 DEF CommitIssue

\* Answers to a count.
LEMMA CoreStillHere ==
  ASSUME CoreInv, NEW l \in Items, StillHere(l)
  PROVE  CoreInv'
<1>1. /\ answered' = [answered EXCEPT ![l] = counts[ShelfOf[l]]] /\ spent' = spent + 1 /\ spent < MaxOps
      /\ UNCHANGED <<stock, ledger, counts, resv, item, since, sent, dispatches, proc>>
  BY DEF StillHere
<1>2. counts[ShelfOf[l]] \in Nat
  BY ItemFacts, StockAssumption DEF CoreInv, TablesOK
<1>3. answered' \in [Items -> Nat] /\ spent' \in 0 .. MaxOps
  BY <1>1, <1>2, StockAssumption DEF CoreInv, TablesOK
<1>4. TablesOK'
  BY <1>1, <1>3 DEF CoreInv, TablesOK
<1>5. BooksFollowMovements'
  BY <1>1 DEF CoreInv, BooksFollowMovements
<1>6. \A k \in Items :
        /\ item'[k].qty = item[k].qty /\ item'[k].after <= item'[k].before
        /\ item'[k].status = "absent" <=> item[k].status = "absent"
        /\ resv[k].status # "none" => resv'[k].status # "none" /\ resv'[k].qty = resv[k].qty
        /\ resv[k].status = "none" /\ resv'[k].status # "none" =>
             item[k].status # "absent" /\ resv'[k].qty = item[k].qty
        /\ since'[k] <= counts'[ShelfOf[k]]
  BY <1>1 DEF CoreInv, LineOK
<1>7. \A s \in Shelves : counts[s] <= counts'[s]
  BY <1>1, StockAssumption DEF CoreInv, TablesOK
<1> QED
  BY <1>1, <1>4, <1>5, <1>6, <1>7, StatusStep

LEMMA CoreIssuedBefore ==
  ASSUME CoreInv, NEW l \in Items, IssuedBefore(l)
  PROVE  CoreInv'
<1> DEFINE s == ShelfOf[l]
           q == stock[s].quantity
<1>1. /\ resv[l].status = "active" /\ spent < MaxOps /\ spent' = spent + 1
      /\ resv' = SetStatus({l}, "fulfilled")
      /\ item' = [item EXCEPT ![l] = [@ EXCEPT !.status = "fulfilled", !.before = q, !.after = q]]
      /\ stock' = [stock EXCEPT ![s].reserved = Promised(s) - resv[l].qty]
      /\ answered' = [answered EXCEPT ![l] = counts[s]]
      /\ since' = [since EXCEPT ![l] = counts[s]]
      /\ UNCHANGED <<ledger, counts, sent, dispatches, proc>>
  BY DEF IssuedBefore, ReviewNeeded
<1>2. s \in Shelves /\ counts[s] \in Nat /\ q \in Nat
  BY ItemFacts, StockAssumption DEF CoreInv, TablesOK, ShelfType
<1>3. /\ resv' \in [Items -> RowType]
      /\ \A k \in Items : resv'[k].qty = resv[k].qty /\ resv'[k].status = IF k \in {l} THEN "fulfilled" ELSE resv[k].status
      /\ \A k \in Items \ {l} : resv'[k] = resv[k]
  <2>1. "fulfilled" \in Statuses
    BY DEF Statuses
  <2> QED BY <1>1, <2>1, SetStatusIs
<1>4. Promised(s) - resv[l].qty \in Nat
  <2>1. resv \in [Items -> RowType] /\ resv[l].qty \in Nat
    BY DEF CoreInv, TablesOK, RowType
  <2>2. (resv \in [Items -> RowType])'
    BY <1>3 DEF RowType
  <2>3. ShareOf(resv')[l] = 0 /\ ShareOf(resv)[l] = resv[l].qty
    BY <1>1, <1>3 DEF ShareOf
  <2>4. Promised(s)' = Promised(s) + (IF ShelfOf[l] = s THEN ShareOf(resv')[l] - ShareOf(resv)[l] ELSE 0)
        /\ Promised(s) \in Nat /\ Promised(s)' \in Nat
    <3> HIDE DEF s
    <3> QED BY <1>3, <2>1, <2>2, OneRow
  <2> QED BY <2>1, <2>3, <2>4
<1>5. /\ stock' \in [Shelves -> ShelfType] /\ \A t \in Shelves : stock'[t].quantity = stock[t].quantity
  <2>1. \A t \in Shelves : stock[t] \in ShelfType
    BY DEF CoreInv, TablesOK
  <2>2. stock = [t \in Shelves |-> stock[t]]
    BY DEF CoreInv, TablesOK
  <2>3. stock'[s] = [stock[s] EXCEPT !.reserved = Promised(s) - resv[l].qty] /\ \A t \in Shelves \ {s} : stock'[t] = stock[t]
    BY <1>1, <1>2, <2>2
  <2>4. stock' = [t \in Shelves |-> stock'[t]]
    BY <1>1, <2>2
  <2> QED BY <1>2, <1>4, <2>1, <2>3, <2>4 DEF ShelfType
<1>6. /\ item' \in [Items -> ItemType] /\ \A k \in Items \ {l} : item'[k] = item[k]
      /\ item'[l].status = "fulfilled" /\ item'[l].qty = item[l].qty /\ item'[l].before = q /\ item'[l].after = q
  BY <1>1, <1>2 DEF CoreInv, TablesOK, ItemType
<1>7. answered' \in [Items -> Nat] /\ since' \in [Items -> Nat] /\ spent' \in 0 .. MaxOps
  BY <1>1, <1>2, StockAssumption DEF CoreInv, TablesOK
<1>8. TablesOK'
  BY <1>1, <1>3, <1>5, <1>6, <1>7 DEF CoreInv, TablesOK, RowType, ItemType, ShelfType
<1>9. BooksFollowMovements'
  BY <1>1, <1>5 DEF CoreInv, BooksFollowMovements
<1>10. \A k \in Items :
        /\ item'[k].qty = item[k].qty /\ item'[k].after <= item'[k].before
        /\ item'[k].status = "absent" <=> item[k].status = "absent"
        /\ resv[k].status # "none" => resv'[k].status # "none" /\ resv'[k].qty = resv[k].qty
        /\ resv[k].status = "none" /\ resv'[k].status # "none" =>
             item[k].status # "absent" /\ resv'[k].qty = item[k].qty
        /\ since'[k] <= counts'[ShelfOf[k]]
  <2> TAKE k \in Items
  <2>1. LineOK(k) /\ since \in [Items -> Nat]
    BY DEF CoreInv, TablesOK
  <2>2. CASE k = l
    <3>1. since'[k] = counts[s] /\ counts' = counts
      BY <1>1, <2>1, <2>2
    <3>2. resv'[l].qty = resv[l].qty /\ resv'[l].status = "fulfilled"
      BY <1>3
    <3>3. item[l].status # "absent" /\ counts[s] <= counts[s]
      BY <1>1, <1>2, <2>1, <2>2 DEF LineOK
    <3>4. item'[l].after <= item'[l].before
      BY <1>2, <1>6
    <3> QED BY <1>1, <1>6, <2>2, <3>1, <3>2, <3>3, <3>4
  <2>3. CASE k # l
    <3>1. since'[k] = since[k] /\ counts' = counts
      BY <1>1, <2>1, <2>3
    <3> QED BY <1>3, <1>6, <2>1, <2>3, <3>1 DEF LineOK
  <2> QED BY <2>2, <2>3
<1>11. \A t \in Shelves : counts[t] <= counts'[t]
  BY <1>1, StockAssumption DEF CoreInv, TablesOK
<1>12. proc' = proc
  BY <1>1
<1> QED
  BY <1>8, <1>9, <1>10, <1>11, <1>12, StatusStep

\* An intake and a count.
LEMMA CoreShelf ==
  ASSUME CoreInv, NEW s \in Shelves, Intake(s) \/ \E n \in 0 .. MaxUnits : Count(s, n)
  PROVE  CoreInv'
<1>0. /\ stock \in [Shelves -> ShelfType] /\ ledger \in [Shelves -> Int] /\ counts \in [Shelves -> 0 .. MaxCounts]
      /\ \A t \in Shelves : stock[t].quantity \in Nat /\ stock[t].quantity = ledger[t]
  BY DEF CoreInv, TablesOK, ShelfType, BooksFollowMovements
<1>1. PICK d \in Int :
        /\ stock[s].quantity + d \in Nat
        /\ stock' = [stock EXCEPT ![s].quantity = @ + d]
        /\ ledger' = [ledger EXCEPT ![s] = @ + d]
  <2>1. CASE Intake(s)
    <3>1. stock[s].quantity + 1 \in Nat
      BY <1>0
    <3>2. stock' = [stock EXCEPT ![s].quantity = @ + 1] /\ ledger' = [ledger EXCEPT ![s] = @ + 1] /\ 1 \in Int
      BY <2>1 DEF Intake
    <3> QED BY <3>1, <3>2
  <2>2. CASE \E n \in 0 .. MaxUnits : Count(s, n)
    <3>1. PICK n \in 0 .. MaxUnits : Count(s, n)
      BY <2>2
    <3> DEFINE d == n - stock[s].quantity
    <3>2. n \in Nat /\ d \in Int /\ stock[s].quantity + d = n
      BY <1>0, StockAssumption
    <3>3. stock' = [stock EXCEPT ![s].quantity = n] /\ ledger' = [ledger EXCEPT ![s] = @ + d]
      BY <3>1 DEF Count
    <3>4. stock' = [stock EXCEPT ![s].quantity = @ + d]
      BY <1>0, <3>2, <3>3
    <3> QED BY <3>2, <3>3, <3>4
  <2> QED BY <2>1, <2>2
<1>2. /\ \A t \in Shelves : counts[t] <= counts'[t]
      /\ counts' \in [Shelves -> 0 .. MaxCounts] /\ spent' \in 0 .. MaxOps
      /\ UNCHANGED <<resv, item, since, answered, sent, dispatches, proc>>
  <2>1. CASE Intake(s)
    BY <1>0, <2>1, StockAssumption DEF Intake, CoreInv, TablesOK
  <2>2. CASE \E n \in 0 .. MaxUnits : Count(s, n)
    BY <1>0, <2>2, StockAssumption DEF Count, CoreInv, TablesOK
  <2> QED BY <2>1, <2>2
<1>3. /\ stock' \in [Shelves -> ShelfType] /\ ledger' \in [Shelves -> Int]
      /\ \A t \in Shelves : stock'[t].quantity = ledger'[t]
  BY <1>0, <1>1 DEF ShelfType
<1>4. TablesOK'
  BY <1>2, <1>3 DEF CoreInv, TablesOK, ShelfType
<1>5. BooksFollowMovements'
  BY <1>3 DEF BooksFollowMovements
<1>6. \A k \in Items :
        /\ item'[k].qty = item[k].qty /\ item'[k].after <= item'[k].before
        /\ item'[k].status = "absent" <=> item[k].status = "absent"
        /\ resv[k].status # "none" => resv'[k].status # "none" /\ resv'[k].qty = resv[k].qty
        /\ resv[k].status = "none" /\ resv'[k].status # "none" =>
             item[k].status # "absent" /\ resv'[k].qty = item[k].qty
        /\ since'[k] <= counts'[ShelfOf[k]]
  <2> TAKE k \in Items
  <2>1. LineOK(k) /\ since[k] \in Nat /\ ShelfOf[k] \in Shelves
    BY ItemFacts DEF CoreInv, TablesOK
  <2>2. since'[k] <= counts'[ShelfOf[k]]
    <3>1. since[k] <= counts[ShelfOf[k]] /\ counts[ShelfOf[k]] <= counts'[ShelfOf[k]] /\ since'[k] = since[k]
      BY <1>2, <2>1 DEF LineOK
    <3>2. counts[ShelfOf[k]] \in Int /\ counts'[ShelfOf[k]] \in Int
      BY <1>0, <1>2, <2>1
    <3> QED BY <2>1, <3>1, <3>2
  <2> QED BY <1>2, <2>1, <2>2 DEF LineOK
<1> QED
  BY <1>2, <1>4, <1>5, <1>6, StatusStep

-----------------------------------------------------------------------------
(* Taking back *)

LEMMA CoreCommitCancel ==
  ASSUME CoreInv, NEW h \in Handlers, CommitCancel(h)
  PROVE  CoreInv'
<1> DEFINE p == proc[h]
           d == p.entry
           l == d.line
           s == ShelfOf[l]
           back == IF p.counted THEN 0 ELSE d.qty
           status == IF p.counted THEN "unresolved" ELSE "active"
           mark == IF p.counted THEN "pending_reservation" ELSE "reserved"
           Y == IF item[l].status = "fulfilled" THEN {l} ELSE {}
<1>0. /\ p.order \in Orders /\ d \in EntryType /\ p.counted \in BOOLEAN
      /\ l \in Items /\ s \in Shelves /\ d.qty \in Nat
  <2>1. At(h, "cancel", "commit") /\ p.op = "cancel"
    BY DEF CommitCancel, At
  <2>2. p.order \in Orders /\ d \in EntryType /\ p.counted \in BOOLEAN
    BY <2>1, JobIs
  <2> QED BY <2>2, ItemFacts DEF EntryType
<1>1. CASE GivesUp(h)
  BY <1>1, GivesUpStep
<1>2. CASE /\ resv[l] = [status |-> "fulfilled", qty |-> d.qty]
           /\ stock' = [stock EXCEPT ![s] = [quantity |-> @.quantity + back, reserved |-> @.reserved + back]]
           /\ ledger' = [ledger EXCEPT ![s] = @ + back]
           /\ resv' = SetStatus({l}, status)
           /\ item' = IF item[l].status = "fulfilled" THEN MarkItems({l}, mark) ELSE item
           /\ dispatches' = (dispatches \ {d}) \cup {[d EXCEPT !.cancelled = TRUE]}
           /\ sent' = [sent EXCEPT ![p.order] = FALSE]
           /\ Ends(h)
           /\ UNCHANGED <<counts, since, answered>>
  <2>1. back \in Nat /\ status \in Statuses \ {"none"} /\ mark \in ItemStatuses \ {"absent"}
    BY <1>0 DEF Statuses, ItemStatuses
  <2>2. resv[l].status # "none"
    BY <1>2, SMTT(30)
  <2>3. /\ stock \in [Shelves -> ShelfType] /\ ledger \in [Shelves -> Int]
        /\ \A t \in Shelves : stock[t].quantity = ledger[t]
    BY DEF CoreInv, TablesOK, BooksFollowMovements
  <2>4. [d EXCEPT !.cancelled = TRUE] \in EntryType
    BY <1>0 DEF EntryType
  <2>5. /\ stock' = [stock EXCEPT ![s] = [quantity |-> @.quantity + back, reserved |-> @.reserved + back]]
        /\ ledger' = [ledger EXCEPT ![s] = @ + back]
    BY <1>2
  <2>6. resv' = SetStatus({l}, status) /\ Ends(h) /\ UNCHANGED <<counts, since, answered>>
    BY <1>2
  <2>7. item' = MarkItems(Y, mark)
    <3>1. item' = IF item[l].status = "fulfilled" THEN MarkItems({l}, mark) ELSE item
      BY <1>2
    <3>2. item = MarkItems({}, mark)
      BY <2>1, NothingMarked
    <3> QED BY <3>1, <3>2
  <2>8. dispatches' \subseteq EntryType
    <3>1. dispatches' = (dispatches \ {d}) \cup {[d EXCEPT !.cancelled = TRUE]} /\ dispatches \subseteq EntryType
      BY <1>2 DEF CoreInv, TablesOK
    <3> QED BY <2>4, <3>1
  <2>9. sent' \in [Orders -> BOOLEAN]
    <3>1. sent' = [sent EXCEPT ![p.order] = FALSE] /\ sent \in [Orders -> BOOLEAN]
      BY <1>2 DEF CoreInv, TablesOK
    <3> QED BY <3>1
  <2> HIDE DEF back, status, mark
  <2>10. /\ stock' \in [Shelves -> ShelfType] /\ ledger' \in [Shelves -> Int]
         /\ \A t \in Shelves : stock'[t].quantity = ledger'[t]
    <3> HIDE DEF s, l, d, p
    <3> QED BY <1>0, <2>1, <2>3, <2>5 DEF ShelfType
  <2>11. BooksFollowMovements'
    BY <2>10 DEF BooksFollowMovements
  <2>12. \A k \in Items : k \in {l} \cup Y => resv[k].status # "none"
    BY <2>2
  <2>13. spent' \in 0 .. MaxOps
    BY <2>6, EndsStep DEF CoreInv, TablesOK
  <2> HIDE DEF Y
  <2> QED
    BY <2>1, <2>6, <2>7, <2>8, <2>9, <2>10, <2>11, <2>12, <2>13, EndsStep, StatusBatch
<1> QED
  BY <1>1, <1>2 DEF CommitCancel

LEMMA CoreCommitCorrect ==
  ASSUME CoreInv, NEW h \in Handlers, CommitCorrect(h)
  PROVE  CoreInv'
<1> DEFINE p == proc[h]
           back == p.back
           still == DOMAIN back \cap Having("fulfilled")
           more(s) == MapThenSumSet(LAMBDA l : back[l], OnShelf(back, s) \cap still)
           rows == SetStatus(still, "active")
<1>1. /\ ledger' = [s \in Shelves |-> ledger[s] + more(s)]
      /\ resv' = rows
      /\ item' = MarkItems(still, "reserved")
      /\ stock' = [s \in Shelves |->
           [quantity |-> stock[s].quantity + more(s),
            reserved |-> IF s \in ShelvesOf(back) THEN Required(ActiveRows(rows), s) ELSE stock[s].reserved]]
      /\ sent' = [sent EXCEPT ![p.order] = FALSE]
      /\ Ends(h)
      /\ UNCHANGED <<counts, since, answered, dispatches>>
  BY DEF CommitCorrect
<1>2. p.order \in Orders /\ Partly(back, LinesOf(p.order), Nat)
  <2>1. At(h, "correct", "commit") /\ p.op = "correct"
    BY DEF CommitCorrect, At
  <2> QED BY <2>1, JobIs
<1>3. \A s \in Shelves : more(s) \in Nat
  <2> TAKE s \in Shelves
  <2> DEFINE T == OnShelf(back, s) \cap still
  <2>1. T \in SUBSET Items /\ \A l \in T : back[l] \in Nat
    BY <1>2 DEF Partly, LinesOf
  <2> HIDE DEF T, back
  <2>2. IsFiniteSet(T)
    BY <2>1, ItemFacts, FS_Subset
  <2>3. Sum(back, T) \in Nat
    BY <2>1, <2>2, SumNat DEF Sum
  <2> QED BY <2>3, PlainSum DEF T
<1>4. "active" \in Statuses \ {"none"} /\ "reserved" \in ItemStatuses \ {"absent"}
  BY DEF Statuses, ItemStatuses
<1> HIDE DEF more, still
<1>5. rows \in [Items -> RowType]
  BY <1>4, SetStatusIs
<1>6. \A s \in Shelves : Required(ActiveRows(rows), s) \in Nat
  <2>1. Partly(rows, Items, RowType)
    BY <1>5 DEF Partly
  <2> HIDE DEF rows
  <2> QED BY <2>1, HeldRows, RequiredIs
<1> HIDE DEF rows, back
<1>7. \A s \in Shelves : /\ stock[s].quantity \in Nat /\ stock[s].reserved \in Nat
                         /\ ledger[s] \in Int /\ stock[s].quantity = ledger[s]
  BY DEF CoreInv, TablesOK, ShelfType, BooksFollowMovements
<1>8. /\ stock' \in [Shelves -> ShelfType] /\ ledger' \in [Shelves -> Int]
      /\ \A s \in Shelves : stock'[s].quantity = ledger'[s]
  <2>1. \A s \in Shelves : /\ stock'[s].quantity = stock[s].quantity + more(s)
                           /\ stock'[s] \in ShelfType
                           /\ ledger'[s] = ledger[s] + more(s)
    BY <1>1, <1>3, <1>6, <1>7 DEF ShelfType
  <2>2. stock' = [s \in Shelves |-> stock'[s]] /\ ledger' = [s \in Shelves |-> ledger'[s]]
    BY <1>1
  <2>3. \A s \in Shelves : stock'[s].quantity = ledger'[s] /\ ledger'[s] \in Int
    BY <1>3, <1>7, <2>1
  <2> QED BY <2>1, <2>2, <2>3
<1>9. BooksFollowMovements'
  BY <1>8 DEF BooksFollowMovements
<1>10. \A l \in Items : l \in still \cup still => resv[l].status # "none"
  BY DEF still, Having
<1>11. spent' \in 0 .. MaxOps /\ dispatches' \subseteq EntryType /\ sent' \in [Orders -> BOOLEAN]
  BY <1>1, <1>2, EndsStep DEF CoreInv, TablesOK
<1>12. resv' = SetStatus(still, "active") /\ item' = MarkItems(still, "reserved") /\ Ends(h)
       /\ UNCHANGED <<counts, since, answered>>
  BY <1>1 DEF rows
<1> QED
  BY <1>4, <1>8, <1>9, <1>10, <1>11, <1>12, EndsStep, StatusBatch

-----------------------------------------------------------------------------
(* The batch of a dispatch *)

Cut(p) == {l \in DOMAIN p.pick : p.pick[l] < resv[l].qty}
SplitIn(p) == {Remainder[l] : l \in Cut(p)}

\* What the predicates of the batch make sure of.
LEMMA DispatchRead ==
  ASSUME CoreInv, NEW h \in Handlers, At(h, "dispatch", "commit"), Unchanged(h)
  PROVE  LET p == proc[h] IN
    /\ p.order \in Orders /\ p.req \in Requests /\ Past(p) /\ ~sent[p.order]
    /\ {d \in dispatches : d.req = p.req} = {}
    /\ Partly(p.pick, Items, Nat) /\ DOMAIN p.pick \in SUBSET LinesOf(p.order)
    /\ p.saw \in [ShelvesOf(p.pick) -> ShelfType] /\ ShelvesOf(p.pick) \in SUBSET Shelves
    /\ \A s \in ShelvesOf(p.pick) : stock[s] = p.saw[s]
    /\ \A s \in Shelves : /\ Picked(p.pick, s) \in Nat /\ Picked(p.pick, s) <= stock[s].quantity
                          /\ Picked(p.pick, s) <= stock[s].reserved
    /\ \A l \in DOMAIN p.pick :
         /\ resv[l].status = "active" /\ item[l].status = "reserved" /\ item[l].qty = resv[l].qty
         /\ p.pick[l] \in Nat \ {0} /\ p.pick[l] <= resv[l].qty
    /\ Cut(p) \in SUBSET (Lines \cap DOMAIN p.pick)
    /\ \A l \in Cut(p) :
         /\ Remainder[l] # 0 /\ Remainder[l] \in LinesOf(p.order) /\ Remainder[l] \notin DOMAIN p.pick
         /\ item[Remainder[l]].status = "absent" /\ resv[Remainder[l]].status = "none"
<1> DEFINE p == proc[h]
<1>1. /\ p.order \in Orders /\ PickRead(p) /\ Past(p) /\ p.saw \in [ShelvesOf(p.pick) -> ShelfType]
      /\ \A s \in ShelvesOf(p.pick) :
           Picked(p.pick, s) <= p.saw[s].quantity /\ Picked(p.pick, s) <= p.saw[s].reserved
  BY JobIs DEF At
<1>2. /\ {d \in dispatches : d.req = p.req} = {} /\ ~sent[p.order]
      /\ \A l \in DOMAIN p.rows : resv[l] = p.rows[l] /\ item[l].status = "reserved" /\ item[l].qty = resv[l].qty
      /\ \A s \in DOMAIN p.saw : stock[s] = p.saw[s]
  BY DEF Unchanged
<1> HIDE DEF p
<1>3. /\ Partly(p.pick, Items, Nat) /\ DOMAIN p.pick \in SUBSET LinesOf(p.order)
      /\ ShelvesOf(p.pick) \in SUBSET Shelves
      /\ \A s : s \notin ShelvesOf(p.pick) => Picked(p.pick, s) = 0
      /\ \A s : Picked(p.pick, s) \in Nat
  BY <1>1, PickShelves
<1>4. p.req \in Requests /\ DOMAIN p.pick = DOMAIN p.rows
      /\ \A l \in DOMAIN p.pick :
           /\ p.rows[l].status = "active" /\ p.pick[l] <= p.rows[l].qty /\ p.pick[l] \in Nat \ {0}
           /\ p.pick[l] < p.rows[l].qty =>
                /\ l \in Lines /\ Remainder[l] # 0
                /\ item[Remainder[l]].status = "absent" \/ resv[l].qty < p.rows[l].qty
  BY <1>1 DEF PickRead
<1>5. \A s \in Shelves : /\ Picked(p.pick, s) \in Nat /\ Picked(p.pick, s) <= stock[s].quantity
                         /\ Picked(p.pick, s) <= stock[s].reserved
  <2> TAKE s \in Shelves
  <2>1. stock[s].quantity \in Nat /\ stock[s].reserved \in Nat
    BY DEF CoreInv, TablesOK, ShelfType
  <2>2. CASE s \in ShelvesOf(p.pick)
    BY <1>1, <1>2, <1>3, <2>2
  <2>3. CASE s \notin ShelvesOf(p.pick)
    <3>1. Picked(p.pick, s) = 0
      BY <1>3, <2>3
    <3> QED BY <2>1, <3>1
  <2> QED BY <2>2, <2>3
<1>6. \A l \in DOMAIN p.pick :
         /\ resv[l].status = "active" /\ item[l].status = "reserved" /\ item[l].qty = resv[l].qty
         /\ p.pick[l] \in Nat \ {0} /\ p.pick[l] <= resv[l].qty /\ resv[l] = p.rows[l]
  BY <1>2, <1>4
<1>7. Cut(p) \in SUBSET (Lines \cap DOMAIN p.pick)
  BY <1>4, <1>6 DEF Cut
<1>8. \A l \in Cut(p) :
         /\ Remainder[l] # 0 /\ Remainder[l] \in LinesOf(p.order) /\ Remainder[l] \notin DOMAIN p.pick
         /\ item[Remainder[l]].status = "absent" /\ resv[Remainder[l]].status = "none"
  <2> TAKE l \in Cut(p)
  <2>1. l \in Lines /\ l \in DOMAIN p.pick /\ p.pick[l] < resv[l].qty /\ resv[l] = p.rows[l]
    BY <1>6, <1>7 DEF Cut
  <2>2. resv[l].qty \in Nat /\ l \in LinesOf(p.order)
    BY <1>3, <2>1 DEF CoreInv, TablesOK, RowType, LinesOf
  <2>3. Remainder[l] # 0 /\ (item[Remainder[l]].status = "absent" \/ resv[l].qty < p.rows[l].qty)
    BY <1>4, <2>1
  <2>4. item[Remainder[l]].status = "absent"
    BY <2>1, <2>2, <2>3
  <2>5. Remainder[l] \in Items /\ OrderOf[Remainder[l]] = OrderOf[l]
    BY <2>1, <2>3, ItemFacts, StockAssumption
  <2>6. Remainder[l] \in LinesOf(p.order)
    BY <2>2, <2>5 DEF LinesOf
  <2>7. resv[Remainder[l]].status = "none"
    BY <2>4, <2>5 DEF CoreInv, LineOK
  <2>8. Remainder[l] \notin DOMAIN p.pick
    BY <1>6, <2>4
  <2> QED BY <2>3, <2>4, <2>6, <2>7, <2>8
<1> QED
  BY <1>1, <1>2, <1>3, <1>4, <1>5, <1>6, <1>7, <1>8 DEF p

\* What is split off an item.
RestOf(row, n) == [row EXCEPT !.qty = n, !.before = 0, !.after = 0]
LEMMA RestOfItem ==
  ASSUME NEW row \in ItemType, NEW n \in Nat
  PROVE  /\ RestOf(row, n) \in ItemType /\ RestOf(row, n).status = row.status
         /\ RestOf(row, n).qty = n /\ RestOf(row, n).before = 0 /\ RestOf(row, n).after = 0
BY DEF ItemType, RestOf

\* What the batch writes.
LEMMA DispatchWrites ==
  ASSUME CoreInv, NEW h \in Handlers, CommitDispatch(h), Unchanged(h)
  PROVE  LET p == proc[h] IN
    /\ At(h, "dispatch", "commit") /\ Ends(h) /\ UNCHANGED <<counts, answered>>
    /\ stock' = [s \in Shelves |-> [quantity |-> stock[s].quantity - Picked(p.pick, s),
                                    reserved |-> stock[s].reserved - Picked(p.pick, s)]]
    /\ ledger' = [s \in Shelves |-> ledger[s] - Picked(p.pick, s)]
    /\ dispatches' = dispatches \cup
         {[req |-> p.req, line |-> l, qty |-> p.pick[l], cancelled |-> FALSE, at |-> p.at[ShelfOf[l]]]
          : l \in DOMAIN p.pick}
    /\ sent' = [sent EXCEPT ![p.order] = AllGone(p.order, item', dispatches')]
    /\ since' = [l \in Items |-> IF l \in DOMAIN p.pick THEN p.at[ShelfOf[l]] ELSE since[l]]
    /\ resv' \in [Items -> RowType] /\ item' \in [Items -> ItemType]
    /\ \A l \in DOMAIN p.pick :
         /\ resv'[l] = [status |-> "fulfilled", qty |-> p.pick[l]]
         /\ item'[l].status = "fulfilled" /\ item'[l].qty = p.pick[l]
         /\ item'[l].before - item'[l].after = p.pick[l]
    /\ \A l \in Cut(p) :
         /\ resv'[Remainder[l]] = [status |-> "active", qty |-> resv[l].qty - p.pick[l]]
         /\ item'[Remainder[l]].status = "reserved" /\ item'[Remainder[l]].qty = resv[l].qty - p.pick[l]
         /\ item'[Remainder[l]].before = 0 /\ item'[Remainder[l]].after = 0
    /\ \A l \in Items : l \notin DOMAIN p.pick /\ l \notin SplitIn(p) => resv'[l] = resv[l] /\ item'[l] = item[l]
<1> DEFINE p == proc[h]
           pick == p.pick
           cut == {l \in DOMAIN pick : Splits(l, pick[l])}
           rest == {Remainder[l] : l \in cut}
           parent(m) == CHOOSE l \in cut : Remainder[l] = m
           picked == [l \in DOMAIN pick |-> [status |-> "active", qty |-> pick[l]]]
           quantities == [s \in DOMAIN p.saw |-> p.saw[s].quantity]
           items == [l \in Items |->
             IF l \in DOMAIN pick
             THEN [item[l] EXCEPT !.status = "fulfilled", !.qty = pick[l],
                     !.before = Before(picked, quantities, l), !.after = After(picked, quantities, l)]
             ELSE IF l \in rest
             THEN [item[parent(l)] EXCEPT !.qty = @ - pick[parent(l)], !.before = 0, !.after = 0]
             ELSE item[l]]
           entries == dispatches \cup
             {[req |-> p.req, line |-> l, qty |-> pick[l], cancelled |-> FALSE, at |-> p.at[ShelfOf[l]]]
              : l \in DOMAIN pick}
<1>1. /\ At(h, "dispatch", "commit") /\ Ends(h) /\ UNCHANGED <<counts, answered>>
      /\ stock' = [s \in Shelves |-> [quantity |-> stock[s].quantity - Picked(pick, s),
                                      reserved |-> stock[s].reserved - Picked(pick, s)]]
      /\ ledger' = [s \in Shelves |-> ledger[s] - Picked(pick, s)]
      /\ since' = [l \in Items |-> IF l \in DOMAIN pick THEN p.at[ShelfOf[l]] ELSE since[l]]
  BY DEF CommitDispatch
<1>2. /\ item' = items
      /\ resv' = [l \in Items |->
           IF l \in DOMAIN pick THEN [status |-> "fulfilled", qty |-> pick[l]]
           ELSE IF l \in rest THEN [status |-> "active", qty |-> items[l].qty]
           ELSE resv[l]]
      /\ dispatches' = entries
      /\ sent' = [sent EXCEPT ![p.order] = AllGone(p.order, items, entries)]
  BY DEF CommitDispatch
<1>3. cut = Cut(p) /\ rest = SplitIn(p)
  BY DEF Cut, SplitIn, Splits
<1> HIDE DEF cut, rest, parent, items, entries, picked, quantities
<1>4. /\ Partly(pick, Items, Nat) /\ p.saw \in [ShelvesOf(pick) -> ShelfType]
      /\ \A s \in ShelvesOf(pick) : stock[s] = p.saw[s]
      /\ \A s \in Shelves : Picked(pick, s) \in Nat /\ Picked(pick, s) <= stock[s].quantity
      /\ \A l \in DOMAIN pick :
           /\ resv[l].status = "active" /\ item[l].status = "reserved" /\ item[l].qty = resv[l].qty
           /\ pick[l] \in Nat \ {0} /\ pick[l] <= resv[l].qty
      /\ Cut(p) \in SUBSET (Lines \cap DOMAIN pick)
      /\ \A l \in Cut(p) : Remainder[l] # 0 /\ Remainder[l] \in Items /\ Remainder[l] \notin DOMAIN pick
  BY <1>1, DispatchRead DEF LinesOf
<1> HIDE DEF p, pick
<1>5. \A l \in Cut(p) : parent(Remainder[l]) = l
  <2> TAKE l \in Cut(p)
  <2>1. \A k \in cut : Remainder[k] = Remainder[l] => k = l
    <3> TAKE k \in cut
    <3>1. k \in Lines /\ l \in Lines /\ Remainder[l] # 0
      BY <1>3, <1>4
    <3> QED BY <3>1, StockAssumption
  <2>2. l \in cut
    BY <1>3
  <2> QED BY <2>1, <2>2 DEF parent
<1>6. \A l \in DOMAIN pick :
        /\ Before(picked, quantities, l) \in Nat /\ After(picked, quantities, l) \in Nat
        /\ Before(picked, quantities, l) - After(picked, quantities, l) = pick[l]
  <2> TAKE l \in DOMAIN pick
  <2> DEFINE s == ShelfOf[l]
  <2>1. /\ DOMAIN picked = DOMAIN pick /\ \A k \in DOMAIN pick : picked[k].qty = pick[k]
        /\ Partly(picked, Items, RowType)
    BY <1>4 DEF picked, Partly, RowType
  <2>2. l \in OnShelf(picked, s) /\ s \in ShelvesOf(pick) /\ s \in Shelves
    BY <1>4, <2>1, ItemFacts DEF OnShelf, ShelvesOf, Partly
  <2> HIDE DEF s
  <2>3. Required(picked, s) = Picked(pick, s)
    BY <1>4, <2>1, PickedIs
  <2>4. quantities[s] = stock[s].quantity /\ quantities[s] \in Nat
    BY <1>4, <2>2 DEF quantities, ShelfType
  <2>5. Required(picked, s) <= quantities[s]
    BY <1>4, <2>2, <2>3, <2>4
  <2>6. /\ Before(picked, quantities, l) \in Nat /\ After(picked, quantities, l) \in Nat
        /\ Before(picked, quantities, l) - After(picked, quantities, l) = picked[l].qty
    BY <2>1, <2>2, <2>4, <2>5, SoldIsTaken
  <2> QED BY <2>1, <2>6
<1>7. \A l \in Items : item[l] \in ItemType /\ resv[l] \in RowType
  BY DEF CoreInv, TablesOK
<1>8. \A l \in DOMAIN pick :
        /\ l \in Items /\ items[l] \in ItemType
        /\ items[l].status = "fulfilled" /\ items[l].qty = pick[l] /\ items[l].before - items[l].after = pick[l]
  <2> TAKE l \in DOMAIN pick
  <2>1. l \in Items /\ item[l] \in ItemType /\ pick[l] \in Nat
    BY <1>4, <1>7 DEF Partly
  <2>2. items[l] = [item[l] EXCEPT !.status = "fulfilled", !.qty = pick[l],
                      !.before = Before(picked, quantities, l), !.after = After(picked, quantities, l)]
    BY <2>1 DEF items
  <2> QED BY <1>6, <2>1, <2>2 DEF ItemType
<1>9. \A l \in Cut(p) :
        /\ items[Remainder[l]] \in ItemType
        /\ items[Remainder[l]].status = "reserved" /\ items[Remainder[l]].qty = resv[l].qty - pick[l]
        /\ items[Remainder[l]].before = 0 /\ items[Remainder[l]].after = 0
        /\ resv[l].qty - pick[l] \in Nat
  <2> TAKE l \in Cut(p)
  <2>1. /\ l \in DOMAIN pick /\ l \in Items /\ Remainder[l] \in Items /\ Remainder[l] \notin DOMAIN pick
        /\ Remainder[l] \in rest /\ parent(Remainder[l]) = l
    BY <1>3, <1>4, <1>5 DEF Partly, SplitIn
  <2>2. items[Remainder[l]] = [item[l] EXCEPT !.qty = @ - pick[l], !.before = 0, !.after = 0]
    BY <2>1 DEF items
  <2>3. /\ item[l].status = "reserved" /\ item[l].qty = resv[l].qty
        /\ pick[l] \in Nat /\ pick[l] <= resv[l].qty /\ resv[l].qty \in Nat /\ item[l] \in ItemType
    BY <1>4, <1>7, <2>1 DEF RowType
  <2>4. PICK n \in Nat : n = resv[l].qty - pick[l]
    BY <2>3
  <2>5. items[Remainder[l]] = RestOf(item[l], n)
    BY <2>2, <2>3, <2>4 DEF RestOf
  <2>6. item[l] \in ItemType /\ item[l].status = "reserved"
    BY <2>3
  <2>7. /\ items[Remainder[l]] \in ItemType
        /\ items[Remainder[l]].status = "reserved" /\ items[Remainder[l]].qty = n
        /\ items[Remainder[l]].before = 0 /\ items[Remainder[l]].after = 0
    BY <2>4, <2>5, <2>6, RestOfItem
  <2> QED BY <2>4, <2>7
<1>10. \A l \in Items : l \notin DOMAIN pick /\ l \notin SplitIn(p) => items[l] = item[l] /\ resv'[l] = resv[l]
  BY <1>2, <1>3 DEF items
<1>11. \A l \in DOMAIN pick : resv'[l] = [status |-> "fulfilled", qty |-> pick[l]]
  BY <1>2, <1>8
<1>12. \A l \in Cut(p) : resv'[Remainder[l]] = [status |-> "active", qty |-> resv[l].qty - pick[l]]
  <2> TAKE l \in Cut(p)
  <2>1. Remainder[l] \in Items /\ Remainder[l] \notin DOMAIN pick /\ Remainder[l] \in rest
    BY <1>3, <1>4 DEF SplitIn
  <2>2. resv'[Remainder[l]] = [status |-> "active", qty |-> items[Remainder[l]].qty]
    BY <1>2, <2>1
  <2> QED BY <1>9, <2>2
<1>13. \A l \in Items : l \in DOMAIN pick \/ (\E k \in Cut(p) : l = Remainder[k]) \/ (l \notin DOMAIN pick /\ l \notin SplitIn(p))
  BY DEF SplitIn
<1>14. \A l \in Items : items[l] \in ItemType
  BY <1>7, <1>8, <1>9, <1>10, <1>13
<1>15. \A l \in Items : resv'[l] \in RowType
  <2> TAKE l \in Items
  <2>1. CASE l \in DOMAIN pick
    <3>1. pick[l] \in Nat /\ resv'[l] = [status |-> "fulfilled", qty |-> pick[l]]
      BY <1>4, <1>11, <2>1
    <3> QED BY <3>1 DEF RowType
  <2>2. CASE \E k \in Cut(p) : l = Remainder[k]
    <3>1. PICK k \in Cut(p) : l = Remainder[k]
      BY <2>2
    <3>2. resv[k].qty - pick[k] \in Nat /\ resv'[l] = [status |-> "active", qty |-> resv[k].qty - pick[k]]
      BY <1>9, <1>12, <3>1
    <3> QED BY <3>2 DEF RowType
  <2>3. CASE l \notin DOMAIN pick /\ l \notin SplitIn(p)
    BY <1>7, <1>10, <2>3
  <2> QED BY <1>13, <2>1, <2>2, <2>3
<1>16. resv' \in [Items -> RowType] /\ item' \in [Items -> ItemType]
  <2>1. resv' = [l \in Items |-> resv'[l]]
    BY <1>2
  <2>2. items = [l \in Items |-> items[l]]
    BY DEF items
  <2> QED BY <1>2, <1>14, <1>15, <2>1, <2>2
<1>17. sent' = [sent EXCEPT ![p.order] = AllGone(p.order, item', dispatches')]
  BY <1>2
<1> QED
  BY <1>1, <1>2, <1>8, <1>9, <1>10, <1>11, <1>12, <1>16, <1>17 DEF p, pick, entries

LEMMA CoreCommitDispatch ==
  ASSUME CoreInv, NEW h \in Handlers, CommitDispatch(h)
  PROVE  CoreInv'
<1> DEFINE p == proc[h]
           pick == p.pick
<1>1. CASE ~Unchanged(h)
  <2>1. GivesUp(h)
    BY <1>1 DEF CommitDispatch
  <2> QED BY <2>1, GivesUpStep
<1>2. CASE Unchanged(h)
  <2>1. At(h, "dispatch", "commit") /\ Ends(h) /\ UNCHANGED <<counts, answered>>
    BY <1>2, DispatchWrites
  <2>2. /\ p.order \in Orders /\ p.req \in Requests /\ Past(p)
        /\ Partly(pick, Items, Nat)
        /\ \A s \in Shelves : /\ Picked(pick, s) \in Nat /\ Picked(pick, s) <= stock[s].quantity
                              /\ Picked(pick, s) <= stock[s].reserved
    BY <1>2, <2>1, DispatchRead
  <2>3. /\ \A l \in DOMAIN pick :
             /\ resv[l].status = "active" /\ item[l].status = "reserved" /\ item[l].qty = resv[l].qty
             /\ pick[l] \in Nat \ {0} /\ pick[l] <= resv[l].qty
        /\ Cut(p) \in SUBSET (Lines \cap DOMAIN pick)
        /\ \A l \in Cut(p) :
             /\ Remainder[l] # 0 /\ Remainder[l] \in Items /\ Remainder[l] \notin DOMAIN pick
             /\ item[Remainder[l]].status = "absent" /\ resv[Remainder[l]].status = "none"
    BY <1>2, <2>1, DispatchRead DEF LinesOf
  <2>4. /\ resv' \in [Items -> RowType] /\ item' \in [Items -> ItemType]
        /\ \A l \in DOMAIN pick :
             /\ resv'[l] = [status |-> "fulfilled", qty |-> pick[l]]
             /\ item'[l].status = "fulfilled" /\ item'[l].qty = pick[l]
             /\ item'[l].before - item'[l].after = pick[l]
        /\ \A l \in Cut(p) :
             /\ resv'[Remainder[l]] = [status |-> "active", qty |-> resv[l].qty - pick[l]]
             /\ item'[Remainder[l]].status = "reserved" /\ item'[Remainder[l]].qty = resv[l].qty - pick[l]
             /\ item'[Remainder[l]].before = 0 /\ item'[Remainder[l]].after = 0
        /\ \A l \in Items : l \notin DOMAIN pick /\ l \notin SplitIn(p) => resv'[l] = resv[l] /\ item'[l] = item[l]
    BY <1>2, DispatchWrites
  <2>4a. \A l \in DOMAIN pick :
           /\ resv'[l].status = "fulfilled" /\ resv'[l].qty = pick[l]
           /\ item'[l].status = "fulfilled" /\ item'[l].qty = pick[l]
    <3> TAKE l \in DOMAIN pick
    <3>1. resv'[l] = [status |-> "fulfilled", qty |-> pick[l]]
      BY <2>4
    <3>2. item'[l].status = "fulfilled" /\ item'[l].qty = pick[l]
      BY <2>4
    <3> HIDE DEF pick, p
    <3> QED BY <3>1, <3>2
  <2>4b. \A l \in Cut(p) :
           /\ resv'[Remainder[l]].status = "active" /\ resv'[Remainder[l]].qty = resv[l].qty - pick[l]
           /\ item'[Remainder[l]].status = "reserved" /\ item'[Remainder[l]].qty = resv[l].qty - pick[l]
           /\ item'[Remainder[l]].before = 0 /\ item'[Remainder[l]].after = 0
    <3> TAKE l \in Cut(p)
    <3>1. resv'[Remainder[l]] = [status |-> "active", qty |-> resv[l].qty - pick[l]]
      BY <2>4
    <3>2. /\ item'[Remainder[l]].status = "reserved" /\ item'[Remainder[l]].qty = resv[l].qty - pick[l]
          /\ item'[Remainder[l]].before = 0 /\ item'[Remainder[l]].after = 0
      BY <2>4
    <3> HIDE DEF pick, p
    <3> QED BY <3>1, <3>2
  <2>5. /\ stock' = [s \in Shelves |-> [quantity |-> stock[s].quantity - Picked(pick, s),
                                        reserved |-> stock[s].reserved - Picked(pick, s)]]
        /\ ledger' = [s \in Shelves |-> ledger[s] - Picked(pick, s)]
        /\ since' = [l \in Items |-> IF l \in DOMAIN pick THEN p.at[ShelfOf[l]] ELSE since[l]]
    BY <1>2, DispatchWrites
  <2>6. dispatches' \subseteq EntryType
    <3>1. dispatches' = dispatches \cup
            {[req |-> p.req, line |-> l, qty |-> pick[l], cancelled |-> FALSE, at |-> p.at[ShelfOf[l]]] : l \in DOMAIN pick}
      BY <1>2, DispatchWrites
    <3>2. \A l \in DOMAIN pick : l \in Items /\ p.at[ShelfOf[l]] \in Nat
      BY <2>2, ItemFacts DEF Partly, Past
    <3>3. dispatches \subseteq EntryType
      BY DEF CoreInv, TablesOK
    <3>4. \A l \in DOMAIN pick : pick[l] \in Nat \ {0}
      BY <2>3
    <3> HIDE DEF p, pick
    <3>5. \A l \in DOMAIN pick :
            [req |-> p.req, line |-> l, qty |-> pick[l], cancelled |-> FALSE, at |-> p.at[ShelfOf[l]]] \in EntryType
      BY <2>2, <3>2, <3>4 DEF EntryType
    <3> QED BY <3>1, <3>3, <3>5
  <2>7. sent' \in [Orders -> BOOLEAN]
    <3>1. AllGone(p.order, item', dispatches') \in BOOLEAN
      BY DEF AllGone
    <3>2. sent' = [sent EXCEPT ![p.order] = AllGone(p.order, item', dispatches')] /\ sent \in [Orders -> BOOLEAN]
      BY <1>2, DispatchWrites DEF CoreInv, TablesOK
    <3> QED BY <3>1, <3>2
  <2> HIDE DEF p, pick
  <2>8. /\ stock' \in [Shelves -> ShelfType] /\ ledger' \in [Shelves -> Int]
        /\ \A s \in Shelves : stock'[s].quantity = ledger'[s]
    <3>1. \A s \in Shelves : /\ stock[s].quantity \in Nat /\ stock[s].reserved \in Nat
                             /\ ledger[s] \in Int /\ stock[s].quantity = ledger[s]
      BY DEF CoreInv, TablesOK, ShelfType, BooksFollowMovements
    <3>2. \A s \in Shelves : /\ stock'[s] \in ShelfType /\ ledger'[s] \in Int /\ stock'[s].quantity = ledger'[s]
      BY <2>2, <2>5, <3>1 DEF ShelfType
    <3>3. stock' = [s \in Shelves |-> stock'[s]] /\ ledger' = [s \in Shelves |-> ledger'[s]]
      BY <2>5
    <3> QED BY <3>2, <3>3
  <2>9. \A l \in Items : since'[l] \in Nat /\ since'[l] <= counts'[ShelfOf[l]]
    <3> TAKE l \in Items
    <3>1. /\ since[l] \in Nat /\ since[l] <= counts[ShelfOf[l]] /\ counts' = counts
          /\ p.at[ShelfOf[l]] \in Nat /\ p.at[ShelfOf[l]] <= counts[ShelfOf[l]]
      BY <2>1, <2>2, ItemFacts DEF CoreInv, TablesOK, LineOK, Past
    <3> QED BY <2>5, <3>1
  <2>10. since' \in [Items -> Nat]
    <3>1. since' = [l \in Items |-> since'[l]]
      BY <2>5
    <3> QED BY <2>9, <3>1
  <2>11. TablesOK'
    BY <2>1, <2>4, <2>6, <2>7, <2>8, <2>10, EndsStep DEF CoreInv, TablesOK, ShelfType, RowType, ItemType, EntryType
  <2>12. BooksFollowMovements'
    BY <2>8 DEF BooksFollowMovements
  <2>13. \A l \in Items : l \in DOMAIN pick \/ (\E k \in Cut(p) : l = Remainder[k]) \/ (l \notin DOMAIN pick /\ l \notin SplitIn(p))
    BY DEF SplitIn
  <2>14. \A l \in Items : item[l].before \in Nat /\ item[l].after \in Nat /\ item'[l].before \in Nat /\ item'[l].after \in Nat
                          /\ resv[l].qty \in Nat /\ resv'[l].qty \in Nat
    BY <2>4 DEF CoreInv, TablesOK, ItemType, RowType
  <2>15. \A l \in Items : LineOK(l)'
    <3> TAKE l \in Items
    <3>1. /\ item'[l].after <= item'[l].before
          /\ resv'[l].status # "none" => item'[l].status # "absent" /\ resv'[l].qty = item'[l].qty
          /\ item'[l].status = "absent" => item'[l].qty = 0
      <4>1. CASE l \in DOMAIN pick
        <5>1. item'[l].before - item'[l].after = pick[l] /\ pick[l] \in Nat /\ item'[l].status = "fulfilled"
              /\ item'[l].qty = pick[l] /\ resv'[l].qty = pick[l]
          <6>1. pick[l] \in Nat /\ item'[l].before - item'[l].after = pick[l]
            BY <2>3, <2>4, <4>1
          <6> QED BY <2>4a, <4>1, <6>1
        <5> QED BY <2>14, <5>1
      <4>2. CASE \E k \in Cut(p) : l = Remainder[k]
        <5>1. PICK k \in Cut(p) : l = Remainder[k]
          BY <4>2
        <5>2. /\ resv'[l].qty = item'[l].qty /\ item'[l].status = "reserved" /\ item'[l].before = 0 /\ item'[l].after = 0
          BY <2>4b, <5>1
        <5> QED BY <5>2
      <4>3. CASE l \notin DOMAIN pick /\ l \notin SplitIn(p)
        BY <2>4, <4>3 DEF CoreInv, LineOK
      <4> QED BY <2>13, <4>1, <4>2, <4>3
    <3> QED BY <2>9, <3>1 DEF LineOK
  \* A remainder belongs to the one line it was split off.
  <2>16. \A l \in Lines : Remainder[l] # 0 /\ Remainder[l] \in SplitIn(p) => l \in Cut(p)
    <3> TAKE l \in Lines
    <3>1. ASSUME Remainder[l] # 0, NEW k \in Cut(p), Remainder[l] = Remainder[k] PROVE l \in Cut(p)
      <4>1. k \in Lines
        BY <2>3
      <4>2. l = k
        BY <3>1, <4>1, StockAssumption
      <4> QED BY <4>2
    <3> QED BY <3>1 DEF SplitIn
  <2>17. \A l \in Lines : l \notin SplitIn(p)
    <3>1. \A k \in Cut(p) : k \in Lines /\ Remainder[k] \notin Lines
      BY <2>3, StockAssumption
    <3> QED BY <3>1 DEF SplitIn
  <2>18. \A l \in Lines : Remainder[l] # 0 => Remainder[l] \in Items
    BY ItemFacts
  <2>19. \A l \in Lines : /\ item'[l].status # "absent" /\ l \in Items
                          /\ l \in Cut(p) => item'[l].qty = pick[l] /\ item[l].qty = resv[l].qty
                          /\ l \notin Cut(p) => item'[l].qty = item[l].qty /\ resv'[l].qty = resv[l].qty
    <3> TAKE l \in Lines
    <3>1. l \in Items /\ item[l].status # "absent" /\ l \notin SplitIn(p)
      BY <2>17, ItemFacts DEF CoreInv, WholeOK
    <3>2. CASE l \in DOMAIN pick
      <4>1. l \in Cut(p) <=> pick[l] < resv[l].qty
        BY <3>2 DEF Cut, pick
      <4>2. /\ pick[l] \in Nat /\ pick[l] <= resv[l].qty /\ item[l].qty = resv[l].qty
            /\ resv'[l].qty = pick[l] /\ item'[l].qty = pick[l] /\ item'[l].status = "fulfilled"
        BY <2>3, <2>4a, <3>2
      <4>3. l \notin Cut(p) => pick[l] = resv[l].qty
        BY <2>14, <3>1, <4>1, <4>2
      <4> QED BY <3>1, <4>2, <4>3
    <3>3. CASE l \notin DOMAIN pick
      <4>1. l \notin Cut(p)
        BY <2>3, <3>3
      <4> QED BY <2>4, <3>1, <3>3, <4>1
    <3> QED BY <3>2, <3>3
  <2>20. \A l \in Lines : Remainder[l] # 0 =>
           /\ l \in Cut(p) => item'[Remainder[l]].qty = resv[l].qty - pick[l] /\ item[Remainder[l]].qty = 0
           /\ l \notin Cut(p) => /\ item'[Remainder[l]].status = "absent" <=> item[Remainder[l]].status = "absent"
                                 /\ item'[Remainder[l]].qty = item[Remainder[l]].qty \/ Remainder[l] \in DOMAIN pick
    <3> SUFFICES ASSUME NEW l \in Lines, Remainder[l] # 0
                 PROVE /\ l \in Cut(p) => item'[Remainder[l]].qty = resv[l].qty - pick[l] /\ item[Remainder[l]].qty = 0
                       /\ l \notin Cut(p) => /\ item'[Remainder[l]].status = "absent" <=> item[Remainder[l]].status = "absent"
                                             /\ item'[Remainder[l]].qty = item[Remainder[l]].qty \/ Remainder[l] \in DOMAIN pick
      OBVIOUS
    <3>1. Remainder[l] \in Items
      BY <2>18
    <3>2. CASE l \in Cut(p)
      BY <2>3, <2>4, <3>1, <3>2 DEF CoreInv, LineOK
    <3>3. CASE l \notin Cut(p)
      <4>1. Remainder[l] \notin SplitIn(p)
        BY <2>16, <3>3
      <4>2. CASE Remainder[l] \in DOMAIN pick
        <5>1. item'[Remainder[l]].status = "fulfilled" /\ item[Remainder[l]].status = "reserved"
          BY <2>3, <2>4, <4>2
        <5> QED BY <3>3, <4>2, <5>1
      <4>3. CASE Remainder[l] \notin DOMAIN pick
        BY <2>4, <3>1, <3>3, <4>1, <4>3
      <4> QED BY <4>2, <4>3
    <3> QED BY <3>2, <3>3
  \* What is split off is never split again: it is dispatched as a whole.
  <2>21. \A l \in Lines : Remainder[l] # 0 /\ Remainder[l] \in DOMAIN pick => item'[Remainder[l]].qty = item[Remainder[l]].qty
    <3> SUFFICES ASSUME NEW l \in Lines, Remainder[l] # 0, Remainder[l] \in DOMAIN pick
                 PROVE  item'[Remainder[l]].qty = item[Remainder[l]].qty
      OBVIOUS
    <3> DEFINE m == Remainder[l]
    <3>1. m \notin Lines /\ m \in Items
      BY <2>18, StockAssumption
    <3>2. m \notin Cut(p)
      BY <2>3, <3>1
    <3>3. ~(pick[m] < resv[m].qty)
      BY <3>2 DEF Cut, pick
    <3> HIDE DEF m
    <3>4. m \in DOMAIN pick
      BY DEF m
    <3>5. pick[m] \in Nat /\ pick[m] <= resv[m].qty /\ resv[m].qty \in Nat /\ item[m].qty = resv[m].qty /\ item'[m].qty = pick[m]
      BY <2>3, <2>4, <2>14, <3>1, <3>4
    <3>6. item'[m].qty = item[m].qty
      BY <3>3, <3>5
    <3> QED BY <3>6 DEF m
  <2>22. \A l \in Lines : WholeOK(l)'
    <3> TAKE l \in Lines
    <3>1. WholeOK(l) /\ l \in Items
      BY <2>19 DEF CoreInv
    <3>2. CASE l \in Cut(p)
      <4>1. Remainder[l] # 0 /\ pick[l] \in Nat /\ resv[l].qty \in Nat
        BY <2>3, <2>14, <3>1, <3>2
      <4>2. /\ item'[l].qty = pick[l] /\ item'[Remainder[l]].qty = resv[l].qty - pick[l]
            /\ item[l].qty = resv[l].qty /\ item[Remainder[l]].qty = 0
        BY <2>19, <2>20, <3>2, <4>1
      <4>3. Ordered[l] = item[l].qty + 0
        BY <3>1, <4>1, <4>2 DEF WholeOK
      <4>4. Ordered[l] = item'[l].qty + item'[Remainder[l]].qty
        BY <4>1, <4>2, <4>3
      <4> QED BY <2>19, <4>1, <4>4 DEF WholeOK
    <3>3. CASE l \notin Cut(p)
      <4>1. item'[l].qty = item[l].qty /\ item'[l].status # "absent"
        BY <2>19, <3>3
      <4>2. Remainder[l] # 0 => item'[Remainder[l]].qty = item[Remainder[l]].qty
        BY <2>20, <2>21, <3>3
      <4> QED BY <3>1, <4>1, <4>2 DEF WholeOK
    <3> QED BY <3>2, <3>3
  <2>23. Onward
    <3>1. ASSUME NEW l \in Items
          PROVE  /\ item[l].status # "absent" => item'[l].status # "absent"
                 /\ resv[l].status # "none" => resv'[l].status # "none" /\ resv'[l].qty <= resv[l].qty
      <4>1. CASE l \in DOMAIN pick
        BY <2>3, <2>4a, <4>1
      <4>2. CASE \E k \in Cut(p) : l = Remainder[k]
        BY <2>3, <4>2
      <4>3. CASE l \notin DOMAIN pick /\ l \notin SplitIn(p)
        <5>1. resv'[l] = resv[l] /\ item'[l] = item[l] /\ resv[l].qty \in Nat
          BY <2>4, <2>14, <4>3
        <5> QED BY <5>1
      <4> QED BY <2>13, <4>1, <4>2, <4>3
    <3>2. ASSUME NEW l \in Lines, Remainder[l] # 0, item[Remainder[l]].status = "absent", item'[Remainder[l]].status # "absent"
          PROVE  resv'[l].qty < resv[l].qty
      <4>1. l \in Cut(p)
        BY <2>20, <3>2
      <4>2. l \in DOMAIN pick /\ pick[l] < resv[l].qty
        BY <4>1 DEF Cut, pick
      <4> QED BY <2>4a, <4>2
    <3>3. \A s \in Shelves : counts[s] <= counts'[s]
      BY <2>1, StockAssumption DEF CoreInv, TablesOK
    <3> QED BY <3>1, <3>2, <3>3 DEF Onward
  <2>24. \A g \in Handlers : proc'[g] = proc[g] \/ JobOK(proc[g])'
    BY <2>1, EndsStep
  <2> QED
    BY <2>11, <2>12, <2>15, <2>22, <2>23, <2>24, CoreWrite
<1> QED
  BY <1>1, <1>2

-----------------------------------------------------------------------------
LEMMA CoreInit == Init => CoreInv
<1> SUFFICES ASSUME Init PROVE CoreInv
  OBVIOUS
<1>1. PICK R \in SUBSET Lines :
    LET first == [l \in R |-> [status |-> "active", qty |-> Ordered[l]]]
    IN /\ stock = [s \in Shelves |-> [quantity |-> InStock[s], reserved |-> Required(first, s)]]
       /\ resv = [l \in Items |-> IF l \in R THEN first[l] ELSE [status |-> "none", qty |-> 0]]
       /\ item = [l \in Items |->
                   [status |-> IF l \in R THEN "reserved" ELSE IF l \in Lines THEN "new" ELSE "absent",
                    qty |-> IF l \in Lines THEN Ordered[l] ELSE 0, before |-> 0, after |-> 0, origin |-> 0]]
  BY DEF Init
<1>2. /\ ledger = InStock /\ counts = [s \in Shelves |-> 0]
      /\ since = [l \in Items |-> 0] /\ answered = [l \in Items |-> 0] /\ sent = [o \in Orders |-> FALSE]
      /\ dispatches = {} /\ proc = [h \in Handlers |-> Idle] /\ spent = 0
  BY DEF Init
<1> DEFINE first == [l \in R |-> [status |-> "active", qty |-> Ordered[l]]]
<1>3. \A l \in Lines : l \in Items /\ Ordered[l] \in Nat
  BY ItemFacts, StockAssumption
<1>4. Partly(first, Items, RowType)
  BY <1>1, <1>3 DEF Partly, RowType
<1>5. \A s \in Shelves : Required(first, s) \in Nat
  <2> HIDE DEF first
  <2> QED BY <1>4, RequiredIs
<1>6. stock = [s \in Shelves |-> [quantity |-> InStock[s], reserved |-> Required(first, s)]]
  BY <1>1
<1>7. /\ stock \in [Shelves -> ShelfType] /\ \A s \in Shelves : stock[s].quantity = InStock[s]
  <2>1. \A s \in Shelves : InStock[s] \in Nat
    BY StockAssumption
  <2> HIDE DEF first
  <2> QED BY <1>5, <1>6, <2>1 DEF ShelfType
<1>8. resv \in [Items -> RowType]
      /\ \A l \in Items : resv[l].status # "none" => l \in Lines /\ resv[l].qty = Ordered[l]
  <2>1. resv = [l \in Items |-> IF l \in R THEN [status |-> "active", qty |-> Ordered[l]]
                                ELSE [status |-> "none", qty |-> 0]]
    BY <1>1
  <2>2. \A l \in Items : /\ resv[l] \in RowType
                         /\ resv[l].status # "none" => l \in Lines /\ resv[l].qty = Ordered[l]
    <3> TAKE l \in Items
    <3>1. CASE l \in R
      BY <1>1, <1>3, <2>1, <3>1 DEF RowType
    <3>2. CASE l \notin R
      BY <2>1, <3>2 DEF RowType
    <3> QED BY <3>1, <3>2
  <2>3. resv = [l \in Items |-> resv[l]]
    BY <2>1
  <2> QED BY <2>2, <2>3
<1>9. /\ item \in [Items -> ItemType]
      /\ \A l \in Items : /\ item[l].before = 0 /\ item[l].after = 0
                          /\ item[l].qty = IF l \in Lines THEN Ordered[l] ELSE 0
                          /\ item[l].status = "absent" <=> l \notin Lines
  <2>1. \A l \in Items :
          item[l] = [status |-> IF l \in R THEN "reserved" ELSE IF l \in Lines THEN "new" ELSE "absent",
                     qty |-> IF l \in Lines THEN Ordered[l] ELSE 0, before |-> 0, after |-> 0, origin |-> 0]
    BY <1>1
  <2>2. item = [l \in Items |-> item[l]]
    BY <1>1
  <2>3. \A l \in Items : /\ item[l] \in ItemType /\ item[l].before = 0 /\ item[l].after = 0
                         /\ item[l].qty = IF l \in Lines THEN Ordered[l] ELSE 0
                         /\ item[l].status = "absent" <=> l \notin Lines
    <3> TAKE l \in Items
    <3>1. CASE l \in Lines
      <4>1. PICK status \in {"reserved", "new"}, n \in Nat : status = (IF l \in R THEN "reserved" ELSE "new") /\ n = Ordered[l]
        BY <1>3, <3>1
      <4>2. item[l] = [status |-> status, qty |-> n, before |-> 0, after |-> 0, origin |-> 0]
        BY <2>1, <3>1, <4>1
      <4> QED BY <3>1, <4>1, <4>2 DEF ItemType
    <3>2. CASE l \notin Lines
      BY <1>1, <2>1, <3>2 DEF ItemType
    <3> QED BY <3>1, <3>2
  <2> QED BY <2>2, <2>3
<1> HIDE DEF first
<1>10. TablesOK
  <2>1. ledger \in [Shelves -> Int] /\ counts \in [Shelves -> 0 .. MaxCounts] /\ spent \in 0 .. MaxOps
    BY <1>2, StockAssumption
  <2> QED BY <1>2, <1>7, <1>8, <1>9, <2>1 DEF TablesOK
<1>11. \A l \in Items : LineOK(l)
  <2> TAKE l \in Items
  <2>1. since[l] = 0 /\ counts[ShelfOf[l]] = 0
    BY <1>2, ItemFacts
  <2> QED BY <1>8, <1>9, <2>1 DEF LineOK
<1>12. \A l \in Lines : WholeOK(l)
  <2> TAKE l \in Lines
  <2>1. l \in Items /\ Ordered[l] \in Nat /\ Remainder[l] \notin Lines /\ (Remainder[l] # 0 => Remainder[l] \in Items)
    BY <1>3, ItemFacts, StockAssumption
  <2> QED BY <1>9, <2>1 DEF WholeOK
<1>13. \A h \in Handlers : JobOK(proc[h])
  BY <1>2, IdleJob
<1>14. BooksFollowMovements
  BY <1>2, <1>7 DEF BooksFollowMovements
<1> QED
  BY <1>10, <1>11, <1>12, <1>13, <1>14 DEF CoreInv

LEMMA CoreStep == CoreInv /\ [Next]_vars => CoreInv'
<1> SUFFICES ASSUME CoreInv, [Next]_vars PROVE CoreInv'
  OBVIOUS
<1>1. ASSUME NEW h \in Handlers, NEW l \in Items,
             BeginReserve(h, l) \/ BeginRelease(h, l) \/ BeginReactivate(h, l) \/ BeginHandover(h, l)
      PROVE  CoreInv'
  BY <1>1, CoreBeginReserve, CoreBeginRelease, CoreBeginHandover
<1>2. ASSUME NEW h \in Handlers, NEW o \in Orders, BeginReleaseOrder(h, o) \/ BeginShip(h, o) \/ BeginCorrect(h, o)
      PROVE  CoreInv'
  BY <1>2, CoreBeginReleaseOrder, CoreBeginShip, CoreBeginCorrect
<1>3. ASSUME NEW h \in Handlers, NEW o \in Orders, NEW r \in Requests, NEW pick \in Picks(o), BeginDispatch(h, o, r, pick)
      PROVE  CoreInv'
  BY <1>3, CoreBeginDispatch
<1>4. ASSUME NEW h \in Handlers, NEW d \in dispatches, BeginCancel(h, d)
      PROVE  CoreInv'
  BY <1>4, CoreBeginCancel
<1>5. ASSUME NEW h \in Handlers, \/ CommitReserve(h) \/ CommitRelease(h) \/ CommitReleaseOrder(h) \/ CommitReactivate(h)
                                 \/ RecoverOne(h) \/ CheckShip(h) \/ ReadRows(h) \/ ReadStock(h) \/ CommitIssue(h)
      PROVE  CoreInv'
  BY <1>5, CoreCommitReserve, CoreCommitRelease, CoreCommitReactivate, CoreRecoverOne, CoreCheckShip, CoreReadRows,
     CoreReadStock, CoreCommitIssue
<1>6. ASSUME NEW h \in Handlers, \/ ReadDispatchStock(h) \/ CommitDispatch(h) \/ ReadRecent(h) \/ CommitCancel(h)
                                 \/ ReadTruth(h) \/ CommitCorrect(h)
      PROVE  CoreInv'
  BY <1>6, CoreReadDispatchStock, CoreCommitDispatch, CoreReadRecent, CoreCommitCancel, CoreReadTruth, CoreCommitCorrect
<1>7. ASSUME NEW l \in Items, StillHere(l) \/ IssuedBefore(l)
      PROVE  CoreInv'
  BY <1>7, CoreStillHere, CoreIssuedBefore
<1>8. ASSUME NEW s \in Shelves, Intake(s) \/ \E n \in 0 .. MaxUnits : Count(s, n)
      PROVE  CoreInv'
  BY <1>8, CoreShelf
<1>9. CASE UNCHANGED vars
  <2>1. UNCHANGED database /\ spent' = spent /\ proc' = proc
    BY <1>9 DEF vars
  <2>2. TablesOK' /\ BooksFollowMovements'
    BY <2>1 DEF database, CoreInv, TablesOK, BooksFollowMovements
  <2>3. \A k \in Items :
        /\ item'[k].qty = item[k].qty /\ item'[k].after <= item'[k].before
        /\ item'[k].status = "absent" <=> item[k].status = "absent"
        /\ resv[k].status # "none" => resv'[k].status # "none" /\ resv'[k].qty = resv[k].qty
        /\ resv[k].status = "none" /\ resv'[k].status # "none" =>
             item[k].status # "absent" /\ resv'[k].qty = item[k].qty
        /\ since'[k] <= counts'[ShelfOf[k]]
    BY <2>1 DEF database, CoreInv, LineOK
  <2>4. \A t \in Shelves : counts[t] <= counts'[t]
    BY <2>1, StockAssumption DEF database, CoreInv, TablesOK
  <2> QED BY <2>1, <2>2, <2>3, <2>4, StatusStep
<1> QED
  BY <1>1, <1>2, <1>3, <1>4, <1>5, <1>6, <1>7, <1>8, <1>9 DEF Next

\* The tables and what the handlers have read, whoever works on an order at
\* the same time (the batches of order-reservations.ts and order-dispatch.ts).
THEOREM CoreInvariant == Spec => []CoreInv
<1> QED BY CoreInit, CoreStep, PTL DEF Spec

\* The rows keep their types: no quantity and no cached promise of a shelf is
\* ever negative, whoever works on an order at the same time.
THEOREM StockTypes == Spec => []StockTypeOK
<1>1. CoreInv => StockTypeOK
  <2> SUFFICES ASSUME CoreInv PROVE StockTypeOK
    OBVIOUS
  <2>1. dispatches \subseteq EntryType
    BY DEF CoreInv, TablesOK
  <2> QED BY <2>1 DEF CoreInv, TablesOK, StockTypeOK, ShelfType, RowType, ItemType, EntryType
<1> QED BY <1>1, CoreInvariant, PTL

\* The quantity of every shelf is what its movements add up to, although an
\* issue books its lines one by one and writes an absolute quantity computed
\* from an earlier read.
THEOREM BooksFollow == Spec => []BooksFollowMovements
<1>1. CoreInv => BooksFollowMovements
  BY DEF CoreInv
<1> QED BY <1>1, CoreInvariant, PTL

\* Splitting a line for a partial dispatch neither makes nor loses units, and
\* the reservation of an item is for its quantity.
THEOREM UnitsAddUp == Spec => []PartsAddUp
<1>1. CoreInv => PartsAddUp
  BY DEF CoreInv, WholeOK, LineOK, PartsAddUp
<1> QED BY <1>1, CoreInvariant, PTL

-----------------------------------------------------------------------------
(***************************************************************************)
(* What holds when handlers that do not ask again have their order alone.  *)
(***************************************************************************)

Working(h) == proc[h] # Idle
Alone ==
  \A g, h \in Handlers :
    g # h /\ Working(g) /\ Working(h) /\ proc[g].order = proc[h].order => {proc[g].op, proc[h].op} \subseteq Rechecks

IssuedRows == \A l \in Items : item[l].status = "fulfilled" => resv[l].status = "fulfilled"

\* An entry that stands is for the line as it was issued by it.
StandsOK(d) ==
  /\ resv[d.line].status = "fulfilled" /\ resv[d.line].qty = d.qty
  /\ item[d.line].status = "fulfilled" /\ item[d.line].before - item[d.line].after = d.qty
  /\ since[d.line] = d.at
  /\ Undone(d.line) = {d}
EntriesStand == \A d \in dispatches : ~d.cancelled => StandsOK(d)

StillRead(rows, status) == \A l \in DOMAIN rows : rows[l] = resv[l] /\ resv[l].status \in status

\* No line of the order is left outside S.
Covered(o, S) == \A l \in LinesOf(o) : item[l].status \in {"absent", "fulfilled"} \/ l \in S

\* What a handler has read is what the tables say.
Fresh(p) ==
  /\ p.op \in {"release", "release_order"} => StillRead(p.rows, {"active", "unresolved"})
  /\ p.op = "reactivate" => StillRead(p.rows, {"released"})
  /\ Issues(p) /\ p.pc \in {"stock", "commit"} => StillRead(p.rows, {"active"})
  /\ p.op = "ship" /\ p.pc = "rows" => p.scope = LinesOf(p.order) /\ Covered(p.order, Open)
  /\ p.op = "ship" /\ p.pc \in {"stock", "commit"} => Covered(p.order, DOMAIN p.rows)
  /\ p.op = "correct" => Listed(p.order) = {}
  /\ p.op = "correct" /\ p.pc = "truth" =>
       \A l \in DOMAIN p.took : p.took[l] = [units |-> item[l].before - item[l].after, since |-> since[l]]

ApartInv ==
  /\ Alone
  /\ CacheIsSum
  /\ IssuedRows
  /\ EntriesStand
  /\ \A h \in Handlers : Fresh(proc[h])

\* The step leaves the lines of order o and their entries alone.
Untouched(o) ==
  /\ \A l \in LinesOf(o) : resv'[l] = resv[l] /\ item'[l] = item[l] /\ since'[l] = since[l]
  /\ Listed(o)' = Listed(o)

\* Nobody writes the lines of an order that is being corrected.
Careful == \A g \in Handlers : proc'[g] = proc[g] /\ proc[g].op = "correct" => Untouched(proc[g].order)

LEMMA FreshOn ==
  ASSUME CoreInv, NEW g \in Handlers, proc'[g] = proc[g], Fresh(proc[g]),
         proc[g] = Idle \/ proc[g].op \in Rechecks \/ Untouched(proc[g].order)
  PROVE  Fresh(proc[g])'
<1> DEFINE p == proc[g]
<1>1. CASE p = Idle \/ p.op \in Rechecks
  <2>1. p.op \in {"idle", "dispatch", "cancel", "answer"}
    BY <1>1, IdleJob DEF Rechecks
  <2> QED BY <2>1 DEF Fresh, Issues
<1>2. CASE Untouched(p.order)
  <2>1. LinesOf(p.order)' = LinesOf(p.order)
    BY DEF LinesOf
  <2>2. \A l \in LinesOf(p.order) : resv'[l] = resv[l] /\ item'[l] = item[l] /\ since'[l] = since[l] /\ l \in Items
    BY <1>2 DEF Untouched, LinesOf
  <2>3. ASSUME NEW status, DOMAIN p.rows \in SUBSET LinesOf(p.order), StillRead(p.rows, status)
        PROVE  \A l \in DOMAIN p.rows : p.rows[l] = resv'[l] /\ resv'[l].status \in status
    BY <2>2, <2>3 DEF StillRead
  <2>4. p.op \in {"release", "release_order", "reactivate"} \/ (Issues(p) /\ p.pc \in {"stock", "commit"}) =>
          DOMAIN p.rows \in SUBSET LinesOf(p.order)
    BY JobIs, RowsOfJob DEF Issuing, Issues
  <2>5. (p.op \in {"release", "release_order"} => StillRead(p.rows, {"active", "unresolved"}))'
    BY <2>3, <2>4 DEF Fresh, StillRead
  <2>6. (p.op = "reactivate" => StillRead(p.rows, {"released"}))'
    BY <2>3, <2>4 DEF Fresh, StillRead
  <2>7. (Issues(p) /\ p.pc \in {"stock", "commit"} => StillRead(p.rows, {"active"}))'
    <3>1. CASE Issues(p) /\ p.pc \in {"stock", "commit"}
      <4>1. StillRead(p.rows, {"active"}) /\ DOMAIN p.rows \in SUBSET LinesOf(p.order)
        BY <2>4, <3>1 DEF Fresh
      <4>2. \A l \in DOMAIN p.rows : p.rows[l] = resv'[l] /\ resv'[l].status \in {"active"}
        BY <2>3, <4>1
      <4> QED BY <4>2 DEF StillRead
    <3>2. CASE ~(Issues(p) /\ p.pc \in {"stock", "commit"})
      BY <3>2 DEF Issues
    <3> QED BY <3>1, <3>2
  <2>8. (p.op = "ship" /\ p.pc = "rows" => p.scope = LinesOf(p.order) /\ Covered(p.order, Open))'
    <3>1. \A l \in LinesOf(p.order) : l \in Open' <=> l \in Open
      BY <2>2 DEF Open, Having
    <3> QED BY <2>1, <2>2, <3>1 DEF Fresh, Covered
  <2>9. (p.op = "ship" /\ p.pc \in {"stock", "commit"} => Covered(p.order, DOMAIN p.rows))'
    BY <2>1, <2>2 DEF Fresh, Covered
  <2>10. (p.op = "correct" => Listed(p.order) = {})'
    BY <1>2 DEF Fresh, Untouched
  <2>11. (p.op = "correct" /\ p.pc = "truth" =>
            \A l \in DOMAIN p.took : p.took[l] = [units |-> item[l].before - item[l].after, since |-> since[l]])'
    <3>1. p.op = "correct" /\ p.pc = "truth" => DOMAIN p.took \subseteq LinesOf(p.order)
      BY JobIs DEF At, Partly
    <3> QED BY <2>2, <3>1 DEF Fresh
  <2> QED BY <2>5, <2>6, <2>7, <2>8, <2>9, <2>10, <2>11 DEF Fresh
<1> QED
  BY <1>1, <1>2

\* A step that keeps every handler at its order, whose work it may have done.
LEMMA ApartWrite ==
  ASSUME CoreInv, ApartInv, CacheIsSum', IssuedRows', EntriesStand',
         \A g \in Handlers :
           \/ proc'[g] = proc[g] /\ (proc[g] = Idle \/ proc[g].op \in Rechecks \/ Untouched(proc[g].order))
           \/ proc'[g] = Idle
           \/ /\ Working(g) /\ proc'[g].order = proc[g].order /\ proc'[g].op = proc[g].op /\ Fresh(proc[g])'
              /\ proc[g].op # "correct" \/ Untouched(proc[g].order)
  PROVE  ApartInv' /\ Careful
<1>1. \A g \in Handlers : Fresh(proc[g])'
  <2> TAKE g \in Handlers
  <2>1. Fresh(proc[g])
    BY DEF ApartInv
  <2>2. CASE proc'[g] = Idle
    <3>1. proc'[g].op = "idle"
      BY <2>2, IdleJob
    <3> QED BY <3>1 DEF Fresh, Issues
  <2> QED BY <2>1, <2>2, FreshOn
<1>2. Alone'
  <2> SUFFICES ASSUME NEW g \in Handlers, NEW h \in Handlers, g # h, proc'[g] # Idle, proc'[h] # Idle,
                      proc'[g].order = proc'[h].order
               PROVE  {proc'[g].op, proc'[h].op} \subseteq Rechecks
    BY DEF Alone, Working, Rechecks, Idle
  <2>1. \A k \in Handlers : proc'[k] # Idle =>
          Working(k) /\ proc'[k].order = proc[k].order /\ proc'[k].op = proc[k].op
    BY DEF Working
  <2> QED BY <2>1 DEF ApartInv, Alone
<1>3. Careful
  BY IdleJob DEF Careful, Rechecks
<1> QED
  BY <1>1, <1>2, <1>3 DEF ApartInv

\* What the tables say does not change when nothing is written.
LEMMA ApartTables ==
  ASSUME ApartInv, UNCHANGED database
  PROVE  /\ CacheIsSum' /\ IssuedRows' /\ EntriesStand' /\ \A o : Untouched(o)
         /\ \A p : Fresh(p) => Fresh(p)'
<1>1. /\ stock' = stock /\ resv' = resv /\ item' = item /\ since' = since /\ dispatches' = dispatches
  BY DEF database
<1>2. CacheIsSum'
  BY <1>1, PromisedSame DEF ApartInv, CacheIsSum
<1>3. IssuedRows' /\ EntriesStand'
  BY <1>1 DEF ApartInv, IssuedRows, EntriesStand, StandsOK, Undone
<1>4. \A o : Untouched(o)
  BY <1>1 DEF Untouched, Listed
<1>5. ASSUME NEW p, Fresh(p) PROVE Fresh(p)'
  BY <1>1, <1>5 DEF Fresh, StillRead, Covered, LinesOf, Open, Having, Listed, Issues
<1> QED
  BY <1>2, <1>3, <1>4, <1>5

LEMMA ApartBegin ==
  ASSUME OrdersApart, CoreInv, ApartInv, NEW h \in Handlers, NEW o, NEW op, NEW rec,
         Begin(h, op, o, rec), rec.op = op, rec.order = o, Fresh(rec)
  PROVE  ApartInv' /\ Careful
<1>1. /\ UNCHANGED database /\ proc = [g \in Handlers |-> proc[g]]
      /\ \A g \in Handlers : proc[g] # Idle /\ proc[g].order = o => {op, proc[g].op} \subseteq Rechecks
  BY DEF Begin, Free, CoreInv, TablesOK
<1>2. proc'[h] = rec /\ \A g \in Handlers \ {h} : proc'[g] = proc[g]
  BY <1>1 DEF Begin
<1>3. /\ CacheIsSum' /\ IssuedRows' /\ EntriesStand' /\ \A q : Untouched(q)
      /\ \A p : Fresh(p) => Fresh(p)'
  BY <1>1, ApartTables
<1>4. \A g \in Handlers : Fresh(proc[g])'
  <2> TAKE g \in Handlers
  <2>1. CASE g = h
    <3>1. Fresh(rec)'
      BY <1>3
    <3>2. proc'[h] = rec
      BY <1>2
    <3>3. Fresh(proc[h])' <=> Fresh(rec)'
      BY <3>2
    <3> QED BY <2>1, <3>1, <3>3
  <2>2. CASE g # h
    BY <1>2, <1>3, <2>2, FreshOn DEF ApartInv
  <2> QED BY <2>1, <2>2
<1>5. Alone'
  <2> SUFFICES ASSUME NEW f \in Handlers, NEW g \in Handlers, f # g, proc'[f] # Idle, proc'[g] # Idle,
                      proc'[f].order = proc'[g].order
               PROVE  {proc'[f].op, proc'[g].op} \subseteq Rechecks
    BY DEF Alone, Working, Rechecks, Idle
  <2>1. CASE f = h
    BY <1>1, <1>2, <2>1
  <2>2. CASE g = h
    BY <1>1, <1>2, <2>2
  <2>3. CASE f # h /\ g # h
    BY <1>2, <2>3 DEF ApartInv, Alone, Working
  <2> QED BY <2>1, <2>2, <2>3
<1> QED
  BY <1>3, <1>4, <1>5 DEF ApartInv, Careful

LEMMA ApartGoes ==
  ASSUME CoreInv, ApartInv, NEW h \in Handlers, NEW rec, Goes(h, rec),
         rec = Idle \/ (Working(h) /\ rec.op = proc[h].op /\ rec.order = proc[h].order /\ Fresh(rec))
  PROVE  ApartInv' /\ Careful
<1>1. UNCHANGED database /\ proc = [g \in Handlers |-> proc[g]]
  BY DEF Goes, CoreInv, TablesOK
<1>2. proc'[h] = rec /\ \A g \in Handlers \ {h} : proc'[g] = proc[g]
  BY <1>1 DEF Goes
<1>3. /\ CacheIsSum' /\ IssuedRows' /\ EntriesStand' /\ \A q : Untouched(q)
      /\ \A p : Fresh(p) => Fresh(p)'
  BY <1>1, ApartTables
<1>4. Fresh(proc[h])' <=> Fresh(rec)'
  BY <1>2
<1> QED
  BY <1>2, <1>3, <1>4, ApartWrite

-----------------------------------------------------------------------------
(* Beginning and reading *)

Plain == {"reserve", "dispatch", "cancel"}
LEMMA PlainIsFresh == \A p : p.op \in Plain \/ (p.op = "ship" /\ p.pc = "recover")
                               \/ (p.op = "handover" /\ p.pc = "rows") => Fresh(p)
BY DEF Fresh, Issues, Plain

LEMMA ApartBeginLine ==
  ASSUME OrdersApart, CoreInv, ApartInv, NEW h \in Handlers, NEW l \in Items,
         BeginReserve(h, l) \/ BeginRelease(h, l) \/ BeginReactivate(h, l) \/ BeginHandover(h, l)
  PROVE  ApartInv' /\ Careful
<1>1. CASE BeginReserve(h, l)
  <2>1. PICK rec : rec = [op |-> "reserve", pc |-> "commit", order |-> OrderOf[l], line |-> l, at |-> counts[ShelfOf[l]]]
    OBVIOUS
  <2>2. Fresh(rec)
    BY <2>1, PlainIsFresh DEF Plain
  <2> QED BY <1>1, <2>1, <2>2, ApartBegin DEF BeginReserve
<1>2. CASE BeginRelease(h, l)
  <2>1. PICK rec : rec = [op |-> "release", pc |-> "commit", order |-> OrderOf[l], rows |-> Restrict(resv, {l})]
    OBVIOUS
  <2>2. StillRead(rec.rows, {"active", "unresolved"})
    BY <1>2, <2>1 DEF BeginRelease, StillRead, Restrict, Open, Having
  <2>3. Fresh(rec)
    BY <2>1, <2>2 DEF Fresh, Issues
  <2> QED BY <1>2, <2>1, <2>3, ApartBegin DEF BeginRelease
<1>3. CASE BeginReactivate(h, l)
  <2>1. PICK rec : rec = [op |-> "reactivate", pc |-> "commit", order |-> OrderOf[l], rows |-> Restrict(resv, {l})]
    OBVIOUS
  <2>2. StillRead(rec.rows, {"released"})
    BY <1>3, <2>1 DEF BeginReactivate, StillRead, Restrict
  <2>3. Fresh(rec)
    BY <2>1, <2>2 DEF Fresh, Issues
  <2> QED BY <1>3, <2>1, <2>3, ApartBegin DEF BeginReactivate
<1>4. CASE BeginHandover(h, l)
  <2>1. PICK sure : Begin(h, "handover", OrderOf[l],
              [op |-> "handover", pc |-> "rows", order |-> OrderOf[l], scope |-> {l}, at |-> counts, sure |-> sure])
    BY <1>4 DEF BeginHandover
  <2>2. PICK rec : rec = [op |-> "handover", pc |-> "rows", order |-> OrderOf[l], scope |-> {l}, at |-> counts, sure |-> sure]
    OBVIOUS
  <2>3. Fresh(rec)
    BY <2>2, PlainIsFresh
  <2> QED BY <2>1, <2>2, <2>3, ApartBegin
<1> QED
  BY <1>1, <1>2, <1>3, <1>4

LEMMA ApartBeginOrder ==
  ASSUME OrdersApart, CoreInv, ApartInv, NEW h \in Handlers, NEW o \in Orders,
         BeginReleaseOrder(h, o) \/ BeginShip(h, o) \/ BeginCorrect(h, o)
  PROVE  ApartInv' /\ Careful
<1>1. CASE BeginReleaseOrder(h, o)
  <2>1. PICK rec : rec = [op |-> "release_order", pc |-> "commit", order |-> o, rows |-> Restrict(resv, LinesOf(o) \cap Open)]
    OBVIOUS
  <2>2. StillRead(rec.rows, {"active", "unresolved"})
    BY <2>1 DEF StillRead, Restrict, Open, Having
  <2>3. Fresh(rec)
    BY <2>1, <2>2 DEF Fresh, Issues
  <2> QED BY <1>1, <2>1, <2>3, ApartBegin DEF BeginReleaseOrder
<1>2. CASE BeginShip(h, o)
  <2>1. PICK rec : rec = [op |-> "ship", pc |-> "recover", order |-> o, wait |-> Pending(o)]
    OBVIOUS
  <2>2. Fresh(rec)
    BY <2>1, PlainIsFresh
  <2> QED BY <1>2, <2>1, <2>2, ApartBegin DEF BeginShip
<1>3. CASE BeginCorrect(h, o)
  <2>1. PICK rec :
          rec = [op |-> "correct", pc |-> "truth", order |-> o,
                 took |-> [l \in LinesOf(o) \cap Having("fulfilled") |->
                            [units |-> item[l].before - item[l].after, since |-> since[l]]]]
    OBVIOUS
  <2>2. Listed(o) = {}
    BY <1>3 DEF BeginCorrect
  <2>3. /\ \A l \in DOMAIN rec.took : rec.took[l] = [units |-> item[l].before - item[l].after, since |-> since[l]]
    BY <2>1
  <2>4. rec.op = "correct" /\ rec.pc = "truth" /\ rec.order = o
    BY <2>1
  <2>5. Fresh(rec)
    BY <2>2, <2>3, <2>4 DEF Fresh, Issues
  <2>6. Begin(h, "correct", o, rec)
    BY <1>3, <2>1 DEF BeginCorrect
  <2> QED BY <2>4, <2>5, <2>6, ApartBegin
<1> QED
  BY <1>1, <1>2, <1>3

LEMMA ApartBeginRest ==
  ASSUME OrdersApart, CoreInv, ApartInv, NEW h \in Handlers,
         \/ \E o \in Orders, r \in Requests : \E pick \in Picks(o) : BeginDispatch(h, o, r, pick)
         \/ \E d \in dispatches : BeginCancel(h, d)
  PROVE  ApartInv' /\ Careful
<1>1. ASSUME NEW o \in Orders, NEW r \in Requests, NEW pick \in Picks(o), BeginDispatch(h, o, r, pick)
      PROVE  ApartInv' /\ Careful
  <2>1. PICK rec : rec = [op |-> "dispatch", pc |-> "stock", order |-> o, req |-> r, pick |-> pick,
                          rows |-> Restrict(resv, DOMAIN pick)]
    OBVIOUS
  <2>2. Fresh(rec)
    BY <2>1, PlainIsFresh DEF Plain
  <2> QED BY <1>1, <2>1, <2>2, ApartBegin DEF BeginDispatch
<1>2. ASSUME NEW d \in dispatches, BeginCancel(h, d)
      PROVE  ApartInv' /\ Careful
  <2>1. PICK rec : rec = [op |-> "cancel", pc |-> "recent", order |-> OrderOf[d.line], entry |-> d, saw |-> stock[ShelfOf[d.line]]]
    OBVIOUS
  <2>2. Fresh(rec)
    BY <2>1, PlainIsFresh DEF Plain
  <2> QED BY <1>2, <2>1, <2>2, ApartBegin DEF BeginCancel
<1> QED
  BY <1>1, <1>2

LEMMA ApartCheckShip ==
  ASSUME CoreInv, ApartInv, NEW h \in Handlers, CheckShip(h)
  PROVE  ApartInv' /\ Careful
<1>1. At(h, "ship", "recover") /\ Working(h)
  BY IdleJob DEF CheckShip, At, Working
<1>2. CASE GivesUp(h)
  BY <1>2, ApartGoes DEF GivesUp
<1>3. CASE ~GivesUp(h)
  <2> DEFINE o == proc[h].order
  <2>1. PICK sure : Goes(h, [op |-> "ship", pc |-> "rows", order |-> o, scope |-> LinesOf(o), at |-> counts, sure |-> sure])
    BY <1>3 DEF CheckShip
  <2>2. \A l \in LinesOf(o) : ~Blocked(l)
    BY <1>3 DEF CheckShip
  <2>3. PICK rec : rec = [op |-> "ship", pc |-> "rows", order |-> o, scope |-> LinesOf(o), at |-> counts, sure |-> sure]
    OBVIOUS
  <2>4. Covered(o, Open)
    BY <2>2 DEF Blocked, Covered, Open, Having, LinesOf
  <2>5. Fresh(rec)
    BY <2>3, <2>4 DEF Fresh, Issues
  <2>6. rec.op = proc[h].op /\ rec.order = proc[h].order
    BY <1>1, <2>3 DEF At
  <2> QED BY <1>1, <2>1, <2>3, <2>5, <2>6, ApartGoes
<1> QED
  BY <1>2, <1>3

LEMMA ApartReadRows ==
  ASSUME CoreInv, ApartInv, NEW h \in Handlers, ReadRows(h)
  PROVE  ApartInv' /\ Careful
<1> DEFINE p == proc[h]
           rows == Restrict(resv, LinesOf(p.order) \cap p.scope \cap Open)
<1>1. Issuing(h) /\ p.pc = "rows" /\ Working(h) /\ p.op \in {"ship", "handover"}
  BY IdleJob DEF ReadRows, Issuing, Working
<1>2. CASE GivesUp(h)
  BY <1>2, ApartGoes DEF GivesUp
<1>3. CASE ~GivesUp(h)
  <2>1. Goes(h, [op |-> p.op, pc |-> "stock", order |-> p.order, rows |-> rows, sure |-> p.sure, at |-> p.at])
    BY <1>3 DEF ReadRows
  <2>2. \A l \in DOMAIN rows : rows[l].status # "unresolved"
    BY <1>3 DEF ReadRows
  <2>3. PICK rec : rec = [op |-> p.op, pc |-> "stock", order |-> p.order, rows |-> rows, sure |-> p.sure, at |-> p.at]
    OBVIOUS
  <2>4. StillRead(rows, {"active"})
    BY <2>2 DEF StillRead, Restrict, Open, Having
  <2>5. p.op = "ship" => Covered(p.order, DOMAIN rows)
    <3>1. p.op = "ship" => p.scope = LinesOf(p.order) /\ Covered(p.order, Open)
      BY <1>1 DEF ApartInv, Fresh
    <3> QED BY <3>1 DEF Covered, Restrict
  <2> HIDE DEF rows
  <2>6. Fresh(rec)
    BY <1>1, <2>3, <2>4, <2>5 DEF Fresh, Issues
  <2> QED BY <1>1, <2>1, <2>3, <2>6, ApartGoes
<1> QED
  BY <1>2, <1>3

LEMMA ApartReadStock ==
  ASSUME CoreInv, ApartInv, NEW h \in Handlers, ReadStock(h)
  PROVE  ApartInv' /\ Careful
<1> DEFINE p == proc[h]
<1>1. Issuing(h) /\ p.pc = "stock" /\ Working(h) /\ p.op \in {"ship", "handover"}
  BY IdleJob DEF ReadStock, Issuing, Working
<1>2. CASE GivesUp(h)
  BY <1>2, ApartGoes DEF GivesUp
<1>3. CASE ~GivesUp(h)
  <2>1. PICK saw : Goes(h, [op |-> p.op, pc |-> "commit", order |-> p.order, rows |-> p.rows, at |-> p.at, saw |-> saw])
    BY <1>3 DEF ReadStock
  <2>2. PICK rec : rec = [op |-> p.op, pc |-> "commit", order |-> p.order, rows |-> p.rows, at |-> p.at, saw |-> saw]
    OBVIOUS
  <2>3. StillRead(p.rows, {"active"}) /\ (p.op = "ship" => Covered(p.order, DOMAIN p.rows))
    BY <1>1 DEF ApartInv, Fresh, Issues
  <2>4. Fresh(rec)
    BY <1>1, <2>2, <2>3 DEF Fresh, Issues
  <2> QED BY <1>1, <2>1, <2>2, <2>4, ApartGoes
<1> QED
  BY <1>2, <1>3

LEMMA ApartReadRest ==
  ASSUME CoreInv, ApartInv, NEW h \in Handlers, ReadDispatchStock(h) \/ ReadRecent(h) \/ ReadTruth(h)
  PROVE  ApartInv' /\ Careful
<1> DEFINE p == proc[h]
<1>1. CASE GivesUp(h)
  BY <1>1, ApartGoes DEF GivesUp
<1>2. CASE ReadDispatchStock(h) /\ ~GivesUp(h)
  <2>1. PICK rec : /\ rec = [op |-> "dispatch", pc |-> "commit", order |-> p.order, req |-> p.req, pick |-> p.pick,
                             rows |-> p.rows, at |-> counts, saw |-> Restrict(stock, ShelvesOf(p.pick))]
                   /\ Goes(h, rec)
    BY <1>2 DEF ReadDispatchStock
  <2>2. p.op = "dispatch" /\ Working(h)
    BY <1>2, IdleJob DEF ReadDispatchStock, At, Working
  <2>3. Fresh(rec)
    BY <2>1, PlainIsFresh DEF Plain
  <2> QED BY <2>1, <2>2, <2>3, ApartGoes
<1>3. CASE ReadRecent(h)
  <2>1. PICK rec : /\ rec = [op |-> "cancel", pc |-> "commit", order |-> p.order, entry |-> p.entry,
                             saw |-> p.saw, counted |-> counts[ShelfOf[p.entry.line]] > p.entry.at]
                   /\ Goes(h, rec)
    BY <1>3 DEF ReadRecent
  <2>2. p.op = "cancel" /\ Working(h)
    BY <1>3, IdleJob DEF ReadRecent, At, Working
  <2>3. Fresh(rec)
    BY <2>1, PlainIsFresh DEF Plain
  <2> QED BY <2>1, <2>2, <2>3, ApartGoes
<1>4. CASE ReadTruth(h)
  <2>1. PICK back : Goes(h, [op |-> "correct", pc |-> "commit", order |-> p.order, back |-> back])
    BY <1>4 DEF ReadTruth
  <2>2. PICK rec : rec = [op |-> "correct", pc |-> "commit", order |-> p.order, back |-> back]
    OBVIOUS
  <2>3. p.op = "correct" /\ Working(h)
    BY <1>4, IdleJob DEF ReadTruth, At, Working
  <2>4. Listed(p.order) = {}
    BY <2>3 DEF ApartInv, Fresh
  <2>5. Fresh(rec)
    BY <2>2, <2>4 DEF Fresh, Issues
  <2> QED BY <2>1, <2>2, <2>3, <2>5, ApartGoes
<1> QED
  BY <1>1, <1>2, <1>3, <1>4

-----------------------------------------------------------------------------
(* Batches *)

Same(l) == resv'[l] = resv[l] /\ item'[l] = item[l] /\ since'[l] = since[l]

LEMMA StandOn ==
  ASSUME ApartInv, dispatches' = dispatches, \A d \in dispatches : ~d.cancelled => Same(d.line)
  PROVE  EntriesStand'
<1> SUFFICES ASSUME NEW d \in dispatches, ~d.cancelled PROVE StandsOK(d)'
  BY DEF EntriesStand
<1>1. StandsOK(d) /\ Same(d.line)
  BY DEF ApartInv, EntriesStand
<1>2. Undone(d.line)' = Undone(d.line)
  BY DEF Undone
<1> QED
  BY <1>1, <1>2 DEF StandsOK, Same

\* Lines that are not fulfilled have no entry that stands.
LEMMA StandUnissued ==
  ASSUME CoreInv, ApartInv, dispatches' = dispatches, \A l \in Items : resv[l].status = "fulfilled" => Same(l)
  PROVE  EntriesStand'
<1>1. \A d \in dispatches : ~d.cancelled => Same(d.line)
  BY DEF ApartInv, EntriesStand, StandsOK, CoreInv, TablesOK, EntryType
<1> QED
  BY <1>1, StandOn

LEMMA ApartCommit ==
  ASSUME CoreInv, ApartInv, NEW h \in Handlers, Working(h), \A g \in Handlers \ {h} : proc'[g] = proc[g],
         \/ proc'[h] = Idle
         \/ proc'[h].order = proc[h].order /\ proc'[h].op = proc[h].op /\ Fresh(proc[h])' /\ proc[h].op # "correct",
         \A l \in Items : OrderOf[l] # proc[h].order => Same(l),
         \A d : OrderOf[d.line] # proc[h].order => (d \in dispatches' <=> d \in dispatches),
         CacheIsSum', IssuedRows', EntriesStand'
  PROVE  ApartInv' /\ Careful
<1>1. ASSUME NEW g \in Handlers \ {h}
      PROVE  proc[g] = Idle \/ proc[g].op \in Rechecks \/ Untouched(proc[g].order)
  <2>1. CASE Working(g) /\ proc[g].order # proc[h].order
    <3>1. \A l \in LinesOf(proc[g].order) : Same(l)
      BY <2>1 DEF LinesOf
    <3>2. Listed(proc[g].order)' = Listed(proc[g].order)
      <4>1. proc'[g] = proc[g]
        BY <1>1
      <4>2. {d \in dispatches' : OrderOf[d.line] = proc[g].order} = {d \in dispatches : OrderOf[d.line] = proc[g].order}
        BY <2>1
      <4> QED BY <4>1, <4>2 DEF Listed
    <3> QED BY <3>1, <3>2 DEF Untouched, Same
  <2>2. CASE Working(g) /\ proc[g].order = proc[h].order
    BY <2>2 DEF ApartInv, Alone
  <2> QED BY <2>1, <2>2 DEF Working
<1>2. \A g \in Handlers :
        \/ proc'[g] = proc[g] /\ (proc[g] = Idle \/ proc[g].op \in Rechecks \/ Untouched(proc[g].order))
        \/ proc'[g] = Idle
        \/ /\ Working(g) /\ proc'[g].order = proc[g].order /\ proc'[g].op = proc[g].op /\ Fresh(proc[g])'
           /\ proc[g].op # "correct" \/ Untouched(proc[g].order)
  BY <1>1
<1> QED
  BY <1>2, ApartWrite

\* The rows of reservations have their types around a step.
LEMMA RowTypes == CoreInv /\ CoreInv' => /\ resv \in [Items -> RowType] /\ (resv \in [Items -> RowType])'
                                        /\ \A s \in Shelves : stock[s].reserved \in Nat /\ stock[s].quantity \in Nat
BY DEF CoreInv, TablesOK, ShelfType

LEMMA ApartCommitReserve ==
  ASSUME CoreInv, CoreInv', ApartInv, NEW h \in Handlers, CommitReserve(h)
  PROVE  ApartInv' /\ Careful
<1> DEFINE l == proc[h].line
           s == ShelfOf[l]
           n == item[l].qty
           enough == stock[s].quantity >= stock[s].reserved + n
<1>1. CASE GivesUp(h)
  BY <1>1, ApartGoes DEF GivesUp
<1>2. CASE /\ resv[l].status = "none"
           /\ stock' = IF enough THEN ReserveMore(s, n) ELSE stock
           /\ resv' = [resv EXCEPT ![l] = [status |-> IF enough THEN "active" ELSE "unresolved", qty |-> n]]
           /\ item' = [item EXCEPT ![l] =
                [Marked(l, IF enough THEN "reserved" ELSE "pending_reservation") EXCEPT !.origin = proc[h].at]]
           /\ Ends(h)
           /\ UNCHANGED <<ledger, counts, since, answered, sent, dispatches>>
  <2>1. l \in Items /\ OrderOf[l] = proc[h].order /\ Working(h)
    BY JobIs, IdleJob DEF CommitReserve, LinesOf, Working, At
  <2>2. s \in Shelves /\ n \in Nat /\ item[l] \in ItemType
    BY <2>1, ItemFacts DEF CoreInv, TablesOK, ItemType
  <2>3. \A k \in Items \ {l} : Same(k)
    BY <1>2, <2>1 DEF CoreInv, TablesOK, Same
  <2>4. /\ resv'[l].status = (IF enough THEN "active" ELSE "unresolved") /\ resv'[l].qty = n
    BY <1>2, <2>1 DEF CoreInv, TablesOK
  <2>5. item'[l].status \in {"reserved", "pending_reservation"}
    BY <1>2, <2>1, <2>2 DEF CoreInv, TablesOK, Marked, ItemType
  <2>6. resv[l].status = "none"
    BY <1>2
  <2>7. CacheIsSum'
    <3> SUFFICES ASSUME NEW t \in Shelves PROVE (stock[t].reserved = Promised(t))'
      BY DEF CacheIsSum
    <3>1. Promised(t)' = Promised(t) + (IF ShelfOf[l] = t THEN ShareOf(resv')[l] - ShareOf(resv)[l] ELSE 0)
          /\ Promised(t) \in Nat
      <4>1. \A k \in Items \ {l} : resv'[k] = resv[k]
        BY <2>3 DEF Same
      <4> HIDE DEF l
      <4> QED BY <2>1, <4>1, RowTypes, OneRow
    <3>2. ShareOf(resv)[l] = 0 /\ ShareOf(resv')[l] = IF enough THEN n ELSE 0
      BY <2>1, <2>4, <2>6 DEF ShareOf
    <3>3. stock'[t].reserved = stock[t].reserved + (IF enough /\ t = s THEN n ELSE 0)
      <4>1. ReserveMore(s, n)[t].reserved = stock[t].reserved + (IF t = s THEN n ELSE 0)
        BY <2>2, ReserveMoreIs
      <4>2. stock' = IF enough THEN ReserveMore(s, n) ELSE stock
        BY <1>2
      <4>3. stock[t].reserved \in Nat
        BY RowTypes
      <4> HIDE DEF s, n, enough
      <4> QED BY <4>1, <4>2, <4>3
    <3>4. stock[t].reserved = Promised(t)
      BY DEF ApartInv, CacheIsSum
    <3> HIDE DEF enough, n
    <3> QED BY <2>2, <3>1, <3>2, <3>3, <3>4
  <2> HIDE DEF enough
  <2>8. IssuedRows'
    BY <2>3, <2>5 DEF ApartInv, IssuedRows, Same
  <2>9. EntriesStand'
    <3>1. \A k \in Items : resv[k].status = "fulfilled" => Same(k)
      BY <2>3, <2>6
    <3> QED BY <1>2, <3>1, StandUnissued
  <2>10. Ends(h) /\ dispatches' = dispatches
    BY <1>2
  <2>11. \A k \in Items : OrderOf[k] # proc[h].order => Same(k)
    BY <2>1, <2>3
  <2> HIDE DEF l
  <2> QED BY <2>1, <2>7, <2>8, <2>9, <2>10, <2>11, EndsStep, ApartCommit
<1> QED
  BY <1>1, <1>2 DEF CommitReserve

\* Rows that were held or waited, as they were read, are given up or issued:
\* the cached sum is lowered by what they promised.
LEMMA CacheLowered ==
  ASSUME CoreInv, CoreInv', ApartInv, NEW rows, Partly(rows, Items, RowType),
         \A l \in DOMAIN rows : rows[l] = resv[l] /\ resv'[l].status # "active",
         \A l \in Items \ DOMAIN rows : resv'[l] = resv[l],
         \A s \in Shelves :
           \/ stock'[s].reserved = Floor(stock[s].reserved - Required(ActiveRows(rows), s))
           \/ stock'[s].reserved = stock[s].reserved /\ Required(ActiveRows(rows), s) = 0
  PROVE  CacheIsSum'
<1> SUFFICES ASSUME NEW s \in Shelves PROVE (stock[s].reserved = Promised(s))'
  BY DEF CacheIsSum
<1>1. /\ Promised(s)' = Promised(s) - Required(ActiveRows(rows), s)
      /\ Promised(s) \in Nat /\ Promised(s)' \in Nat
  BY RowTypes, Withdrawn
<1>2. stock[s].reserved = Promised(s) /\ Required(ActiveRows(rows), s) \in Nat
  BY HeldRows, RequiredIs DEF ApartInv, CacheIsSum
<1>3. Floor(stock[s].reserved - Required(ActiveRows(rows), s)) = stock[s].reserved - Required(ActiveRows(rows), s)
  BY <1>1, <1>2 DEF Floor
<1> QED
  BY <1>1, <1>2, <1>3

LEMMA ApartCommitRelease ==
  ASSUME CoreInv, CoreInv', ApartInv, NEW h \in Handlers, CommitRelease(h) \/ CommitReleaseOrder(h)
  PROVE  ApartInv' /\ Careful
<1> DEFINE rows == proc[h].rows
<1>1. /\ proc[h].op \in {"release", "release_order"} /\ Working(h) /\ Ends(h)
      /\ UNCHANGED <<ledger, counts, since, answered, sent, dispatches>>
  BY IdleJob DEF CommitRelease, CommitReleaseOrder, At, Working
<1>2. StillRead(rows, {"active", "unresolved"})
  BY <1>1 DEF ApartInv, Fresh
<1>3. RowsRead(proc[h], rows)
  BY <1>1, JobIs
<1>4. /\ Partly(rows, Items, RowType) /\ Partly(ActiveRows(rows), Items, RowType)
      /\ DOMAIN rows \in SUBSET LinesOf(proc[h].order)
      /\ \A l \in DOMAIN rows : l \in Items
  BY <1>3, RowsOfJob
<1>5. DOMAIN rows \cap Open = DOMAIN rows
  BY <1>2, <1>4 DEF StillRead, Open, Having
<1>6. /\ stock' = [s \in Shelves |-> [stock[s] EXCEPT !.reserved = Floor(@ - Required(ActiveRows(rows), s))]]
      /\ resv' = SetStatus(DOMAIN rows, "released")
      /\ item' = MarkItems(DOMAIN rows, "reservation_released")
  BY <1>5 DEF CommitRelease, CommitReleaseOrder
<1> HIDE DEF rows
<1>7. \A l \in Items : /\ resv'[l].status = IF l \in DOMAIN rows THEN "released" ELSE resv[l].status
                       /\ item'[l].status = IF l \in DOMAIN rows THEN "reservation_released" ELSE item[l].status
                       /\ l \notin DOMAIN rows => Same(l)
  <2>1. "released" \in Statuses /\ "reservation_released" \in ItemStatuses
    BY DEF Statuses, ItemStatuses
  <2>2. \A l \in Items : since'[l] = since[l]
    BY <1>1
  <2> QED BY <1>6, <2>1, <2>2, SetStatusIs, MarkItemsIs DEF Same
<1>8. CacheIsSum'
  <2>1. \A s \in Shelves : stock'[s].reserved = Floor(stock[s].reserved - Required(ActiveRows(rows), s))
    BY <1>4, <1>6, LoweredIs
  <2>2. \A l \in DOMAIN rows : rows[l] = resv[l] /\ resv'[l].status # "active"
    BY <1>2, <1>4, <1>7 DEF StillRead
  <2>3. \A l \in Items \ DOMAIN rows : resv'[l] = resv[l]
    BY <1>7 DEF Same
  <2> QED BY <1>4, <2>1, <2>2, <2>3, CacheLowered
<1>9. IssuedRows'
  BY <1>7 DEF ApartInv, IssuedRows
<1>10. EntriesStand'
  <2>1. \A l \in Items : resv[l].status = "fulfilled" => Same(l)
    BY <1>2, <1>7 DEF StillRead
  <2> QED BY <1>1, <2>1, StandUnissued
<1>11. \A l \in Items : OrderOf[l] # proc[h].order => Same(l)
  BY <1>4, <1>7 DEF LinesOf
<1> QED
  BY <1>1, <1>8, <1>9, <1>10, <1>11, EndsStep, ApartCommit

LEMMA ApartCommitReactivate ==
  ASSUME CoreInv, CoreInv', ApartInv, NEW h \in Handlers, CommitReactivate(h)
  PROVE  ApartInv' /\ Careful
<1> DEFINE rows == proc[h].rows
           X == DOMAIN rows
<1>1. /\ proc[h].op = "reactivate" /\ Working(h) /\ Ends(h)
      /\ UNCHANGED <<ledger, counts, since, answered, sent, dispatches>>
  BY IdleJob DEF CommitReactivate, At, Working
<1>2. StillRead(rows, {"released"})
  BY <1>1 DEF ApartInv, Fresh
<1>3. RowsRead(proc[h], rows)
  BY <1>1, JobIs
<1>4. /\ Partly(rows, Items, RowType)
      /\ DOMAIN rows \in SUBSET LinesOf(proc[h].order)
      /\ \A l \in DOMAIN rows : l \in Items
  BY <1>3, RowsOfJob
<1>5. X \cap Having("released") = X
  BY <1>2, <1>4 DEF StillRead, Having
<1>6. /\ stock' = [s \in Shelves |-> [stock[s] EXCEPT !.reserved = @ + Units(rows, OnShelf(rows, s) \cap X)]]
      /\ resv' = SetStatus(X, "active")
      /\ item' = MarkItems(X, "reserved")
  BY <1>5 DEF CommitReactivate
<1> HIDE DEF rows
<1>7. \A l \in Items : /\ resv'[l].status = IF l \in X THEN "active" ELSE resv[l].status
                       /\ resv'[l].qty = resv[l].qty
                       /\ item'[l].status = IF l \in X THEN "reserved" ELSE item[l].status
                       /\ l \notin X => Same(l)
  <2>1. "active" \in Statuses /\ "reserved" \in ItemStatuses
    BY DEF Statuses, ItemStatuses
  <2>2. \A l \in Items : since'[l] = since[l]
    BY <1>1
  <2> HIDE DEF X
  <2> QED BY <1>6, <2>1, <2>2, SetStatusIs, MarkItemsIs DEF Same
<1>8. CacheIsSum'
  <2> SUFFICES ASSUME NEW s \in Shelves PROVE (stock[s].reserved = Promised(s))'
    BY DEF CacheIsSum
  <2>1. stock'[s].reserved = stock[s].reserved + Units(rows, OnShelf(rows, s) \cap X)
    <3>1. stock'[s] = [stock[s] EXCEPT !.reserved = @ + Units(rows, OnShelf(rows, s) \cap X)] /\ stock[s] \in ShelfType
      BY <1>6 DEF CoreInv, TablesOK
    <3> QED BY <3>1 DEF ShelfType
  <2>2. X \in SUBSET DOMAIN rows
    OBVIOUS
  <2>3. \A l \in X : /\ rows[l].qty = resv[l].qty /\ resv[l].status # "active"
                      /\ resv'[l].status = "active" /\ resv'[l].qty = resv[l].qty
    BY <1>2, <1>4, <1>7 DEF StillRead
  <2>4. \A l \in Items \ X : resv'[l] = resv[l]
    BY <1>7 DEF Same
  <2> HIDE DEF X
  <2>5. Promised(s)' = Promised(s) + Units(rows, OnShelf(rows, s) \cap X)
    BY <1>4, <2>2, <2>3, <2>4, RowTypes, Resumed
  <2> QED BY <2>1, <2>5 DEF ApartInv, CacheIsSum
<1>9. IssuedRows'
  BY <1>7 DEF ApartInv, IssuedRows
<1>10. EntriesStand'
  <2>1. \A l \in Items : resv[l].status = "fulfilled" => Same(l)
    BY <1>2, <1>7 DEF StillRead
  <2> QED BY <1>1, <2>1, StandUnissued
<1>11. \A l \in Items : OrderOf[l] # proc[h].order => Same(l)
  BY <1>4, <1>7 DEF LinesOf
<1> QED
  BY <1>1, <1>8, <1>9, <1>10, <1>11, EndsStep, ApartCommit

LEMMA ApartRecoverOne ==
  ASSUME CoreInv, CoreInv', ApartInv, NEW h \in Handlers, RecoverOne(h)
  PROVE  ApartInv' /\ Careful
<1> DEFINE p == proc[h]
           l == Min(p.wait)
           s == ShelfOf[l]
           claimed == /\ l \in Pending(p.order) /\ ~sent[p.order]
                      /\ stock[s].quantity >= stock[s].reserved + resv[l].qty
<1>1. /\ At(h, "ship", "recover") /\ p.wait # {}
      /\ proc' = [proc EXCEPT ![h].wait = @ \ {l}]
      /\ stock' = IF claimed THEN ReserveMore(s, resv[l].qty) ELSE stock
      /\ resv' = IF claimed THEN SetStatus({l}, "active") ELSE resv
      /\ item' = IF claimed THEN MarkItems({l}, "reserved") ELSE item
      /\ UNCHANGED <<ledger, counts, since, answered, sent, dispatches, spent>>
  BY DEF RecoverOne
<1>2. /\ p.wait \subseteq LinesOf(p.order) /\ Working(h)
      /\ p = [op |-> "ship", pc |-> "recover", order |-> p.order, wait |-> p.wait]
  BY <1>1, JobIs, IdleJob DEF Working, At
<1>3. l \in Items /\ s \in Shelves /\ resv[l].qty \in Nat /\ OrderOf[l] = p.order
  BY <1>1, <1>2, NextWaiting, ItemFacts DEF CoreInv, TablesOK, RowType, LinesOf
<1>4. claimed => resv[l].status = "unresolved"
  BY DEF Pending
<1> HIDE DEF claimed, l
<1>5. /\ \A k \in Items \ {l} : Same(k)
      /\ ~claimed => Same(l)
      /\ resv'[l].status = (IF claimed THEN "active" ELSE resv[l].status) /\ resv'[l].qty = resv[l].qty
      /\ item'[l].status = (IF claimed THEN "reserved" ELSE item[l].status)
  <2>1. "active" \in Statuses /\ "reserved" \in ItemStatuses
    BY DEF Statuses, ItemStatuses
  <2>2. \A k \in Items : since'[k] = since[k]
    BY <1>1
  <2>3. CASE claimed
    <3>1. resv' = SetStatus({l}, "active") /\ item' = MarkItems({l}, "reserved")
      BY <1>1, <2>3
    <3> QED BY <1>3, <2>1, <2>2, <2>3, <3>1, SetStatusIs, MarkItemsIs DEF Same
  <2>4. CASE ~claimed
    BY <1>1, <1>3, <2>2, <2>4 DEF Same
  <2> QED BY <2>3, <2>4
<1>6. CacheIsSum'
  <2> SUFFICES ASSUME NEW t \in Shelves PROVE (stock[t].reserved = Promised(t))'
    BY DEF CacheIsSum
  <2>1. Promised(t)' = Promised(t) + (IF ShelfOf[l] = t THEN ShareOf(resv')[l] - ShareOf(resv)[l] ELSE 0)
        /\ Promised(t) \in Nat
    <3>1. \A k \in Items \ {l} : resv'[k] = resv[k]
      BY <1>5 DEF Same
    <3> QED BY <1>3, <3>1, RowTypes, OneRow
  <2>2. ShareOf(resv')[l] - ShareOf(resv)[l] = IF claimed THEN resv[l].qty ELSE 0
    BY <1>3, <1>4, <1>5 DEF ShareOf
  <2>3. stock'[t].reserved = stock[t].reserved + (IF claimed /\ t = s THEN resv[l].qty ELSE 0)
    <3>1. ReserveMore(s, resv[l].qty)[t].reserved = stock[t].reserved + (IF t = s THEN resv[l].qty ELSE 0)
      <4> HIDE DEF s
      <4> QED BY <1>3, ReserveMoreIs
    <3>2. stock[t].reserved \in Nat
      BY RowTypes
    <3> HIDE DEF s
    <3> QED BY <1>1, <3>1, <3>2
  <2>4. stock[t].reserved = Promised(t)
    BY DEF ApartInv, CacheIsSum
  <2> QED BY <1>3, <2>1, <2>2, <2>3, <2>4
<1>7. IssuedRows'
  BY <1>3, <1>4, <1>5 DEF ApartInv, IssuedRows, Same
<1>8. EntriesStand'
  <2>1. \A k \in Items : resv[k].status = "fulfilled" => Same(k)
    BY <1>4, <1>5
  <2> QED BY <1>1, <2>1, StandUnissued
<1>9. \A k \in Items : OrderOf[k] # p.order => Same(k)
  BY <1>3, <1>5
<1>10. proc' = [g \in Handlers |-> IF g = h THEN [p EXCEPT !.wait = @ \ {l}] ELSE proc[g]]
  BY <1>1 DEF CoreInv, TablesOK
<1>11. proc'[h].order = p.order /\ proc'[h].op = p.op /\ Fresh(proc[h])' /\ p.op = "ship" /\ \A g \in Handlers \ {h} : proc'[g] = proc[g]
  <2>1. proc'[h] = [p EXCEPT !.wait = @ \ {l}] /\ \A g \in Handlers \ {h} : proc'[g] = proc[g]
    BY <1>10
  <2>2. PICK o, w : o = p.order /\ w = p.wait /\ p = [op |-> "ship", pc |-> "recover", order |-> o, wait |-> w]
    BY <1>2
  <2>3. proc'[h] = [op |-> "ship", pc |-> "recover", order |-> o, wait |-> w \ {l}]
    <3> HIDE DEF p
    <3> QED BY <2>1, <2>2
  <2>4. Fresh(proc[h])'
    BY <2>3 DEF Fresh, Issues
  <2> HIDE DEF p
  <2> QED BY <2>1, <2>2, <2>3, <2>4
<1>12. \A d : OrderOf[d.line] # p.order => (d \in dispatches' <=> d \in dispatches)
  BY <1>1
<1> QED
  BY <1>2, <1>6, <1>7, <1>8, <1>9, <1>11, <1>12, ApartCommit

\* What an issue writes when its rows are as they were read.
LEMMA IssueWrites ==
  ASSUME CoreInv, ApartInv, NEW h \in Handlers, CommitIssue(h), ~GivesUp(h)
  PROVE  LET rows == proc[h].rows IN
    /\ Issuing(h) /\ proc[h].pc = "commit" /\ Working(h) /\ Ends(h) /\ UNCHANGED <<counts, answered, dispatches>>
    /\ Partly(rows, Items, RowType) /\ StillRead(rows, {"active"})
    /\ DOMAIN rows \in SUBSET LinesOf(proc[h].order)
    /\ \A l \in Items : /\ resv'[l].status = IF l \in DOMAIN rows THEN "fulfilled" ELSE resv[l].status
                        /\ item'[l].status = IF l \in DOMAIN rows THEN "fulfilled" ELSE item[l].status
                        /\ l \notin DOMAIN rows => Same(l)
    /\ \A s \in Shelves :
         \/ stock'[s].reserved = Floor(stock[s].reserved - Required(rows, s))
         \/ stock'[s].reserved = stock[s].reserved /\ Required(rows, s) = 0
    /\ sent' = IF proc[h].op = "ship" THEN [sent EXCEPT ![proc[h].order] = TRUE] ELSE sent
<1> DEFINE p == proc[h]
           rows == p.rows
           saw == p.saw
<1>1. Issuing(h) /\ p.pc = "commit" /\ Working(h)
  BY IdleJob DEF CommitIssue, Issuing, Working
<1>2. StillRead(rows, {"active"})
  BY <1>1 DEF ApartInv, Fresh, Issuing, Issues
<1>3. RowsRead(p, rows) /\ saw \in [ShelvesOf(rows) -> Nat]
  BY <1>1, JobIs
<1>4. Partly(rows, Items, RowType) /\ DOMAIN rows \in SUBSET LinesOf(p.order) /\ \A l \in DOMAIN rows : l \in Items
  BY <1>3, RowsOfJob
<1>5. DOMAIN rows \cap Having("active") = DOMAIN rows
  BY <1>2, <1>4 DEF StillRead, Having
<1>6. /\ stock' = [s \in Shelves |->
             IF s \in DOMAIN saw
             THEN [quantity |-> Floor(saw[s] - Required(rows, s)), reserved |-> Floor(stock[s].reserved - Required(rows, s))]
             ELSE stock[s]]
      /\ item' = [l \in Items |->
             IF l \in DOMAIN rows
             THEN [item[l] EXCEPT !.status = "fulfilled", !.before = Before(rows, saw, l), !.after = After(rows, saw, l)]
             ELSE item[l]]
      /\ resv' = SetStatus(DOMAIN rows \cap Having("active"), "fulfilled")
      /\ since' = [l \in Items |->
             IF l \in DOMAIN rows \cap Having("active") THEN p.at[ShelfOf[l]] ELSE since[l]]
      /\ sent' = IF p.op = "ship" THEN [sent EXCEPT ![p.order] = TRUE] ELSE sent
      /\ Ends(h)
      /\ UNCHANGED <<counts, answered, dispatches>>
  BY DEF CommitIssue
<1>7. resv' = SetStatus(DOMAIN rows, "fulfilled") /\ \A l \in Items : l \notin DOMAIN rows => since'[l] = since[l]
  BY <1>5, <1>6
<1> HIDE DEF rows, saw
<1>8. \A l \in Items : /\ resv'[l].status = IF l \in DOMAIN rows THEN "fulfilled" ELSE resv[l].status
                       /\ l \notin DOMAIN rows => resv'[l] = resv[l]
  <2>1. "fulfilled" \in Statuses
    BY DEF Statuses
  <2> QED BY <1>7, <2>1, SetStatusIs
<1>9. \A l \in Items : /\ item'[l].status = IF l \in DOMAIN rows THEN "fulfilled" ELSE item[l].status
                       /\ l \notin DOMAIN rows => item'[l] = item[l]
  <2> TAKE l \in Items
  <2>1. item[l] \in ItemType
    BY DEF CoreInv, TablesOK
  <2>2. item'[l] = IF l \in DOMAIN rows
             THEN [item[l] EXCEPT !.status = "fulfilled", !.before = Before(rows, saw, l), !.after = After(rows, saw, l)]
             ELSE item[l]
    BY <1>6
  <2> QED BY <2>1, <2>2 DEF ItemType
<1>10. \A s \in Shelves :
         \/ stock'[s].reserved = Floor(stock[s].reserved - Required(rows, s))
         \/ stock'[s].reserved = stock[s].reserved /\ Required(rows, s) = 0
  <2> TAKE s \in Shelves
  <2>1. stock'[s] = IF s \in DOMAIN saw
             THEN [quantity |-> Floor(saw[s] - Required(rows, s)), reserved |-> Floor(stock[s].reserved - Required(rows, s))]
             ELSE stock[s]
    BY <1>6
  <2>2. CASE s \in DOMAIN saw
    BY <2>1, <2>2
  <2>3. CASE s \notin DOMAIN saw
    <3>1. OnShelf(rows, s) = {}
      BY <1>3, <2>3 DEF ShelvesOf, OnShelf
    <3>2. Required(rows, s) = Sum(Qty(rows), {})
      BY <1>4, <3>1, RequiredIs
    <3> QED BY <2>1, <2>3, <3>2, SumEmpty DEF Sum
  <2> QED BY <2>2, <2>3
<1> QED
  BY <1>1, <1>2, <1>4, <1>6, <1>7, <1>8, <1>9, <1>10 DEF rows, Same

LEMMA ApartCommitIssue ==
  ASSUME CoreInv, CoreInv', ApartInv, NEW h \in Handlers, CommitIssue(h)
  PROVE  ApartInv' /\ Careful
<1> DEFINE rows == proc[h].rows
<1>1. CASE GivesUp(h)
  BY <1>1, ApartGoes DEF GivesUp
<1>2. CASE ~GivesUp(h)
  <2>1. /\ Working(h) /\ Ends(h) /\ UNCHANGED <<counts, answered, dispatches>>
        /\ Partly(rows, Items, RowType) /\ StillRead(rows, {"active"})
        /\ DOMAIN rows \in SUBSET LinesOf(proc[h].order)
    BY <1>2, IssueWrites
  <2>2. \A l \in Items : /\ resv'[l].status = IF l \in DOMAIN rows THEN "fulfilled" ELSE resv[l].status
                         /\ item'[l].status = IF l \in DOMAIN rows THEN "fulfilled" ELSE item[l].status
                         /\ l \notin DOMAIN rows => Same(l)
    BY <1>2, IssueWrites
  <2>3. \A s \in Shelves :
         \/ stock'[s].reserved = Floor(stock[s].reserved - Required(rows, s))
         \/ stock'[s].reserved = stock[s].reserved /\ Required(rows, s) = 0
    BY <1>2, IssueWrites
  <2> HIDE DEF rows
  <2>4. CacheIsSum'
    <3>1. \A l \in DOMAIN rows : rows[l] = resv[l] /\ resv'[l].status # "active" /\ rows[l].status = "active"
      BY <2>1, <2>2 DEF StillRead, Partly
    <3>2. ActiveRows(rows) = rows
      BY <2>1, <3>1, HeldRows
    <3>3. \A l \in Items \ DOMAIN rows : resv'[l] = resv[l]
      BY <2>2 DEF Same
    <3> QED BY <2>1, <2>3, <3>1, <3>2, <3>3, CacheLowered
  <2>5. IssuedRows'
    BY <2>2 DEF ApartInv, IssuedRows
  <2>6. EntriesStand'
    <3>1. \A l \in Items : resv[l].status = "fulfilled" => Same(l)
      BY <2>1, <2>2 DEF StillRead
    <3> QED BY <2>1, <3>1, StandUnissued
  <2>7. \A l \in Items : OrderOf[l] # proc[h].order => Same(l)
    BY <2>1, <2>2 DEF LinesOf
  <2> QED BY <2>1, <2>4, <2>5, <2>6, <2>7, EndsStep, ApartCommit
<1> QED
  BY <1>1, <1>2

LEMMA ApartAnswer ==
  ASSUME OrdersApart, CoreInv, CoreInv', ApartInv, NEW l \in Items, StillHere(l) \/ IssuedBefore(l)
  PROVE  ApartInv' /\ Careful
<1>1. /\ ReviewNeeded(l) /\ Free(OrderOf[l], "answer")
      /\ proc' = proc /\ dispatches' = dispatches
  BY DEF StillHere, IssuedBefore
<1>2. resv[l].status = "active"
  BY <1>1 DEF ReviewNeeded
<1>3. \A k \in Items \ {l} : Same(k)
  <2>1. CASE StillHere(l)
    BY <2>1 DEF StillHere, Same
  <2>2. CASE IssuedBefore(l)
    <3>1. "fulfilled" \in Statuses
      BY DEF Statuses
    <3>2. /\ resv' = SetStatus({l}, "fulfilled")
          /\ item' = [item EXCEPT ![l] = [@ EXCEPT !.status = "fulfilled", !.before = stock[ShelfOf[l]].quantity,
                                                   !.after = stock[ShelfOf[l]].quantity]]
          /\ since' = [since EXCEPT ![l] = counts[ShelfOf[l]]]
      BY <2>2 DEF IssuedBefore
    <3>3. \A k \in Items \ {l} : resv'[k] = resv[k]
      BY <3>1, <3>2, SetStatusIs
    <3>4. \A k \in Items \ {l} : item'[k] = item[k] /\ since'[k] = since[k]
      BY <3>2 DEF CoreInv, TablesOK
    <3> QED BY <3>3, <3>4 DEF Same
  <2> QED BY <2>1, <2>2
<1>4. CacheIsSum' /\ IssuedRows'
  <2>1. CASE StillHere(l)
    <3>1. stock' = stock /\ resv' = resv /\ item' = item
      BY <2>1 DEF StillHere
    <3> QED BY <3>1, PromisedSame DEF ApartInv, CacheIsSum, IssuedRows
  <2>2. CASE IssuedBefore(l)
    <3> DEFINE s == ShelfOf[l]
    <3>1. /\ resv' = SetStatus({l}, "fulfilled")
          /\ stock' = [stock EXCEPT ![s].reserved = Promised(s) - resv[l].qty]
      BY <2>2 DEF IssuedBefore
    <3>2. resv'[l].status = "fulfilled"
      <4>1. "fulfilled" \in Statuses
        BY DEF Statuses
      <4> QED BY <3>1, <4>1, SetStatusIs
    <3>3. IssuedRows'
      BY <1>3, <3>2 DEF ApartInv, IssuedRows, Same
    <3>4. \A t \in Shelves : stock'[t].reserved = IF t = s THEN Promised(s) - resv[l].qty ELSE stock[t].reserved
      BY <3>1 DEF CoreInv, TablesOK, ShelfType
    <3>5. ASSUME NEW t \in Shelves PROVE (stock[t].reserved = Promised(t))'
      <4>1. Promised(t)' = Promised(t) + (IF ShelfOf[l] = t THEN ShareOf(resv')[l] - ShareOf(resv)[l] ELSE 0)
            /\ Promised(t) \in Nat
        <5>1. \A k \in Items \ {l} : resv'[k] = resv[k]
          BY <1>3 DEF Same
        <5> QED BY <5>1, RowTypes, OneRow
      <4>2. ShareOf(resv')[l] = 0 /\ ShareOf(resv)[l] = resv[l].qty /\ resv[l].qty \in Nat
        BY <1>2, <3>2 DEF ShareOf, CoreInv, TablesOK, RowType
      <4>3. stock[t].reserved = Promised(t)
        BY DEF ApartInv, CacheIsSum
      <4>4. CASE t = s
        BY <3>4, <4>1, <4>2, <4>4
      <4>5. CASE t # s
        BY <3>4, <4>1, <4>3, <4>5
      <4> QED BY <4>4, <4>5
    <3> QED BY <3>3, <3>5 DEF CacheIsSum
  <2> QED BY <2>1, <2>2
<1>5. EntriesStand'
  <2>1. \A k \in Items : resv[k].status = "fulfilled" => Same(k)
    BY <1>2, <1>3
  <2> QED BY <1>1, <2>1, StandUnissued
<1>6. ASSUME NEW g \in Handlers
      PROVE  proc[g] = Idle \/ proc[g].op \in Rechecks \/ Untouched(proc[g].order)
  <2>1. CASE Working(g) /\ proc[g].order # OrderOf[l]
    <3>1. \A k \in LinesOf(proc[g].order) : Same(k)
      BY <1>3, <2>1 DEF LinesOf
    <3>2. Listed(proc[g].order)' = Listed(proc[g].order)
      BY <1>1 DEF Listed
    <3> QED BY <3>1, <3>2 DEF Untouched, Same
  <2>2. CASE Working(g) /\ proc[g].order = OrderOf[l]
    BY <1>1, <2>2 DEF Free, Working
  <2> QED BY <2>1, <2>2 DEF Working
<1> QED
  BY <1>1, <1>4, <1>5, <1>6, ApartWrite

LEMMA ApartShelf ==
  ASSUME CoreInv, ApartInv, NEW s \in Shelves, Intake(s) \/ \E n \in 0 .. MaxUnits : Count(s, n)
  PROVE  ApartInv' /\ Careful
<1>1. UNCHANGED <<resv, item, since, answered, sent, dispatches, proc>>
  BY DEF Intake, Count
<1>2. \A t \in Shelves : stock'[t].reserved = stock[t].reserved
  <2> TAKE t \in Shelves
  <2>1. PICK n : stock' = [stock EXCEPT ![s].quantity = n]
    <3>1. CASE Intake(s)
      BY <3>1 DEF Intake
    <3>2. CASE \E n \in 0 .. MaxUnits : Count(s, n)
      BY <3>2 DEF Count
    <3> QED BY <3>1, <3>2
  <2>2. stock \in [Shelves -> ShelfType]
    BY DEF CoreInv, TablesOK
  <2> QED BY <2>1, <2>2 DEF ShelfType
<1>3. CacheIsSum' /\ IssuedRows' /\ EntriesStand'
  BY <1>1, <1>2, PromisedSame DEF ApartInv, CacheIsSum, IssuedRows, EntriesStand, StandsOK, Undone
<1>4. \A o : Untouched(o)
  BY <1>1 DEF Untouched, Listed
<1> QED
  BY <1>1, <1>3, <1>4, ApartWrite

\* What the cancellation of an entry writes.
LEMMA CancelWrites ==
  ASSUME CoreInv, ApartInv, NEW h \in Handlers, CommitCancel(h), ~GivesUp(h)
  PROVE  LET p == proc[h]
             d == p.entry
             back == IF p.counted THEN 0 ELSE d.qty
         IN
    /\ At(h, "cancel", "commit") /\ Working(h) /\ Ends(h) /\ UNCHANGED <<counts, since, answered>>
    /\ d \in dispatches /\ d \in EntryType /\ ~d.cancelled /\ StandsOK(d) /\ d.line \in LinesOf(p.order)
    /\ p.counted \in BOOLEAN
    /\ dispatches' = (dispatches \ {d}) \cup {[d EXCEPT !.cancelled = TRUE]}
    /\ \A l \in Items \ {d.line} : Same(l)
    /\ resv'[d.line].status = (IF p.counted THEN "unresolved" ELSE "active") /\ resv'[d.line].qty = d.qty
    /\ item'[d.line].status # "fulfilled"
    /\ \A s \in Shelves : /\ stock'[s].reserved = stock[s].reserved + (IF s = ShelfOf[d.line] THEN back ELSE 0)
                          /\ stock'[s].quantity = stock[s].quantity + (IF s = ShelfOf[d.line] THEN back ELSE 0)
    /\ sent' = [sent EXCEPT ![p.order] = FALSE]
<1> DEFINE p == proc[h]
           d == p.entry
           l == d.line
           back == IF p.counted THEN 0 ELSE d.qty
           status == IF p.counted THEN "unresolved" ELSE "active"
           mark == IF p.counted THEN "pending_reservation" ELSE "reserved"
<1>1. At(h, "cancel", "commit") /\ Working(h)
  BY IdleJob DEF CommitCancel, At, Working
<1>2. /\ d \in EntryType /\ ~d.cancelled /\ OrderOf[l] = p.order /\ p.counted \in BOOLEAN
  BY <1>1, JobIs DEF At
<1>3. /\ d \in dispatches
      /\ resv[l] = [status |-> "fulfilled", qty |-> d.qty]
      /\ stock' = [stock EXCEPT ![ShelfOf[l]] = [quantity |-> @.quantity + back, reserved |-> @.reserved + back]]
      /\ resv' = SetStatus({l}, status)
      /\ item' = IF item[l].status = "fulfilled" THEN MarkItems({l}, mark) ELSE item
      /\ dispatches' = (dispatches \ {d}) \cup {[d EXCEPT !.cancelled = TRUE]}
      /\ sent' = [sent EXCEPT ![p.order] = FALSE]
      /\ Ends(h)
      /\ UNCHANGED <<counts, since, answered>>
  BY DEF CommitCancel
<1>4. StandsOK(d) /\ l \in Items /\ l \in LinesOf(p.order) /\ d.qty \in Nat
  BY <1>2, <1>3 DEF ApartInv, EntriesStand, EntryType, LinesOf
<1>5. item' = MarkItems({l}, mark)
  BY <1>3, <1>4 DEF StandsOK
<1>6. status \in Statuses /\ mark \in ItemStatuses /\ mark # "fulfilled"
  BY DEF Statuses, ItemStatuses
<1>7. resv' = SetStatus({l}, status) /\ \A k \in Items : since'[k] = since[k]
  BY <1>3
<1>8. resv[l].qty = d.qty
  BY <1>3
<1> HIDE DEF d, p, status, mark, back
<1>9. (\A k \in Items \ {l} : Same(k)) /\ resv'[l].status = status /\ resv'[l].qty = d.qty /\ item'[l].status = mark
  BY <1>4, <1>5, <1>6, <1>7, <1>8, SetStatusIs, MarkItemsIs DEF Same
<1>10. \A s \in Shelves : /\ stock'[s].reserved = stock[s].reserved + (IF s = ShelfOf[l] THEN back ELSE 0)
                          /\ stock'[s].quantity = stock[s].quantity + (IF s = ShelfOf[l] THEN back ELSE 0)
  <2> TAKE s \in Shelves
  <2>1. stock'[s] = IF s = ShelfOf[l] THEN [quantity |-> stock[s].quantity + back, reserved |-> stock[s].reserved + back]
                    ELSE stock[s]
    BY <1>3 DEF CoreInv, TablesOK
  <2>2. stock[s].reserved \in Nat /\ stock[s].quantity \in Nat
    BY DEF CoreInv, TablesOK, ShelfType
  <2>3. CASE s = ShelfOf[l]
    BY <2>1, <2>3
  <2>4. CASE s # ShelfOf[l]
    BY <2>1, <2>2, <2>4
  <2> QED BY <2>3, <2>4
<1> QED
  BY <1>1, <1>2, <1>3, <1>4, <1>6, <1>9, <1>10 DEF d, p, status, back

LEMMA ApartCommitCancel ==
  ASSUME CoreInv, CoreInv', ApartInv, NEW h \in Handlers, CommitCancel(h)
  PROVE  ApartInv' /\ Careful
<1> DEFINE p == proc[h]
           d == p.entry
           l == d.line
           back == IF p.counted THEN 0 ELSE d.qty
           marked == [d EXCEPT !.cancelled = TRUE]
<1>1. CASE GivesUp(h)
  BY <1>1, ApartGoes DEF GivesUp
<1>2. CASE ~GivesUp(h)
  <2>1. /\ Working(h) /\ Ends(h) /\ since' = since
        /\ d \in dispatches /\ d \in EntryType /\ ~d.cancelled /\ StandsOK(d) /\ l \in LinesOf(p.order)
        /\ p.counted \in BOOLEAN
    BY <1>2, CancelWrites
  <2>2. dispatches' = (dispatches \ {d}) \cup {marked}
    BY <1>2, CancelWrites
  <2>3. /\ \A k \in Items \ {l} : Same(k)
        /\ resv'[l].status = (IF p.counted THEN "unresolved" ELSE "active") /\ resv'[l].qty = d.qty
        /\ item'[l].status # "fulfilled"
    BY <1>2, CancelWrites
  <2>4. \A s \in Shelves : stock'[s].reserved = stock[s].reserved + (IF s = ShelfOf[l] THEN back ELSE 0)
    BY <1>2, CancelWrites
  <2>5. l \in Items /\ OrderOf[l] = p.order /\ d.qty \in Nat
    BY <2>1 DEF LinesOf, EntryType
  <2>6. marked.cancelled /\ marked.line = l
    BY <2>1 DEF EntryType
  <2> HIDE DEF d, p, marked
  <2>7. CacheIsSum'
    <3> SUFFICES ASSUME NEW t \in Shelves PROVE (stock[t].reserved = Promised(t))'
      BY DEF CacheIsSum
    <3>1. Promised(t)' = Promised(t) + (IF ShelfOf[l] = t THEN ShareOf(resv')[l] - ShareOf(resv)[l] ELSE 0)
          /\ Promised(t) \in Nat
      <4>1. \A k \in Items \ {l} : resv'[k] = resv[k]
        BY <2>3 DEF Same
      <4> QED BY <2>5, <4>1, RowTypes, OneRow
    <3>2. ShareOf(resv)[l] = 0 /\ ShareOf(resv')[l] = back
      <4>1. resv[l].status = "fulfilled"
        BY <2>1 DEF StandsOK
      <4> QED BY <2>3, <2>5, <4>1 DEF ShareOf
    <3>3. stock[t].reserved = Promised(t) /\ back \in Nat
      BY <2>5 DEF ApartInv, CacheIsSum
    <3> HIDE DEF back
    <3> QED BY <2>4, <3>1, <3>2, <3>3
  <2>8. IssuedRows'
    BY <2>3 DEF ApartInv, IssuedRows, Same
  <2>9. EntriesStand'
    <3> SUFFICES ASSUME NEW e \in dispatches', ~e.cancelled PROVE StandsOK(e)'
      BY DEF EntriesStand
    <3>1. e \in dispatches /\ e # d
      BY <2>2, <2>6
    <3>2. StandsOK(e) /\ e.line \in Items
      BY <3>1 DEF ApartInv, EntriesStand, CoreInv, TablesOK, EntryType
    <3>3. e.line # l
      BY <2>1, <3>1, <3>2 DEF StandsOK, Undone
    <3>4. Same(e.line)
      BY <2>3, <3>2, <3>3
    <3>5. Undone(e.line)' = Undone(e.line)
      BY <2>2, <2>6, <3>3 DEF Undone
    <3> QED BY <3>2, <3>4, <3>5 DEF StandsOK, Same
  <2>10. \A k \in Items : OrderOf[k] # p.order => Same(k)
    BY <2>3, <2>5
  <2>11. \A e : OrderOf[e.line] # p.order => (e \in dispatches' <=> e \in dispatches)
    BY <2>2, <2>5, <2>6
  <2> QED BY <2>1, <2>7, <2>8, <2>9, <2>10, <2>11, EndsStep, ApartCommit DEF p
<1> QED
  BY <1>1, <1>2

LEMMA ApartCommitCorrect ==
  ASSUME CoreInv, CoreInv', ApartInv, NEW h \in Handlers, CommitCorrect(h)
  PROVE  ApartInv' /\ Careful
<1> DEFINE p == proc[h]
           back == p.back
           still == DOMAIN back \cap Having("fulfilled")
           rows == SetStatus(still, "active")
<1>1. At(h, "correct", "commit") /\ p.op = "correct" /\ Working(h) /\ Ends(h)
      /\ UNCHANGED <<counts, since, answered, dispatches>>
  BY IdleJob DEF CommitCorrect, At, Working
<1>2. Partly(back, LinesOf(p.order), Nat) /\ Listed(p.order) = {}
  <2>1. Partly(back, LinesOf(p.order), Nat)
    BY <1>1, JobIs
  <2>2. Fresh(p)
    BY DEF ApartInv
  <2> QED BY <1>1, <2>1, <2>2 DEF Fresh
<1>3. /\ resv' = SetStatus(still, "active")
      /\ item' = MarkItems(still, "reserved")
      /\ \A s \in Shelves :
           stock'[s].reserved = IF s \in ShelvesOf(back) THEN Required(ActiveRows(rows), s) ELSE stock[s].reserved
  BY DEF CommitCorrect
<1>4. still \subseteq LinesOf(p.order) /\ \A l \in still : l \in Items /\ l \in DOMAIN back /\ resv[l].status = "fulfilled"
  BY <1>2 DEF Partly, Having
<1> HIDE DEF still, back, p
<1>5. \A l \in Items : /\ resv'[l].status = IF l \in still THEN "active" ELSE resv[l].status
                       /\ item'[l].status = IF l \in still THEN "reserved" ELSE item[l].status
                       /\ l \notin still => Same(l)
  <2>1. "active" \in Statuses /\ "reserved" \in ItemStatuses
    BY DEF Statuses, ItemStatuses
  <2>2. \A l \in Items : since'[l] = since[l]
    BY <1>1
  <2> QED BY <1>3, <2>1, <2>2, SetStatusIs, MarkItemsIs DEF Same
<1>6. CacheIsSum'
  <2> SUFFICES ASSUME NEW s \in Shelves PROVE (stock[s].reserved = Promised(s))'
    BY DEF CacheIsSum
  <2>1. Promised(s)' = Sum(ShareOf(resv'), ItemsAt(s)) /\ Promised(s) = Sum(ShareOf(resv), ItemsAt(s))
    BY RowTypes, PromisedNext, PromisedIs
  <2>2. resv' = rows /\ rows \in [Items -> RowType]
    <3>1. "active" \in Statuses
      BY DEF Statuses
    <3> QED BY <1>3, <3>1, SetStatusIs
  <2>3. CASE s \in ShelvesOf(back)
    <3> HIDE DEF rows
    <3> QED BY <1>3, <2>1, <2>2, <2>3, Recounted
  <2>4. CASE s \notin ShelvesOf(back)
    <3>1. \A l \in ItemsAt(s) : resv'[l] = resv[l] /\ l \in Items
      BY <1>4, <1>5, <2>4 DEF ItemsAt, ShelvesOf, Same
    <3>2. \A l \in ItemsAt(s) : ShareOf(resv)[l] \in Int /\ ShareOf(resv)[l] = ShareOf(resv')[l]
      <4>1. \A l \in Items : ShareOf(resv)[l] \in Nat
        BY RowTypes, Shares
      <4> QED BY <3>1, <4>1 DEF ShareOf
    <3>3. IsFiniteSet(ItemsAt(s))
      BY RowTypes, Shares
    <3>4. Sum(ShareOf(resv), ItemsAt(s)) = Sum(ShareOf(resv'), ItemsAt(s))
      BY <3>2, <3>3, SumSame DEF Sum
    <3> QED BY <1>3, <2>1, <2>4, <3>4 DEF ApartInv, CacheIsSum
  <2> QED BY <2>3, <2>4
<1>7. IssuedRows'
  BY <1>5 DEF ApartInv, IssuedRows
<1>8. EntriesStand'
  <2>1. \A d \in dispatches : Same(d.line)
    <3> TAKE d \in dispatches
    <3>1. d.line \in Items
      BY DEF CoreInv, TablesOK, EntryType
    <3>2. d.line \notin still
      BY <1>2, <1>4 DEF Listed, LinesOf
    <3> QED BY <1>5, <3>1, <3>2
  <2> QED BY <1>1, <2>1, StandOn
<1>9. \A l \in Items : OrderOf[l] # p.order => Same(l)
  BY <1>4, <1>5 DEF LinesOf
<1> QED
  BY <1>1, <1>6, <1>7, <1>8, <1>9, EndsStep, ApartCommit DEF p

LEMMA ApartCommitDispatch ==
  ASSUME CoreInv, CoreInv', ApartInv, NEW h \in Handlers, CommitDispatch(h)
  PROVE  ApartInv' /\ Careful
<1> DEFINE p == proc[h]
           pick == p.pick
           cut == Cut(p)
           entry(l) == [req |-> p.req, line |-> l, qty |-> pick[l], cancelled |-> FALSE, at |-> p.at[ShelfOf[l]]]
<1>1. CASE ~Unchanged(h)
  <2>1. GivesUp(h)
    BY <1>1 DEF CommitDispatch
  <2> QED BY <2>1, ApartGoes DEF GivesUp
<1>2. CASE Unchanged(h)
  <2>1. At(h, "dispatch", "commit") /\ Ends(h)
    BY <1>2, DispatchWrites
  <2>2. Working(h)
    BY <2>1, IdleJob DEF At, Working
  <2>3. /\ stock' = [s \in Shelves |-> [quantity |-> stock[s].quantity - Picked(pick, s),
                                        reserved |-> stock[s].reserved - Picked(pick, s)]]
        /\ dispatches' = dispatches \cup {entry(l) : l \in DOMAIN pick}
        /\ since' = [l \in Items |-> IF l \in DOMAIN pick THEN p.at[ShelfOf[l]] ELSE since[l]]
    BY <1>2, DispatchWrites
  <2>4. /\ \A l \in DOMAIN pick :
             /\ resv'[l] = [status |-> "fulfilled", qty |-> pick[l]]
             /\ item'[l].status = "fulfilled" /\ item'[l].qty = pick[l]
             /\ item'[l].before - item'[l].after = pick[l]
        /\ \A l \in cut :
             /\ resv'[Remainder[l]] = [status |-> "active", qty |-> resv[l].qty - pick[l]]
             /\ item'[Remainder[l]].status = "reserved" /\ item'[Remainder[l]].qty = resv[l].qty - pick[l]
             /\ item'[Remainder[l]].before = 0 /\ item'[Remainder[l]].after = 0
        /\ \A l \in Items : l \notin DOMAIN pick /\ l \notin SplitIn(p) => resv'[l] = resv[l] /\ item'[l] = item[l]
    BY <1>2, DispatchWrites
  <2>4a. \A l \in DOMAIN pick : /\ resv'[l].status = "fulfilled" /\ resv'[l].qty = pick[l]
                               /\ item'[l].status = "fulfilled" /\ item'[l].before - item'[l].after = pick[l]
    <3> TAKE l \in DOMAIN pick
    <3>1. resv'[l] = [status |-> "fulfilled", qty |-> pick[l]]
      BY <2>4
    <3>2. item'[l].status = "fulfilled" /\ item'[l].before - item'[l].after = pick[l]
      BY <2>4
    <3> HIDE DEF pick, p
    <3> QED BY <3>1, <3>2
  <2>4b. \A l \in cut : /\ resv'[Remainder[l]] = [status |-> "active", qty |-> resv[l].qty - pick[l]]
                        /\ item'[Remainder[l]].status = "reserved"
    <3> TAKE l \in cut
    <3> QED BY <2>4
  <2>5. /\ Partly(pick, Items, Nat) /\ DOMAIN pick \in SUBSET LinesOf(p.order)
        /\ \A l \in DOMAIN pick : resv[l].status = "active" /\ pick[l] <= resv[l].qty
        /\ cut \in SUBSET (Lines \cap DOMAIN pick)
        /\ \A l \in cut : /\ Remainder[l] # 0 /\ Remainder[l] \in LinesOf(p.order) /\ Remainder[l] \notin DOMAIN pick
                          /\ resv[Remainder[l]].status = "none"
        /\ \A s \in Shelves : Picked(pick, s) \in Nat
    BY <1>2, <2>1, DispatchRead
  <2>6. /\ SplitIn(p) = {Remainder[l] : l \in cut}
        /\ \A l \in DOMAIN pick : l \notin cut => pick[l] = resv[l].qty
    <3>1. \A l \in DOMAIN pick : pick[l] \in Nat /\ resv[l].qty \in Nat
      BY <2>5, RowTypes DEF Partly, RowType
    <3> QED BY <2>5, <3>1 DEF SplitIn, Cut
  <2>7. \A l : entry(l).line = l /\ ~entry(l).cancelled /\ entry(l).qty = pick[l] /\ entry(l).at = p.at[ShelfOf[l]]
    OBVIOUS
  <2>8. \A l \in DOMAIN pick : l \in Items /\ OrderOf[l] = p.order
    BY <2>5 DEF LinesOf
  <2>9. \A m \in SplitIn(p) : m \in LinesOf(p.order) /\ resv[m].status = "none" /\ item'[m].status = "reserved"
    <3> TAKE m \in SplitIn(p)
    <3>1. PICK l \in cut : m = Remainder[l]
      BY <2>6
    <3>2. item'[Remainder[l]].status = "reserved"
      BY <2>4b
    <3>3. Remainder[l] \in LinesOf(p.order) /\ resv[Remainder[l]].status = "none"
      BY <2>5
    <3> HIDE DEF p, pick, cut, entry
    <3> QED BY <3>1, <3>2, <3>3
  <2> HIDE DEF p, pick, cut, entry
  <2>10. CacheIsSum'
    <3> SUFFICES ASSUME NEW s \in Shelves PROVE (stock[s].reserved = Promised(s))'
      BY DEF CacheIsSum
    <3>1. \A l \in DOMAIN pick : /\ resv[l].status = "active" /\ resv'[l].status = "fulfilled"
                                 /\ l \notin cut => pick[l] = resv[l].qty
      BY <2>4a, <2>5, <2>6
    <3>2. \A l \in cut : /\ Remainder[l] # 0 /\ Remainder[l] \notin DOMAIN pick
                         /\ resv[Remainder[l]].status # "active"
                         /\ resv'[Remainder[l]] = [status |-> "active", qty |-> resv[l].qty - pick[l]]
      BY <2>4b, <2>5
    <3>3. \A l \in Items : l \notin DOMAIN pick /\ l \notin {Remainder[k] : k \in cut} => resv'[l] = resv[l]
      BY <2>4, <2>6
    <3>4. Promised(s)' = Promised(s) - Picked(pick, s)
      BY <2>5, <3>1, <3>2, <3>3, RowTypes, SplitOff
    <3>5. stock'[s].reserved = stock[s].reserved - Picked(pick, s)
      BY <2>3
    <3> QED BY <3>4, <3>5 DEF ApartInv, CacheIsSum
  <2>11. \A l \in Items : resv[l].status = "fulfilled" => Same(l) /\ l \notin DOMAIN pick
    <3> TAKE l \in Items
    <3>1. resv[l].status = "fulfilled" => l \notin DOMAIN pick /\ l \notin SplitIn(p)
      BY <2>5, <2>9
    <3> QED BY <2>3, <2>4, <3>1 DEF Same
  <2>12. IssuedRows'
    <3> SUFFICES ASSUME NEW l \in Items, item'[l].status = "fulfilled" PROVE resv'[l].status = "fulfilled"
      BY DEF IssuedRows
    <3>1. CASE l \in DOMAIN pick
      BY <2>4a, <3>1
    <3>2. CASE l \in SplitIn(p)
      BY <2>9, <3>2
    <3>3. CASE l \notin DOMAIN pick /\ l \notin SplitIn(p)
      BY <2>4, <3>3 DEF ApartInv, IssuedRows
    <3> QED BY <3>1, <3>2, <3>3
  <2>13. \A e \in dispatches : ~e.cancelled => StandsOK(e) /\ e.line \in Items /\ e.line \notin DOMAIN pick /\ Same(e.line)
    BY <2>11 DEF ApartInv, EntriesStand, StandsOK, CoreInv, TablesOK, EntryType
  <2>14. EntriesStand'
    <3> SUFFICES ASSUME NEW e \in dispatches', ~e.cancelled PROVE StandsOK(e)'
      BY DEF EntriesStand
    <3>1. CASE e \in dispatches
      <4>1. Undone(e.line)' = Undone(e.line)
        BY <2>3, <2>7, <2>13, <3>1 DEF Undone
      <4> QED BY <2>13, <3>1, <4>1 DEF StandsOK, Same
    <3>2. CASE \E l \in DOMAIN pick : e = entry(l)
      <4>1. PICK l \in DOMAIN pick : e = entry(l)
        BY <3>2
      <4>2. e.line = l /\ e.qty = pick[l] /\ e.at = p.at[ShelfOf[l]]
        BY <2>7, <4>1
      <4>3. since'[l] = p.at[ShelfOf[l]]
        BY <2>3, <2>8
      <4>4. Undone(l)' = {e}
        <5>1. e \in dispatches' /\ ~e.cancelled /\ e.line = l
          BY <4>2
        <5>2. ASSUME NEW f \in dispatches', f.line = l, ~f.cancelled PROVE f = e
          BY <2>3, <2>7, <2>13, <4>1, <5>2
        <5> QED BY <5>1, <5>2 DEF Undone
      <4>5. resv'[l].status = "fulfilled" /\ resv'[l].qty = pick[l]
        BY <2>4a
      <4> QED BY <2>4a, <4>2, <4>3, <4>4, <4>5 DEF StandsOK
    <3> QED BY <2>3, <3>1, <3>2
  <2>15. \A l \in Items : OrderOf[l] # p.order => Same(l)
    <3> TAKE l \in Items
    <3>1. OrderOf[l] # p.order => l \notin DOMAIN pick /\ l \notin SplitIn(p)
      BY <2>8, <2>9 DEF LinesOf
    <3> QED BY <2>3, <2>4, <3>1 DEF Same
  <2>16. \A e : OrderOf[e.line] # p.order => (e \in dispatches' <=> e \in dispatches)
    BY <2>3, <2>7, <2>8
  <2> QED BY <2>1, <2>2, <2>10, <2>12, <2>14, <2>15, <2>16, EndsStep, ApartCommit DEF p
<1> QED
  BY <1>1, <1>2

-----------------------------------------------------------------------------
LEMMA ApartInit == Init => ApartInv
<1> SUFFICES ASSUME Init PROVE ApartInv
  OBVIOUS
<1>0. CoreInv
  BY CoreInit
<1>1. PICK R \in SUBSET Lines :
    LET first == [l \in R |-> [status |-> "active", qty |-> Ordered[l]]]
    IN /\ stock = [s \in Shelves |-> [quantity |-> InStock[s], reserved |-> Required(first, s)]]
       /\ resv = [l \in Items |-> IF l \in R THEN first[l] ELSE [status |-> "none", qty |-> 0]]
       /\ item = [l \in Items |->
                   [status |-> IF l \in R THEN "reserved" ELSE IF l \in Lines THEN "new" ELSE "absent",
                    qty |-> IF l \in Lines THEN Ordered[l] ELSE 0, before |-> 0, after |-> 0, origin |-> 0]]
  BY DEF Init
<1>2. dispatches = {} /\ proc = [h \in Handlers |-> Idle]
  BY DEF Init
<1> DEFINE first == [l \in R |-> [status |-> "active", qty |-> Ordered[l]]]
<1>3. \A l \in R : l \in Items /\ Ordered[l] \in Nat
  BY ItemFacts, StockAssumption
<1>4. Partly(first, Items, RowType)
  BY <1>3 DEF Partly, RowType
<1>5. CacheIsSum
  <2> SUFFICES ASSUME NEW s \in Shelves PROVE stock[s].reserved = Promised(s)
    BY DEF CacheIsSum
  <2>1. stock[s].reserved = Required(first, s)
    <3>1. stock = [t \in Shelves |-> [quantity |-> InStock[t], reserved |-> Required(first, t)]]
      BY <1>1
    <3> HIDE DEF first
    <3> QED BY <3>1
  <2>2. resv \in [Items -> RowType]
    BY <1>0 DEF CoreInv, TablesOK
  <2>3. \A l \in R : first[l].qty = Ordered[l] /\ resv[l] = first[l] /\ first[l].status = "active"
    <3> TAKE l \in R
    <3>1. first[l] = [status |-> "active", qty |-> Ordered[l]] /\ resv[l] = first[l]
      BY <1>1, <1>3
    <3> QED BY <3>1
  <2>4. \A l \in Items \ R : resv[l].status = "none"
    <3> TAKE l \in Items \ R
    <3>1. resv[l] = [status |-> "none", qty |-> 0]
      BY <1>1
    <3> QED BY <3>1
  <2>5. DOMAIN first = R
    OBVIOUS
  <2> HIDE DEF first
  <2>6. /\ OnShelf(first, s) \in SUBSET ItemsAt(s) /\ IsFiniteSet(OnShelf(first, s))
        /\ Required(first, s) = Sum(Qty(first), OnShelf(first, s))
    BY <1>4, RequiredIs
  <2>7. /\ IsFiniteSet(ItemsAt(s)) /\ \A l \in Items : ShareOf(resv)[l] \in Nat
        /\ Promised(s) = Sum(ShareOf(resv), ItemsAt(s))
    BY <2>2, Shares, PromisedIs
  <2>8. \A l \in ItemsAt(s) \ OnShelf(first, s) : ShareOf(resv)[l] = 0
    BY <2>4, <2>5 DEF ItemsAt, OnShelf, ShareOf
  <2>9. \A l \in ItemsAt(s) : ShareOf(resv)[l] \in Int
    BY <2>7 DEF ItemsAt
  <2>10. Sum(ShareOf(resv), ItemsAt(s)) = Sum(ShareOf(resv), OnShelf(first, s))
    BY <2>6, <2>7, <2>8, <2>9, SumSupport
  <2>11. \A l \in OnShelf(first, s) : ShareOf(resv)[l] \in Int /\ ShareOf(resv)[l] = Qty(first)[l]
    BY <1>3, <2>3, <2>5 DEF OnShelf, ShareOf, Qty
  <2>12. Sum(ShareOf(resv), OnShelf(first, s)) = Sum(Qty(first), OnShelf(first, s))
    BY <2>6, <2>11, SumSame DEF Sum
  <2> QED BY <2>1, <2>6, <2>7, <2>10, <2>12
<1>6. IssuedRows
  <2> SUFFICES ASSUME NEW l \in Items PROVE item[l].status # "fulfilled"
    BY DEF IssuedRows
  <2>1. item[l] = [status |-> IF l \in R THEN "reserved" ELSE IF l \in Lines THEN "new" ELSE "absent",
                   qty |-> IF l \in Lines THEN Ordered[l] ELSE 0, before |-> 0, after |-> 0, origin |-> 0]
    BY <1>1
  <2>2. item[l].status = IF l \in R THEN "reserved" ELSE IF l \in Lines THEN "new" ELSE "absent"
    BY <2>1
  <2> QED BY <2>2
<1>7. EntriesStand
  BY <1>2 DEF EntriesStand
<1>8. Alone /\ \A h \in Handlers : Fresh(proc[h])
  BY <1>2, IdleJob DEF Alone, Working, Fresh, Issues
<1> QED
  BY <1>5, <1>6, <1>7, <1>8 DEF ApartInv

LEMMA ApartStep == OrdersApart /\ CoreInv /\ CoreInv' /\ ApartInv /\ [Next]_vars => ApartInv' /\ Careful
<1> SUFFICES ASSUME OrdersApart, CoreInv, CoreInv', ApartInv, [Next]_vars PROVE ApartInv' /\ Careful
  OBVIOUS
<1>1. ASSUME NEW h \in Handlers, NEW l \in Items,
             BeginReserve(h, l) \/ BeginRelease(h, l) \/ BeginReactivate(h, l) \/ BeginHandover(h, l)
      PROVE  ApartInv' /\ Careful
  BY <1>1, ApartBeginLine
<1>2. ASSUME NEW h \in Handlers, NEW o \in Orders, BeginReleaseOrder(h, o) \/ BeginShip(h, o) \/ BeginCorrect(h, o)
      PROVE  ApartInv' /\ Careful
  BY <1>2, ApartBeginOrder
<1>3. ASSUME NEW h \in Handlers, NEW o \in Orders, NEW r \in Requests, NEW pick \in Picks(o), BeginDispatch(h, o, r, pick)
      PROVE  ApartInv' /\ Careful
  BY <1>3, ApartBeginRest
<1>4. ASSUME NEW h \in Handlers, NEW d \in dispatches, BeginCancel(h, d)
      PROVE  ApartInv' /\ Careful
  BY <1>4, ApartBeginRest
<1>5. ASSUME NEW h \in Handlers, \/ CommitReserve(h) \/ CommitRelease(h) \/ CommitReleaseOrder(h) \/ CommitReactivate(h)
                                 \/ RecoverOne(h) \/ CheckShip(h) \/ ReadRows(h) \/ ReadStock(h) \/ CommitIssue(h)
      PROVE  ApartInv' /\ Careful
  BY <1>5, ApartCommitReserve, ApartCommitRelease, ApartCommitReactivate, ApartRecoverOne, ApartCheckShip, ApartReadRows,
     ApartReadStock, ApartCommitIssue
<1>6. ASSUME NEW h \in Handlers, \/ ReadDispatchStock(h) \/ CommitDispatch(h) \/ ReadRecent(h) \/ CommitCancel(h)
                                 \/ ReadTruth(h) \/ CommitCorrect(h)
      PROVE  ApartInv' /\ Careful
  BY <1>6, ApartReadRest, ApartCommitDispatch, ApartCommitCancel, ApartCommitCorrect
<1>7. ASSUME NEW l \in Items, StillHere(l) \/ IssuedBefore(l)
      PROVE  ApartInv' /\ Careful
  BY <1>7, ApartAnswer
<1>8. ASSUME NEW s \in Shelves, Intake(s) \/ \E n \in 0 .. MaxUnits : Count(s, n)
      PROVE  ApartInv' /\ Careful
  BY <1>8, ApartShelf
<1>9. CASE UNCHANGED vars
  <2>1. UNCHANGED database /\ proc' = proc
    BY <1>9 DEF vars
  <2>2. CacheIsSum' /\ IssuedRows' /\ EntriesStand' /\ \A o : Untouched(o)
    BY <2>1, ApartTables
  <2> QED BY <2>1, <2>2, ApartWrite
<1> QED
  BY <1>1, <1>2, <1>3, <1>4, <1>5, <1>6, <1>7, <1>8, <1>9 DEF Next

\* Handlers that do not ask again have their order alone, and what they have
\* read stays what the tables say; an entry stands for its line as issued.
THEOREM ApartInvariant == ASSUME OrdersApart PROVE Spec => []ApartInv
<1>1. CoreInv /\ CoreInv' /\ ApartInv /\ [Next]_vars => ApartInv'
  BY ApartStep
<1> QED BY ApartInit, <1>1, CoreInvariant, PTL DEF Spec

\* The cached reserved_quantity of every shelf is the sum of its active
\* reservations as long as an operation that trusts its earlier read of an
\* order (a release, a shipment, a correction) has that order alone; orders
\* that share a shelf, dispatches and counts may run beside it.
THEOREM CacheHolds == ASSUME OrdersApart PROVE Spec => []CacheIsSum
<1>1. ApartInv => CacheIsSum
  BY DEF ApartInv
<1> QED BY <1>1, ApartInvariant, PTL

\* A line is dispatched once, and its entry stands for the line as it is, when
\* operations that trust an earlier read have the order alone; dispatches,
\* cancellations and answers of the same order may race (order-dispatch.ts).
THEOREM LinesLeaveOnce == ASSUME OrdersApart PROVE Spec => []DispatchedOnce
<1>1. CoreInv /\ ApartInv => DispatchedOnce
  <2> SUFFICES ASSUME CoreInv, ApartInv, NEW d \in dispatches, ~d.cancelled
               PROVE  /\ resv[d.line].status = "fulfilled" /\ resv[d.line].qty = d.qty
                      /\ item[d.line].status = "fulfilled" /\ item[d.line].qty = d.qty
                      /\ Undone(d.line) = {d}
    BY DEF DispatchedOnce
  <2>1. StandsOK(d) /\ d.line \in Items
    BY DEF ApartInv, EntriesStand, CoreInv, TablesOK, EntryType
  <2>2. LineOK(d.line)
    BY <2>1 DEF CoreInv
  <2> QED BY <2>1, <2>2 DEF StandsOK, LineOK
<1> QED BY <1>1, ApartInvariant, CoreInvariant, PTL

LEMMA SentStays ==
  ASSUME CoreInv, [Next]_vars, NEW o \in Orders, ~sent[o], sent'[o]
  PROVE  \E h \in Handlers : (CommitIssue(h) \/ CommitDispatch(h)) /\ ~GivesUp(h)
<1>1. sent' # sent /\ sent \in [Orders -> BOOLEAN]
  BY DEF CoreInv, TablesOK
<1>2. ASSUME UNCHANGED sent PROVE FALSE
  BY <1>1, <1>2
<1>3. ASSUME UNCHANGED database PROVE FALSE
  BY <1>2, <1>3 DEF database
<1>4. ASSUME NEW q, sent' = [sent EXCEPT ![q] = FALSE] PROVE FALSE
  BY <1>1, <1>4
<1>5. ASSUME NEW h \in Handlers, NEW op, NEW k, NEW rec, Begin(h, op, k, rec) PROVE FALSE
  BY <1>3, <1>5 DEF Begin
<1>6. ASSUME NEW h \in Handlers, NEW rec, Goes(h, rec) PROVE FALSE
  BY <1>3, <1>6 DEF Goes
<1>7. ASSUME NEW h \in Handlers, GivesUp(h) PROVE FALSE
  BY <1>6, <1>7 DEF GivesUp
<1>8. ASSUME NEW h \in Handlers, NEW l \in Items,
             BeginReserve(h, l) \/ BeginRelease(h, l) \/ BeginReactivate(h, l) \/ BeginHandover(h, l)
      PROVE  FALSE
  BY <1>5, <1>8 DEF BeginReserve, BeginRelease, BeginReactivate, BeginHandover
<1>9. ASSUME NEW h \in Handlers, NEW k \in Orders, BeginReleaseOrder(h, k) \/ BeginShip(h, k) \/ BeginCorrect(h, k)
      PROVE  FALSE
  BY <1>5, <1>9 DEF BeginReleaseOrder, BeginShip, BeginCorrect
<1>10. ASSUME NEW h \in Handlers,
              \/ \E k \in Orders, r \in Requests : \E pick \in Picks(k) : BeginDispatch(h, k, r, pick)
              \/ \E d \in dispatches : BeginCancel(h, d)
       PROVE  FALSE
  BY <1>5, <1>10 DEF BeginDispatch, BeginCancel
<1>11. ASSUME NEW h \in Handlers, CommitReserve(h) \/ CommitRelease(h) \/ CommitReleaseOrder(h) \/ CommitReactivate(h)
       PROVE  FALSE
  BY <1>2, <1>7, <1>11 DEF CommitReserve, CommitRelease, CommitReleaseOrder, CommitReactivate
<1>12. ASSUME NEW h \in Handlers, RecoverOne(h) \/ CheckShip(h) \/ ReadRows(h) \/ ReadStock(h) PROVE FALSE
  BY <1>2, <1>6, <1>7, <1>12 DEF RecoverOne, CheckShip, ReadRows, ReadStock
<1>13. ASSUME NEW h \in Handlers, ReadDispatchStock(h) \/ ReadRecent(h) \/ ReadTruth(h) PROVE FALSE
  BY <1>6, <1>7, <1>13 DEF ReadDispatchStock, ReadRecent, ReadTruth
<1>14. ASSUME NEW h \in Handlers, CommitCancel(h) \/ CommitCorrect(h) PROVE FALSE
  BY <1>4, <1>7, <1>14 DEF CommitCancel, CommitCorrect
<1>15. ASSUME NEW l \in Items, StillHere(l) \/ IssuedBefore(l) PROVE FALSE
  BY <1>2, <1>15 DEF StillHere, IssuedBefore
<1>16. ASSUME NEW s \in Shelves, Intake(s) \/ \E n \in 0 .. MaxUnits : Count(s, n) PROVE FALSE
  BY <1>2, <1>16 DEF Intake, Count
<1>17. ASSUME UNCHANGED vars PROVE FALSE
  BY <1>3, <1>17 DEF vars
<1>18. \E h \in Handlers : CommitIssue(h) \/ CommitDispatch(h)
  BY <1>8, <1>9, <1>10, <1>11, <1>12, <1>13, <1>14, <1>15, <1>16, <1>17 DEF Next
<1> QED
  BY <1>7, <1>18

\* An order becomes sent only when none of its lines is left: the shipping
\* route does not look at the lines again in its batch, so this takes that
\* nobody reserves, releases or corrects them meanwhile (shipping.ts,
\* order-dispatch.ts).
THEOREM SentIsComplete == ASSUME OrdersApart PROVE Spec => SentLeavesNothing
<1>1. ASSUME CoreInv, ApartInv, ApartInv', [Next]_vars, NEW o \in Orders, ~sent[o], sent'[o],
             NEW l \in LinesOf(o), item'[l].status # "absent"
      PROVE  resv'[l].status = "fulfilled"
  <2>0. l \in Items /\ sent \in [Orders -> BOOLEAN]
    BY <1>1 DEF LinesOf, CoreInv, TablesOK
  <2>1. PICK h \in Handlers : (CommitIssue(h) \/ CommitDispatch(h)) /\ ~GivesUp(h)
    BY <1>1, SentStays
  <2> DEFINE p == proc[h]
  <2>2. CASE CommitIssue(h)
    <3>1. Issuing(h) /\ p.pc = "commit" /\ sent' = IF p.op = "ship" THEN [sent EXCEPT ![p.order] = TRUE] ELSE sent
      BY <1>1, <2>1, <2>2, IssueWrites
    <3>2. /\ resv'[l].status = IF l \in DOMAIN p.rows THEN "fulfilled" ELSE resv[l].status
          /\ item'[l].status = IF l \in DOMAIN p.rows THEN "fulfilled" ELSE item[l].status
      BY <1>1, <2>0, <2>1, <2>2, IssueWrites
    <3>3. p.op = "ship" /\ p.order = o
      BY <1>1, <2>0, <3>1
    <3>4. Covered(o, DOMAIN p.rows)
      BY <1>1, <3>1, <3>3 DEF ApartInv, Fresh
    <3>5. item[l].status = "fulfilled" => resv[l].status = "fulfilled"
      BY <1>1, <2>0 DEF ApartInv, IssuedRows
    <3> QED BY <1>1, <3>2, <3>4, <3>5 DEF Covered
  <2>3. CASE CommitDispatch(h)
    <3>1. Unchanged(h)
      BY <2>1, <2>3 DEF CommitDispatch
    <3>2. sent' = [sent EXCEPT ![p.order] = AllGone(p.order, item', dispatches')]
      BY <1>1, <2>3, <3>1, DispatchWrites
    <3>3. AllGone(o, item', dispatches')
      BY <1>1, <2>0, <3>2
    <3>4. item'[l].status = "fulfilled"
      BY <1>1, <3>3 DEF AllGone
    <3> QED BY <1>1, <2>0, <3>4 DEF ApartInv, IssuedRows
  <2> QED BY <2>1, <2>2, <2>3
<1>2. CoreInv /\ ApartInv /\ ApartInv' /\ [Next]_vars =>
        [\A o \in Orders : ~sent[o] /\ sent'[o] =>
           \A l \in LinesOf(o) : item'[l].status # "absent" => resv'[l].status = "fulfilled"]_vars
  BY <1>1
<1> QED BY <1>2, CoreInvariant, ApartInvariant, PTL DEF Spec, SentLeavesNothing

-----------------------------------------------------------------------------
(***************************************************************************)
(* Taking an issue back: what its handler knows of counts stays true when  *)
(* nobody counts meanwhile.                                                *)
(***************************************************************************)

Known(p) ==
  /\ p.op = "cancel" /\ p.pc = "commit" => p.counted = (counts[ShelfOf[p.entry.line]] > p.entry.at)
  /\ p.op = "correct" /\ p.pc = "commit" =>
       \A l \in DOMAIN p.back :
         p.back[l] = IF counts[ShelfOf[l]] > since[l] THEN 0 ELSE item[l].before - item[l].after
KnownInv == \A h \in Handlers : Known(proc[h])

\* An issue is about to be taken back.
TakesBack(p) == p.op \in {"cancel", "correct"} /\ p.pc = "commit"

\* A handler comes to the batch by asking for counts.
LEMMA AsksForCounts ==
  ASSUME CoreInv, [Next]_vars, NEW g \in Handlers, proc'[g] # proc[g], TakesBack(proc[g])'
  PROVE  ReadRecent(g) \/ ReadTruth(g)
<1>0. proc = [h \in Handlers |-> proc[h]]
  BY DEF CoreInv, TablesOK
<1>1. proc'[g].op \in {"cancel", "correct"} /\ proc'[g].pc = "commit"
  BY DEF TakesBack
<1>2. ASSUME UNCHANGED proc PROVE FALSE
  BY <1>2
<1>3. ASSUME NEW h \in Handlers, NEW rec, proc' = [proc EXCEPT ![h] = rec]
      PROVE  h = g /\ rec.op \in {"cancel", "correct"} /\ rec.pc = "commit"
  BY <1>0, <1>1, <1>3
<1>4. ASSUME NEW h \in Handlers, Ends(h) PROVE FALSE
  <2>1. Idle.op \in {"cancel", "correct"}
    BY <1>3, <1>4 DEF Ends
  <2> QED BY <2>1, IdleJob
<1>5. ASSUME NEW h \in Handlers, GivesUp(h) PROVE FALSE
  <2>1. Idle.op \in {"cancel", "correct"}
    BY <1>3, <1>5 DEF GivesUp, Goes
  <2> QED BY <2>1, IdleJob
<1>6. ASSUME NEW h \in Handlers, NEW op, NEW o, NEW rec, Begin(h, op, o, rec),
             rec.op \notin {"cancel", "correct"} \/ rec.pc # "commit"
      PROVE  FALSE
  BY <1>3, <1>6 DEF Begin
<1>7. ASSUME NEW h \in Handlers, NEW rec, Goes(h, rec), rec.op \notin {"cancel", "correct"} PROVE FALSE
  BY <1>3, <1>7 DEF Goes
<1>8. ASSUME NEW h \in Handlers, NEW l \in Items,
             BeginReserve(h, l) \/ BeginRelease(h, l) \/ BeginReactivate(h, l) \/ BeginHandover(h, l)
      PROVE  FALSE
  BY <1>6, <1>8 DEF BeginReserve, BeginRelease, BeginReactivate, BeginHandover
<1>9. ASSUME NEW h \in Handlers, NEW k \in Orders, BeginReleaseOrder(h, k) \/ BeginShip(h, k) \/ BeginCorrect(h, k)
      PROVE  FALSE
  BY <1>6, <1>9 DEF BeginReleaseOrder, BeginShip, BeginCorrect
<1>10. ASSUME NEW h \in Handlers,
              \/ \E k \in Orders, r \in Requests : \E pick \in Picks(k) : BeginDispatch(h, k, r, pick)
              \/ \E d \in dispatches : BeginCancel(h, d)
       PROVE  FALSE
  BY <1>6, <1>10 DEF BeginDispatch, BeginCancel
<1>11. ASSUME NEW h \in Handlers, \/ CommitReserve(h) \/ CommitRelease(h) \/ CommitReleaseOrder(h) \/ CommitReactivate(h)
                                  \/ CommitIssue(h) \/ CommitDispatch(h) \/ CommitCancel(h) \/ CommitCorrect(h)
       PROVE  FALSE
  BY <1>4, <1>5, <1>11 DEF CommitReserve, CommitRelease, CommitReleaseOrder, CommitReactivate, CommitIssue, CommitDispatch,
     CommitCancel, CommitCorrect
<1>12. ASSUME NEW h \in Handlers, RecoverOne(h) PROVE FALSE
  <2>1. proc[h].op = "ship" /\ \E l : proc' = [proc EXCEPT ![h].wait = @ \ {l}]
    BY <1>12 DEF RecoverOne, At
  <2>2. PICK l : proc' = [proc EXCEPT ![h].wait = @ \ {l}]
    BY <2>1
  <2>3. proc[h] = [op |-> "ship", pc |-> "recover", order |-> proc[h].order, wait |-> proc[h].wait]
    BY <1>12, JobIs DEF RecoverOne
  <2>4. PICK o, w : proc[h] = [op |-> "ship", pc |-> "recover", order |-> o, wait |-> w]
    BY <2>3
  <2>5. g # h => proc'[g] = proc[g]
    BY <1>0, <2>2
  <2>6. proc'[h].op = proc[h].op
    BY <1>0, <2>2, <2>4
  <2> QED BY <1>1, <2>1, <2>5, <2>6
<1>13. ASSUME NEW h \in Handlers, CheckShip(h) \/ ReadDispatchStock(h) PROVE FALSE
  BY <1>5, <1>7, <1>13 DEF CheckShip, ReadDispatchStock
<1>14. ASSUME NEW h \in Handlers, ReadRows(h) \/ ReadStock(h) PROVE FALSE
  <2>1. proc[h].op \notin {"cancel", "correct"}
    BY <1>14 DEF ReadRows, ReadStock, Issuing
  <2>2. PICK rec : Goes(h, rec) /\ (rec = Idle \/ rec.op = proc[h].op)
    BY <1>14 DEF ReadRows, ReadStock, GivesUp
  <2>3. rec.op \notin {"cancel", "correct"}
    BY <2>1, <2>2, IdleJob
  <2> QED BY <1>7, <2>2, <2>3
<1>15. ASSUME NEW h \in Handlers, ReadRecent(h) \/ ReadTruth(h) PROVE h = g
  BY <1>3, <1>15 DEF ReadRecent, ReadTruth, Goes
<1>16. ASSUME NEW l \in Items, StillHere(l) \/ IssuedBefore(l) PROVE FALSE
  BY <1>2, <1>16 DEF StillHere, IssuedBefore
<1>17. ASSUME NEW s \in Shelves, Intake(s) \/ \E n \in 0 .. MaxUnits : Count(s, n) PROVE FALSE
  BY <1>2, <1>17 DEF Intake, Count
<1>18. ASSUME UNCHANGED vars PROVE FALSE
  BY <1>2, <1>18 DEF vars
<1>19. \E h \in Handlers : ReadRecent(h) \/ ReadTruth(h)
  BY <1>8, <1>9, <1>10, <1>11, <1>12, <1>13, <1>14, <1>16, <1>17, <1>18 DEF Next
<1> QED
  BY <1>15, <1>19

\* Only a count changes the counts.
LEMMA OnlyCounts ==
  ASSUME [Next]_vars, counts' # counts
  PROVE  \E s \in Shelves, n \in 0 .. MaxUnits : Count(s, n)
<1>1. ASSUME UNCHANGED counts PROVE FALSE
  BY <1>1
<1>2. ASSUME UNCHANGED database PROVE FALSE
  BY <1>1, <1>2 DEF database
<1>3. ASSUME NEW h, NEW op, NEW k, NEW rec, Begin(h, op, k, rec) PROVE FALSE
  BY <1>2, <1>3 DEF Begin
<1>4. ASSUME NEW h, NEW rec, Goes(h, rec) PROVE FALSE
  BY <1>2, <1>4 DEF Goes
<1>5. ASSUME NEW h, GivesUp(h) PROVE FALSE
  BY <1>4, <1>5 DEF GivesUp
<1>6. ASSUME NEW h \in Handlers, NEW l \in Items,
             BeginReserve(h, l) \/ BeginRelease(h, l) \/ BeginReactivate(h, l) \/ BeginHandover(h, l)
      PROVE  FALSE
  BY <1>3, <1>6 DEF BeginReserve, BeginRelease, BeginReactivate, BeginHandover
<1>7. ASSUME NEW h \in Handlers, NEW k \in Orders, BeginReleaseOrder(h, k) \/ BeginShip(h, k) \/ BeginCorrect(h, k)
      PROVE  FALSE
  BY <1>3, <1>7 DEF BeginReleaseOrder, BeginShip, BeginCorrect
<1>8. ASSUME NEW h \in Handlers,
             \/ \E k \in Orders, r \in Requests : \E pick \in Picks(k) : BeginDispatch(h, k, r, pick)
             \/ \E d \in dispatches : BeginCancel(h, d)
      PROVE  FALSE
  BY <1>3, <1>8 DEF BeginDispatch, BeginCancel
<1>9. ASSUME NEW h \in Handlers, \/ CommitReserve(h) \/ CommitRelease(h) \/ CommitReleaseOrder(h) \/ CommitReactivate(h)
                                 \/ CommitIssue(h) \/ CommitDispatch(h) \/ CommitCancel(h) \/ CommitCorrect(h)
      PROVE  FALSE
  BY <1>1, <1>5, <1>9 DEF CommitReserve, CommitRelease, CommitReleaseOrder, CommitReactivate, CommitIssue, CommitDispatch,
     CommitCancel, CommitCorrect
<1>10. ASSUME NEW h \in Handlers, \/ RecoverOne(h) \/ CheckShip(h) \/ ReadRows(h) \/ ReadStock(h) \/ ReadDispatchStock(h)
                                  \/ ReadRecent(h) \/ ReadTruth(h)
       PROVE  FALSE
  BY <1>1, <1>4, <1>5, <1>10 DEF RecoverOne, CheckShip, ReadRows, ReadStock, ReadDispatchStock, ReadRecent, ReadTruth
<1>11. ASSUME NEW l \in Items, StillHere(l) \/ IssuedBefore(l) PROVE FALSE
  BY <1>1, <1>11 DEF StillHere, IssuedBefore
<1>12. ASSUME NEW s \in Shelves, Intake(s) PROVE FALSE
  BY <1>1, <1>12 DEF Intake
<1>13. ASSUME UNCHANGED vars PROVE FALSE
  BY <1>2, <1>13 DEF vars
<1> QED
  BY <1>6, <1>7, <1>8, <1>9, <1>10, <1>11, <1>12, <1>13 DEF Next

LEMMA KnownStep ==
  ASSUME CountsApart, CoreInv, ApartInv, KnownInv, Careful, [Next]_vars
  PROVE  KnownInv'
<1> SUFFICES ASSUME NEW g \in Handlers PROVE Known(proc[g])'
  BY DEF KnownInv
<1> DEFINE p == proc[g]
<1>1. CASE ~TakesBack(p)'
  BY <1>1 DEF Known, TakesBack
<1>2. CASE TakesBack(p)' /\ proc'[g] = p
  <2>1. p.op \in {"cancel", "correct"} /\ p.pc = "commit" /\ Known(p)
    BY <1>2 DEF TakesBack, KnownInv
  <2>2. counts' = counts
    <3> SUFFICES ASSUME counts' # counts PROVE FALSE
      OBVIOUS
    <3>1. PICK s \in Shelves, n \in 0 .. MaxUnits : Count(s, n)
      BY OnlyCounts
    <3>2. \A h \in Handlers : proc[h].op \notin {"cancel", "correct"}
      BY <3>1 DEF Count
    <3> QED BY <2>1, <3>2
  <2>3. CASE p.op = "cancel"
    BY <1>2, <2>1, <2>2, <2>3 DEF Known
  <2>4. CASE p.op = "correct"
    <3>1. Untouched(p.order)
      BY <1>2, <2>4 DEF Careful
    <3>2. DOMAIN p.back \subseteq LinesOf(p.order)
      BY <2>1, <2>4, JobIs DEF At, Partly
    <3>3. \A l \in DOMAIN p.back : item'[l] = item[l] /\ since'[l] = since[l]
      BY <3>1, <3>2 DEF Untouched
    <3>4. \A l \in DOMAIN p.back :
            p.back[l] = IF counts[ShelfOf[l]] > since[l] THEN 0 ELSE item[l].before - item[l].after
      BY <2>1, <2>4 DEF Known
    <3>5. \A l \in DOMAIN p.back :
            p.back[l] = IF counts'[ShelfOf[l]] > since'[l] THEN 0 ELSE item'[l].before - item'[l].after
      BY <2>2, <3>3, <3>4
    <3>6. proc'[g].op = "correct" /\ proc'[g].back = p.back
      BY <1>2, <2>4
    <3> QED BY <3>5, <3>6 DEF Known
  <2> QED BY <2>1, <2>3, <2>4
<1>3. CASE TakesBack(p)' /\ proc'[g] # p
  <2>0. proc = [h \in Handlers |-> proc[h]]
    BY DEF CoreInv, TablesOK
  <2>1. ReadRecent(g) \/ ReadTruth(g)
    BY <1>3, AsksForCounts
  <2>2. CASE ReadRecent(g)
    <3>1. PICK rec : /\ rec = [op |-> "cancel", pc |-> "commit", order |-> p.order, entry |-> p.entry,
                               saw |-> p.saw, counted |-> counts[ShelfOf[p.entry.line]] > p.entry.at]
                     /\ Goes(g, rec)
      BY <2>2 DEF ReadRecent
    <3>2. proc'[g] = rec /\ counts' = counts
      BY <2>0, <3>1 DEF Goes, database
    <3>3. rec.op = "cancel" /\ rec.entry = p.entry /\ rec.counted = (counts[ShelfOf[p.entry.line]] > p.entry.at)
      BY <3>1
    <3> QED BY <3>2, <3>3 DEF Known
  <2>3. CASE ReadTruth(g)
    <3> DEFINE back == [l \in DOMAIN p.took |-> IF counts[ShelfOf[l]] > p.took[l].since THEN 0 ELSE p.took[l].units]
    <3>1. /\ p.op = "correct" /\ p.pc = "truth"
          /\ Goes(g, [op |-> "correct", pc |-> "commit", order |-> p.order, back |-> back])
      BY <2>3 DEF ReadTruth, At
    <3>2. \A l \in DOMAIN p.took : p.took[l] = [units |-> item[l].before - item[l].after, since |-> since[l]]
      BY <3>1 DEF ApartInv, Fresh
    <3>3. \A l \in DOMAIN p.took : back[l] = IF counts[ShelfOf[l]] > since[l] THEN 0 ELSE item[l].before - item[l].after
      <4> TAKE l \in DOMAIN p.took
      <4>1. p.took[l] = [units |-> item[l].before - item[l].after, since |-> since[l]]
        BY <3>2
      <4>2. p.took[l].units = item[l].before - item[l].after /\ p.took[l].since = since[l]
        BY <4>1
      <4> QED BY <4>2
    <3>4. DOMAIN back = DOMAIN p.took
      OBVIOUS
    <3> HIDE DEF back
    <3>5. PICK rec : rec = [op |-> "correct", pc |-> "commit", order |-> p.order, back |-> back] /\ Goes(g, rec)
      BY <3>1
    <3>6. proc'[g] = rec /\ counts' = counts /\ since' = since /\ item' = item
      BY <2>0, <3>5 DEF Goes, database
    <3>7. rec.op = "correct" /\ rec.back = back
      BY <3>5
    <3> QED BY <3>3, <3>4, <3>6, <3>7 DEF Known
  <2> QED BY <2>1, <2>2, <2>3
<1> QED
  BY <1>1, <1>2, <1>3

\* Whoever takes an issue back knows of every count after it, and the units of
\* the issue, when nobody counts the shelf meanwhile.
THEOREM KnownInvariant == ASSUME OrdersApart, CountsApart PROVE Spec => []KnownInv
<1>1. Init => KnownInv
  BY IdleJob DEF Init, KnownInv, Known
<1>2. CoreInv /\ CoreInv' /\ ApartInv /\ KnownInv /\ [Next]_vars => KnownInv'
  BY ApartStep, KnownStep
<1> QED BY <1>1, <1>2, CoreInvariant, ApartInvariant, PTL DEF Spec

-----------------------------------------------------------------------------
\* Only the two operations that take an issue back make a fulfilled row open.
LEMMA RetakenBy ==
  ASSUME CoreInv, [Next]_vars, NEW l \in Items, resv[l].status = "fulfilled", resv'[l].status \in {"active", "unresolved"}
  PROVE  \E h \in Handlers : (CommitCancel(h) \/ CommitCorrect(h)) /\ ~GivesUp(h)
<1>0. resv \in [Items -> RowType]
  BY DEF CoreInv, TablesOK
<1>1. ASSUME UNCHANGED resv PROVE FALSE
  BY <1>1
<1>2. ASSUME UNCHANGED database PROVE FALSE
  BY <1>1, <1>2 DEF database
<1>3. ASSUME NEW h, NEW op, NEW k, NEW rec, Begin(h, op, k, rec) PROVE FALSE
  BY <1>2, <1>3 DEF Begin
<1>4. ASSUME NEW h, NEW rec, Goes(h, rec) PROVE FALSE
  BY <1>2, <1>4 DEF Goes
<1>5. ASSUME NEW h, GivesUp(h) PROVE FALSE
  BY <1>4, <1>5 DEF GivesUp
<1>6. ASSUME NEW S, NEW status \in {"released", "fulfilled"}, resv' = SetStatus(S, status) PROVE FALSE
  <2>1. status \in Statuses
    BY DEF Statuses
  <2> QED BY <1>6, <2>1, SetStatusIs
<1>7. ASSUME NEW S, \A k \in S : k \in Items => resv[k].status # "fulfilled", resv' = SetStatus(S, "active") PROVE FALSE
  <2>1. "active" \in Statuses
    BY DEF Statuses
  <2> QED BY <1>7, <2>1, SetStatusIs
<1>8. ASSUME NEW h \in Handlers, NEW k \in Items,
             BeginReserve(h, k) \/ BeginRelease(h, k) \/ BeginReactivate(h, k) \/ BeginHandover(h, k)
      PROVE  FALSE
  BY <1>3, <1>8 DEF BeginReserve, BeginRelease, BeginReactivate, BeginHandover
<1>9. ASSUME NEW h \in Handlers, NEW k \in Orders, BeginReleaseOrder(h, k) \/ BeginShip(h, k) \/ BeginCorrect(h, k)
      PROVE  FALSE
  BY <1>3, <1>9 DEF BeginReleaseOrder, BeginShip, BeginCorrect
<1>10. ASSUME NEW h \in Handlers,
             \/ \E k \in Orders, r \in Requests : \E pick \in Picks(k) : BeginDispatch(h, k, r, pick)
             \/ \E d \in dispatches : BeginCancel(h, d)
       PROVE  FALSE
  BY <1>3, <1>10 DEF BeginDispatch, BeginCancel
<1>11. ASSUME NEW h \in Handlers, CommitReserve(h) PROVE FALSE
  <2>1. PICK row : /\ resv[proc[h].line].status = "none"
                   /\ resv' = [resv EXCEPT ![proc[h].line] = row]
    BY <1>5, <1>11 DEF CommitReserve
  <2>2. l # proc[h].line
    BY <2>1
  <2> QED BY <1>0, <2>1, <2>2
<1>12. ASSUME NEW h \in Handlers, CommitRelease(h) \/ CommitReleaseOrder(h) PROVE FALSE
  <2>1. PICK S : resv' = SetStatus(S, "released")
    BY <1>12 DEF CommitRelease, CommitReleaseOrder
  <2> QED BY <1>6, <2>1
<1>13. ASSUME NEW h \in Handlers, CommitReactivate(h) PROVE FALSE
  <2>1. resv' = SetStatus(DOMAIN proc[h].rows \cap Having("released"), "active")
    BY <1>13 DEF CommitReactivate
  <2>2. \A k \in DOMAIN proc[h].rows \cap Having("released") : resv[k].status # "fulfilled"
    BY DEF Having
  <2> QED BY <1>7, <2>1, <2>2
<1>14. ASSUME NEW h \in Handlers, RecoverOne(h) PROVE FALSE
  <2> DEFINE k == Min(proc[h].wait)
             claimed == /\ k \in Pending(proc[h].order) /\ ~sent[proc[h].order]
                        /\ stock[ShelfOf[k]].quantity >= stock[ShelfOf[k]].reserved + resv[k].qty
  <2>1. resv' = IF claimed THEN SetStatus({k}, "active") ELSE resv
    BY <1>14 DEF RecoverOne
  <2>2. claimed => resv[k].status = "unresolved"
    BY DEF Pending
  <2> HIDE DEF claimed, k
  <2>3. CASE claimed
    <3>1. \A m \in {k} : resv[m].status # "fulfilled"
      BY <2>2, <2>3
    <3> QED BY <1>7, <2>1, <2>3, <3>1
  <2>4. CASE ~claimed
    BY <1>1, <2>1, <2>4
  <2> QED BY <2>3, <2>4
<1>15. ASSUME NEW h \in Handlers, \/ CheckShip(h) \/ ReadRows(h) \/ ReadStock(h) \/ ReadDispatchStock(h)
                                  \/ ReadRecent(h) \/ ReadTruth(h)
       PROVE  FALSE
  BY <1>4, <1>5, <1>15 DEF CheckShip, ReadRows, ReadStock, ReadDispatchStock, ReadRecent, ReadTruth
<1>16. ASSUME NEW h \in Handlers, CommitIssue(h) PROVE FALSE
  <2>1. PICK S : resv' = SetStatus(S, "fulfilled")
    BY <1>5, <1>16 DEF CommitIssue
  <2> QED BY <1>6, <2>1
<1>17. ASSUME NEW h \in Handlers, CommitDispatch(h) PROVE FALSE
  <2> DEFINE p == proc[h]
  <2>1. Unchanged(h)
    BY <1>5, <1>17 DEF CommitDispatch
  <2>2. At(h, "dispatch", "commit")
    BY <1>17, <2>1, DispatchWrites
  <2>3. \A k \in DOMAIN p.pick : resv[k].status = "active"
    BY <2>1, <2>2, DispatchRead
  <2>4. \A k \in Cut(p) : resv[Remainder[k]].status = "none"
    BY <2>1, <2>2, DispatchRead
  <2>5. \A k \in Items : k \notin DOMAIN p.pick /\ k \notin SplitIn(p) => resv'[k] = resv[k]
    BY <1>17, <2>1, DispatchWrites
  <2>6. l \notin DOMAIN p.pick /\ l \notin SplitIn(p)
    BY <2>3, <2>4 DEF SplitIn
  <2> QED BY <2>5, <2>6
<1>18. ASSUME NEW k \in Items, StillHere(k) PROVE FALSE
  BY <1>1, <1>18 DEF StillHere
<1>19. ASSUME NEW k \in Items, IssuedBefore(k) PROVE FALSE
  <2>1. resv' = SetStatus({k}, "fulfilled")
    BY <1>19 DEF IssuedBefore
  <2> QED BY <1>6, <2>1
<1>20. ASSUME NEW s \in Shelves, Intake(s) \/ \E n \in 0 .. MaxUnits : Count(s, n) PROVE FALSE
  BY <1>1, <1>20 DEF Intake, Count
<1>21. ASSUME UNCHANGED vars PROVE FALSE
  BY <1>2, <1>21 DEF vars
<1>22. \E h \in Handlers : CommitCancel(h) \/ CommitCorrect(h)
  BY <1>8, <1>9, <1>10, <1>11, <1>12, <1>13, <1>14, <1>15, <1>16, <1>17, <1>18, <1>19, <1>20, <1>21 DEF Next
<1> QED
  BY <1>5, <1>22

\* The units that the lines S took, added up.
Took == [l \in Items |-> item[l].before - item[l].after]
LEMMA TakenIs ==
  ASSUME NEW S \in SUBSET Items, IsFiniteSet(S), \A l \in S : item[l].before - item[l].after \in Int
  PROVE  MapThenSumSet(LAMBDA l : item[l].before - item[l].after, S) = Sum(Took, S)
<1> DEFINE B(l) == item[l].before - item[l].after
           Rec(g) == g = [t \in SUBSET S |-> IF t = {} THEN 0 ELSE B(Pick(t)) + g[t \ {Pick(t)}]]
<1>1. MapThenSumSet(LAMBDA l : item[l].before - item[l].after, S) = (CHOOSE g : Rec(g))[S]
  BY DEF MapThenSumSet, MapThenFoldSet, Pick
<1>0. \A l \in S : Took[l] = B(l) /\ B(l) \in Int
  BY DEF Took
<1> HIDE DEF B
<1>2. \A g : Rec(g) <=> IsSum(Took, S, g)
  <2> TAKE g
  <2> DEFINE a(t) == IF t = {} THEN 0 ELSE B(Pick(t)) + g[t \ {Pick(t)}]
             b(t) == IF t = {} THEN 0 ELSE Took[Pick(t)] + g[t \ {Pick(t)}]
  <2>1. \A t \in SUBSET S : a(t) = b(t)
    BY <1>0, PickIn
  <2>2. [t \in SUBSET S |-> a(t)] = [t \in SUBSET S |-> b(t)]
    <3> HIDE DEF a, b
    <3> QED BY <2>1
  <2> QED
    BY <2>2 DEF IsSum
<1>3. \A l \in S : Took[l] \in Int
  BY <1>0
<1> HIDE DEF Rec
<1>4. PICK h : IsSum(Took, S, h)
  BY <1>3, SumExists DEF Good
<1>5. Rec(CHOOSE g : Rec(g))
  BY <1>2, <1>4, Zenon
<1>6. (CHOOSE g : Rec(g))[S] = Sum(Took, S)
  BY <1>2, <1>3, <1>5, SumSolved
<1> QED
  BY <1>1, <1>6

\* One entry is cancelled.
LEMMA CancelGivesBack ==
  ASSUME CoreInv, ApartInv, KnownInv, NEW h \in Handlers, CommitCancel(h), ~GivesUp(h),
         NEW s \in Shelves, Retaken(s) # {}
  PROVE  stock'[s].quantity = stock[s].quantity +
           MapThenSumSet(LAMBDA l : item[l].before - item[l].after, {l \in Retaken(s) : counts[s] = since[l]})
<1> DEFINE p == proc[h]
           d == p.entry
           k == d.line
           back == IF p.counted THEN 0 ELSE d.qty
           now == {l \in Retaken(s) : counts[s] = since[l]}
<1>1. /\ At(h, "cancel", "commit") /\ d \in EntryType /\ StandsOK(d) /\ k \in LinesOf(p.order)
      /\ \A l \in Items \ {k} : Same(l)
      /\ resv'[k].status = (IF p.counted THEN "unresolved" ELSE "active")
      /\ stock'[s].quantity = stock[s].quantity + (IF s = ShelfOf[k] THEN back ELSE 0)
  BY CancelWrites
<1>2. p.counted = (counts[ShelfOf[k]] > d.at)
  BY <1>1 DEF KnownInv, Known, At
<1>3. k \in Items /\ d.qty \in Nat /\ d.at = since[k] /\ item[k].before - item[k].after = d.qty
      /\ resv[k].status = "fulfilled"
  BY <1>1 DEF LinesOf, EntryType, StandsOK
<1> HIDE DEF p, d, k
<1>4. Retaken(s) = {k} /\ ShelfOf[k] = s
  BY <1>1, <1>3 DEF Retaken, Same
<1>5. since[k] <= counts[s] /\ counts[s] \in Nat /\ since[k] \in Nat
  BY <1>3, <1>4, StockAssumption DEF CoreInv, TablesOK, LineOK
<1>6. now = IF p.counted THEN {} ELSE {k}
  <2>1. p.counted = (counts[s] > since[k])
    BY <1>2, <1>3, <1>4, Zenon
  <2>2. CASE counts[s] > since[k]
    <3>1. p.counted
      BY <2>1, <2>2, Zenon
    <3>2. now = {}
      BY <1>4, <1>5, <2>2
    <3> QED BY <3>1, <3>2, Zenon
  <2>3. CASE ~(counts[s] > since[k])
    <3>1. ~p.counted
      BY <2>1, <2>3, Zenon
    <3>2. now = {k}
      BY <1>4, <1>5, <2>3
    <3> QED BY <3>1, <3>2, Zenon
  <2> QED BY <2>2, <2>3
<1>7. now \in SUBSET Items /\ IsFiniteSet(now) /\ \A l \in now : item[l].before - item[l].after \in Int
  <2>1. now \in SUBSET Items /\ \A l \in now : item[l].before - item[l].after \in Int
    BY <1>3, <1>6
  <2> HIDE DEF now
  <2> QED BY <2>1, ItemFacts, FS_Subset
<1> HIDE DEF now
<1>8. MapThenSumSet(LAMBDA l : item[l].before - item[l].after, now) = Sum(Took, now)
  BY <1>7, TakenIs
<1>9. Sum(Took, now) = back
  <2>1. CASE p.counted
    BY <1>6, <2>1, SumEmpty DEF Sum
  <2>2. CASE ~p.counted
    <3>1. Took[k] = d.qty
      BY <1>3 DEF Took
    <3>2. Sum(Took, {k}) = Took[k] + Sum(Took, {k} \ {k})
      <4>1. IsFiniteSet({k}) /\ k \in {k} /\ \A x \in {k} : Took[x] \in Int
        <5>1. Took[k] \in Int
          BY <1>3, <3>1
        <5>2. \A x \in {k} : Took[x] \in Int
          BY <5>1
        <5>3. IsFiniteSet({k})
          BY FS_Singleton, Zenon
        <5> QED BY <5>2, <5>3
      <4> QED BY <4>1, SumRemove DEF Sum
    <3>3. Sum(Took, {k} \ {k}) = 0
      <4>1. {k} \ {k} = {}
        OBVIOUS
      <4> QED BY <4>1, SumEmpty DEF Sum
    <3> QED BY <1>3, <1>6, <2>2, <3>1, <3>2, <3>3
  <2> QED BY <2>1, <2>2
<1> QED
  BY <1>1, <1>4, <1>8, <1>9 DEF now

\* A whole order is corrected.
LEMMA CorrectGivesBack ==
  ASSUME CoreInv, ApartInv, KnownInv, NEW h \in Handlers, CommitCorrect(h), NEW s \in Shelves
  PROVE  stock'[s].quantity = stock[s].quantity +
           MapThenSumSet(LAMBDA l : item[l].before - item[l].after, {l \in Retaken(s) : counts[s] = since[l]})
<1> DEFINE p == proc[h]
           back == p.back
           still == DOMAIN back \cap Having("fulfilled")
           T == OnShelf(back, s) \cap still
           now == {l \in Retaken(s) : counts[s] = since[l]}
<1>1. /\ At(h, "correct", "commit") /\ resv' = SetStatus(still, "active")
      /\ stock'[s].quantity = stock[s].quantity + MapThenSumSet(LAMBDA l : back[l], T)
  BY DEF CommitCorrect
<1>2. Partly(back, LinesOf(p.order), Nat)
  BY <1>1, JobIs
<1>3. \A l \in DOMAIN back : back[l] = IF counts[ShelfOf[l]] > since[l] THEN 0 ELSE item[l].before - item[l].after
  BY <1>1 DEF KnownInv, Known, At
<1>4. \A l \in T : l \in Items /\ l \in DOMAIN back /\ back[l] \in Nat /\ ShelfOf[l] = s /\ resv[l].status = "fulfilled"
  BY <1>2 DEF Partly, LinesOf, OnShelf, Having
<1>5. \A l \in Items : l \in T <=> ShelfOf[l] = s /\ l \in still
  BY DEF OnShelf
<1> HIDE DEF p, back, T, still
<1>6. Retaken(s) = T
  <2>1. "active" \in Statuses
    BY DEF Statuses
  <2>2. \A l \in Items : resv'[l].status = IF l \in still THEN "active" ELSE resv[l].status
    BY <1>1, <2>1, SetStatusIs
  <2> QED BY <1>4, <1>5, <2>2 DEF Retaken
<1>7. \A l \in T : since[l] <= counts[s] /\ counts[s] \in Nat /\ since[l] \in Nat
  BY <1>4, StockAssumption DEF CoreInv, TablesOK, LineOK
<1>8. now \in SUBSET T /\ \A l \in T : l \in now <=> counts[s] = since[l]
  BY <1>6
<1> HIDE DEF now
<1>9. IsFiniteSet(T) /\ IsFiniteSet(now) /\ now \in SUBSET Items
  <2>1. T \in SUBSET Items
    BY <1>4
  <2>2. IsFiniteSet(T)
    BY <2>1, ItemFacts, FS_Subset
  <2> QED BY <1>8, <2>1, <2>2, FS_Subset
<1>10. \A l \in T \ now : back[l] = 0
  BY <1>3, <1>4, <1>7, <1>8
<1>11. \A l \in now : back[l] \in Int /\ back[l] = item[l].before - item[l].after /\ back[l] = Took[l]
  BY <1>3, <1>4, <1>7, <1>8 DEF Took
<1>12. Sum(back, T) = Sum(back, now)
  BY <1>4, <1>8, <1>9, <1>10, SumSupport
<1>13. Sum(back, now) = Sum(Took, now)
  BY <1>9, <1>11, SumSame DEF Sum
<1>14. MapThenSumSet(LAMBDA l : item[l].before - item[l].after, now) = Sum(Took, now)
  BY <1>9, <1>11, TakenIs
<1>15. MapThenSumSet(LAMBDA l : back[l], T) = Sum(back, T)
  BY PlainSum
<1> QED
  BY <1>1, <1>12, <1>13, <1>14, <1>15 DEF now

\* An issue that is taken back, by its entry or with its whole order, returns
\* to the shelf the units it took, and none when the shelf was counted after
\* it, when the order is worked on alone and nobody counts meanwhile: the
\* count and the issue are read before the batch and not asked for again
\* (order-dispatch-cancel.ts, order-reservations.ts).
THEOREM TakenComesBack == ASSUME OrdersApart, CountsApart PROVE Spec => GivesBackWhatItTook
<1>1. ASSUME CoreInv, ApartInv, KnownInv, [Next]_vars, NEW s \in Shelves, Retaken(s) # {}
      PROVE  stock'[s].quantity = stock[s].quantity +
               MapThenSumSet(LAMBDA l : item[l].before - item[l].after, {l \in Retaken(s) : counts[s] = since[l]})
  <2>1. PICK l \in Items : resv[l].status = "fulfilled" /\ resv'[l].status \in {"active", "unresolved"}
    BY <1>1 DEF Retaken
  <2>2. PICK h \in Handlers : (CommitCancel(h) \/ CommitCorrect(h)) /\ ~GivesUp(h)
    BY <1>1, <2>1, RetakenBy
  <2>3. CASE CommitCancel(h)
    BY <1>1, <2>2, <2>3, CancelGivesBack
  <2>4. CASE CommitCorrect(h)
    BY <1>1, <2>4, CorrectGivesBack
  <2> QED BY <2>2, <2>3, <2>4
<1>2. CoreInv /\ ApartInv /\ KnownInv /\ [Next]_vars =>
        [\A s \in Shelves : Retaken(s) # {} =>
           stock'[s].quantity = stock[s].quantity +
             MapThenSumSet(LAMBDA l : item[l].before - item[l].after, {l \in Retaken(s) : counts[s] = since[l]})]_vars
  BY <1>1
<1> QED BY <1>2, CoreInvariant, ApartInvariant, KnownInvariant, PTL DEF Spec, GivesBackWhatItTook
===============================================================================
