------------------------- MODULE CashRegister_proofs -------------------------
(***************************************************************************)
(* Proofs about the cash register, for any orders, payments, returns,      *)
(* requests and clerks, any amounts and every value of the bounds.         *)
(*                                                                         *)
(* The register is only ever added to.  So the proofs look at what a step  *)
(* posts (Posts): new entries with keys of their own, in the current       *)
(* cycle.  A sum over the register grows by the sum of what is posted.     *)
(***************************************************************************)
EXTENDS CashRegister, SumLemmas

-----------------------------------------------------------------------------
(* Sums over entries *)

Total(T) == MapThenSumSet(LAMBDA e : e.amount, T)
AmountIn(T) == [e \in T |-> e.amount]

\* The fold the module uses is the sum of SumLemmas.
LEMMA TotalIs ==
  ASSUME NEW T, IsFiniteSet(T), \A e \in T : e.amount \in Int
  PROVE  Total(T) = SumFunctionOnSet(AmountIn(T), T)
<1> DEFINE Rec(g) == g = [s \in SUBSET T |-> IF s = {} THEN 0 ELSE Pick(s).amount + g[s \ {Pick(s)}]]
<1>1. \A g : Rec(g) <=> IsSum(AmountIn(T), T, g)
  <2> TAKE g
  <2> DEFINE a(s) == IF s = {} THEN 0 ELSE Pick(s).amount + g[s \ {Pick(s)}]
             b(s) == IF s = {} THEN 0 ELSE AmountIn(T)[Pick(s)] + g[s \ {Pick(s)}]
  <2>1. \A s \in SUBSET T : a(s) = b(s)
    BY PickIn DEF AmountIn
  <2>2. [s \in SUBSET T |-> a(s)] = [s \in SUBSET T |-> b(s)]
    <3> HIDE DEF a, b
    <3> QED BY <2>1
  <2> QED
    BY <2>2 DEF IsSum
<1>2. Total(T) = (CHOOSE g : Rec(g))[T]
  BY DEF Total, MapThenSumSet, MapThenFoldSet, Pick
<1>3. SumFunctionOnSet(AmountIn(T), T) = (CHOOSE g : IsSum(AmountIn(T), T, g))[T]
  BY SumIs
<1> HIDE DEF Rec
<1>4. PICK h : Good(AmountIn(T), T, h)
  <2>1. \A e \in T : AmountIn(T)[e] \in Int
    BY DEF AmountIn
  <2> QED BY <2>1, SumExists
<1>5. Rec(h)
  BY <1>1, <1>4 DEF Good
<1>6. Rec(CHOOSE g : Rec(g))
  BY <1>5, Zenon
<1>7. IsSum(AmountIn(T), T, CHOOSE g : IsSum(AmountIn(T), T, g))
  BY <1>1, <1>5, Zenon
<1>8. IsSum(AmountIn(T), T, CHOOSE g : Rec(g))
  BY <1>1, <1>6, Zenon
<1> DEFINE p == CHOOSE g : Rec(g)
           q == CHOOSE g : IsSum(AmountIn(T), T, g)
<1> HIDE DEF p, q
<1>9. p[T] = q[T]
  BY <1>7, <1>8, SumsAgree DEF p, q
<1> QED
  BY <1>2, <1>3, <1>9 DEF p, q

LEMMA TotalNone == Total({}) = 0
<1>1. Total({}) = SumFunctionOnSet(AmountIn({}), {})
  BY TotalIs, FS_EmptySet
<1> QED
  BY <1>1, SumEmpty

LEMMA TotalUnion ==
  ASSUME NEW S, IsFiniteSet(S), NEW T, IsFiniteSet(T), S \cap T = {},
         \A e \in S \cup T : e.amount \in Int
  PROVE  Total(S \cup T) = Total(S) + Total(T)
<1> DEFINE f == AmountIn(S \cup T)
<1>1. IsFiniteSet(S \cup T)
  BY FS_Union
<1>2. \A e \in S \cup T : f[e] \in Int /\ f[e] = e.amount
  BY DEF AmountIn
<1>3. Total(S \cup T) = SumFunctionOnSet(f, S \cup T)
  BY <1>1, TotalIs
<1>4. Total(S) = SumFunctionOnSet(f, S)
  <2>1. \A e \in S : AmountIn(S)[e] \in Int /\ AmountIn(S)[e] = f[e]
    BY <1>2 DEF AmountIn
  <2> HIDE DEF f
  <2> QED BY <2>1, TotalIs, SumSame
<1>5. Total(T) = SumFunctionOnSet(f, T)
  <2>1. \A e \in T : AmountIn(T)[e] \in Int /\ AmountIn(T)[e] = f[e]
    BY <1>2 DEF AmountIn
  <2> HIDE DEF f
  <2> QED BY <2>1, TotalIs, SumSame
<1>6. SumFunctionOnSet(f, S \cup T) = SumFunctionOnSet(f, S) + SumFunctionOnSet(f, T)
  <2> HIDE DEF f
  <2> QED BY <1>2, SumUnion
<1> QED
  BY <1>3, <1>4, <1>5, <1>6

LEMMA TotalOne ==
  ASSUME NEW e, e.amount \in Int
  PROVE  Total({e}) = e.amount
<1>1. IsFiniteSet({e}) /\ \A x \in {e} : AmountIn({e})[x] \in Int /\ AmountIn({e})[x] = x.amount
  BY FS_Singleton DEF AmountIn
<1>2. Total({e}) = SumFunctionOnSet(AmountIn({e}), {e})
  BY <1>1, TotalIs
<1>3. SumFunctionOnSet(AmountIn({e}), {e}) = AmountIn({e})[e] + SumFunctionOnSet(AmountIn({e}), {e} \ {e})
  BY <1>1, SumRemove
<1>4. {e} \ {e} = {}
  OBVIOUS
<1> QED
  BY <1>1, <1>2, <1>3, <1>4, SumEmpty

LEMMA TotalInt ==
  ASSUME NEW T, IsFiniteSet(T), \A e \in T : e.amount \in Int
  PROVE  Total(T) \in Int
<1>1. \A e \in T : AmountIn(T)[e] \in Int
  BY DEF AmountIn
<1> QED
  BY <1>1, TotalIs, SumType

-----------------------------------------------------------------------------
(* Source keys *)

\* The key of an entry is one of a document's.
Of(key, d) ==
  \/ key \in {Base(d), Undo(d), <<"order-cancel", d>>}
  \/ \E route \in Routes, n \in Nat : key = <<"correction", route, d, n>>

\* The keys of two documents differ, and so do the keys of one.
LEMMA KeysApart ==
  ASSUME NEW d, NEW e
  PROVE  /\ d # e => \A key : Of(key, d) => ~Of(key, e)
         /\ Base(d) # Undo(d) /\ Base(d) # <<"order-cancel", d>> /\ Undo(d) # <<"order-cancel", d>>
         /\ \A route \in Routes, n \in Nat : <<"correction", route, d, n>> \notin {Base(d), Undo(d), <<"order-cancel", d>>}
BY DEF Of, Base, Undo

\* The keys of the opening and of what clerks write are no document's.
LEMMA DeskKeys ==
  ASSUME NEW r, NEW d
  PROVE  /\ ~Of(<<"opening">>, d) /\ ~Of(<<"manual", r>>, d)
         /\ ~Of(<<"reconcile", r>>, d) /\ ~Of(<<"manual-reversal", r>>, d)
BY DEF Of, Base, Undo

LEMMA AboutOf == ASSUME NEW d, NEW key \in About(d) PROVE Of(key, d)
BY CashAssumption DEF About, Of
-----------------------------------------------------------------------------
(***************************************************************************)
(* The invariant.  It needs no assumption on who keeps apart.              *)
(***************************************************************************)

RowType == [at : {"stands", "gone"}, order : Orders, kind : AllKinds \cup {"refund"},
            amount : Nat \ {0}, cash : BOOLEAN, copy : BOOLEAN]
PlanType == [at : {"planned"}, route : Routes, amount : Nat \ {0}, cash : BOOLEAN, change : Int]
AskType == [op : {"in", "out", "count"}, amount : Nat]
WorkType == [at : {"checked"}, request : Requests, seen : Int] \cup [at : {"undoing"}, request : Requests]

ShortOK ==
  /\ ready \in BOOLEAN /\ auto \in BOOLEAN /\ activated \in BOOLEAN /\ agreed \in BOOLEAN
  /\ cycle \in 0 .. MaxCycles /\ drawer \in Int
  /\ recent \subseteq Orders /\ refunded \subseteq Payments
  /\ order \in [Orders -> {"none", "active", "deleted"}]
  /\ edit \in [Orders -> {"none", "planned", "retired", "updated"}]
  /\ auto => ready /\ activated

EntriesOK ==
  /\ IsFiniteSet(entries)
  /\ \A e \in entries : e.amount \in Int /\ e.cycle \in 0 .. cycle
  /\ \A e, f \in entries : e.key = f.key => e = f

RowsOK ==
  /\ doc \in [Docs -> RowType \cup {Nothing}]
  /\ fix \in [Docs -> PlanType \cup {Nothing}]
  /\ fixed \in [Docs -> 0 .. MaxFixes]
  /\ IsFiniteSet({d \in Docs : Standing(d)})

\* A clerk past the checks works on a known request of a register that is set
\* up, or on a manual entry that is booked.
DeskOK ==
  /\ clerk \in [Clerks -> WorkType \cup {Free}]
  /\ asked \in [Requests -> AskType \cup {Nothing}]
  /\ \A h \in Clerks :
       /\ clerk[h].at = "checked" => ready /\ asked[clerk[h].request] \in AskType
       /\ clerk[h].at = "undoing" => Booked(<<"manual", clerk[h].request>>)

\* Nothing is booked before the register is set up, or planned to be.
UnreadyOK == ~ready => entries = {} /\ \A d \in Docs : fix[d] # Nothing => fix[d].change = 0

\* What is booked for a document: nothing before it exists; a reversal when it
\* is gone; its refund when its order was deleted, and then it does not stand in
\* an order that is active; corrections as far as they are counted; first of all
\* what the row was worth, which it is worth still when it was never corrected.
DocOK(d) ==
  /\ fix[d] # Nothing => fixed[d] < MaxFixes /\ doc[d] # Nothing
  /\ doc[d] = Nothing => d \notin refunded /\ fixed[d] = 0 /\ ~Booked(Base(d))
  /\ Booked(Undo(d)) => doc[d].at = "gone"
  /\ d \in refunded <=> Booked(<<"order-cancel", d>>)
  /\ d \in refunded /\ Standing(d) => order[doc[d].order] = "deleted"
  /\ \A route \in Routes, n \in Nat : Booked(<<"correction", route, d, n>>) => n \in 1 .. fixed[d]
  /\ \A e \in entries :
       e.key = Base(d) /\ fixed[d] = 0 => e.amount = Worth(d, doc[d].amount, doc[d].cash)

\* Between the first two writes of an edit the order has no payments.
EditOK(o) == edit[o] = "retired" => \A d \in OfOrder(o) : d \notin Payments

CoreInv ==
  /\ ShortOK /\ EntriesOK /\ RowsOK /\ DeskOK /\ UnreadyOK
  /\ \A d \in Docs : DocOK(d)
  /\ \A o \in Orders : EditOK(o)

-----------------------------------------------------------------------------
(* What a step posts *)

Posts(new) ==
  /\ entries' = entries \cup new
  /\ IsFiniteSet(new)
  /\ \A e \in new : e.amount \in Int /\ e.cycle = cycle /\ ~Booked(e.key)
  /\ \A e, f \in new : e.key = f.key => e = f

Row(key, amount) == [key |-> key, amount |-> amount, cycle |-> cycle]

LEMMA PostNothing == entries' = entries => Posts({})
BY FS_EmptySet DEF Posts

LEMMA PostOne ==
  ASSUME NEW key, NEW amount \in Int, ~Booked(key), entries' = entries \cup {Row(key, amount)}
  PROVE  Posts({Row(key, amount)})
<1>1. Row(key, amount).key = key /\ Row(key, amount).amount = amount /\ Row(key, amount).cycle = cycle
  BY DEF Row
<1> QED
  BY <1>1, FS_Singleton DEF Posts

LEMMA InsertOne ==
  ASSUME NEW key, NEW amount
  PROVE  /\ Booked(key) => Insert(entries, key, amount) = entries
         /\ ~Booked(key) => Insert(entries, key, amount) = entries \cup {Row(key, amount)}
BY DEF Insert, Booked, Row

LEMMA PostsKeepEntries ==
  ASSUME EntriesOK, NEW new, Posts(new), cycle \in Nat, cycle' \in Nat, cycle <= cycle'
  PROVE  EntriesOK'
<1>1. IsFiniteSet(entries')
  BY FS_Union DEF Posts, EntriesOK
<1>2. \A e \in entries' : e.amount \in Int /\ e.cycle \in 0 .. cycle'
  BY DEF Posts, EntriesOK
<1>3. \A e, f \in entries' : e.key = f.key => e = f
  BY DEF Posts, EntriesOK, Booked
<1> QED
  BY <1>1, <1>2, <1>3 DEF EntriesOK

\* What is booked stays booked, and what is booked anew was posted.
LEMMA BookedAfter ==
  ASSUME NEW new, Posts(new), NEW key
  PROVE  /\ Booked(key) => Booked(key)'
         /\ Booked(key)' /\ ~Booked(key) => \E e \in new : e.key = key
BY DEF Posts, Booked

\* The entries of a document, and what they add up to.
EntriesOf(d) == {e \in entries : e.key \in About(d)}

LEMMA NetIs == ASSUME NEW d PROVE Net(d) = Total(EntriesOf(d))
BY DEF Net, Total, EntriesOf

LEMMA PostsNet ==
  ASSUME EntriesOK, NEW new, Posts(new), NEW d
  PROVE  /\ Net(d) \in Int
         /\ Net(d)' = Net(d) + Total({e \in new : e.key \in About(d)})
<1> DEFINE mine == {e \in new : e.key \in About(d)}
<1>1. EntriesOf(d)' = EntriesOf(d) \cup mine
  BY DEF EntriesOf, Posts, About, Base, Undo
<1>2. EntriesOf(d) \cap mine = {}
  BY DEF EntriesOf, Posts, Booked
<1>3. IsFiniteSet(EntriesOf(d)) /\ IsFiniteSet(mine)
  BY FS_Subset DEF EntriesOf, Posts, EntriesOK
<1>4. \A e \in EntriesOf(d) \cup mine : e.amount \in Int
  BY DEF EntriesOf, Posts, EntriesOK
<1>5. Total(EntriesOf(d) \cup mine) = Total(EntriesOf(d)) + Total(mine)
  <2> HIDE DEF mine
  <2> QED BY <1>2, <1>3, <1>4, TotalUnion
<1>6. Net(d)' = Total(EntriesOf(d)')
  BY DEF Net, Total, EntriesOf, MapThenSumSet, MapThenFoldSet
<1>7. Net(d) \in Int
  BY <1>3, <1>4, NetIs, TotalInt
<1> QED
  BY <1>1, <1>5, <1>6, <1>7, NetIs

LEMMA PostsBalance ==
  ASSUME EntriesOK, NEW new, Posts(new), cycle' = cycle
  PROVE  /\ Balance(entries) \in Int
         /\ Balance(entries)' = Balance(entries) + Total(new)
<1> DEFINE cur == {e \in entries : e.cycle = cycle}
<1>1. {e \in entries' : e.cycle = cycle'} = cur \cup new
  BY DEF Posts
<1>2. cur \cap new = {}
  BY DEF Posts, Booked
<1>3. IsFiniteSet(cur) /\ IsFiniteSet(new)
  BY FS_Subset DEF Posts, EntriesOK
<1>4. \A e \in cur \cup new : e.amount \in Int
  BY DEF Posts, EntriesOK
<1>5. Total(cur \cup new) = Total(cur) + Total(new)
  <2> HIDE DEF cur
  <2> QED BY <1>2, <1>3, <1>4, TotalUnion
<1>6. Balance(entries) = Total(cur) /\ Balance(entries)' = Total({e \in entries' : e.cycle = cycle'})
  BY DEF Balance, Total, MapThenSumSet, MapThenFoldSet
<1>7. Total(cur) \in Int
  BY <1>3, <1>4, TotalInt
<1> QED
  BY <1>1, <1>5, <1>6, <1>7
-----------------------------------------------------------------------------
(* What a step leaves alone *)

LEMMA DocFrame ==
  ASSUME NEW d, DocOK(d), NEW new, Posts(new), \A e \in new : ~Of(e.key, d),
         doc'[d] = doc[d], fix'[d] = fix[d], fixed'[d] = fixed[d],
         d \in refunded' <=> d \in refunded,
         d \in refunded /\ Standing(d) => order'[doc[d].order] = "deleted"
  PROVE  DocOK(d)'
<1>1. \A key : Of(key, d) => (Booked(key)' <=> Booked(key))
  BY BookedAfter
<1>2. \A e \in entries' : e.key = Base(d) => e \in entries
  BY DEF Posts, Of
<1>3. Of(Base(d), d) /\ Of(Undo(d), d) /\ Of(<<"order-cancel", d>>, d)
      /\ \A route \in Routes, n \in Nat : Of(<<"correction", route, d, n>>, d)
  BY DEF Of
<1>4. /\ (Booked(Base(d))' <=> Booked(Base(d))) /\ (Booked(Undo(d))' <=> Booked(Undo(d)))
      /\ (Booked(<<"order-cancel", d>>)' <=> Booked(<<"order-cancel", d>>))
      /\ \A route \in Routes, n \in Nat : Booked(<<"correction", route, d, n>>)' <=> Booked(<<"correction", route, d, n>>)
  BY <1>1, <1>3
<1>5. Base(d)' = Base(d) /\ Undo(d)' = Undo(d) /\ (Standing(d)' <=> Standing(d))
  BY DEF Base, Undo, Standing
<1>6. \A e \in entries' :
        e.key = Base(d) /\ fixed'[d] = 0 => e.amount = Worth(d, doc'[d].amount, doc'[d].cash)
  BY <1>2 DEF DocOK
<1>7. /\ fix'[d] # Nothing => fixed'[d] < MaxFixes /\ doc'[d] # Nothing
      /\ doc'[d] = Nothing => d \notin refunded' /\ fixed'[d] = 0 /\ ~Booked(Base(d))'
      /\ Booked(Undo(d))' => doc'[d].at = "gone"
      /\ d \in refunded' <=> Booked(<<"order-cancel", d>>)'
      /\ d \in refunded' /\ Standing(d)' => order'[doc'[d].order] = "deleted"
      /\ \A route \in Routes, n \in Nat : Booked(<<"correction", route, d, n>>)' => n \in 1 .. fixed'[d]
  BY <1>4, <1>5 DEF DocOK
<1> QED
  BY <1>6, <1>7 DEF DocOK, Base, Undo, Worth

LEMMA DocsFrame ==
  ASSUME CoreInv, NEW new, Posts(new), \A d \in Docs : \A e \in new : ~Of(e.key, d),
         UNCHANGED <<doc, fix, fixed, refunded>>,
         \A d \in Docs : d \in refunded /\ Standing(d) => order'[doc[d].order] = "deleted"
  PROVE  RowsOK' /\ \A d \in Docs : DocOK(d)'
<1>1. RowsOK'
  BY DEF CoreInv, RowsOK, Standing
<1>2. ASSUME NEW d \in Docs
      PROVE  DocOK(d)'
  <2>1. DocOK(d)
    BY DEF CoreInv
  <2> QED
    BY <2>1, DocFrame
<1> QED
  BY <1>1, <1>2

LEMMA OrdersFrame ==
  ASSUME CoreInv, UNCHANGED doc, \A o \in Orders : edit'[o] = "retired" => edit[o] = "retired"
  PROVE  \A o \in Orders : EditOK(o)'
BY DEF CoreInv, EditOK, OfOrder, Standing

LEMMA DeskFrame ==
  ASSUME CoreInv, NEW new, Posts(new), ready => ready', asked' = asked,
         clerk' = clerk \/ \E h \in Clerks : clerk' = [clerk EXCEPT ![h] = Free]
  PROVE  DeskOK'
<1>1. \A key : Booked(key) => Booked(key)'
  BY BookedAfter
<1>2. \A h \in Clerks : clerk'[h] = clerk[h] \/ clerk'[h] = Free
  BY DEF CoreInv, DeskOK
<1>3. clerk' \in [Clerks -> WorkType \cup {Free}]
  BY DEF CoreInv, DeskOK
<1>4. ASSUME NEW h \in Clerks, clerk'[h].at \in {"checked", "undoing"}
      PROVE  clerk'[h] = clerk[h]
  BY <1>2, <1>4 DEF Free
<1> QED
  BY <1>1, <1>3, <1>4 DEF CoreInv, DeskOK

LEMMA UnreadyFrame ==
  ASSUME CoreInv, NEW new, Posts(new), ready => ready', new # {} => ready', UNCHANGED fix
  PROVE  UnreadyOK'
BY DEF CoreInv, UnreadyOK, Posts

LEMMA MovedShort ==
  ASSUME NEW cash, NEW followed, Moved(cash, followed), CoreInv
  PROVE  drawer' \in Int /\ agreed' \in BOOLEAN
<1>1. drawer' \in Int
  BY CashAssumption DEF Moved
<1>2. agreed' \in BOOLEAN
  BY DEF Moved
<1> QED
  BY <1>1, <1>2

\* What the parts come to.
LEMMA CoreFrom ==
  ASSUME ShortOK', EntriesOK', RowsOK', DeskOK', UnreadyOK',
         \A d \in Docs : DocOK(d)', \A o \in Orders : EditOK(o)'
  PROVE  CoreInv'
BY DEF CoreInv

\* A step that posts for no document and leaves the documents alone.
LEMMA PapersApart ==
  ASSUME CoreInv, NEW new, Posts(new), \A d \in Docs : \A e \in new : ~Of(e.key, d),
         UNCHANGED <<doc, fix, fixed, refunded>>, ShortOK', cycle <= cycle',
         \A d \in Docs : d \in refunded /\ Standing(d) => order'[doc[d].order] = "deleted",
         \A o \in Orders : edit'[o] = "retired" => edit[o] = "retired",
         ready => ready', new # {} => ready',
         DeskOK'
  PROVE  CoreInv'
<1>1. RowsOK' /\ \A d \in Docs : DocOK(d)'
  BY DocsFrame
<1>2. \A o \in Orders : EditOK(o)'
  BY OrdersFrame
<1>3. EntriesOK'
  BY PostsKeepEntries, CashAssumption DEF CoreInv, ShortOK
<1>4. UnreadyOK'
  BY UnreadyFrame
<1> QED
  BY <1>1, <1>2, <1>3, <1>4, CoreFrom

LEMMA StandingDeleted ==
  ASSUME CoreInv
  PROVE  \A d \in Docs : d \in refunded /\ Standing(d) => order[doc[d].order] = "deleted"
BY DEF CoreInv, DocOK

\* What stands is a row.
LEMMA StandingRow ==
  ASSUME CoreInv, NEW d \in Docs, doc[d] # Nothing
  PROVE  doc[d] \in RowType
BY DEF CoreInv, RowsOK
-----------------------------------------------------------------------------
(* Settings and clerks *)

LEMMA CoreInit == Init => CoreInv
<1> SUFFICES ASSUME Init PROVE CoreInv
  OBVIOUS
<1>1. ShortOK
  <2>1. 0 \in 0 .. MaxCycles /\ 0 \in Int
    BY CashAssumption
  <2>2. order \in [Orders -> {"none", "active", "deleted"}]
    BY DEF Init
  <2>3. edit \in [Orders -> {"none", "planned", "retired", "updated"}]
    BY DEF Init
  <2> QED
    BY <2>1, <2>2, <2>3 DEF Init, ShortOK
<1>2. EntriesOK
  BY FS_EmptySet DEF Init, EntriesOK
<1>3. RowsOK
  <2>1. {d \in Docs : Standing(d)} = {}
    BY DEF Init, Standing, Nothing
  <2> QED
    BY <2>1, FS_EmptySet, CashAssumption DEF Init, RowsOK
<1>4. DeskOK
  BY DEF Init, DeskOK, Free
<1>5. UnreadyOK
  BY DEF Init, UnreadyOK
<1>6. \A d \in Docs : DocOK(d)
  BY DEF Init, DocOK, Booked, Standing, Nothing
<1>7. \A o \in Orders : EditOK(o)
  BY DEF Init, EditOK
<1> QED
  BY <1>1, <1>2, <1>3, <1>4, <1>5, <1>6, <1>7 DEF CoreInv

LEMMA SetupKeeps == CoreInv /\ Setup => CoreInv'
<1> SUFFICES ASSUME CoreInv, Setup PROVE CoreInv'
  OBVIOUS
<1>1. ~Booked(<<"opening">>) /\ drawer \in Int
  BY DEF CoreInv, UnreadyOK, Setup, Booked, ShortOK
<1>2. Posts({Row(<<"opening">>, drawer)})
  BY <1>1, InsertOne, PostOne DEF Setup
<1>3. \A d \in Docs : \A e \in {Row(<<"opening">>, drawer)} : ~Of(e.key, d)
  <2>1. Row(<<"opening">>, drawer).key = <<"opening">>
    BY DEF Row
  <2> QED
    BY <2>1, DeskKeys
<1>4. ShortOK'
  BY DEF CoreInv, ShortOK, Setup, register, papers, Settled
<1>5. DeskOK'
  BY <1>2, DeskFrame DEF Setup, desk
<1>6. cycle <= cycle'
  BY CashAssumption DEF CoreInv, ShortOK, Setup
<1> QED
  BY <1>2, <1>3, <1>4, <1>5, <1>6, StandingDeleted, PapersApart DEF Setup, papers

LEMMA SetAutoTrackingKeeps == CoreInv /\ SetAutoTracking => CoreInv'
<1> SUFFICES ASSUME CoreInv, SetAutoTracking PROVE CoreInv'
  OBVIOUS
<1>1. Posts({})
  BY PostNothing DEF SetAutoTracking
<1>2. ShortOK'
  BY DEF CoreInv, ShortOK, SetAutoTracking
<1>3. DeskOK'
  BY <1>1, DeskFrame DEF SetAutoTracking, desk
<1>4. cycle <= cycle'
  BY CashAssumption DEF CoreInv, ShortOK, SetAutoTracking
<1> QED
  BY <1>1, <1>2, <1>3, <1>4, StandingDeleted, PapersApart DEF SetAutoTracking

LEMMA ResetCycleKeeps == CoreInv /\ ResetCycle => CoreInv'
<1> SUFFICES ASSUME CoreInv, ResetCycle PROVE CoreInv'
  OBVIOUS
<1>1. Posts({})
  BY PostNothing DEF ResetCycle
<1>2. ShortOK'
  <2>1. cycle + 1 \in 0 .. MaxCycles
    BY CashAssumption DEF CoreInv, ShortOK, ResetCycle
  <2> QED
    BY <2>1 DEF CoreInv, ShortOK, ResetCycle, papers
<1>3. DeskOK'
  BY <1>1, DeskFrame DEF ResetCycle, desk
<1>4. cycle <= cycle'
  BY CashAssumption DEF CoreInv, ShortOK, ResetCycle
<1> QED
  BY <1>1, <1>2, <1>3, <1>4, StandingDeleted, PapersApart DEF ResetCycle, papers

\* A step that changes nothing but what clerks are at, and perhaps orders.
LEMMA NothingBooked ==
  ASSUME CoreInv, UNCHANGED <<register, entries, doc, fix, fixed, refunded, drawer, agreed>>,
         ShortOK', DeskOK',
         \A d \in Docs : d \in refunded /\ Standing(d) => order'[doc[d].order] = "deleted",
         \A o \in Orders : edit'[o] = "retired" => edit[o] = "retired"
  PROVE  CoreInv'
<1>1. Posts({})
  BY PostNothing
<1>2. cycle <= cycle'
  BY CashAssumption DEF CoreInv, ShortOK, register
<1> QED
  BY <1>1, <1>2, PapersApart DEF register

LEMMA AskKeeps == ASSUME CoreInv, NEW h \in Clerks, NEW r \in Requests, Ask(h, r) PROVE CoreInv'
<1>1. PICK ask \in IF asked[r] = Nothing THEN Asks ELSE {asked[r]} :
        /\ asked' = [asked EXCEPT ![r] = ask]
        /\ clerk' = [clerk EXCEPT ![h] = [at |-> "checked", request |-> r, seen |-> Balance(entries)]]
  BY DEF Ask
<1>2. ask \in AskType
  <2>1. CASE asked[r] = Nothing
    <3>1. ask \in Asks
      BY <1>1, <2>1
    <3> QED
      BY <3>1, CashAssumption DEF Asks, AskType
  <2>2. CASE asked[r] # Nothing
    BY <1>1, <2>2 DEF CoreInv, DeskOK
  <2> QED
    BY <2>1, <2>2
<1>3. Balance(entries) \in Int
  BY PostsBalance, PostNothing DEF Ask, register, CoreInv
<1> DEFINE w == [at |-> "checked", request |-> r, seen |-> Balance(entries)]
<1>4. w \in WorkType /\ w.at = "checked" /\ w.request = r
  BY <1>3 DEF WorkType
<1>5. clerk' = [clerk EXCEPT ![h] = w]
  BY <1>1
<1> HIDE DEF w
<1>6. /\ clerk' \in [Clerks -> WorkType \cup {Free}]
      /\ asked' \in [Requests -> AskType \cup {Nothing}]
      /\ asked'[r] \in AskType
      /\ \A s \in Requests : asked[s] \in AskType => asked'[s] \in AskType
  BY <1>1, <1>2, <1>4, <1>5 DEF CoreInv, DeskOK
<1>7. \A g \in Clerks : clerk'[g] = IF g = h THEN w ELSE clerk[g]
  BY <1>5 DEF CoreInv, DeskOK
<1>8. ASSUME NEW g \in Clerks, clerk'[g].at = "checked"
      PROVE  ready' /\ asked'[clerk'[g].request] \in AskType
  <2>1. CASE g = h
    BY <1>4, <1>6, <1>7, <2>1 DEF Ask, register
  <2>2. CASE g # h
    <3>1. clerk'[g] = clerk[g] /\ clerk[g] \in WorkType
      BY <1>7, <1>8, <2>2 DEF CoreInv, DeskOK, Free
    <3>2. clerk[g].request \in Requests
      BY <3>1 DEF WorkType
    <3> QED
      BY <1>6, <1>8, <3>1, <3>2 DEF CoreInv, DeskOK, Ask, register
  <2> QED
    BY <2>1, <2>2
<1>9. ASSUME NEW g \in Clerks, clerk'[g].at = "undoing"
      PROVE  Booked(<<"manual", clerk[g].request>>)'
  <2>1. g # h /\ clerk'[g] = clerk[g]
    BY <1>4, <1>7, <1>9
  <2>2. Booked(<<"manual", clerk[g].request>>)
    BY <1>9, <2>1 DEF CoreInv, DeskOK
  <2> QED
    BY <2>1, <2>2 DEF Ask, Booked
<1>10. DeskOK'
  <2> USE <1>6, <1>8, <1>9
  <2> QED
    BY DEF DeskOK
<1>11. ShortOK'
  BY DEF CoreInv, ShortOK, Ask, register, papers
<1> QED
  BY <1>10, <1>11, NothingBooked, StandingDeleted DEF Ask, papers

LEMMA AskUndoKeeps == ASSUME CoreInv, NEW h \in Clerks, NEW r \in Requests, AskUndo(h, r) PROVE CoreInv'
<1> DEFINE w == [at |-> "undoing", request |-> r]
<1>1. w \in WorkType /\ w.at = "undoing" /\ w.request = r
  BY DEF WorkType
<1>2. clerk' = [clerk EXCEPT ![h] = w]
  BY DEF AskUndo
<1> HIDE DEF w
<1>3. \A g \in Clerks : clerk'[g] = IF g = h THEN w ELSE clerk[g]
  BY <1>2 DEF CoreInv, DeskOK
<1>4. clerk' \in [Clerks -> WorkType \cup {Free}]
  BY <1>1, <1>2 DEF CoreInv, DeskOK
<1>5. DeskOK'
  BY <1>1, <1>3, <1>4 DEF CoreInv, DeskOK, AskUndo, register, Booked
<1>6. ShortOK'
  BY DEF CoreInv, ShortOK, AskUndo, register, papers
<1> QED
  BY <1>5, <1>6, NothingBooked, StandingDeleted DEF AskUndo, papers

LEMMA CrashKeeps == ASSUME CoreInv, NEW h \in Clerks, Crash(h) PROVE CoreInv'
<1>1. DeskOK'
  BY PostNothing, DeskFrame DEF Crash, register
<1>2. ShortOK'
  BY DEF CoreInv, ShortOK, Crash, register, papers
<1> QED
  BY <1>1, <1>2, NothingBooked, StandingDeleted DEF Crash, papers

LEMMA WriteKeeps == ASSUME CoreInv, NEW h \in Clerks, Write(h) PROVE CoreInv'
<1> DEFINE r == clerk[h].request
           change == Difference(asked[r], clerk[h].seen)
<1>1. /\ clerk[h] \in [at : {"checked"}, request : Requests, seen : Int]
      /\ asked[r] \in AskType /\ ready
  <2>1. clerk[h].at = "checked" /\ clerk[h] \in WorkType
    BY DEF CoreInv, DeskOK, Write, Free
  <2> QED
    BY <2>1 DEF CoreInv, DeskOK, WorkType
<1>2. change \in Int
  BY <1>1 DEF Difference, AskType
<1>3. entries' = Insert(entries, Key(r), change)
  BY DEF Write
<1>4. \A d \in Docs : ~Of(Key(r), d)
  BY DeskKeys DEF Key
<1>5. ShortOK'
  <2>1. CASE Booked(Key(r)) \/ asked[r].op = "count"
    BY <2>1 DEF CoreInv, ShortOK, Write, register, papers, Settled
  <2>2. CASE ~Booked(Key(r)) /\ asked[r].op # "count"
    <3>1. Moved(change, TRUE)
      BY <2>2 DEF Write
    <3>2. drawer' \in Int /\ agreed' \in BOOLEAN
      BY <3>1, MovedShort
    <3> QED
      BY <3>2 DEF CoreInv, ShortOK, Write, register, papers
  <2> QED
    BY <2>1, <2>2
<1>6. /\ clerk' = [clerk EXCEPT ![h] = Free] /\ asked' = asked
      /\ UNCHANGED <<register, papers>>
  BY DEF Write
<1> HIDE DEF r, change
<1>7. PICK new : Posts(new) /\ \A d \in Docs : \A e \in new : ~Of(e.key, d)
  <2>1. CASE Booked(Key(r))
    BY <1>3, <2>1, InsertOne, PostNothing
  <2>2. CASE ~Booked(Key(r))
    <3>1. Row(Key(r), change).key = Key(r)
      BY DEF Row
    <3>2. Posts({Row(Key(r), change)})
      BY <1>2, <1>3, <2>2, InsertOne, PostOne
    <3>3. \A d \in Docs : \A e \in {Row(Key(r), change)} : ~Of(e.key, d)
      BY <1>4, <3>1
    <3> QED
      BY <3>2, <3>3
  <2> QED
    BY <2>1, <2>2
<1>8. DeskOK'
  BY <1>6, <1>7, DeskFrame DEF register
<1>9. cycle <= cycle'
  BY <1>6, CashAssumption DEF CoreInv, ShortOK, register
<1> QED
  BY <1>1, <1>5, <1>6, <1>7, <1>8, <1>9, StandingDeleted, PapersApart DEF register, papers

LEMMA WriteUndoKeeps == ASSUME CoreInv, NEW h \in Clerks, WriteUndo(h) PROVE CoreInv'
<1> DEFINE r == clerk[h].request
           key == <<"manual-reversal", r>>
           change == -Entry(<<"manual", r>>).amount
<1>1. Booked(<<"manual", r>>)
  BY DEF CoreInv, DeskOK, WriteUndo
<1>2. change \in Int
  BY <1>1 DEF Booked, Entry, CoreInv, EntriesOK
<1>3. entries' = Insert(entries, key, change)
  BY DEF WriteUndo
<1>4. \A d \in Docs : ~Of(key, d)
  BY DeskKeys
<1>5. ShortOK'
  <2>1. CASE Undone(r)
    BY <2>1 DEF CoreInv, ShortOK, WriteUndo, register, papers
  <2>2. CASE ~Undone(r)
    <3>1. Moved(change, TRUE)
      BY <2>2 DEF WriteUndo
    <3>2. drawer' \in Int /\ agreed' \in BOOLEAN
      BY <3>1, MovedShort
    <3> QED
      BY <3>2 DEF CoreInv, ShortOK, WriteUndo, register, papers
  <2> QED
    BY <2>1, <2>2
<1>6. /\ clerk' = [clerk EXCEPT ![h] = Free] /\ asked' = asked
      /\ UNCHANGED <<register, papers>>
  BY DEF WriteUndo
<1>7. ready
  BY <1>1 DEF CoreInv, UnreadyOK, Booked
<1> HIDE DEF r, key, change
<1>8. PICK new : Posts(new) /\ \A d \in Docs : \A e \in new : ~Of(e.key, d)
  <2>1. CASE Booked(key)
    BY <1>3, <2>1, InsertOne, PostNothing
  <2>2. CASE ~Booked(key)
    <3>1. Row(key, change).key = key
      BY DEF Row
    <3>2. Posts({Row(key, change)})
      BY <1>2, <1>3, <2>2, InsertOne, PostOne
    <3>3. \A d \in Docs : \A e \in {Row(key, change)} : ~Of(e.key, d)
      BY <1>4, <3>1
    <3> QED
      BY <3>2, <3>3
  <2> QED
    BY <2>1, <2>2
<1>9. DeskOK'
  BY <1>6, <1>8, DeskFrame DEF register
<1>10. cycle <= cycle'
  BY <1>6, CashAssumption DEF CoreInv, ShortOK, register
<1> QED
  BY <1>5, <1>6, <1>7, <1>8, <1>9, <1>10, StandingDeleted, PapersApart DEF register, papers
-----------------------------------------------------------------------------
(* Orders and documents *)

LEMMA CreateOrderKeeps == ASSUME CoreInv, NEW o \in Orders, CreateOrder(o) PROVE CoreInv'
<1>1. ShortOK'
  BY DEF CoreInv, ShortOK, CreateOrder, register
<1>2. DeskOK'
  BY PostNothing, DeskFrame DEF CreateOrder, register, desk
<1>3. ASSUME NEW d \in Docs, d \in refunded, Standing(d)
      PROVE  order'[doc[d].order] = "deleted"
  <2>1. doc[d].order \in Orders /\ order[doc[d].order] = "deleted"
    BY <1>3, StandingDeleted, StandingRow DEF Standing, Nothing, RowType
  <2> QED
    BY <2>1 DEF CreateOrder, CoreInv, ShortOK
<1> QED
  BY <1>1, <1>2, <1>3, NothingBooked DEF CreateOrder

LEMMA PlanEditKeeps == ASSUME CoreInv, NEW o \in Orders, PlanEdit(o) PROVE CoreInv'
<1>1. ShortOK' /\ \A p \in Orders : edit'[p] = "retired" => edit[p] = "retired"
  BY DEF CoreInv, ShortOK, PlanEdit, register
<1>2. DeskOK'
  BY PostNothing, DeskFrame DEF PlanEdit, register, desk
<1> QED
  BY <1>1, <1>2, NothingBooked, StandingDeleted DEF PlanEdit

LEMMA UpdateOrderKeeps == ASSUME CoreInv, NEW o \in Orders, UpdateOrder(o) PROVE CoreInv'
<1>1. ShortOK' /\ \A p \in Orders : edit'[p] = "retired" => edit[p] = "retired"
  BY DEF CoreInv, ShortOK, UpdateOrder, register
<1>2. DeskOK'
  BY PostNothing, DeskFrame DEF UpdateOrder, register, desk
<1>3. ASSUME NEW d \in Docs, d \in refunded, Standing(d)
      PROVE  order'[doc[d].order] = "deleted"
  <2>1. doc[d].order \in Orders /\ order[doc[d].order] = "deleted"
    BY <1>3, StandingDeleted, StandingRow DEF Standing, Nothing, RowType
  <2>2. doc[d].order # o
    BY <1>3 DEF CoreInv, EditOK, OfOrder, UpdateOrder, ShortOK
  <2> QED
    BY <2>1, <2>2 DEF UpdateOrder, CoreInv, ShortOK
<1> QED
  BY <1>1, <1>2, <1>3, NothingBooked DEF UpdateOrder

LEMMA PlanCorrectionKeeps ==
  ASSUME CoreInv, NEW d \in Docs, NEW route \in Routes, NEW amount \in CorrectAmounts, NEW cash \in BOOLEAN,
         PlanCorrection(d, route, amount, cash)
  PROVE  CoreInv'
<1> DEFINE old == IF TrackedBy(route, d) THEN Worth(d, doc[d].amount, doc[d].cash) ELSE 0
           new == IF TrackedBy(route, d) \/ Eligible(d, doc[d].kind, doc[d].order)
                  THEN Worth(d, amount, cash) ELSE 0
           plan == [at |-> "planned", route |-> route, amount |-> amount, cash |-> cash,
                    change |-> new - old]
<1>1. doc[d] \in RowType /\ doc[d] # Nothing
  BY StandingRow DEF PlanCorrection, Standing, Nothing
<1>2. amount \in Nat \ {0}
  BY CashAssumption
<1>3. old \in Int /\ new \in Int
  BY <1>1, <1>2 DEF Worth, RowType
<1>5. fix' = [fix EXCEPT ![d] = plan]
  BY DEF PlanCorrection
<1>6. ~ready => new - old = 0
  BY DEF CoreInv, UnreadyOK, TrackedBy, Booked, Eligible, ShortOK
<1>7. plan \in PlanType /\ plan.change = new - old
  <2> HIDE DEF new, old
  <2> QED
    BY <1>2, <1>3 DEF PlanType
<1>8. fixed[d] < MaxFixes
  BY DEF PlanCorrection
<1>9. UNCHANGED <<register, entries, recent, order, edit, doc, fixed, refunded, desk, drawer, agreed>>
  BY DEF PlanCorrection
<1> HIDE DEF new, old, plan
<1>10. \A e \in Docs : fix'[e] = IF e = d THEN plan ELSE fix[e]
  BY <1>5 DEF CoreInv, RowsOK
<1>11. RowsOK'
  BY <1>5, <1>7, <1>9 DEF CoreInv, RowsOK, Standing
<1>12. ASSUME NEW e \in Docs
       PROVE  DocOK(e)'
  <2>1. DocOK(e)
    BY DEF CoreInv
  <2>2. fix'[e] # Nothing => fixed'[e] < MaxFixes /\ doc'[e] # Nothing
    BY <1>1, <1>8, <1>9, <1>10, <2>1 DEF DocOK
  <2> QED
    BY <1>9, <2>1, <2>2 DEF DocOK, Booked, Base, Undo, Standing, Worth
<1>13. UnreadyOK'
  BY <1>6, <1>7, <1>9, <1>10 DEF CoreInv, UnreadyOK, register
<1>14. ShortOK' /\ EntriesOK' /\ DeskOK'
  BY <1>9 DEF CoreInv, ShortOK, EntriesOK, DeskOK, register, desk, Booked
<1>15. \A o \in Orders : EditOK(o)'
  BY <1>9, OrdersFrame
<1> QED
  BY <1>11, <1>12, <1>13, <1>14, <1>15, CoreFrom

\* The documents a step is not about.
LEMMA OthersFrame ==
  ASSUME CoreInv, NEW ds, NEW new, Posts(new), \A d \in Docs \ ds : \A e \in new : ~Of(e.key, d),
         \A d \in Docs \ ds : doc'[d] = doc[d] /\ fix'[d] = fix[d] /\ fixed'[d] = fixed[d]
                              /\ (d \in refunded' <=> d \in refunded),
         \A o \in Orders : order[o] = "deleted" => order'[o] = "deleted"
  PROVE  \A d \in Docs \ ds : DocOK(d)'
<1> TAKE d \in Docs \ ds
<1>1. DocOK(d)
  BY DEF CoreInv
<1>2. d \in refunded /\ Standing(d) => order'[doc[d].order] = "deleted"
  BY StandingDeleted, StandingRow DEF Standing, Nothing, RowType
<1> QED
  BY <1>1, <1>2, DocFrame

\* A new row is written, and booked if it is money the register follows.
LEMMA NewRowKeeps ==
  ASSUME CoreInv, NEW d \in Docs, NEW o \in Orders, NEW kind \in AllKinds \cup {"refund"}, NEW paid,
         NewRow(d, o, kind, paid), edit'[o] # "retired",
         edit' \in [Orders -> {"none", "planned", "retired", "updated"}],
         \A p \in Orders : edit'[p] = "retired" => edit[p] = "retired",
         UNCHANGED <<register, recent, order, fix, fixed, refunded, desk>>
  PROVE  CoreInv'
<1>1. PICK amount \in Amounts, cash \in BOOLEAN :
        /\ doc[d].at = "none"
        /\ doc' = [doc EXCEPT ![d] = [at |-> "stands", order |-> o, kind |-> kind,
                                      amount |-> amount, cash |-> cash, copy |-> cash]]
        /\ entries' = IF cash /\ Eligible(d, kind, o)
                      THEN Insert(entries, Base(d), Worth(d, amount, cash)) ELSE entries
        /\ Moved(IF paid THEN Worth(d, amount, cash) ELSE 0, Eligible(d, kind, o))
  BY DEF NewRow
<1> DEFINE row == [at |-> "stands", order |-> o, kind |-> kind, amount |-> amount, cash |-> cash, copy |-> cash]
           w == Worth(d, amount, cash)
<1>2. doc[d] = Nothing /\ DocOK(d)
  BY <1>1, StandingRow DEF RowType, CoreInv
<1>3. amount \in Nat \ {0}
  BY CashAssumption
<1>4. row \in RowType /\ row.at = "stands" /\ row.order = o /\ row.amount = amount /\ row.cash = cash
  BY <1>3 DEF RowType
<1>5. w \in Int
  BY <1>3 DEF Worth
<1>6. doc' = [doc EXCEPT ![d] = row]
  BY <1>1
<1>7. w = Worth(d, row.amount, row.cash)
  BY <1>4
<1>8. drawer' \in Int /\ agreed' \in BOOLEAN
  BY <1>1, MovedShort
<1>9. entries' = entries \/ (ready /\ entries' = entries \cup {Row(Base(d), w)})
  BY <1>1, <1>2, InsertOne DEF Eligible, CoreInv, ShortOK, DocOK
<1> HIDE DEF row, w
<1>10. row # Nothing
  BY <1>4 DEF Nothing
<1>11. \A e \in Docs : doc'[e] = IF e = d THEN row ELSE doc[e]
  BY <1>6 DEF CoreInv, RowsOK
<1>12. PICK new : /\ Posts(new) /\ \A e \in new : e = Row(Base(d), w)
                  /\ new # {} => ready
  <2>1. CASE entries' = entries
    BY <2>1, PostNothing
  <2>2. CASE ready /\ entries' = entries \cup {Row(Base(d), w)}
    <3>1. Posts({Row(Base(d), w)})
      BY <1>2, <1>5, <2>2, PostOne DEF DocOK
    <3> QED
      BY <2>2, <3>1
  <2> QED
    BY <1>9, <2>1, <2>2
<1>13. \A e \in new : e.key = Base(d) /\ e.amount = w
  BY <1>12 DEF Row
<1>14. RowsOK'
  <2>1. {e \in Docs : Standing(e)'} = {e \in Docs : Standing(e)} \cup {d}
    BY <1>4, <1>11 DEF Standing
  <2>2. IsFiniteSet({e \in Docs : Standing(e)'})
    BY <2>1, FS_AddElement DEF CoreInv, RowsOK
  <2> QED
    BY <1>4, <1>6, <2>2 DEF CoreInv, RowsOK
<1>15. DocOK(d)'
  <2>1. /\ fix'[d] = Nothing /\ fixed'[d] = 0 /\ d \notin refunded' /\ doc'[d] = row
        /\ ~Booked(Base(d)) /\ ~Booked(Undo(d)) /\ ~Booked(<<"order-cancel", d>>)
        /\ \A route \in Routes, n \in Nat : ~Booked(<<"correction", route, d, n>>)
    BY <1>2, <1>11 DEF DocOK, Nothing
  <2>2. /\ ~Booked(Undo(d))' /\ ~Booked(<<"order-cancel", d>>)'
        /\ \A route \in Routes, n \in Nat : ~Booked(<<"correction", route, d, n>>)'
    BY <1>12, <1>13, <2>1, BookedAfter, KeysApart
  <2>3. \A e \in entries' : e.key = Base(d) => e.amount = w
    BY <1>12, <1>13, <2>1 DEF Posts, Booked
  <2> QED
    BY <1>7, <1>10, <2>1, <2>2, <2>3 DEF DocOK, Base, Undo, Worth
<1>16. \A e \in Docs \ {d} : DocOK(e)'
  <2>1. \A e \in Docs \ {d} : \A x \in new : ~Of(x.key, e)
    BY <1>13, KeysApart DEF Of
  <2> QED
    BY <1>11, <1>12, <2>1, OthersFrame
<1>17. EntriesOK' /\ DeskOK' /\ UnreadyOK'
  BY <1>12, PostsKeepEntries, DeskFrame, UnreadyFrame, CashAssumption
     DEF CoreInv, ShortOK, register, desk
<1>18. ShortOK'
  BY <1>8 DEF CoreInv, ShortOK, register
<1>19. \A p \in Orders : EditOK(p)'
  BY <1>4, <1>11 DEF CoreInv, EditOK, OfOrder, Standing
<1> QED
  BY <1>14, <1>15, <1>16, <1>17, <1>18, <1>19, CoreFrom
LEMMA AddPaymentKeeps ==
  ASSUME CoreInv, NEW d \in Docs, NEW o \in Orders, NEW kind \in Kinds, AddPayment(d, o, kind)
  PROVE  CoreInv'
BY NewRowKeeps, CashAssumption DEF AddPayment, CoreInv, ShortOK

LEMMA AddReturnKeeps ==
  ASSUME CoreInv, NEW d \in Docs, NEW o \in Orders, AddReturn(d, o)
  PROVE  CoreInv'
BY NewRowKeeps DEF AddReturn, CoreInv, ShortOK

LEMMA WritePaymentKeeps ==
  ASSUME CoreInv, NEW d \in Docs, NEW o \in Orders, NEW kind \in Kinds, WritePayment(o, d, kind)
  PROVE  CoreInv'
<1>1. /\ edit' \in [Orders -> {"none", "planned", "retired", "updated"}] /\ edit'[o] # "retired"
      /\ \A p \in Orders : edit'[p] = "retired" => edit[p] = "retired"
  BY DEF WritePayment, CoreInv, ShortOK
<1> QED
  BY <1>1, NewRowKeeps, CashAssumption DEF WritePayment

\* The image of a finite set.
LEMMA ImageFinite ==
  ASSUME NEW S, IsFiniteSet(S), NEW f
  PROVE  IsFiniteSet({f[x] : x \in S})
<1> DEFINE g == [x \in S |-> f[x]]
<1>1. g \in Surjection(S, {f[x] : x \in S})
  BY DEF Surjection
<1> QED
  BY <1>1, FS_Surjection

\* The rows by which a set of documents is taken out of the register.
UndoRow(d) == Row(Undo(d), -Entry(Base(d)).amount)
TakenBack(ds) == {d \in ds : TakesBack(d) /\ ~Booked(Undo(d))}
Reversals(ds) == {UndoRow(d) : d \in TakenBack(ds)}

LEMMA ReversalsPosted ==
  ASSUME CoreInv, NEW ds \in SUBSET {d \in Docs : Standing(d)}, entries' = Reverse(entries, ds)
  PROVE  /\ Posts(Reversals(ds)) /\ IsFiniteSet(TakenBack(ds))
         /\ \A d \in TakenBack(ds) :
              UndoRow(d).key = Undo(d) /\ UndoRow(d).amount = -Entry(Base(d)).amount
              /\ Entry(Base(d)) \in entries /\ Entry(Base(d)).key = Base(d)
         /\ Reversals(ds) # {} => ready
<1>1. Reverse(entries, ds) = entries \cup Reversals(ds)
  BY DEF Reverse, Reversals, TakenBack, UndoRow, Row
<1>2. \A d \in TakenBack(ds) :
        /\ UndoRow(d).key = Undo(d) /\ UndoRow(d).amount = -Entry(Base(d)).amount
        /\ UndoRow(d).cycle = cycle
        /\ Entry(Base(d)) \in entries /\ Entry(Base(d)).key = Base(d)
        /\ ~Booked(Undo(d))
  <2> TAKE d \in TakenBack(ds)
  <2>1. Booked(Base(d)) /\ ~Booked(Undo(d))
    BY DEF TakenBack, TakesBack
  <2>2. Entry(Base(d)) \in entries /\ Entry(Base(d)).key = Base(d)
    BY <2>1 DEF Booked, Entry
  <2> QED
    BY <2>1, <2>2 DEF UndoRow, Row
<1>3. IsFiniteSet(TakenBack(ds))
  BY FS_Subset DEF TakenBack, CoreInv, RowsOK
<1>4. IsFiniteSet(Reversals(ds))
  <2> DEFINE f == [d \in TakenBack(ds) |-> UndoRow(d)]
  <2>1. Reversals(ds) = {f[d] : d \in TakenBack(ds)}
    BY DEF Reversals
  <2> HIDE DEF f
  <2> QED
    BY <1>3, <2>1, ImageFinite
<1>5. \A e \in Reversals(ds) : e.amount \in Int /\ e.cycle = cycle /\ ~Booked(e.key)
  BY <1>2 DEF Reversals, CoreInv, EntriesOK
<1>6. \A e, f \in Reversals(ds) : e.key = f.key => e = f
  BY <1>2, KeysApart DEF Reversals, Of
<1>7. Reversals(ds) # {} => ready
  BY <1>2 DEF Reversals, CoreInv, UnreadyOK
<1> QED
  BY <1>1, <1>2, <1>3, <1>4, <1>5, <1>6, <1>7 DEF Posts

\* Documents that stand are cancelled, deleted or replaced.
LEMMA GoneKeeps ==
  ASSUME CoreInv, NEW ds \in SUBSET {d \in Docs : Standing(d)},
         entries' = Reverse(entries, ds), doc' = Gone(ds), ShortOK',
         UNCHANGED <<register, recent, order, fix, fixed, refunded, desk>>,
         \A p \in Orders : edit'[p] = "retired" /\ edit[p] # "retired" =>
            \A d \in OfOrder(p) \ ds : d \notin Payments
  PROVE  CoreInv'
<1> DEFINE new == Reversals(ds)
<1>1. /\ Posts(new)
      /\ new # {} => ready
      /\ \A e \in new : \E d \in ds : e.key = Undo(d)
  BY ReversalsPosted DEF Reversals, TakenBack
<1> HIDE DEF new
<1>2. \A d \in ds : doc[d] \in RowType /\ doc[d].at = "stands" /\ doc[d] # Nothing
  BY StandingRow DEF Standing, Nothing
<1>3. \A d \in ds :
        /\ doc'[d] \in RowType /\ doc'[d].at = "gone" /\ doc'[d].order = doc[d].order
        /\ doc'[d].amount = doc[d].amount /\ doc'[d].cash = doc[d].cash
  BY <1>2 DEF Gone, RowType
<1>4. \A d \in Docs \ ds : doc'[d] = doc[d]
  BY DEF Gone
<1>5. RowsOK'
  <2>1. \A d \in Docs : doc'[d] \in RowType \cup {Nothing}
    BY <1>3, <1>4 DEF CoreInv, RowsOK
  <2>2. doc' \in [Docs -> RowType \cup {Nothing}]
    BY <2>1 DEF Gone
  <2>3. {d \in Docs : Standing(d)'} \subseteq {d \in Docs : Standing(d)}
    BY <1>3, <1>4 DEF Standing
  <2>4. IsFiniteSet({d \in Docs : Standing(d)'})
    BY <2>3, FS_Subset DEF CoreInv, RowsOK
  <2> QED
    BY <2>2, <2>4 DEF CoreInv, RowsOK
<1>6. ASSUME NEW d \in ds
      PROVE  DocOK(d)'
  <2>1. DocOK(d)
    BY DEF CoreInv
  <2>2. \A e \in new : e.key # Base(d) /\ e.key # <<"order-cancel", d>>
                       /\ \A route \in Routes, n \in Nat : e.key # <<"correction", route, d, n>>
    BY <1>1, KeysApart DEF Of
  <2>3. /\ Booked(<<"order-cancel", d>>)' <=> Booked(<<"order-cancel", d>>)
        /\ \A route \in Routes, n \in Nat : Booked(<<"correction", route, d, n>>)' <=> Booked(<<"correction", route, d, n>>)
        /\ Booked(Base(d))' <=> Booked(Base(d))
        /\ \A e \in entries' : e.key = Base(d) => e \in entries
    BY <1>1, <2>2 DEF Posts, Booked, Base
  <2>4. doc'[d] # Nothing /\ ~Standing(d)' /\ doc'[d].at = "gone"
    BY <1>3 DEF Standing, Nothing
  <2>5. Worth(d, doc'[d].amount, doc'[d].cash) = Worth(d, doc[d].amount, doc[d].cash)
    BY <1>3
  <2>6. \A e \in entries' :
          e.key = Base(d) /\ fixed'[d] = 0 => e.amount = Worth(d, doc'[d].amount, doc'[d].cash)
    BY <2>1, <2>3, <2>5 DEF DocOK
  <2> QED
    BY <2>1, <2>3, <2>4, <2>6 DEF DocOK, Base, Undo, Worth
<1>7. \A d \in Docs \ ds : DocOK(d)'
  <2>1. \A d \in Docs \ ds : \A e \in new : ~Of(e.key, d)
    BY <1>1, KeysApart DEF Of
  <2> QED
    BY <1>1, <1>4, <2>1, OthersFrame
<1>8. EntriesOK' /\ DeskOK' /\ UnreadyOK'
  BY <1>1, PostsKeepEntries, DeskFrame, UnreadyFrame, CashAssumption
     DEF CoreInv, ShortOK, register, desk
<1>9. \A p \in Orders : EditOK(p)'
  BY <1>3, <1>4 DEF CoreInv, EditOK, OfOrder, Standing
<1> QED
  BY <1>5, <1>6, <1>7, <1>8, <1>9, CoreFrom

LEMMA CancelDocKeeps == ASSUME CoreInv, NEW d \in Docs, CancelDoc(d) PROVE CoreInv'
<1>1. drawer' \in Int /\ agreed' \in BOOLEAN
  BY MovedShort DEF CancelDoc
<1>2. ShortOK'
  BY <1>1 DEF CoreInv, ShortOK, CancelDoc, register
<1> QED
  BY <1>2, GoneKeeps DEF CancelDoc

LEMMA RetirePaymentsKeeps == ASSUME CoreInv, NEW o \in Orders, RetirePayments(o) PROVE CoreInv'
<1> DEFINE old == {d \in OfOrder(o) : d \in Payments}
<1>1. ShortOK'
  BY DEF CoreInv, ShortOK, RetirePayments, register
<1>2. old \in SUBSET {d \in Docs : Standing(d)}
  BY DEF OfOrder
<1>3. entries' = Reverse(entries, old) /\ doc' = Gone(old)
  BY DEF RetirePayments
<1>4. \A p \in Orders : edit'[p] = "retired" /\ edit[p] # "retired" =>
         \A d \in OfOrder(p) \ old : d \notin Payments
  BY DEF RetirePayments, CoreInv, ShortOK
<1> HIDE DEF old
<1> QED
  BY <1>1, <1>2, <1>3, <1>4, GoneKeeps DEF RetirePayments

\* The rows by which the payments of a deleted order are paid back.
RefundRow(d) == Row(<<"order-cancel", d>>, -doc[d].amount)
Refunds(o) == {RefundRow(d) : d \in PaysBack(o)}

LEMMA RefundsPosted ==
  ASSUME CoreInv, NEW o \in Orders, entries' = entries \cup Refunds(o), auto
  PROVE  /\ Posts(Refunds(o)) /\ IsFiniteSet(PaysBack(o))
         /\ \A d \in PaysBack(o) :
              /\ RefundRow(d).key = <<"order-cancel", d>> /\ RefundRow(d).amount = -doc[d].amount
              /\ doc[d] \in RowType
<1>1. \A d \in PaysBack(o) :
        /\ RefundRow(d).key = <<"order-cancel", d>> /\ RefundRow(d).amount = -doc[d].amount
        /\ RefundRow(d).cycle = cycle /\ doc[d] \in RowType /\ ~Booked(<<"order-cancel", d>>)
  <2> TAKE d \in PaysBack(o)
  <2>1. d \in Docs /\ doc[d] # Nothing /\ ~Booked(<<"order-cancel", d>>)
    BY DEF PaysBack, CashOfOrder, OfOrder, Standing, Nothing
  <2> QED
    BY <2>1, StandingRow DEF RefundRow, Row
<1>2. IsFiniteSet(PaysBack(o))
  <2>1. PaysBack(o) \in SUBSET {d \in Docs : Standing(d)}
    BY DEF PaysBack, CashOfOrder, OfOrder
  <2> QED
    BY <2>1, FS_Subset DEF CoreInv, RowsOK
<1>3. IsFiniteSet(Refunds(o))
  <2> DEFINE f == [d \in PaysBack(o) |-> RefundRow(d)]
  <2>1. Refunds(o) = {f[d] : d \in PaysBack(o)}
    BY DEF Refunds
  <2> HIDE DEF f
  <2> QED
    BY <1>2, <2>1, ImageFinite
<1>4. \A e \in Refunds(o) : e.amount \in Int /\ e.cycle = cycle /\ ~Booked(e.key)
  <2>1. \A d \in PaysBack(o) : doc[d].amount \in Nat
    BY <1>1 DEF RowType
  <2>2. ASSUME NEW d \in PaysBack(o)
        PROVE  RefundRow(d).amount \in Int
    <3>1. RefundRow(d).amount = -doc[d].amount
      BY <1>1
    <3>2. doc[d].amount \in Nat
      BY <2>1
    <3> QED
      BY <3>1, <3>2
  <2> QED
    BY <1>1, <2>2 DEF Refunds
<1>5. \A e, f \in Refunds(o) : e.key = f.key => e = f
  <2>1. \A c, d : <<"order-cancel", c>> = <<"order-cancel", d>> => c = d
    OBVIOUS
  <2>2. ASSUME NEW e \in Refunds(o), NEW f \in Refunds(o), e.key = f.key
        PROVE  e = f
    <3>1. PICK c \in PaysBack(o) : e = RefundRow(c)
      BY DEF Refunds
    <3>2. PICK d \in PaysBack(o) : f = RefundRow(d)
      BY DEF Refunds
    <3>3. e.key = <<"order-cancel", c>> /\ f.key = <<"order-cancel", d>>
      BY <1>1, <3>1, <3>2
    <3>4. c = d
      BY <2>1, <2>2, <3>3
    <3> QED
      BY <3>1, <3>2, <3>4
  <2> QED
    BY <2>2
<1> QED
  BY <1>1, <1>2, <1>3, <1>4, <1>5 DEF Posts

LEMMA DeleteOrderKeeps == ASSUME CoreInv, NEW o \in Orders, DeleteOrder(o) PROVE CoreInv'
<1> DEFINE new == IF auto THEN Refunds(o) ELSE {}
           ds == IF auto THEN CashOfOrder(o) ELSE {}
<1>1. drawer' \in Int /\ agreed' \in BOOLEAN
  BY MovedShort DEF DeleteOrder
<1>2. entries' = entries \cup new /\ refunded' = refunded \cup ds
  BY DEF DeleteOrder, Refunds, RefundRow, Row
<1>3. /\ Posts(new)
      /\ new # {} => ready
      /\ \A e \in new : \E d \in ds : e.key = <<"order-cancel", d>>
  <2>1. CASE auto
    BY <1>2, <2>1, RefundsPosted DEF Refunds, PaysBack, CoreInv, ShortOK
  <2>2. CASE ~auto
    BY <1>2, <2>2, PostNothing
  <2> QED
    BY <2>1, <2>2
<1>4. /\ ds \subseteq Payments /\ ds \subseteq Docs
      /\ \A d \in ds : Standing(d) /\ doc[d].order = o /\ (~Booked(Undo(d)))
  BY DEF CashOfOrder, OfOrder, Docs, Standing, CoreInv, DocOK
<1>5. \A d \in ds : Booked(<<"order-cancel", d>>)'
  <2> TAKE d \in ds
  <2>1. CASE Booked(<<"order-cancel", d>>)
    BY <1>3, <2>1, BookedAfter
  <2>2. CASE ~Booked(<<"order-cancel", d>>)
    <3>1. auto /\ d \in PaysBack(o)
      BY <1>4, <2>2 DEF PaysBack
    <3>2. RefundRow(d) \in entries' /\ RefundRow(d).key = <<"order-cancel", d>>
      BY <1>2, <3>1 DEF Refunds, RefundRow, Row
    <3> QED
      BY <3>2 DEF Booked
  <2> QED
    BY <2>1, <2>2
<1>6. ShortOK'
  BY <1>1, <1>2, <1>4 DEF CoreInv, ShortOK, DeleteOrder, register
<1>7. UNCHANGED <<register, recent, edit, doc, fix, fixed, desk>> /\ order' = [order EXCEPT ![o] = "deleted"]
  BY DEF DeleteOrder
<1> HIDE DEF new, ds
<1>8. \A p \in Orders : order'[p] = IF p = o THEN "deleted" ELSE order[p]
  BY <1>7 DEF CoreInv, ShortOK
<1>9. o \in Orders
  OBVIOUS
<1>10. ASSUME NEW d \in ds
       PROVE  DocOK(d)'
  <2>1. DocOK(d) /\ doc[d] # Nothing
    BY <1>4 DEF CoreInv, Standing, Nothing
  <2>2. \A e \in new : e.key # Base(d) /\ e.key # Undo(d)
                       /\ \A route \in Routes, n \in Nat : e.key # <<"correction", route, d, n>>
    BY <1>3, KeysApart DEF Of
  <2>3. /\ Booked(Undo(d))' <=> Booked(Undo(d))
        /\ \A route \in Routes, n \in Nat : Booked(<<"correction", route, d, n>>)' <=> Booked(<<"correction", route, d, n>>)
        /\ \A e \in entries' : e.key = Base(d) => e \in entries
    BY <1>3, <2>2 DEF Posts, Booked, Undo
  <2>4. Booked(<<"order-cancel", d>>)' /\ d \in refunded' /\ order'[doc'[d].order] = "deleted"
    BY <1>2, <1>4, <1>5, <1>7, <1>8, <1>9
  <2>5. \A e \in entries' :
          e.key = Base(d) /\ fixed'[d] = 0 => e.amount = Worth(d, doc'[d].amount, doc'[d].cash)
    BY <1>7, <2>1, <2>3 DEF DocOK
  <2> QED
    BY <1>7, <2>1, <2>3, <2>4, <2>5 DEF DocOK, Base, Undo, Worth
<1>11. \A d \in Docs \ ds : DocOK(d)'
  <2>1. \A d \in Docs \ ds : \A e \in new : ~Of(e.key, d)
    BY <1>3, KeysApart DEF Of
  <2> QED
    BY <1>2, <1>3, <1>7, <1>8, <2>1, OthersFrame
<1>12. EntriesOK' /\ DeskOK' /\ UnreadyOK'
  BY <1>3, <1>7, PostsKeepEntries, DeskFrame, UnreadyFrame, CashAssumption
     DEF CoreInv, ShortOK, register, desk
<1>13. RowsOK' /\ \A p \in Orders : EditOK(p)'
  BY <1>7, OrdersFrame DEF CoreInv, RowsOK, Standing
<1> QED
  BY <1>6, <1>10, <1>11, <1>12, <1>13, CoreFrom
LEMMA ApplyCorrectionKeeps == ASSUME CoreInv, NEW d \in Docs, ApplyCorrection(d) PROVE CoreInv'
<1> DEFINE plan == fix[d]
           key == <<"correction", fix[d].route, d, fixed[d] + 1>>
           paid == Worth(d, plan.amount, plan.cash) - Worth(d, doc[d].amount, doc[d].cash)
<1>1. plan \in PlanType /\ plan # Nothing
  BY DEF CoreInv, RowsOK, ApplyCorrection, Nothing
<1>2. DocOK(d) /\ fixed[d] \in Nat /\ fixed[d] < MaxFixes /\ fixed[d] + 1 \in 0 .. MaxFixes
  BY <1>1, CashAssumption DEF CoreInv, RowsOK, DocOK
<1>3. doc[d] \in RowType
  BY <1>1, <1>2, StandingRow DEF DocOK
<1>4. drawer' \in Int /\ agreed' \in BOOLEAN
  <2>1. drawer' \in -MaxDrawer .. MaxDrawer /\ agreed' = (agreed /\ plan.change = paid)
    BY DEF ApplyCorrection
  <2>2. drawer' \in Int
    BY <2>1, CashAssumption
  <2>3. agreed' \in BOOLEAN
    BY <2>1
  <2> QED
    BY <2>2, <2>3
<1>5. ~Booked(key)
  BY <1>1, <1>2 DEF DocOK, PlanType
<1>6. PICK new : /\ Posts(new)
                 /\ \A e \in new : e = Row(key, plan.change)
                 /\ new # {} => ready
                 /\ new = IF plan.change = 0 THEN {} ELSE {Row(key, plan.change)}
  <2>1. CASE plan.change = 0
    BY <2>1, PostNothing DEF ApplyCorrection
  <2>2. CASE plan.change # 0
    <3>1. plan.change \in Int
      BY <1>1 DEF PlanType
    <3>2. entries' = entries \cup {Row(key, plan.change)}
      BY <1>5, <2>2, InsertOne DEF ApplyCorrection
    <3>3. Posts({Row(key, plan.change)})
      BY <1>5, <3>1, <3>2, PostOne
    <3>4. ready
      BY <1>1, <2>2 DEF CoreInv, UnreadyOK, ShortOK
    <3> QED
      BY <2>2, <3>3, <3>4
  <2> QED
    BY <2>1, <2>2
<1>7. \A e \in new : e.key = key
  BY <1>6 DEF Row
<1>8. /\ doc' = IF Standing(d)
                THEN [doc EXCEPT ![d].amount = plan.amount, ![d].cash = plan.cash,
                                 ![d].copy = IF plan.route = "exchange" THEN plan.cash ELSE @]
                ELSE doc
      /\ fixed' = [fixed EXCEPT ![d] = @ + 1]
      /\ fix' = [fix EXCEPT ![d] = Nothing]
      /\ UNCHANGED <<register, recent, order, edit, refunded, desk>>
  BY DEF ApplyCorrection
<1>9. /\ doc'[d] \in RowType /\ doc'[d].at = doc[d].at /\ doc'[d].order = doc[d].order
      /\ \A e \in Docs \ {d} : doc'[e] = doc[e]
      /\ doc' \in [Docs -> RowType \cup {Nothing}]
  <2> DEFINE row == [doc[d] EXCEPT !.amount = plan.amount, !.cash = plan.cash,
                                !.copy = IF plan.route = "exchange" THEN plan.cash ELSE @]
  <2>1. row \in RowType /\ row.at = doc[d].at /\ row.order = doc[d].order
    BY <1>1, <1>3 DEF RowType, PlanType
  <2>2. doc' = IF Standing(d) THEN [doc EXCEPT ![d] = row] ELSE doc
    BY <1>3, <1>8 DEF CoreInv, RowsOK, RowType
  <2> HIDE DEF row
  <2> QED
    BY <1>3, <2>1, <2>2 DEF CoreInv, RowsOK
<1> HIDE DEF plan, key, paid
<1>10. /\ fixed'[d] = fixed[d] + 1 /\ fix'[d] = Nothing
       /\ \A e \in Docs \ {d} : fixed'[e] = fixed[e] /\ fix'[e] = fix[e]
  BY <1>8 DEF CoreInv, RowsOK
<1>11. RowsOK'
  <2>1. {e \in Docs : Standing(e)'} = {e \in Docs : Standing(e)}
    BY <1>9 DEF Standing
  <2> QED
    BY <1>2, <1>8, <1>9, <2>1 DEF CoreInv, RowsOK
<1>12. DocOK(d)'
  <2>1. \A e \in new : ~(e.key \in {Base(d), Undo(d), <<"order-cancel", d>>})
    <3>1. fixed[d] + 1 \in Nat
      BY <1>2
    <3>2. ~(key \in {Base(d), Undo(d), <<"order-cancel", d>>})
      BY <1>1, <3>1, KeysApart DEF key, plan, PlanType
    <3> QED
      BY <1>7, <3>2
  <2>2. /\ Booked(Undo(d))' <=> Booked(Undo(d))
        /\ Booked(<<"order-cancel", d>>)' <=> Booked(<<"order-cancel", d>>)
    BY <1>6, <2>1 DEF Posts, Booked, Undo
  <2>3. ASSUME NEW route \in Routes, NEW n \in Nat, Booked(<<"correction", route, d, n>>)'
        PROVE  n \in 1 .. fixed'[d]
    <3>1. Booked(<<"correction", route, d, n>>) \/ <<"correction", route, d, n>> = key
      BY <1>6, <1>7, <2>3 DEF Posts, Booked
    <3>2. n \in 1 .. fixed[d] \/ n = fixed[d] + 1
      BY <1>2, <3>1 DEF DocOK, key
    <3> QED
      BY <1>2, <1>10, <3>2
  <2>4. fixed'[d] # 0 /\ doc'[d] # Nothing /\ (Standing(d)' <=> Standing(d))
    BY <1>2, <1>9, <1>10 DEF Standing, RowType, Nothing
  <2>5. /\ fix'[d] # Nothing => fixed'[d] < MaxFixes /\ doc'[d] # Nothing
        /\ doc'[d] = Nothing => d \notin refunded' /\ fixed'[d] = 0 /\ ~Booked(Base(d))'
        /\ Booked(Undo(d))' => doc'[d].at = "gone"
        /\ d \in refunded' <=> Booked(<<"order-cancel", d>>)'
        /\ d \in refunded' /\ Standing(d)' => order'[doc'[d].order] = "deleted"
    BY <1>2, <1>8, <1>9, <1>10, <2>2, <2>4 DEF DocOK
  <2>6. \A e \in entries' :
          e.key = Base(d) /\ fixed'[d] = 0 => e.amount = Worth(d, doc'[d].amount, doc'[d].cash)
    BY <2>4
  <2> QED
    BY <2>3, <2>5, <2>6 DEF DocOK, Base, Undo, Worth
<1>13. \A e \in Docs \ {d} : DocOK(e)'
  <2>1. \A e \in Docs \ {d} : \A x \in new : ~Of(x.key, e)
    <3>1. Of(key, d)
      BY <1>1, <1>2 DEF Of, key, plan, PlanType
    <3> QED
      BY <1>7, <3>1, KeysApart
  <2> QED
    BY <1>6, <1>8, <1>9, <1>10, <2>1, OthersFrame
<1>14. EntriesOK' /\ DeskOK'
  BY <1>6, <1>8, PostsKeepEntries, DeskFrame, CashAssumption DEF CoreInv, ShortOK, register, desk
<1>15. UnreadyOK'
  BY <1>6, <1>8, <1>10 DEF CoreInv, UnreadyOK, Posts, register
<1>16. ShortOK'
  BY <1>4, <1>8 DEF CoreInv, ShortOK, register
<1>17. \A p \in Orders : EditOK(p)'
  BY <1>8, <1>9 DEF CoreInv, EditOK, OfOrder, Standing
<1> QED
  BY <1>11, <1>12, <1>13, <1>14, <1>15, <1>16, <1>17, CoreFrom

LEMMA CoreKept == CoreInv /\ [Next]_vars => CoreInv'
<1> SUFFICES ASSUME CoreInv, [Next]_vars PROVE CoreInv'
  OBVIOUS
<1>1. CASE Setup \/ SetAutoTracking \/ ResetCycle
  BY <1>1, SetupKeeps, SetAutoTrackingKeeps, ResetCycleKeeps
<1>2. ASSUME NEW o \in Orders, OrderStep(o)
      PROVE  CoreInv'
  BY <1>2, CreateOrderKeeps, DeleteOrderKeeps, PlanEditKeeps, RetirePaymentsKeeps,
     UpdateOrderKeeps, AddReturnKeeps, AddPaymentKeeps, WritePaymentKeeps DEF OrderStep
<1>3. ASSUME NEW d \in Docs, DocStep(d)
      PROVE  CoreInv'
  BY <1>3, CancelDocKeeps, ApplyCorrectionKeeps, PlanCorrectionKeeps DEF DocStep
<1>4. ASSUME NEW h \in Clerks, ClerkStep(h)
      PROVE  CoreInv'
  BY <1>4, WriteKeeps, WriteUndoKeeps, CrashKeeps, AskKeeps, AskUndoKeeps DEF ClerkStep
<1>5. CASE UNCHANGED vars
  <2>1. ShortOK' /\ EntriesOK' /\ RowsOK' /\ DeskOK' /\ UnreadyOK'
    BY <1>5 DEF CoreInv, ShortOK, EntriesOK, RowsOK, DeskOK, UnreadyOK, Booked, Standing,
       vars, register, papers, desk
  <2>2. (\A d \in Docs : DocOK(d)') /\ \A o \in Orders : EditOK(o)'
    BY <1>5 DEF CoreInv, DocOK, EditOK, OfOrder, Booked, Base, Undo, Worth, Standing,
       vars, register, papers, desk
  <2> QED
    BY <2>1, <2>2, CoreFrom
<1> QED
  BY <1>1, <1>2, <1>3, <1>4, <1>5 DEF Next

LEMMA CoreAlways == Spec => []CoreInv
BY CoreInit, CoreKept, PTL DEF Spec

\* Types, and the unique source keys of the register, for any overlap of
\* requests, edits and corrections.
THEOREM CashTypes == Spec => []CashTypeOK
<1>1. CoreInv => CashTypeOK
  <2> SUFFICES ASSUME CoreInv PROVE CashTypeOK
    OBVIOUS
  <2>1. \A d \in Docs : doc[d].at \in {"none", "stands", "gone"} /\ fixed[d] \in 0 .. MaxFixes
    BY StandingRow DEF CoreInv, RowsOK, RowType, Nothing
  <2> QED
    BY <2>1 DEF CoreInv, ShortOK, EntriesOK, CashTypeOK
<1> QED
  BY <1>1, CoreAlways, PTL
-----------------------------------------------------------------------------
(***************************************************************************)
(* The balance is the drawer.  The cash is followed as long as the         *)
(* register stands still while a clerk's request runs (ClerksApart), and   *)
(* what was corrected is not cancelled afterwards (CorrectionsLast).       *)
(***************************************************************************)

\* One clerk at most is past the checks, and has seen the balance there is.
DrawerInv ==
  /\ agreed => Settled /\ Balance(entries) = drawer
  /\ \A h \in Clerks : clerk[h].at = "checked" => clerk[h].seen = Balance(entries)
  /\ \A h, k \in Clerks : clerk[h].at = "checked" /\ clerk[k].at = "checked" => h = k

\* A step that no clerk's request overlaps.
LEMMA DrawerAlone ==
  ASSUME \A h \in Clerks : clerk[h].at # "checked",
         \A h \in Clerks : clerk'[h] = clerk[h] \/ clerk'[h] = Free,
         agreed' => Settled' /\ Balance(entries)' = drawer'
  PROVE  DrawerInv'
<1>1. \A h \in Clerks : clerk'[h].at # "checked"
  BY DEF Free
<1> QED
  BY <1>1 DEF DrawerInv

\* A step that books nothing and moves no cash.
LEMMA DrawerStill ==
  ASSUME DrawerInv, UNCHANGED <<cycle, entries, drawer>>,
         agreed' => agreed /\ Settled',
         \A h \in Clerks : clerk'[h] = clerk[h] \/ clerk'[h].at # "checked"
  PROVE  DrawerInv'
<1>1. Balance(entries)' = Balance(entries)
  BY DEF Balance, MapThenSumSet, MapThenFoldSet
<1>2. \A h \in Clerks : clerk'[h].at = "checked" => clerk'[h] = clerk[h]
  OBVIOUS
<1>3. agreed' => Settled' /\ Balance(entries)' = drawer'
  BY <1>1 DEF DrawerInv
<1> QED
  BY <1>1, <1>2, <1>3 DEF DrawerInv

\* A step that posts what it moves.
LEMMA DrawerFollows ==
  ASSUME CoreInv, DrawerInv, NEW new, Posts(new), NEW cash \in Int,
         cycle' = cycle, edit' = edit, drawer' = drawer + cash,
         agreed' => agreed /\ Total(new) = cash
  PROVE  agreed' => Settled' /\ Balance(entries)' = drawer'
<1>1. Balance(entries) \in Int /\ Balance(entries)' = Balance(entries) + Total(new)
  BY PostsBalance DEF CoreInv
<1>2. drawer \in Int
  BY DEF CoreInv, ShortOK
<1> QED
  BY <1>1, <1>2 DEF DrawerInv, Settled

LEMMA DrawerInit == Init => DrawerInv
BY DEF Init, DrawerInv, Free

LEMMA SetupAgrees == ASSUME CoreInv, DrawerInv, Setup PROVE DrawerInv'
<1>1. ~Booked(<<"opening">>) /\ drawer \in Int /\ entries = {}
  BY DEF CoreInv, UnreadyOK, Setup, Booked, ShortOK
<1>2. Posts({Row(<<"opening">>, drawer)})
  BY <1>1, InsertOne, PostOne DEF Setup
<1>3. Balance(entries)' = Balance(entries) + Total({Row(<<"opening">>, drawer)})
  BY <1>2, PostsBalance DEF Setup, CoreInv
<1>4. Balance(entries) = 0
  <2>1. Balance(entries) = Total({e \in entries : e.cycle = cycle})
    BY DEF Balance, Total
  <2>2. {e \in entries : e.cycle = cycle} = {}
    BY <1>1
  <2> QED
    BY <2>1, <2>2, TotalNone
<1>5. Total({Row(<<"opening">>, drawer)}) = drawer
  <2>1. Row(<<"opening">>, drawer).amount = drawer
    BY DEF Row
  <2> QED
    BY <1>1, <2>1, TotalOne
<1>6. agreed' => Settled' /\ Balance(entries)' = drawer'
  <2>1. Balance(entries)' = drawer /\ drawer' = drawer
    BY <1>1, <1>3, <1>4, <1>5 DEF Setup
  <2>2. (agreed' <=> Settled) /\ (Settled' <=> Settled)
    BY DEF Setup, Settled, papers
  <2> QED
    BY <2>1, <2>2
<1>7. \A h \in Clerks : clerk[h].at # "checked" /\ clerk'[h] = clerk[h]
  BY DEF CoreInv, DeskOK, Setup, desk
<1> QED
  BY <1>6, <1>7, DrawerAlone

LEMMA StillAgrees ==
  ASSUME CoreInv, DrawerInv,
         \/ SetAutoTracking
         \/ \E o \in Orders : CreateOrder(o) \/ PlanEdit(o) \/ UpdateOrder(o)
         \/ \E d \in Docs : \E route \in Routes, amount \in CorrectAmounts, cash \in BOOLEAN :
              PlanCorrection(d, route, amount, cash)
  PROVE  DrawerInv'
<1>1. UNCHANGED <<cycle, entries, drawer, agreed, clerk>>
  BY DEF SetAutoTracking, CreateOrder, PlanEdit, UpdateOrder, PlanCorrection, register, desk
<1>2. agreed => Settled'
  <2>1. CASE edit' = edit
    BY <2>1 DEF DrawerInv, Settled
  <2>2. ASSUME NEW o \in Orders, PlanEdit(o) \/ UpdateOrder(o)
        PROVE  agreed => Settled'
    BY <2>2 DEF DrawerInv, Settled, PlanEdit, UpdateOrder, CoreInv, ShortOK
  <2> QED
    BY <2>1, <2>2 DEF SetAutoTracking, CreateOrder, PlanCorrection
<1> QED
  BY <1>1, <1>2, DrawerStill

LEMMA ResetAgrees == ASSUME ClerksApart, ResetCycle PROVE DrawerInv'
BY DrawerAlone DEF ResetCycle, NoClerk, desk

LEMMA AskAgrees ==
  ASSUME ClerksApart, CoreInv, DrawerInv, NEW h \in Clerks, NEW r \in Requests, Ask(h, r)
  PROVE  DrawerInv'
<1> DEFINE w == [at |-> "checked", request |-> r, seen |-> Balance(entries)]
<1>1. clerk' = [clerk EXCEPT ![h] = w]
  BY DEF Ask
<1>2. w.seen = Balance(entries)
  OBVIOUS
<1> HIDE DEF w
<1>3. \A g \in Clerks : clerk'[g] = IF g = h THEN w ELSE clerk[g]
  BY <1>1 DEF CoreInv, DeskOK
<1>4. \A g \in Clerks : clerk[g].at # "checked"
  BY DEF Ask, NoClerk
<1>5. Balance(entries)' = Balance(entries)
  BY DEF Ask, register, Balance, MapThenSumSet, MapThenFoldSet
<1>6. agreed' => Settled' /\ Balance(entries)' = drawer'
  BY <1>5 DEF Ask, DrawerInv, Settled, papers
<1> QED
  BY <1>2, <1>3, <1>4, <1>5, <1>6 DEF DrawerInv

LEMMA AskUndoAgrees ==
  ASSUME CoreInv, DrawerInv, NEW h \in Clerks, NEW r \in Requests, AskUndo(h, r)
  PROVE  DrawerInv'
<1> DEFINE w == [at |-> "undoing", request |-> r]
<1>1. clerk' = [clerk EXCEPT ![h] = w]
  BY DEF AskUndo
<1>2. w.at # "checked"
  OBVIOUS
<1> HIDE DEF w
<1>3. \A g \in Clerks : clerk'[g] = clerk[g] \/ clerk'[g].at # "checked"
  BY <1>1, <1>2 DEF CoreInv, DeskOK
<1> QED
  BY <1>3, DrawerStill DEF AskUndo, register, papers, Settled, DrawerInv

LEMMA CrashAgrees == ASSUME CoreInv, DrawerInv, NEW h \in Clerks, Crash(h) PROVE DrawerInv'
<1>1. \A g \in Clerks : clerk'[g] = clerk[g] \/ clerk'[g].at # "checked"
  BY DEF Crash, CoreInv, DeskOK, Free
<1> QED
  BY <1>1, DrawerStill DEF Crash, register, papers, Settled, DrawerInv

\* A clerk's entry: the only clerk past the checks writes, and is gone.
LEMMA WriteAgrees == ASSUME CoreInv, DrawerInv, NEW h \in Clerks, Write(h) PROVE DrawerInv'
<1> DEFINE r == clerk[h].request
           change == Difference(asked[r], clerk[h].seen)
<1>1. /\ clerk[h] \in [at : {"checked"}, request : Requests, seen : Int]
      /\ asked[r] \in AskType
  <2>1. clerk[h].at = "checked" /\ clerk[h] \in WorkType
    BY DEF CoreInv, DeskOK, Write, Free
  <2> QED
    BY <2>1 DEF CoreInv, DeskOK, WorkType
<1>2. change \in Int /\ clerk[h].seen = Balance(entries) /\ Balance(entries) \in Int /\ asked[r].amount \in Int
  BY <1>1 DEF Difference, AskType, DrawerInv
<1>3. asked[r].op = "count" => change = asked[r].amount - Balance(entries)
  BY <1>2 DEF Difference
<1>4. \A g \in Clerks : clerk'[g].at # "checked"
  <2>1. \A g \in Clerks : clerk[g].at = "checked" => g = h
    BY DEF DrawerInv, Write
  <2> QED
    BY <2>1 DEF Write, CoreInv, DeskOK, Free
<1>5. agreed' => Settled' /\ Balance(entries)' = drawer'
  <2>1. CASE Booked(Key(r))
    <3>1. entries' = entries /\ UNCHANGED <<drawer, agreed, cycle, edit>>
      BY <2>1, InsertOne DEF Write, register, papers
    <3>2. Balance(entries)' = Balance(entries)
      BY <3>1 DEF Balance, MapThenSumSet, MapThenFoldSet
    <3> QED
      BY <3>1, <3>2 DEF DrawerInv, Settled
  <2>2. CASE ~Booked(Key(r))
    <3>1. entries' = entries \cup {Row(Key(r), change)} /\ cycle' = cycle /\ edit' = edit
      BY <2>2, InsertOne DEF Write, register, papers
    <3>2. Posts({Row(Key(r), change)})
      BY <1>2, <2>2, <3>1, PostOne
    <3>3. Total({Row(Key(r), change)}) = change
      <4>1. Row(Key(r), change).amount = change
        BY DEF Row
      <4> QED
        BY <1>2, <4>1, TotalOne
    <3>4. CASE asked[r].op = "count"
      <4>1. drawer' = drawer /\ (agreed' => asked[r].amount = drawer /\ Settled)
        BY <2>2, <3>4 DEF Write
      <4>2. Balance(entries)' = Balance(entries) + change
        BY <3>1, <3>2, <3>3, PostsBalance DEF CoreInv
      <4> QED
        BY <1>2, <1>3, <3>1, <3>4, <4>1, <4>2 DEF Settled
    <3>5. CASE asked[r].op # "count"
      <4>1. Moved(change, TRUE)
        BY <2>2, <3>5 DEF Write
      <4>2. drawer' = drawer + change /\ (agreed' => agreed)
        BY <4>1 DEF Moved
      <4> HIDE DEF change
      <4> QED
        BY <1>2, <3>1, <3>2, <3>3, <4>2, DrawerFollows
    <3> QED
      BY <3>4, <3>5
  <2> QED
    BY <2>1, <2>2
<1> QED
  BY <1>4, <1>5 DEF DrawerInv

LEMMA WriteUndoAgrees ==
  ASSUME ClerksApart, CoreInv, DrawerInv, NEW h \in Clerks, WriteUndo(h)
  PROVE  DrawerInv'
<1> DEFINE r == clerk[h].request
           key == <<"manual-reversal", r>>
           change == -Entry(<<"manual", r>>).amount
<1>1. Booked(<<"manual", r>>)
  BY DEF CoreInv, DeskOK, WriteUndo
<1>2. change \in Int
  BY <1>1 DEF Booked, Entry, CoreInv, EntriesOK
<1>3. \A g \in Clerks : clerk[g].at # "checked" /\ (clerk'[g] = clerk[g] \/ clerk'[g] = Free)
  BY DEF WriteUndo, NoClerk, CoreInv, DeskOK
<1>4. cycle' = cycle /\ edit' = edit
  BY DEF WriteUndo, register, papers
<1>5. agreed' => Settled' /\ Balance(entries)' = drawer'
  <2>1. CASE Booked(key)
    <3>1. entries' = entries /\ UNCHANGED <<drawer, agreed>>
      BY <2>1, InsertOne DEF WriteUndo, Undone
    <3>2. Balance(entries)' = Balance(entries)
      BY <1>4, <3>1 DEF Balance, MapThenSumSet, MapThenFoldSet
    <3> QED
      BY <1>4, <3>1, <3>2 DEF DrawerInv, Settled
  <2>2. CASE ~Booked(key)
    <3>1. entries' = entries \cup {Row(key, change)}
      BY <2>2, InsertOne DEF WriteUndo
    <3>2. Posts({Row(key, change)})
      BY <1>2, <2>2, <3>1, PostOne
    <3>3. Total({Row(key, change)}) = change
      <4>1. Row(key, change).amount = change
        BY DEF Row
      <4> QED
        BY <1>2, <4>1, TotalOne
    <3>4. Moved(change, TRUE)
      BY <2>2 DEF WriteUndo, Undone
    <3>5. drawer' = drawer + change /\ (agreed' => agreed)
      BY <3>4 DEF Moved
    <3> HIDE DEF change
    <3> QED
      BY <1>2, <1>4, <3>2, <3>3, <3>5, DrawerFollows
  <2> QED
    BY <2>1, <2>2
<1> QED
  BY <1>3, <1>5, DrawerAlone
\* A new row, paid or written by an edit, which begins when nothing agrees.
LEMMA NewRowAgrees ==
  ASSUME ClerksApart, CoreInv, DrawerInv, NEW d \in Docs, NEW o \in Orders, NEW kind, NEW paid \in BOOLEAN,
         NewRow(d, o, kind, paid), paid \/ ~agreed, paid => edit' = edit,
         UNCHANGED <<register, desk>>
  PROVE  DrawerInv'
<1>1. PICK amount \in Amounts, cash \in BOOLEAN :
        /\ doc[d].at = "none"
        /\ entries' = IF cash /\ Eligible(d, kind, o)
                      THEN Insert(entries, Base(d), Worth(d, amount, cash)) ELSE entries
        /\ Moved(IF paid THEN Worth(d, amount, cash) ELSE 0, Eligible(d, kind, o))
  BY DEF NewRow
<1> DEFINE w == Worth(d, amount, cash)
<1>2. ~Booked(Base(d))
  BY <1>1, StandingRow DEF RowType, CoreInv, DocOK
<1>3. w \in Int /\ (~cash => w = 0)
  BY CashAssumption DEF Worth
<1>4. \A g \in Clerks : clerk[g].at # "checked" /\ clerk'[g] = clerk[g]
  BY DEF NewRow, NoClerk, desk
<1>5. Eligible(d, kind, o) \in BOOLEAN
  BY DEF Eligible, CoreInv, ShortOK
<1>6. agreed' => Settled' /\ Balance(entries)' = drawer'
  <2>1. CASE ~paid
    BY <1>1, <2>1 DEF Moved
  <2>2. CASE paid
    <3>1. drawer' = drawer + w /\ (agreed' => agreed /\ (w = 0 \/ Eligible(d, kind, o)))
      BY <1>1, <1>5, <2>2 DEF Moved
    <3>2. CASE cash /\ Eligible(d, kind, o)
      <4>1. entries' = entries \cup {Row(Base(d), w)}
        BY <1>1, <1>2, <3>2, InsertOne
      <4>2. Posts({Row(Base(d), w)})
        BY <1>2, <1>3, <4>1, PostOne
      <4>3. Total({Row(Base(d), w)}) = w
        <5>1. Row(Base(d), w).amount = w
          BY DEF Row
        <5> QED
          BY <1>3, <5>1, TotalOne
      <4> HIDE DEF w
      <4> QED
        BY <1>3, <2>2, <3>1, <4>2, <4>3, DrawerFollows DEF register
    <3>3. CASE ~(cash /\ Eligible(d, kind, o))
      <4>1. Posts({}) /\ (agreed' => agreed /\ Total({}) = w)
        BY <1>1, <1>3, <3>1, <3>3, PostNothing, TotalNone
      <4> HIDE DEF w
      <4> QED
        BY <1>3, <2>2, <3>1, <4>1, DrawerFollows DEF register
    <3> QED
      BY <3>2, <3>3
  <2> QED
    BY <2>1, <2>2
<1> QED
  BY <1>4, <1>6, DrawerAlone

LEMMA AddAgrees ==
  ASSUME ClerksApart, CoreInv, DrawerInv, NEW d \in Docs, NEW o \in Orders,
         AddReturn(d, o) \/ \E kind \in Kinds : AddPayment(d, o, kind)
  PROVE  DrawerInv'
<1>1. CASE AddReturn(d, o)
  BY <1>1, NewRowAgrees DEF AddReturn
<1>2. ASSUME NEW kind \in Kinds, AddPayment(d, o, kind)
      PROVE  DrawerInv'
  BY <1>2, NewRowAgrees DEF AddPayment
<1> QED
  BY <1>1, <1>2

LEMMA WritePaymentAgrees ==
  ASSUME ClerksApart, CoreInv, DrawerInv, NEW d \in Docs, NEW o \in Orders, NEW kind \in Kinds,
         WritePayment(o, d, kind)
  PROVE  DrawerInv'
<1>1. ~agreed
  BY DEF DrawerInv, Settled, WritePayment
<1> QED
  BY <1>1, NewRowAgrees DEF WritePayment

LEMMA RetireAgrees ==
  ASSUME ClerksApart, CoreInv, DrawerInv, NEW o \in Orders, RetirePayments(o)
  PROVE  DrawerInv'
BY DrawerAlone DEF RetirePayments, NoClerk, desk

\* What was booked first for a document that was never corrected, and stands in
\* an order that is active, is what the row is worth.
LEMMA FirstBooked ==
  ASSUME CoreInv, NEW d \in Docs, Standing(d), order[doc[d].order] = "active", fixed[d] = 0
  PROVE  /\ Tracked(d) <=> Booked(Base(d))
         /\ TakenBack({d}) = IF Booked(Base(d)) THEN {d} ELSE {}
         /\ Booked(Base(d)) => Entry(Base(d)).amount = Worth(d, doc[d].amount, doc[d].cash)
         /\ Worth(d, doc[d].amount, doc[d].cash) \in Int
<1>1. DocOK(d) /\ d \notin refunded /\ doc[d] \in RowType
  BY StandingDeleted, StandingRow DEF CoreInv, Standing, Nothing
<1>2. \A route \in Routes, n \in Nat : ~Booked(<<"correction", route, d, n>>)
  BY <1>1 DEF DocOK
<1>3. Tracked(d) <=> Booked(Base(d))
  <2>1. \A n \in 1 .. MaxFixes : n \in Nat
    BY CashAssumption
  <2> QED
    BY <1>2, <2>1 DEF Tracked, TrackedBy, Routes
<1>4. ~Booked(Undo(d)) /\ ~Booked(<<"order-cancel", d>>)
  BY <1>1 DEF DocOK, Standing
<1>5. Booked(Base(d)) => Entry(Base(d)) \in entries /\ Entry(Base(d)).key = Base(d)
  BY DEF Booked, Entry
<1>6. Worth(d, doc[d].amount, doc[d].cash) \in Int
  BY <1>1 DEF Worth, RowType
<1> QED
  BY <1>1, <1>3, <1>4, <1>5, <1>6 DEF DocOK, TakenBack, TakesBack

LEMMA CancelDocAgrees ==
  ASSUME ClerksApart, CorrectionsLast, CoreInv, DrawerInv, NEW d \in Docs, CancelDoc(d)
  PROVE  DrawerInv'
<1> DEFINE w == Worth(d, doc[d].amount, doc[d].cash)
<1>1. /\ Tracked(d) <=> Booked(Base(d))
      /\ TakenBack({d}) = IF Booked(Base(d)) THEN {d} ELSE {}
      /\ Booked(Base(d)) => Entry(Base(d)).amount = w
      /\ w \in Int
  BY FirstBooked DEF CancelDoc
<1>2. /\ Posts(Reversals({d}))
      /\ \A e \in TakenBack({d}) : UndoRow(e).amount = -Entry(Base(e)).amount
  BY ReversalsPosted DEF CancelDoc
<1>3. Tracked(d) \in BOOLEAN
  BY DEF Tracked, TrackedBy, Routes, Booked
<1>4. drawer' = drawer + (-w) /\ (agreed' => agreed /\ (-w = 0 \/ Tracked(d)))
  BY <1>3 DEF CancelDoc, Moved
<1>5. /\ \A g \in Clerks : clerk[g].at # "checked" /\ clerk'[g] = clerk[g]
      /\ cycle' = cycle /\ edit' = edit
  BY DEF CancelDoc, NoClerk, desk, register
<1> HIDE DEF w
<1>6. agreed' => Total(Reversals({d})) = -w
  <2>1. CASE Booked(Base(d))
    <3>1. Reversals({d}) = {UndoRow(d)} /\ UndoRow(d).amount = -w /\ -w \in Int
      BY <1>1, <1>2, <2>1 DEF Reversals
    <3> QED
      BY <3>1, TotalOne
  <2>2. CASE ~Booked(Base(d))
    <3>1. Reversals({d}) = {}
      BY <1>1, <2>2 DEF Reversals
    <3> QED
      BY <1>1, <1>4, <2>2, <3>1, TotalNone
  <2> QED
    BY <2>1, <2>2
<1>7. -w \in Int
  BY <1>1
<1>8. agreed' => Settled' /\ Balance(entries)' = drawer'
  BY <1>2, <1>4, <1>5, <1>6, <1>7, DrawerFollows
<1> QED
  BY <1>5, <1>8, DrawerAlone

\* The sum of the amounts of a set of documents, as DeleteOrder takes it.
PaidWith(ds) == MapThenSumSet(LAMBDA d : doc[d].amount, ds)
PaidIn(ds) == [d \in ds |-> doc[d].amount]

LEMMA PaidIs ==
  ASSUME NEW T, IsFiniteSet(T), \A d \in T : doc[d].amount \in Int
  PROVE  PaidWith(T) = SumFunctionOnSet(PaidIn(T), T)
<1> DEFINE Rec(g) == g = [s \in SUBSET T |-> IF s = {} THEN 0 ELSE doc[Pick(s)].amount + g[s \ {Pick(s)}]]
<1>1. \A g : Rec(g) <=> IsSum(PaidIn(T), T, g)
  <2> TAKE g
  <2> DEFINE a(s) == IF s = {} THEN 0 ELSE doc[Pick(s)].amount + g[s \ {Pick(s)}]
             b(s) == IF s = {} THEN 0 ELSE PaidIn(T)[Pick(s)] + g[s \ {Pick(s)}]
  <2>1. \A s \in SUBSET T : a(s) = b(s)
    BY PickIn DEF PaidIn
  <2>2. [s \in SUBSET T |-> a(s)] = [s \in SUBSET T |-> b(s)]
    <3> HIDE DEF a, b
    <3> QED BY <2>1
  <2> QED
    BY <2>2 DEF IsSum
<1>2. PaidWith(T) = (CHOOSE g : Rec(g))[T]
  BY DEF PaidWith, MapThenSumSet, MapThenFoldSet, Pick
<1>3. SumFunctionOnSet(PaidIn(T), T) = (CHOOSE g : IsSum(PaidIn(T), T, g))[T]
  BY SumIs
<1> HIDE DEF Rec
<1>4. PICK h : Good(PaidIn(T), T, h)
  <2>1. \A d \in T : PaidIn(T)[d] \in Int
    BY DEF PaidIn
  <2> QED BY <2>1, SumExists
<1>5. Rec(h)
  BY <1>1, <1>4 DEF Good
<1>6. Rec(CHOOSE g : Rec(g))
  BY <1>5, Zenon
<1>7. IsSum(PaidIn(T), T, CHOOSE g : IsSum(PaidIn(T), T, g))
  BY <1>1, <1>5, Zenon
<1>8. IsSum(PaidIn(T), T, CHOOSE g : Rec(g))
  BY <1>1, <1>6, Zenon
<1> DEFINE p == CHOOSE g : Rec(g)
           q == CHOOSE g : IsSum(PaidIn(T), T, g)
<1> HIDE DEF p, q
<1>9. p[T] = q[T]
  BY <1>7, <1>8, SumsAgree DEF p, q
<1> QED
  BY <1>2, <1>3, <1>9 DEF p, q

\* What the refunds of an order come to.
LEMMA RefundsTotal ==
  ASSUME CoreInv, NEW o \in Orders, entries' = entries \cup Refunds(o), auto
  PROVE  Total(Refunds(o)) = -PaidWith(PaysBack(o)) /\ PaidWith(PaysBack(o)) \in Int
<1> DEFINE S == PaysBack(o)
           f == [d \in S |-> -doc[d].amount]
           g == PaidIn(S)
           z == [d \in S |-> 0]
           name == [d \in S |-> RefundRow(d)]
<1>1. /\ IsFiniteSet(S) /\ IsFiniteSet(Refunds(o))
      /\ \A e \in Refunds(o) : e.amount \in Int
      /\ \A d \in S : RefundRow(d).key = <<"order-cancel", d>> /\ RefundRow(d).amount = -doc[d].amount
  BY RefundsPosted DEF Posts
<1>2. \A d \in S : doc[d].amount \in Int
  <2>1. \A d \in S : doc[d] \in RowType
    BY RefundsPosted
  <2> QED
    BY <2>1 DEF RowType
<1>3. \A d \in S : f[d] \in Int /\ g[d] \in Int /\ f[d] = -doc[d].amount /\ g[d] = doc[d].amount /\ z[d] = 0
  BY <1>2 DEF PaidIn
<1>4. \A d \in S : name[d] = RefundRow(d) /\ name[d] \in Refunds(o)
  BY DEF Refunds
<1>5. \A d, e \in S : name[d] = name[e] => d = e
  <2> TAKE d, e \in S
  <2>1. RefundRow(d).key = <<"order-cancel", d>> /\ RefundRow(e).key = <<"order-cancel", e>>
    BY <1>1
  <2> QED
    BY <1>4, <2>1
<1>6. \A x \in Refunds(o) : \E d \in S : name[d] = x
  BY <1>4 DEF Refunds
<1>7. \A d \in S : f[d] = AmountIn(Refunds(o))[name[d]]
  BY <1>1, <1>3, <1>4 DEF AmountIn
<1>8. \A d \in S : f[d] \in Int /\ g[d] \in Int /\ z[d] = f[d] + g[d] /\ z[d] = 0
  <2> TAKE d \in S
  <2>1. doc[d].amount \in Int /\ f[d] = -doc[d].amount /\ g[d] = doc[d].amount /\ z[d] = 0
    BY <1>2, <1>3
  <2> QED
    BY <2>1
<1> HIDE DEF S, f, g, z, name
<1>9. SumFunctionOnSet(f, S) = SumFunctionOnSet(AmountIn(Refunds(o)), Refunds(o))
  <2> DEFINE T == Refunds(o)
             h == AmountIn(Refunds(o))
  <2>1. IsFiniteSet(S) /\ IsFiniteSet(T)
    BY <1>1
  <2>2. \A x \in S : name[x] \in T /\ f[x] \in Int /\ f[x] = h[name[x]]
    BY <1>4, <1>7, <1>8
  <2>3. \A x, y \in S : name[x] = name[y] => x = y
    BY <1>5
  <2>4. \A x \in T : \E d \in S : name[d] = x
    BY <1>6
  <2> HIDE DEF T, h
  <2>5. SumFunctionOnSet(f, S) = SumFunctionOnSet(h, T)
    BY <2>1, <2>2, <2>3, <2>4, SumRenamed
  <2> QED
    BY <2>5 DEF T, h
<1>10. SumFunctionOnSet(z, S) = SumFunctionOnSet(f, S) + SumFunctionOnSet(g, S)
  BY <1>1, <1>8, SumPlus
<1>11. SumFunctionOnSet(z, S) = 0
  BY <1>1, <1>8, SumZero
<1>12. SumFunctionOnSet(f, S) \in Int /\ SumFunctionOnSet(g, S) \in Int
  BY <1>1, <1>8, SumType
<1>13. Total(Refunds(o)) = SumFunctionOnSet(AmountIn(Refunds(o)), Refunds(o))
  BY <1>1, TotalIs
<1>14. PaidWith(S) = SumFunctionOnSet(g, S)
  BY <1>1, <1>2, PaidIs DEF g
<1>15. Total(Refunds(o)) = -PaidWith(S) /\ PaidWith(S) \in Int
  BY <1>9, <1>10, <1>11, <1>12, <1>13, <1>14
<1> QED
  BY <1>15 DEF S

LEMMA DeleteOrderAgrees ==
  ASSUME ClerksApart, CoreInv, DrawerInv, NEW o \in Orders, DeleteOrder(o)
  PROVE  DrawerInv'
<1> DEFINE sum == PaidWith(CashOfOrder(o) \ refunded)
<1>1. CashOfOrder(o) \ refunded = PaysBack(o)
  <2>1. \A d \in CashOfOrder(o) : d \in Docs /\ Standing(d) /\ DocOK(d)
    BY DEF CashOfOrder, OfOrder, CoreInv
  <2>2. \A d \in CashOfOrder(o) : ~Booked(Undo(d)) /\ (d \in refunded <=> Booked(<<"order-cancel", d>>))
    BY <2>1 DEF DocOK, Standing
  <2> QED
    BY <2>2 DEF PaysBack
<1>2. Moved(-sum, auto)
  BY DEF DeleteOrder, PaidWith
<1>3. /\ \A g \in Clerks : clerk[g].at # "checked" /\ clerk'[g] = clerk[g]
      /\ cycle' = cycle /\ edit' = edit
  BY DEF DeleteOrder, NoClerk, desk, register
<1>4. drawer' = drawer + (-sum) /\ (agreed' => agreed /\ (-sum = 0 \/ auto))
  BY <1>2 DEF Moved, CoreInv, ShortOK
<1>5. agreed' => Settled' /\ Balance(entries)' = drawer'
  <2>1. CASE auto
    <3>1. entries' = entries \cup Refunds(o)
      BY <2>1 DEF DeleteOrder, Refunds, RefundRow, Row
    <3>2. Posts(Refunds(o)) /\ Total(Refunds(o)) = -sum /\ sum \in Int
      BY <1>1, <2>1, <3>1, RefundsPosted, RefundsTotal
    <3>3. -sum \in Int
      BY <3>2
    <3> HIDE DEF sum
    <3> QED
      BY <1>3, <1>4, <3>2, <3>3, DrawerFollows
  <2>2. CASE ~auto
    <3>1. Posts({})
      BY <2>2, PostNothing DEF DeleteOrder
    <3>2. agreed' => agreed /\ Total({}) = 0 /\ -sum = 0
      BY <1>4, <2>2, TotalNone
    <3>3. agreed' => drawer' = drawer + 0
      BY <1>4, <3>2
    <3> HIDE DEF sum
    <3>4. CASE agreed'
      BY <1>3, <3>1, <3>2, <3>3, <3>4, DrawerFollows
    <3> QED
      BY <3>4
  <2> QED
    BY <2>1, <2>2
<1> QED
  BY <1>3, <1>5, DrawerAlone

LEMMA ApplyCorrectionAgrees ==
  ASSUME ClerksApart, CoreInv, DrawerInv, NEW d \in Docs, ApplyCorrection(d)
  PROVE  DrawerInv'
<1> DEFINE plan == fix[d]
           key == <<"correction", fix[d].route, d, fixed[d] + 1>>
           paid == Worth(d, plan.amount, plan.cash) - Worth(d, doc[d].amount, doc[d].cash)
<1>1. plan \in PlanType /\ DocOK(d) /\ fixed[d] \in Nat
  BY CashAssumption DEF CoreInv, RowsOK, ApplyCorrection, Nothing
<1>2. doc[d] \in RowType /\ plan # Nothing
  BY <1>1, StandingRow DEF DocOK, PlanType, Nothing, ApplyCorrection
<1>3. paid \in Int /\ plan.change \in Int
  <2>1. Worth(d, plan.amount, plan.cash) \in Int
    BY <1>1 DEF Worth, PlanType
  <2>2. Worth(d, doc[d].amount, doc[d].cash) \in Int
    BY <1>2 DEF Worth, RowType
  <2>3. plan.change \in Int
    BY <1>1 DEF PlanType
  <2> QED
    BY <2>1, <2>2, <2>3
<1>4. drawer' = drawer + paid /\ (agreed' => agreed /\ plan.change = paid)
  BY DEF ApplyCorrection
<1>5. /\ \A g \in Clerks : clerk[g].at # "checked" /\ clerk'[g] = clerk[g]
      /\ cycle' = cycle /\ edit' = edit
  BY DEF ApplyCorrection, NoClerk, desk, register
<1>6. ~Booked(key)
  BY <1>1 DEF DocOK, PlanType
<1>7. PICK new : Posts(new) /\ Total(new) = plan.change
  <2>1. CASE plan.change = 0
    BY <2>1, PostNothing, TotalNone DEF ApplyCorrection
  <2>2. CASE plan.change # 0
    <3>1. entries' = entries \cup {Row(key, plan.change)}
      BY <1>6, <2>2, InsertOne DEF ApplyCorrection
    <3>2. Posts({Row(key, plan.change)})
      BY <1>3, <1>6, <3>1, PostOne
    <3>3. Row(key, plan.change).amount = plan.change
      BY DEF Row
    <3>4. Total({Row(key, plan.change)}) = plan.change
      BY <1>3, <3>3, TotalOne
    <3> QED
      BY <3>2, <3>4
  <2> QED
    BY <2>1, <2>2
<1> HIDE DEF plan, key, paid
<1>8. agreed' => Settled' /\ Balance(entries)' = drawer'
  BY <1>3, <1>4, <1>5, <1>7, DrawerFollows
<1> QED
  BY <1>5, <1>8, DrawerAlone

LEMMA DrawerKept ==
  ASSUME ClerksApart, CorrectionsLast
  PROVE  CoreInv /\ DrawerInv /\ [Next]_vars => DrawerInv'
<1> SUFFICES ASSUME CoreInv, DrawerInv, [Next]_vars PROVE DrawerInv'
  OBVIOUS
<1>1. CASE Setup \/ SetAutoTracking \/ ResetCycle
  BY <1>1, SetupAgrees, StillAgrees, ResetAgrees
<1>2. ASSUME NEW o \in Orders, OrderStep(o)
      PROVE  DrawerInv'
  BY <1>2, StillAgrees, DeleteOrderAgrees, RetireAgrees, AddAgrees, WritePaymentAgrees
     DEF OrderStep
<1>3. ASSUME NEW d \in Docs, DocStep(d)
      PROVE  DrawerInv'
  BY <1>3, CancelDocAgrees, ApplyCorrectionAgrees, StillAgrees DEF DocStep
<1>4. ASSUME NEW h \in Clerks, ClerkStep(h)
      PROVE  DrawerInv'
  BY <1>4, WriteAgrees, WriteUndoAgrees, CrashAgrees, AskAgrees, AskUndoAgrees DEF ClerkStep
<1>5. CASE UNCHANGED vars
  BY <1>5, DrawerStill DEF vars, register, papers, desk, DrawerInv, Settled
<1> QED
  BY <1>1, <1>2, <1>3, <1>4, <1>5 DEF Next

\* From a count of the drawer on, the balance of the register is the cash that
\* is there, until cash moves untold: through manual entries and their undoing,
\* requests sent twice, payments, refunds, cancellations, order deletions and
\* corrections, however these overlap with edits and corrections under way.
\* Assumed are only that the register stands still during a clerk's request and
\* that what was corrected is not cancelled.
THEOREM DrawerIsBalanced ==
  ASSUME ClerksApart, CorrectionsLast
  PROVE  Spec => []BalanceIsTheDrawer
<1>1. CoreInv /\ DrawerInv => BalanceIsTheDrawer
  BY DEF DrawerInv, BalanceIsTheDrawer
<1> QED
  BY <1>1, CoreInit, CoreKept, DrawerInit, DrawerKept, PTL DEF Spec
-----------------------------------------------------------------------------
(***************************************************************************)
(* The register follows the documents, if an order stands still while a    *)
(* correction of one of its documents runs (CorrectionsApart), what was    *)
(* corrected is not cancelled (CorrectionsLast), and what the correction   *)
(* by one route brought into the register is not corrected by the other    *)
(* (RoutesApart): neither route looks for the entries of the other.        *)
(***************************************************************************)

\* What the register should hold for a document.
Due(d) == IF ~Tracked(d) THEN IF d \in refunded THEN -doc[d].amount ELSE 0
          ELSE IF doc[d].at = "gone" \/ d \in refunded THEN 0
          ELSE Worth(d, doc[d].amount, doc[d].cash)

\* A planned correction tells the register what it will have to know.
FixFits(d) ==
  fix[d] # Nothing =>
    LET new == Worth(d, fix[d].amount, fix[d].cash)
    IN  /\ Standing(d) /\ d \notin refunded
        /\ IF Tracked(d) THEN fix[d].change = new - Worth(d, doc[d].amount, doc[d].cash)
           ELSE fix[d].change \in {0, new}

FollowInv == \A d \in Docs : Net(d) = Due(d) /\ FixFits(d)

LEMMA TrackedOf ==
  ASSUME NEW d, NEW new, Posts(new)
  PROVE  /\ Tracked(d) => Tracked(d)'
         /\ (\A e \in new : e.key # Base(d) /\ \A route \in Routes, n \in Nat : e.key # <<"correction", route, d, n>>)
              => (Tracked(d)' <=> Tracked(d))
<1>1. \A n \in 1 .. MaxFixes : n \in Nat
  BY CashAssumption
<1>2. Base(d)' = Base(d)
  BY DEF Base
<1> QED
  BY <1>1, <1>2, BookedAfter DEF Tracked, TrackedBy, Routes

\* Nothing about a document is posted: it adds nothing to what is held for it.
LEMMA NetSame ==
  ASSUME EntriesOK, NEW new, Posts(new), NEW d, \A e \in new : e.key \notin About(d)
  PROVE  Net(d)' = Net(d)
<1>1. {e \in new : e.key \in About(d)} = {}
  OBVIOUS
<1> QED
  BY <1>1, PostsNet, TotalNone

\* One entry about it is posted.
LEMMA NetOne ==
  ASSUME EntriesOK, NEW new, Posts(new), NEW d, NEW x \in new, x.key \in About(d),
         \A e \in new : e.key \in About(d) => e = x
  PROVE  Net(d)' = Net(d) + x.amount /\ x.amount \in Int /\ Net(d) \in Int
<1>1. {e \in new : e.key \in About(d)} = {x} /\ x.amount \in Int
  BY DEF Posts
<1> QED
  BY <1>1, PostsNet, TotalOne, ZenonT(40)

LEMMA FollowOthers ==
  ASSUME CoreInv, FollowInv, NEW ds, NEW new, Posts(new),
         \A d \in Docs \ ds : \A e \in new : ~Of(e.key, d),
         \A d \in Docs \ ds : doc'[d] = doc[d] /\ fix'[d] = fix[d] /\ (d \in refunded' <=> d \in refunded)
  PROVE  \A d \in Docs \ ds : Net(d)' = Due(d)' /\ FixFits(d)'
<1> TAKE d \in Docs \ ds
<1>1. \A e \in new : e.key \notin About(d)
  BY AboutOf
<1>2. Net(d)' = Net(d) /\ Net(d) = Due(d) /\ FixFits(d)
  BY <1>1, NetSame DEF CoreInv, FollowInv
<1>3. Tracked(d)' <=> Tracked(d)
  BY TrackedOf DEF Of
<1>4. Due(d)' = Due(d)
  BY <1>3 DEF Due, Worth
<1>5. FixFits(d)'
  BY <1>2, <1>3 DEF FixFits, Worth, Standing
<1> QED
  BY <1>2, <1>4, <1>5

LEMMA FollowFrame ==
  ASSUME CoreInv, FollowInv, NEW new, Posts(new), \A d \in Docs : \A e \in new : ~Of(e.key, d),
         UNCHANGED <<doc, fix, refunded>>
  PROVE  FollowInv'
<1>1. \A d \in Docs \ {} : Net(d)' = Due(d)' /\ FixFits(d)'
  <2> DEFINE ds == {}
  <2>1. /\ \A d \in Docs \ ds : \A e \in new : ~Of(e.key, d)
        /\ \A d \in Docs \ ds : doc'[d] = doc[d] /\ fix'[d] = fix[d] /\ (d \in refunded' <=> d \in refunded)
    OBVIOUS
  <2> HIDE DEF ds
  <2>2. \A d \in Docs \ ds : Net(d)' = Due(d)' /\ FixFits(d)'
    BY <2>1, FollowOthers
  <2> QED
    BY <2>2 DEF ds
<1> QED
  BY <1>1 DEF FollowInv

LEMMA FollowInit == Init => FollowInv
<1> SUFFICES ASSUME Init, NEW d \in Docs PROVE Net(d) = Due(d) /\ FixFits(d)
  BY DEF FollowInv
<1>1. Net(d) = 0
  <2>1. EntriesOf(d) = {}
    BY DEF EntriesOf, Init
  <2> QED
    BY <2>1, NetIs, TotalNone
<1>2. ~Tracked(d) /\ d \notin refunded
  BY DEF Tracked, TrackedBy, Routes, Booked, Init
<1> QED
  BY <1>1, <1>2 DEF Due, FixFits, Init

\* What is no document's: settings, clerks, and orders as such.
LEMMA DeskFollows ==
  ASSUME CoreInv, FollowInv,
         \/ Setup \/ SetAutoTracking \/ ResetCycle
         \/ \E o \in Orders : CreateOrder(o) \/ PlanEdit(o) \/ UpdateOrder(o)
         \/ \E h \in Clerks : ClerkStep(h)
         \/ UNCHANGED vars
  PROVE  FollowInv'
<1>1. CASE entries' = entries /\ UNCHANGED <<doc, fix, refunded>>
  BY <1>1, PostNothing, FollowFrame
<1>2. ASSUME NEW key, NEW amount \in Int, entries' = Insert(entries, key, amount),
             \A d \in Docs : ~Of(key, d), UNCHANGED <<doc, fix, refunded>>
      PROVE  FollowInv'
  <2>1. CASE Booked(key)
    BY <1>1, <1>2, <2>1, InsertOne
  <2>2. CASE ~Booked(key)
    <3>1. Posts({Row(key, amount)})
      BY <1>2, <2>2, InsertOne, PostOne
    <3>2. Row(key, amount).key = key
      BY DEF Row
    <3>3. \A d \in Docs : \A e \in {Row(key, amount)} : ~Of(e.key, d)
      BY <1>2, <3>2
    <3> QED
      BY <1>2, <3>1, <3>3, FollowFrame
  <2> QED
    BY <2>1, <2>2
<1>3. CASE Setup
  <2>1. \A d \in Docs : ~Of(<<"opening">>, d)
    BY DeskKeys
  <2>2. drawer \in Int
    BY DEF CoreInv, ShortOK
  <2> QED
    BY <1>2, <1>3, <2>1, <2>2 DEF Setup, papers
<1>4. ASSUME NEW h \in Clerks, Write(h)
      PROVE  FollowInv'
  <2> DEFINE r == clerk[h].request
             change == Difference(asked[r], clerk[h].seen)
  <2>1. clerk[h] \in [at : {"checked"}, request : Requests, seen : Int] /\ asked[r] \in AskType
    <3>1. clerk[h].at = "checked" /\ clerk[h] \in WorkType
      BY <1>4 DEF CoreInv, DeskOK, Write, Free
    <3> QED
      BY <1>4, <3>1 DEF CoreInv, DeskOK, WorkType
  <2>2. change \in Int
    BY <2>1 DEF Difference, AskType
  <2>3. \A d \in Docs : ~Of(Key(r), d)
    BY DeskKeys DEF Key
  <2>4. entries' = Insert(entries, Key(r), change) /\ UNCHANGED <<doc, fix, refunded>>
    BY <1>4 DEF Write, papers
  <2> HIDE DEF r, change
  <2> QED
    BY <1>2, <2>2, <2>3, <2>4
<1>5. ASSUME NEW h \in Clerks, WriteUndo(h)
      PROVE  FollowInv'
  <2> DEFINE r == clerk[h].request
             change == -Entry(<<"manual", r>>).amount
  <2>1. Booked(<<"manual", r>>)
    BY <1>5 DEF CoreInv, DeskOK, WriteUndo
  <2>2. change \in Int
    BY <2>1 DEF Booked, Entry, CoreInv, EntriesOK
  <2>3. \A d \in Docs : ~Of(<<"manual-reversal", r>>, d)
    BY DeskKeys
  <2>4. entries' = Insert(entries, <<"manual-reversal", r>>, change) /\ UNCHANGED <<doc, fix, refunded>>
    BY <1>5 DEF WriteUndo, papers
  <2> HIDE DEF r, change
  <2> QED
    BY <1>2, <2>2, <2>3, <2>4
<1>6. CASE SetAutoTracking \/ ResetCycle \/ UNCHANGED vars
  BY <1>1, <1>6 DEF SetAutoTracking, ResetCycle, vars, papers
<1>7. CASE \E o \in Orders : CreateOrder(o) \/ PlanEdit(o) \/ UpdateOrder(o)
  BY <1>1, <1>7 DEF CreateOrder, PlanEdit, UpdateOrder
<1>8. CASE \E h \in Clerks : Crash(h) \/ \E r \in Requests : Ask(h, r) \/ AskUndo(h, r)
  BY <1>1, <1>8 DEF Crash, Ask, AskUndo, papers
<1> QED
  BY <1>3, <1>4, <1>5, <1>6, <1>7, <1>8 DEF ClerkStep

LEMMA NewRowFollows ==
  ASSUME CoreInv, FollowInv, NEW d \in Docs, NEW o \in Orders, NEW kind \in AllKinds \cup {"refund"}, NEW paid,
         NewRow(d, o, kind, paid), UNCHANGED <<fix, refunded>>
  PROVE  FollowInv'
<1>1. PICK amount \in Amounts, cash \in BOOLEAN :
        /\ doc[d].at = "none"
        /\ doc' = [doc EXCEPT ![d] = [at |-> "stands", order |-> o, kind |-> kind,
                                      amount |-> amount, cash |-> cash, copy |-> cash]]
        /\ entries' = IF cash /\ Eligible(d, kind, o)
                      THEN Insert(entries, Base(d), Worth(d, amount, cash)) ELSE entries
  BY DEF NewRow
<1> DEFINE row == [at |-> "stands", order |-> o, kind |-> kind, amount |-> amount, cash |-> cash, copy |-> cash]
           w == Worth(d, amount, cash)
<1>2. doc[d] = Nothing /\ DocOK(d)
  BY <1>1, StandingRow DEF RowType, CoreInv
<1>3. amount \in Nat \ {0} /\ w \in Int
  BY CashAssumption DEF Worth
<1>4. row.at = "stands" /\ w = Worth(d, row.amount, row.cash) /\ doc' = [doc EXCEPT ![d] = row]
  BY <1>1
<1>5. ~Booked(Base(d)) /\ fix[d] = Nothing /\ d \notin refunded /\ ~Tracked(d)
  <2>1. ~Booked(Base(d)) /\ fix[d] = Nothing /\ d \notin refunded /\ fixed[d] = 0
    BY <1>2 DEF DocOK
  <2>2. \A n \in 1 .. MaxFixes : n \in Nat
    BY CashAssumption
  <2>3. \A route \in Routes, n \in 1 .. MaxFixes : ~Booked(<<"correction", route, d, n>>)
    BY <1>2, <2>1, <2>2 DEF DocOK
  <2> QED
    BY <2>1, <2>3 DEF Tracked, TrackedBy, Routes
<1>6. Net(d) = 0
  BY <1>5 DEF FollowInv, Due
<1>7. \/ entries' = entries
      \/ entries' = entries \cup {Row(Base(d), w)}
  BY <1>1, <1>5, InsertOne
<1> HIDE DEF row, w
<1>8. \A e \in Docs : doc'[e] = IF e = d THEN row ELSE doc[e]
  BY <1>4 DEF CoreInv, RowsOK
<1>9. CASE entries' = entries
  <2>1. Posts({}) /\ \A e \in Docs \ {d} : \A x \in {} : ~Of(x.key, e)
    BY <1>9, PostNothing
  <2>2. \A e \in Docs \ {d} : Net(e)' = Due(e)' /\ FixFits(e)'
    BY <1>8, <2>1, FollowOthers
  <2>3. Net(d)' = 0
    BY <1>6, <2>1, NetSame DEF CoreInv
  <2>4. ~Tracked(d)'
    BY <1>5, <1>9 DEF Tracked, TrackedBy, Routes, Booked, Base
  <2>5. Due(d)' = 0 /\ FixFits(d)'
    BY <1>5, <2>4 DEF Due, FixFits
  <2> QED
    BY <2>2, <2>3, <2>5 DEF FollowInv
<1>10. CASE entries' = entries \cup {Row(Base(d), w)}
  <2> DEFINE x == Row(Base(d), w)
  <2>1. Posts({x}) /\ x.key = Base(d) /\ x.amount = w
    BY <1>3, <1>5, <1>10, PostOne DEF Row
  <2> HIDE DEF x
  <2>2. \A e \in Docs \ {d} : \A y \in {x} : ~Of(y.key, e)
    BY <2>1, KeysApart DEF Of
  <2>3. \A e \in Docs \ {d} : Net(e)' = Due(e)' /\ FixFits(e)'
    BY <1>8, <2>1, <2>2, FollowOthers
  <2>4. x.key \in About(d)
    BY <2>1 DEF About
  <2>5. Net(d)' = Net(d) + x.amount
    BY <2>1, <2>4, NetOne DEF CoreInv
  <2>6. Tracked(d)'
    BY <2>1 DEF Tracked, TrackedBy, Routes, Booked, Posts, Base
  <2>7. Due(d)' = Worth(d, row.amount, row.cash) /\ FixFits(d)'
    <3>1. Due(d)' = Worth(d, doc'[d].amount, doc'[d].cash)
      BY <1>4, <1>5, <1>8, <2>6 DEF Due, Worth
    <3> QED
      BY <1>5, <1>8, <3>1 DEF FixFits
  <2>8. Net(d)' = w
    BY <1>3, <1>6, <2>1, <2>5
  <2> QED
    BY <1>4, <2>3, <2>7, <2>8 DEF FollowInv
<1> QED
  BY <1>7, <1>9, <1>10
\* Documents that are cancelled or replaced, and none of them ever corrected,
\* nor being corrected: what was booked for them is booked back.
LEMMA GoneFollows ==
  ASSUME CoreInv, FollowInv, NEW ds \in SUBSET {d \in Docs : Standing(d)},
         entries' = Reverse(entries, ds), doc' = Gone(ds), UNCHANGED <<fix, refunded>>,
         \A d \in ds : fix[d] = Nothing /\ fixed[d] = 0
  PROVE  FollowInv'
<1> DEFINE new == Reversals(ds)
<1>1. /\ Posts(new)
      /\ \A d \in TakenBack(ds) :
           UndoRow(d).key = Undo(d) /\ UndoRow(d).amount = -Entry(Base(d)).amount
           /\ Entry(Base(d)) \in entries /\ Entry(Base(d)).key = Base(d)
  BY ReversalsPosted
<1>2. \A e \in new : \E d \in TakenBack(ds) : e = UndoRow(d)
  BY DEF Reversals
<1>3. \A d \in TakenBack(ds) : UndoRow(d) \in new
  BY DEF Reversals
<1> HIDE DEF new
<1>4. TakenBack(ds) \subseteq ds
  BY DEF TakenBack
<1>5. \A e \in new : \E d \in ds : e.key = Undo(d)
  BY <1>1, <1>2, <1>4
<1>6. \A d \in Docs \ ds : Net(d)' = Due(d)' /\ FixFits(d)'
  <2>1. \A d \in Docs \ ds : doc'[d] = doc[d]
    BY DEF Gone
  <2>2. \A d \in Docs \ ds : \A e \in new : ~Of(e.key, d)
    BY <1>5, KeysApart DEF Of
  <2> QED
    BY <1>1, <2>1, <2>2, FollowOthers
<1>7. ASSUME NEW d \in ds
      PROVE  Net(d)' = Due(d)' /\ FixFits(d)'
  <2>1. /\ DocOK(d) /\ doc[d] \in RowType /\ Net(d) = Due(d) /\ doc[d].at = "stands"
        /\ fix[d] = Nothing /\ fixed[d] = 0 /\ d \in Docs
    BY StandingRow DEF CoreInv, Standing, Nothing, FollowInv
  <2>2. doc'[d].at = "gone" /\ doc'[d].amount = doc[d].amount
    BY <2>1 DEF Gone, RowType
  <2>3. FixFits(d)'
    BY <2>1 DEF FixFits
  <2>4. \A route \in Routes, n \in 1 .. MaxFixes : n \in Nat /\ ~Booked(<<"correction", route, d, n>>)
    <3>1. \A n \in 1 .. MaxFixes : n \in Nat
      BY CashAssumption
    <3> QED
      BY <2>1, <3>1 DEF DocOK
  <2>5. Tracked(d) <=> Booked(Base(d))
    BY <2>4 DEF Tracked, TrackedBy, Routes
  <2>6. ~Booked(Undo(d)) /\ (d \in refunded <=> Booked(<<"order-cancel", d>>))
    BY <2>1 DEF DocOK
  <2>7. Tracked(d)' <=> Tracked(d)
    <3>1. \A e \in new : e.key # Base(d) /\ \A route \in Routes, n \in Nat : e.key # <<"correction", route, d, n>>
      BY <1>5, KeysApart DEF Of, Base, Undo
    <3> QED
      BY <1>1, <3>1, TrackedOf
  <2>8. CASE d \in TakenBack(ds)
    <3>1. Booked(Base(d)) /\ ~Booked(<<"order-cancel", d>>)
      BY <2>8 DEF TakenBack, TakesBack
    <3>2. d \notin refunded /\ Tracked(d)
      BY <2>5, <2>6, <3>1
    <3>3. Net(d) = Worth(d, doc[d].amount, doc[d].cash)
      BY <2>1, <3>2 DEF Due
    <3>4. Entry(Base(d)).amount = Worth(d, doc[d].amount, doc[d].cash)
      BY <1>1, <2>1, <2>8 DEF DocOK
    <3>5. UndoRow(d).key \in About(d)
      BY <1>1, <2>8 DEF About
    <3>6. \A e \in new : e.key \in About(d) => e = UndoRow(d)
      <4> TAKE e \in new
      <4>1. PICK c \in TakenBack(ds) : e = UndoRow(c)
        BY <1>2
      <4>2. e.key = Undo(c) /\ Of(e.key, c)
        BY <1>1, <4>1 DEF Of
      <4>3. e.key \in About(d) => c = d
        BY <4>2, AboutOf, KeysApart
      <4> QED
        BY <4>1, <4>3
    <3>7. Net(d)' = Net(d) + UndoRow(d).amount /\ UndoRow(d).amount \in Int /\ Net(d) \in Int
      BY <1>1, <1>3, <2>8, <3>5, <3>6, NetOne DEF CoreInv
    <3>8. UndoRow(d).amount = -Net(d)
      BY <1>1, <2>8, <3>3, <3>4
    <3>9. Net(d)' = 0
      BY <3>7, <3>8
    <3>10. Due(d)' = 0
      BY <2>2, <2>7, <3>2 DEF Due
    <3> QED
      BY <2>3, <3>9, <3>10
  <2>9. CASE d \notin TakenBack(ds)
    <3>1. \A e \in new : e.key \notin About(d)
      <4> TAKE e \in new
      <4>1. PICK c \in TakenBack(ds) : e = UndoRow(c)
        BY <1>2
      <4>2. e.key = Undo(c) /\ Of(e.key, c) /\ c # d
        BY <1>1, <2>9, <4>1 DEF Of
      <4> QED
        BY <4>2, AboutOf, KeysApart
    <3>2. Net(d)' = Net(d)
      BY <1>1, <3>1, NetSame DEF CoreInv
    <3>3. ~Tracked(d) \/ d \in refunded
      BY <2>5, <2>6, <2>9 DEF TakenBack, TakesBack
    <3>4. Due(d)' = Due(d)
      BY <2>1, <2>2, <2>7, <3>3 DEF Due
    <3> QED
      BY <2>1, <2>3, <3>2, <3>4
  <2> QED
    BY <2>8, <2>9
<1> QED
  BY <1>6, <1>7 DEF FollowInv

LEMMA CancelDocFollows ==
  ASSUME CorrectionsApart, CorrectionsLast, CoreInv, FollowInv, NEW d \in Docs, CancelDoc(d)
  PROVE  FollowInv'
<1>1. d \in OfOrder(doc[d].order)
  BY DEF CancelDoc, OfOrder
<1> QED
  BY <1>1, GoneFollows DEF CancelDoc, NoFix

LEMMA RetireFollows ==
  ASSUME CorrectionsApart, CorrectionsLast, CoreInv, FollowInv, NEW o \in Orders, RetirePayments(o)
  PROVE  FollowInv'
<1> DEFINE old == {d \in OfOrder(o) : d \in Payments}
<1>1. old \in SUBSET {d \in Docs : Standing(d)}
  BY DEF OfOrder
<1>2. entries' = Reverse(entries, old) /\ doc' = Gone(old) /\ UNCHANGED <<fix, refunded>>
  BY DEF RetirePayments
<1>3. \A d \in old : fix[d] = Nothing /\ fixed[d] = 0
  BY DEF RetirePayments, NoFix
<1> HIDE DEF old
<1> QED
  BY <1>1, <1>2, <1>3, GoneFollows

\* With a deleted order its cash payments are paid back, those that the register
\* never followed as well.
LEMMA DeleteOrderFollows ==
  ASSUME CorrectionsApart, CoreInv, FollowInv, NEW o \in Orders, DeleteOrder(o)
  PROVE  FollowInv'
<1>1. CASE ~auto
  BY <1>1, PostNothing, FollowFrame DEF DeleteOrder
<1>2. CASE auto
  <2> DEFINE ds == CashOfOrder(o)
             new == Refunds(o)
  <2>1. entries' = entries \cup new /\ refunded' = refunded \cup ds /\ UNCHANGED <<doc, fix>>
    BY <1>2 DEF DeleteOrder, Refunds, RefundRow, Row
  <2>2. /\ Posts(new)
        /\ \A d \in PaysBack(o) : RefundRow(d).key = <<"order-cancel", d>> /\ RefundRow(d).amount = -doc[d].amount
    BY <1>2, <2>1, RefundsPosted
  <2>3. /\ \A e \in new : \E d \in PaysBack(o) : e = RefundRow(d)
        /\ \A d \in PaysBack(o) : RefundRow(d) \in new
        /\ PaysBack(o) \subseteq ds
    BY DEF Refunds, PaysBack
  <2>4. \A d \in ds : d \in Docs /\ Standing(d) /\ d \in Payments /\ doc[d].cash /\ fix[d] = Nothing
    BY DEF DeleteOrder, NoFix, CashOfOrder, OfOrder
  <2> HIDE DEF ds, new
  <2>5. \A d \in Docs \ ds : Net(d)' = Due(d)' /\ FixFits(d)'
    <3>1. \A d \in Docs \ ds : \A e \in new : ~Of(e.key, d)
      <4> TAKE d \in Docs \ ds
      <4> TAKE e \in new
      <4>1. PICK c \in PaysBack(o) : e = RefundRow(c)
        BY <2>3
      <4>2. Of(e.key, c) /\ c # d
        BY <2>2, <2>3, <4>1 DEF Of
      <4> QED
        BY <4>2, KeysApart
    <3> QED
      BY <2>1, <2>2, <3>1, FollowOthers
  <2>6. ASSUME NEW d \in ds
        PROVE  Net(d)' = Due(d)' /\ FixFits(d)'
    <3>1. DocOK(d) /\ Net(d) = Due(d) /\ doc[d] \in RowType /\ doc[d].at = "stands" /\ d \in refunded'
      BY <2>1, <2>4, StandingRow DEF CoreInv, FollowInv, Standing, Nothing
    <3>2. FixFits(d)'
      BY <2>1, <2>4 DEF FixFits
    <3>3. Tracked(d)' <=> Tracked(d)
      <4>1. \A e \in new : e.key # Base(d) /\ \A route \in Routes, n \in Nat : e.key # <<"correction", route, d, n>>
        <5> TAKE e \in new
        <5>1. PICK c \in PaysBack(o) : e = RefundRow(c)
          BY <2>3
        <5>2. e.key = <<"order-cancel", c>>
          BY <2>2, <5>1
        <5> QED
          BY <5>2, KeysApart DEF Base
      <4> QED
        BY <2>2, <4>1, TrackedOf
    <3>4. Due(d)' = IF Tracked(d) THEN 0 ELSE -doc[d].amount
      <4>1. CASE Tracked(d)
        BY <2>1, <3>1, <3>3, <4>1 DEF Due
      <4>2. CASE ~Tracked(d)
        BY <2>1, <3>1, <3>3, <4>2 DEF Due
      <4> QED
        BY <4>1, <4>2
    <3>5. CASE d \in PaysBack(o)
      <4>1. d \notin refunded
        BY <3>1, <3>5 DEF DocOK, PaysBack
      <4>2. Net(d) = IF Tracked(d) THEN Worth(d, doc[d].amount, doc[d].cash) ELSE 0
        BY <3>1, <4>1 DEF Due
      <4>3. Worth(d, doc[d].amount, doc[d].cash) = doc[d].amount
        BY <2>4, CashAssumption DEF Worth
      <4>4. RefundRow(d).key \in About(d)
        <5>1. RefundRow(d).key = <<"order-cancel", d>>
          BY <2>2, <3>5
        <5> QED
          BY <5>1 DEF About
      <4>5. \A e \in new : e.key \in About(d) => e = RefundRow(d)
        <5> TAKE e \in new
        <5>1. PICK c \in PaysBack(o) : e = RefundRow(c)
          BY <2>3
        <5>2. Of(e.key, c)
          BY <2>2, <5>1 DEF Of
        <5>3. e.key \in About(d) => c = d
          BY <5>2, AboutOf, KeysApart
        <5> QED
          BY <5>1, <5>3
      <4>6. Net(d)' = Net(d) + RefundRow(d).amount
        BY <2>2, <2>3, <3>5, <4>4, <4>5, NetOne DEF CoreInv
      <4>7. doc[d].amount \in Nat
        BY <3>1 DEF RowType
      <4>8. RefundRow(d).amount = -doc[d].amount
        BY <2>2, <3>5
      <4>9. Net(d)' = Due(d)'
        BY <3>4, <4>2, <4>3, <4>6, <4>7, <4>8
      <4> QED
        BY <3>2, <4>9
    <3>6. CASE d \notin PaysBack(o)
      <4>1. d \in refunded
        BY <3>1, <3>6 DEF DocOK, PaysBack, ds
      <4>2. \A e \in new : e.key \notin About(d)
        <5> TAKE e \in new
        <5>1. PICK c \in PaysBack(o) : e = RefundRow(c)
          BY <2>3
        <5>2. Of(e.key, c) /\ c # d
          BY <2>2, <3>6, <5>1 DEF Of
        <5> QED
          BY <5>2, AboutOf, KeysApart
      <4>3. Net(d)' = Net(d)
        BY <2>2, <4>2, NetSame DEF CoreInv
      <4>4. Due(d) = IF Tracked(d) THEN 0 ELSE -doc[d].amount
        <5>1. CASE Tracked(d)
          BY <4>1, <5>1 DEF Due
        <5>2. CASE ~Tracked(d)
          BY <4>1, <5>2 DEF Due
        <5> QED
          BY <5>1, <5>2
      <4> QED
        BY <3>1, <3>2, <3>4, <4>3, <4>4
    <3> QED
      BY <3>5, <3>6
  <2> QED
    BY <2>5, <2>6 DEF FollowInv
<1> QED
  BY <1>1, <1>2

LEMMA PlanCorrectionFollows ==
  ASSUME RoutesApart, CoreInv, FollowInv, NEW d \in Docs, NEW route \in Routes, NEW amount \in CorrectAmounts, NEW cash \in BOOLEAN,
         PlanCorrection(d, route, amount, cash)
  PROVE  FollowInv'
<1> DEFINE was == Worth(d, doc[d].amount, doc[d].cash)
           will == Worth(d, amount, cash)
           old == IF TrackedBy(route, d) THEN was ELSE 0
           new == IF TrackedBy(route, d) \/ Eligible(d, doc[d].kind, doc[d].order) THEN will ELSE 0
           plan == [at |-> "planned", route |-> route, amount |-> amount, cash |-> cash,
                    change |-> new - old]
<1>0. Tracked(d) <=> TrackedBy(route, d)
  BY DEF PlanCorrection, Tracked
<1>1. fix' = [fix EXCEPT ![d] = plan]
  BY DEF PlanCorrection
<1>2. doc[d] \in RowType /\ Standing(d) /\ d \notin refunded
  BY StandingRow, StandingDeleted DEF PlanCorrection, Standing, Nothing
<1>3. was \in Int /\ will \in Int
  <2>1. amount \in Nat
    BY CashAssumption
  <2> QED
    BY <1>2, <2>1 DEF Worth, RowType
<1>4. plan.amount = amount /\ plan.cash = cash /\ plan.change = new - old
  OBVIOUS
<1>5. IF Tracked(d) THEN new - old = will - was ELSE new - old \in {0, will}
  <2> HIDE DEF was, will
  <2> QED
    BY <1>0, <1>3
<1>6. Posts({}) /\ UNCHANGED <<entries, doc, refunded>>
  BY PostNothing DEF PlanCorrection
<1> HIDE DEF was, will, old, new, plan
<1>7. \A e \in Docs : fix'[e] = IF e = d THEN plan ELSE fix[e]
  BY <1>1 DEF CoreInv, RowsOK
<1>8. \A e \in Docs \ {d} : Net(e)' = Due(e)' /\ FixFits(e)'
  <2>1. \A e \in Docs \ {d} : \A x \in {} : ~Of(x.key, e)
    OBVIOUS
  <2> QED
    BY <1>6, <1>7, <2>1, FollowOthers
<1>9. Net(d)' = Due(d)'
  <2>1. Net(d)' = Net(d)
    BY <1>6, NetSame DEF CoreInv
  <2>2. Tracked(d)' <=> Tracked(d)
    BY <1>6, TrackedOf
  <2> QED
    BY <1>6, <2>1, <2>2 DEF FollowInv, Due, Worth
<1>10. FixFits(d)'
  <2>1. Tracked(d)' <=> Tracked(d)
    BY <1>6, TrackedOf
  <2>2. will = Worth(d, fix'[d].amount, fix'[d].cash) /\ was = Worth(d, doc'[d].amount, doc'[d].cash)
    BY <1>4, <1>6, <1>7 DEF will, was
  <2>3. IF Tracked(d) THEN fix'[d].change = will - was ELSE fix'[d].change \in {0, will}
    BY <1>4, <1>5, <1>7
  <2>4. Standing(d)' /\ d \notin refunded'
    BY <1>2, <1>6 DEF Standing
  <2> QED
    BY <2>1, <2>2, <2>3, <2>4 DEF FixFits, Worth
<1> QED
  BY <1>8, <1>9, <1>10 DEF FollowInv

LEMMA ApplyCorrectionFollows ==
  ASSUME CoreInv, FollowInv, NEW d \in Docs, ApplyCorrection(d)
  PROVE  FollowInv'
<1> DEFINE plan == fix[d]
           key == <<"correction", fix[d].route, d, fixed[d] + 1>>
           was == Worth(d, doc[d].amount, doc[d].cash)
           will == Worth(d, plan.amount, plan.cash)
<1>1. plan \in PlanType /\ plan # Nothing /\ DocOK(d) /\ fixed[d] \in Nat
  BY CashAssumption DEF CoreInv, RowsOK, ApplyCorrection, Nothing
<1>2. /\ Standing(d) /\ d \notin refunded /\ doc[d] \in RowType /\ Net(d) = Due(d)
      /\ IF Tracked(d) THEN plan.change = will - was ELSE plan.change \in {0, will}
  BY <1>1, StandingRow DEF FollowInv, FixFits, Standing, Nothing
<1>3. fixed[d] + 1 \in 1 .. MaxFixes /\ ~Booked(key)
  BY <1>1, CashAssumption DEF DocOK, PlanType
<1>4. was \in Int /\ will \in Int /\ plan.change \in Int
  <2>1. was \in Int
    BY <1>2 DEF Worth, RowType
  <2>2. will \in Int /\ plan.change \in Int
    BY <1>1 DEF Worth, PlanType
  <2> QED
    BY <2>1, <2>2
<1>5. /\ \A e \in Docs \ {d} : doc'[e] = doc[e] /\ fix'[e] = fix[e]
      /\ doc'[d].at = "stands" /\ doc'[d].amount = plan.amount /\ doc'[d].cash = plan.cash
      /\ fix'[d] = Nothing /\ refunded' = refunded
  <2> DEFINE row == [doc[d] EXCEPT !.amount = plan.amount, !.cash = plan.cash,
                                !.copy = IF plan.route = "exchange" THEN plan.cash ELSE @]
  <2>1. row.at = "stands" /\ row.amount = plan.amount /\ row.cash = plan.cash
    BY <1>2 DEF RowType, Standing
  <2>2. doc' = [doc EXCEPT ![d] = row]
    BY <1>2 DEF ApplyCorrection, CoreInv, RowsOK, RowType
  <2> HIDE DEF row
  <2> QED
    BY <2>1, <2>2 DEF ApplyCorrection, CoreInv, RowsOK
<1>6. Net(d) = IF Tracked(d) THEN was ELSE 0
  BY <1>2 DEF Due, Standing
<1>7. FixFits(d)'
  BY <1>5 DEF FixFits
<1>8. Due(d)' = IF Tracked(d)' THEN will ELSE 0
  BY <1>2, <1>5 DEF Due, Worth
<1>9. CASE plan.change = 0
  <2>1. Posts({}) /\ \A e \in Docs \ {d} : \A x \in {} : ~Of(x.key, e)
    BY <1>9, PostNothing DEF ApplyCorrection
  <2>2. \A e \in Docs \ {d} : Net(e)' = Due(e)' /\ FixFits(e)'
    BY <1>5, <2>1, FollowOthers
  <2>3. Net(d)' = Net(d) /\ (Tracked(d)' <=> Tracked(d))
    BY <2>1, NetSame, TrackedOf DEF CoreInv
  <2> HIDE DEF plan, was, will, key
  <2>4. Net(d)' = Due(d)'
    BY <1>2, <1>4, <1>6, <1>8, <1>9, <2>3
  <2> QED
    BY <1>7, <2>2, <2>4 DEF FollowInv
<1>10. CASE plan.change # 0
  <2> DEFINE x == Row(key, plan.change)
  <2>1. entries' = entries \cup {x}
    BY <1>3, <1>10, InsertOne DEF ApplyCorrection
  <2>2. Posts({x}) /\ x.key = key /\ x.amount = plan.change
    BY <1>3, <1>4, <2>1, PostOne DEF Row
  <2> HIDE DEF x
  <2>3. \A e \in Docs \ {d} : \A y \in {x} : ~Of(y.key, e)
    <3>1. Of(key, d)
      BY <1>1 DEF Of, PlanType
    <3> QED
      BY <2>2, <3>1, KeysApart
  <2>4. \A e \in Docs \ {d} : Net(e)' = Due(e)' /\ FixFits(e)'
    BY <1>5, <2>2, <2>3, FollowOthers
  <2>5. x.key \in About(d)
    BY <1>1, <1>3, <2>2 DEF About, PlanType
  <2>6. Net(d)' = Net(d) + plan.change
    BY <2>2, <2>5, NetOne DEF CoreInv
  <2>7. Tracked(d)'
    <3>1. PICK route \in Routes, n \in 1 .. MaxFixes : key = <<"correction", route, d, n>>
      BY <1>1, <1>3 DEF PlanType
    <3>2. Booked(<<"correction", route, d, n>>)'
      BY <2>1, <2>2, <3>1 DEF Booked
    <3> QED
      BY <3>2 DEF Tracked, TrackedBy, Routes
  <2> HIDE DEF plan, was, will, key
  <2>8. Net(d)' = Due(d)'
    BY <1>2, <1>4, <1>6, <1>8, <1>10, <2>6, <2>7
  <2> QED
    BY <1>7, <2>4, <2>8 DEF FollowInv
<1> QED
  BY <1>9, <1>10

LEMMA FollowKept ==
  ASSUME CorrectionsApart, CorrectionsLast, RoutesApart
  PROVE  CoreInv /\ FollowInv /\ [Next]_vars => FollowInv'
<1> SUFFICES ASSUME CoreInv, FollowInv, [Next]_vars PROVE FollowInv'
  OBVIOUS
<1>1. CASE Setup \/ SetAutoTracking \/ ResetCycle \/ UNCHANGED vars
  BY <1>1, DeskFollows
<1>2. ASSUME NEW o \in Orders, OrderStep(o)
      PROVE  FollowInv'
  <2>1. CASE CreateOrder(o) \/ PlanEdit(o) \/ UpdateOrder(o)
    BY <2>1, DeskFollows
  <2>2. CASE DeleteOrder(o) \/ RetirePayments(o)
    BY <2>2, DeleteOrderFollows, RetireFollows
  <2>3. ASSUME NEW d \in Docs, AddReturn(d, o)
        PROVE  FollowInv'
    BY <2>3, NewRowFollows DEF AddReturn
  <2>4. ASSUME NEW d \in Docs, NEW kind \in Kinds, AddPayment(d, o, kind)
        PROVE  FollowInv'
    BY <2>4, NewRowFollows, CashAssumption DEF AddPayment
  <2>5. ASSUME NEW d \in Docs, NEW kind \in Kinds, WritePayment(o, d, kind)
        PROVE  FollowInv'
    BY <2>5, NewRowFollows, CashAssumption DEF WritePayment
  <2> QED
    BY <1>2, <2>1, <2>2, <2>3, <2>4, <2>5 DEF OrderStep
<1>3. ASSUME NEW d \in Docs, DocStep(d)
      PROVE  FollowInv'
  BY <1>3, CancelDocFollows, ApplyCorrectionFollows, PlanCorrectionFollows DEF DocStep
<1>4. CASE \E h \in Clerks : ClerkStep(h)
  BY <1>4, DeskFollows
<1> QED
  BY <1>1, <1>2, <1>3, <1>4 DEF Next

\* What the register holds for a document it tracks is what the row says now,
\* whatever payments, refunds, edits, cancellations, order deletions, resets and
\* clerks' requests run at the same time, and however often a document is
\* corrected.  Assumed are that an order stands still while a correction of its
\* documents runs, that what was corrected is not cancelled, and that the two
\* routes of correction keep apart: without the last two the code breaks it.
THEOREM DocumentsAreFollowed ==
  ASSUME CorrectionsApart, CorrectionsLast, RoutesApart
  PROVE  Spec => []RegisterFollowsDocuments
<1>1. FollowInv => RegisterFollowsDocuments
  BY DEF FollowInv, Due, RegisterFollowsDocuments
<1> QED
  BY <1>1, CoreInit, CoreKept, FollowInit, FollowKept, PTL DEF Spec
===============================================================================
