------------------------ MODULE AdminDeleteSaga_proofs ------------------------
(***************************************************************************)
(* Proofs about AdminDeleteSaga, for any number of administrators,         *)
(* employees and returns, any number of faults, and leases that run out at *)
(* any time.                                                               *)
(***************************************************************************)
EXTENDS AdminDeleteSaga, FiniteSetTheorems, TLAPS

-----------------------------------------------------------------------------
(***************************************************************************)
(* The inductive invariant.                                                *)
(***************************************************************************)

\* Calls that may cancel a return.
Handlers == Admins \cup Clerks

\* Places of a call in cancelReturn.
CancelPlaces == {"begin", "read", "advance", "events", "event_write", "mark", "complete"}

\* Places of an administrator's call that works at the step it has read ...
ChainPlaces == CancelPlaces \cup {"claim", "preflight", "intent", "verify", "checkpoint"}
\* ... that has seen that nothing keeps the order from being deleted ...
DeletePlaces == {"final_plan", "final_delete", "final_update", "final_complete"}
\* ... and of one that is about the final deletion at all.
FinalPlaces == DeletePlaces \cup
    {"final_claim", "facts", "final_begin", "confirm", "final_checkpoint"}

Descending(s) == \A j, k \in DOMAIN s : j < k => s[j] > s[k]

\* What the saga has made sure of before it checkpoints a step.
PassedOK(i) == /\ ret[i] = "cancelled"
               /\ journal[<<i, Saga>>].status = "completed"
               /\ journal[<<i, Saga>>].target

\* The goods of a return that was there from the start are out of the books for
\* good: no employee is about to write an event for it.
ClearOK(i) == i \in Existing => event[i] \notin {"pending", "applied"}

\* Each call that takes in a return has one of its own, which nobody else
\* touches before the call has written its event.
CreatorOK(p) ==
    /\ pc[p] \in {"idle", "return_insert", "return_event"}
    /\ pc[p] = "idle" <=> at[p].op = 0
    /\ at[p].op \notin Existing
    /\ pc[p] = "return_insert" => ret[at[p].op] = "none"
    /\ pc[p] = "return_event" => /\ ret[at[p].op] # "none"
                                 /\ event[at[p].op] = "none"
                                 /\ booked[at[p].op] = 0

OwnReturn(p) == \A q \in Creators \ {p} : at[q].op = at[p].op => at[p].op = 0

\* A call that cancels a return knows it exists; an event it has not been able
\* to cancel is not pending any more.
HandlerOK(p) ==
    /\ pc[p] \notin {"return_insert", "return_event"}
    /\ pc[p] \in CancelPlaces => at[p].op # 0
    /\ at[p].op # 0 => ret[at[p].op] # "none"
    /\ pc[p] = "event_write" =>
         /\ at[p].event # "none" /\ event[at[p].op] # "none"
         /\ at[p].event = "applied" => event[at[p].op] # "pending"
    /\ pc[p] = "mark" /\ at[p].op \in Existing => event[at[p].op] # "pending"

GoodsInv ==
    /\ StockUndoneOnce
    /\ \A i \in Returns : ret[i] = "none" => event[i] = "none" /\ booked[i] = 0
    /\ \A i \in Existing : /\ ret[i] # "none"
                           /\ ret[i] = "cancelled" => event[i] # "pending"

\* The step a call works at is one of the plan, wherever the cursor is now.
PlannerOK(a) ==
    /\ pc[a] = "plan" => at[a].plan # <<>>
    /\ Descending(at[a].plan)
    /\ \A j \in DOMAIN at[a].plan : ret[at[a].plan[j]] # "none"
    /\ pc[a] \in ChainPlaces => /\ saga.status # "none"
                                /\ at[a].next + 1 \in DOMAIN saga.plan
                                /\ at[a].op = saga.plan[at[a].next + 1]
    /\ pc[a] = "checkpoint" => PassedOK(at[a].op) /\ ClearOK(at[a].op)

PlanOK ==
    /\ Descending(saga.plan)
    /\ saga.status = "none" =>
         saga.plan = <<>> /\ saga.next = 0 /\ \A i \in Returns : steps[i] = "none"
    /\ saga.status \in {"planned", "running"} => saga.next < Len(saga.plan)
    /\ \A j \in DOMAIN saga.plan : ret[saga.plan[j]] # "none"
    /\ PassedIsCancelled
    /\ \A i \in Returns : steps[i] = "completed" => ClearOK(i)

\* Nothing of the returns there were from the start is left.
AllGone == \A i \in Existing : ret[i] = "cancelled" /\ ClearOK(i)

DeleterOK(a) ==
    /\ pc[a] \in FinalPlaces => saga.status \in {"ready_for_final_delete", "completed"}
    /\ pc[a] \in DeletePlaces => AllGone
    /\ pc[a] = "final_checkpoint" => Confirmed

\* What holds of the tables, ...
TablesOK == /\ GoodsInv /\ PlanOK
            /\ order = "deleted" => /\ saga.status \in {"ready_for_final_delete", "completed"}
                                    /\ AllGone
            /\ CompletedProved

\* ... and of what a call has done so far.
CallOK(p) == /\ p \in Creators => CreatorOK(p)
             /\ p \in Handlers => HandlerOK(p)
             /\ p \in Admins => PlannerOK(p) /\ DeleterOK(p)

SagaInv == /\ SagaTypeOK /\ TablesOK
           /\ \A p \in Calls : CallOK(p)
           /\ \A p \in Creators : OwnReturn(p)

-----------------------------------------------------------------------------
(***************************************************************************)
(* The plan: a finite set of numbers can be listed in descending order.    *)
(***************************************************************************)

IsPlan(s, S) ==
    /\ s \in [1..Cardinality(S) -> S]
    /\ \A j, k \in 1..Cardinality(S) : j < k => s[j] > s[k]

\* A nonempty set of numbers has a least member.
LEMMA LeastMember ==
  ASSUME NEW S \in SUBSET Nat, S # {}
  PROVE  \E m \in S : \A x \in S : m <= x
<1>1. PICK n \in S : TRUE
  OBVIOUS
<1> DEFINE below == {0..x : x \in {y \in S : y <= n}}
<1>2. PICK T \in below : \A U \in below : ~(<<U, T>> \in StrictSubsetOrdering(0..n))
  <2>1. IsWellFoundedOn(StrictSubsetOrdering(0..n), SUBSET (0..n))
    <3>1. IsFiniteSet(0..n)
      BY <1>1, FS_Interval
    <3>2. FiniteSubsetsOf(0..n) = SUBSET (0..n)
      BY <3>1, FS_FiniteSubsetsOfFinite
    <3> QED
      BY <3>1, <3>2, FS_StrictSubsetOrderingWellFounded
  <2>2. below \in SUBSET SUBSET (0..n)
    <3> SUFFICES ASSUME NEW x \in S, x <= n PROVE 0..x \subseteq 0..n
      OBVIOUS
    <3> QED
      BY <1>1
  <2>3. below # {}
    <3>1. 0..n \in below
      BY <1>1
    <3> QED
      BY <3>1
  <2> HIDE DEF below
  <2> QED
    BY <2>1, <2>2, <2>3, WFMin
<1>3. PICK m \in S : m <= n /\ T = 0..m
  BY <1>2
<1>4. ASSUME NEW x \in S, x < m PROVE FALSE
  <2>1. 0..x \in below
    <3>1. x <= n
      BY <1>1, <1>3, <1>4
    <3> QED
      BY <3>1
  <2>2. 0..x \subseteq 0..n /\ 0..m \subseteq 0..n /\ 0..x \subseteq 0..m
    BY <1>1, <1>3, <1>4
  <2>3. 0..x # 0..m
    <3>1. m \in 0..m /\ m \notin 0..x
      BY <1>3, <1>4
    <3> QED
      BY <3>1
  <2>4. <<0..x, 0..m>> \in StrictSubsetOrdering(0..n)
    BY <2>2, <2>3 DEF StrictSubsetOrdering
  <2> HIDE DEF below
  <2> QED
    BY <1>2, <1>3, <2>1, <2>4
<1> QED
  BY <1>3, <1>4

\* Otherwise take a smallest set that cannot be listed and list it without its
\* least member.
LEMMA PlanExists ==
  ASSUME NEW S \in SUBSET Nat, IsFiniteSet(S)
  PROVE  \E s : IsPlan(s, S)
<1> DEFINE bad == {T \in SUBSET S : ~ \E s : IsPlan(s, T)}
<1> SUFFICES ASSUME bad # {} PROVE FALSE
  OBVIOUS
<1>1. PICK T \in bad : \A U \in bad : ~(<<U, T>> \in StrictSubsetOrdering(S))
  <2>1. IsWellFoundedOn(StrictSubsetOrdering(S), SUBSET S)
    BY FS_StrictSubsetOrderingWellFounded, FS_FiniteSubsetsOfFinite
  <2>2. bad \in SUBSET SUBSET S
    OBVIOUS
  <2> HIDE DEF bad
  <2> QED
    BY <2>1, <2>2, WFMin
<1>2. \A U \in SUBSET T : U # T => \E s : IsPlan(s, U)
  BY <1>1 DEF StrictSubsetOrdering
<1>3. IsFiniteSet(T) /\ T \in SUBSET Nat
  BY <1>1, FS_Subset
<1>4. T # {}
  <2> SUFFICES ASSUME T = {} PROVE \E s : IsPlan(s, T)
    BY <1>1
  <2>1. Cardinality(T) = 0
    BY FS_EmptySet
  <2>2. [j \in 1..0 |-> 0] \in [1..0 -> T]
    OBVIOUS
  <2>3. \A j, k \in 1..0 : j < k => [l \in 1..0 |-> 0][j] > [l \in 1..0 |-> 0][k]
    OBVIOUS
  <2> QED
    BY <2>1, <2>2, <2>3 DEF IsPlan
<1>5. PICK m \in T : \A x \in T : m <= x
  BY <1>3, <1>4, LeastMember
<1> DEFINE U == T \ {m}
           n == Cardinality(U)
<1>6. PICK s : IsPlan(s, U)
  BY <1>2, <1>5
<1>7. n \in Nat /\ Cardinality(T) = n + 1
  <2>1. Cardinality(U) = Cardinality(T) - 1 /\ IsFiniteSet(U)
    BY <1>3, <1>5, FS_RemoveElement
  <2>2. Cardinality(T) \in Nat /\ Cardinality(U) \in Nat
    BY <1>3, <2>1, FS_CardinalityType
  <2> QED
    BY <2>1, <2>2
<1> DEFINE t == [j \in 1..(n + 1) |-> IF j = n + 1 THEN m ELSE s[j]]
<1>8. \A j \in 1..n : s[j] \in T /\ s[j] \in Nat /\ s[j] > m
  <2>1. \A j \in 1..n : s[j] \in U
    BY <1>6 DEF IsPlan
  <2>2. \A x \in U : x \in T /\ x \in Nat /\ x > m
    BY <1>5, <1>3
  <2> HIDE DEF n, U
  <2> QED
    BY <2>1, <2>2
<1>9. \A j, k \in 1..n : j < k => s[j] > s[k]
  BY <1>6 DEF IsPlan
<1> HIDE DEF n
<1>10. t \in [1..(n + 1) -> T]
  BY <1>5, <1>7, <1>8
<1>11. ASSUME NEW j \in 1..(n + 1), NEW k \in 1..(n + 1), j < k PROVE t[j] > t[k]
  <2>1. j \in 1..n /\ t[j] = s[j]
    BY <1>7, <1>11
  <2>2. CASE k = n + 1
    BY <2>1, <2>2, <1>8
  <2>3. CASE k # n + 1
    <3>1. k \in 1..n /\ t[k] = s[k]
      BY <1>7, <1>11, <2>3
    <3> HIDE DEF t
    <3> QED
      BY <2>1, <3>1, <1>9, <1>11
  <2> QED
    BY <2>2, <2>3
<1> HIDE DEF t
<1>12. IsPlan(t, T)
  BY <1>7, <1>10, <1>11 DEF IsPlan
<1> QED
  BY <1>1, <1>12

\* What planAdminDeleteSaga writes down.
LEMMA PlanListed ==
  ASSUME NEW S \in SUBSET Returns
  PROVE  /\ PlanOf(S) \in Seq(Returns)
         /\ Descending(PlanOf(S))
         /\ \A j \in DOMAIN PlanOf(S) : PlanOf(S)[j] \in S
         /\ S # {} => PlanOf(S) # <<>>
<1>1. IsFiniteSet(S) /\ S \in SUBSET Nat
  BY SagaAssumption, FS_Subset
<1>2. IsPlan(PlanOf(S), S)
  BY <1>1, PlanExists DEF PlanOf, IsPlan
<1>3. Cardinality(S) \in Nat /\ (S # {} => Cardinality(S) # 0)
  BY <1>1, FS_CardinalityType, FS_EmptySet
<1>4. PlanOf(S) \in Seq(Returns) /\ DOMAIN PlanOf(S) = 1..Cardinality(S)
  <2>1. PlanOf(S) \in [1..Cardinality(S) -> Returns]
    BY <1>2 DEF IsPlan
  <2> QED
    BY <2>1, <1>3
<1>5. S # {} => PlanOf(S) # <<>>
  BY <1>3, <1>4
<1> QED
  BY <1>2, <1>4, <1>5 DEF IsPlan, Descending

-----------------------------------------------------------------------------
(***************************************************************************)
(* Types.                                                                  *)
(***************************************************************************)

CallTypes == [op : Returns \cup {0}, next : Nat, plan : Seq(Returns),
              step : {"started", "validated", "updated"},
              event : {"none", "pending", "applied"},
              seen : {<<>>} \cup ([Returns -> ReturnStatus] \X [Returns -> EventStatus])]
RowTypes == [status : {"none", "started", "completed"},
             step : {"started", "validated", "updated"},
             target : BOOLEAN, lease : Leases]

SagaTyped ==
    /\ saga \in [status : {"none", "planned", "running", "ready_for_final_delete", "completed"},
                 plan : Seq(Returns), next : Nat, lease : Leases]
    /\ saga.next <= Len(saga.plan)
GoodsTyped == /\ ret \in [Returns -> ReturnStatus]
              /\ event \in [Returns -> EventStatus]
              /\ booked \in [Returns -> {0, 1}]
CallsTyped == pc \in [Calls -> Places] /\ at \in [Calls -> CallTypes]
StepsTyped == steps \in [Returns -> {"none", "pending", "started", "completed"}]
JournalTyped == journal \in [Keys -> RowTypes]
OrderTyped == order \in {"active", "deleted"} /\ faults \in 0..MaxFaults

LEMMA TypeParts ==
  /\ SagaTypeOK <=> /\ SagaTyped /\ GoodsTyped /\ CallsTyped /\ StepsTyped
                    /\ JournalTyped /\ OrderTyped
  /\ SagaTypeOK' <=> /\ SagaTyped' /\ GoodsTyped' /\ CallsTyped' /\ StepsTyped'
                     /\ JournalTyped' /\ OrderTyped'
BY DEF SagaTypeOK, SagaTyped, GoodsTyped, CallsTyped, StepsTyped, JournalTyped, OrderTyped,
       CallTypes, RowTypes

LEMMA ReturnsFacts ==
  /\ 0 \notin Returns /\ Returns \subseteq Nat
  /\ Existing \subseteq Returns
  /\ Handlers \subseteq Calls /\ Creators \subseteq Calls /\ Admins \subseteq Handlers
  /\ Calls = Handlers \cup Creators
  /\ Creators \cap Handlers = {} /\ Admins \cap Clerks = {}
BY SagaAssumption DEF Calls, Handlers

LEMMA LeaseTyped ==
  /\ Free \in Leases
  /\ \A p \in Calls : Taken(p) \in Leases
  /\ \A l \in Leases, p \in Calls : Orphaned(l, p) \in Leases
  /\ \A l \in Leases : [l EXCEPT !.live = FALSE] \in Leases
BY DEF Leases, Free, Taken, Orphaned

\* How a call's memory is written.
LEMMA MemoryTyped ==
  ASSUME NEW r \in CallTypes
  PROVE  /\ Blank \in CallTypes
         /\ \A i \in Returns \cup {0} : [r EXCEPT !.op = i] \in CallTypes
         /\ \A s \in Seq(Returns) : [r EXCEPT !.plan = s] \in CallTypes
         /\ \A s \in {"started", "validated", "updated"} : [r EXCEPT !.step = s] \in CallTypes
         /\ \A e \in {"none", "pending", "applied"} : [r EXCEPT !.event = e] \in CallTypes
         /\ \A n \in Nat : [Blank EXCEPT !.next = n] \in CallTypes
         /\ \A n \in Nat, i \in Returns : [Blank EXCEPT !.next = n, !.op = i] \in CallTypes
<1>1. <<>> \in Seq(Returns)
  OBVIOUS
<1>2. Blank \in CallTypes
  BY <1>1 DEF Blank, CallTypes
<1> QED
  BY <1>2 DEF CallTypes, Blank

LEMMA SeenTyped ==
  ASSUME NEW r \in CallTypes, GoodsTyped
  PROVE  [r EXCEPT !.seen = <<ret, event>>] \in CallTypes
BY DEF GoodsTyped, CallTypes

\* The moves of a call: its own place and memory change, nobody else's.
OnlyCall(p) == \A q \in Calls \ {p} : pc'[q] = pc[q] /\ at'[q] = at[q]

\* Where a call may go and what it then remembers.
MovesTo(p, place) ==
    /\ OnlyCall(p)
    /\ CallsTyped'
    /\ pc'[p] = place
    /\ at'[p] = at[p]
LeavesIt(p) ==
    /\ OnlyCall(p)
    /\ CallsTyped'
    /\ pc'[p] = "idle"
    /\ at'[p] = Blank

LEMMA GotoMoves ==
  ASSUME CallsTyped, NEW p \in Calls, NEW place \in Places, Goto(p, place)
  PROVE  MovesTo(p, place)
BY DEF Goto, CallsTyped, MovesTo, OnlyCall

LEMMA LeaveMoves ==
  ASSUME CallsTyped, NEW p \in Calls, Leave(p)
  PROVE  LeavesIt(p)
<1>1. "idle" \in Places /\ Blank \in CallTypes
  BY MemoryTyped DEF Places, CallsTyped
<1> QED
  BY <1>1 DEF Leave, CallsTyped, LeavesIt, OnlyCall

\* A move that writes the call's memory.
LEMMA WriteMoves ==
  ASSUME CallsTyped, NEW p \in Calls, NEW place \in Places, NEW r \in CallTypes,
         pc' = [pc EXCEPT ![p] = place], at' = [at EXCEPT ![p] = r]
  PROVE  /\ OnlyCall(p) /\ CallsTyped'
         /\ pc'[p] = place /\ at'[p] = r
BY DEF CallsTyped, OnlyCall

LEMMA AbortMoves ==
  ASSUME CallsTyped, NEW p \in Calls, Abort(p)
  PROVE  \/ p \in Admins /\ MovesTo(p, "releasing")
         \/ p \notin Admins /\ LeavesIt(p)
<1>1. CASE p \in Admins
  <2>1. "releasing" \in Places /\ Goto(p, "releasing")
    BY <1>1 DEF Places, Abort
  <2> QED
    BY <1>1, <2>1, GotoMoves
<1>2. CASE p \notin Admins
  BY <1>2, LeaveMoves DEF Abort
<1> QED
  BY <1>1, <1>2

LEMMA DoneMoves ==
  ASSUME CallsTyped, NEW p \in Calls, Done(p)
  PROVE  \/ p \in Admins /\ MovesTo(p, "verify")
         \/ p \notin Admins /\ LeavesIt(p)
<1>1. CASE p \in Admins
  <2>1. "verify" \in Places /\ Goto(p, "verify")
    BY <1>1 DEF Places, Done
  <2> QED
    BY <1>1, <2>1, GotoMoves
<1>2. CASE p \notin Admins
  BY <1>2, LeaveMoves DEF Done
<1> QED
  BY <1>1, <1>2

LEMMA KeyTyped ==
  ASSUME CallsTyped, NEW p \in Handlers
  PROVE  KeyOf(p) \in Keys
BY DEF CallsTyped, CallTypes, KeyOf, Keys, Handlers, Calls

\* The rows of the journal: what is completed stays so, a target is kept.
JournalGrows ==
    \A k \in Keys : /\ journal[k].status = "completed" => journal'[k].status = "completed"
                    /\ journal[k].target => journal'[k].target

LEMMA RowWrites ==
  ASSUME JournalTyped, NEW k \in Keys, NEW r \in RowTypes,
         journal' = [journal EXCEPT ![k] = r],
         journal[k].status = "completed" => r.status = "completed",
         journal[k].target => r.target
  PROVE  JournalTyped' /\ JournalGrows /\ journal'[k] = r
BY DEF JournalTyped, JournalGrows

LEMMA SameJournal ==
  ASSUME JournalTyped, UNCHANGED journal
  PROVE  JournalTyped' /\ JournalGrows
BY DEF JournalTyped, JournalGrows

LEMMA RowTyped ==
  ASSUME NEW r \in RowTypes
  PROVE  /\ \A p \in Calls : [r EXCEPT !.status = "started", !.lease = Taken(p)] \in RowTypes
         /\ [r EXCEPT !.status = "completed", !.lease = Free] \in RowTypes
         /\ \A s \in {"started", "validated", "updated"} :
              [r EXCEPT !.step = s, !.target = TRUE] \in RowTypes
         /\ \A l \in Leases : [r EXCEPT !.lease = l] \in RowTypes
         /\ [r EXCEPT !.lease.live = FALSE] \in RowTypes
BY LeaseTyped DEF RowTypes, Leases

\* The row operations of the journal.
LEMMA BeginMoves ==
  ASSUME CallsTyped, JournalTyped, NEW p \in Handlers, NEW place \in Places, NEW finished,
         BeginOperation(p, place, finished)
  PROVE  /\ JournalTyped' /\ JournalGrows
         /\ \/ finished
            \/ Abort(p)
            \/ /\ OnlyCall(p) /\ CallsTyped'
               /\ pc'[p] = place
               /\ at'[p] = [at[p] EXCEPT !.step = journal[KeyOf(p)].step]
<1> DEFINE k == KeyOf(p)
<1>1. k \in Keys /\ journal[k] \in RowTypes /\ p \in Calls /\ at[p] \in CallTypes
  BY KeyTyped, ReturnsFacts DEF JournalTyped, CallsTyped
<1>2. CASE UNCHANGED journal
  <2>1. finished \/ Abort(p) \/ journal[k].status # "completed"
    BY DEF BeginOperation
  <2>2. finished \/ Abort(p) \/ ( /\ pc' = [pc EXCEPT ![p] = place]
                                  /\ at' = [at EXCEPT ![p].step = journal[k].step])
    BY DEF BeginOperation
  <2>3. [at[p] EXCEPT !.step = journal[k].step] \in CallTypes
    BY <1>1, MemoryTyped DEF RowTypes
  <2> HIDE DEF k
  <2>4. ASSUME at' = [at EXCEPT ![p].step = journal[k].step]
        PROVE at' = [at EXCEPT ![p] = [at[p] EXCEPT !.step = journal[k].step]]
    BY <2>4, <1>1
  <2> QED
    BY <1>1, <1>2, <2>2, <2>3, <2>4, SameJournal, WriteMoves DEF k
<1>3. CASE ~UNCHANGED journal
  <2>1. /\ journal[k].status # "completed"
        /\ journal' = [journal EXCEPT ![k].status = "started", ![k].lease = Taken(p)]
        /\ pc' = [pc EXCEPT ![p] = place]
        /\ at' = [at EXCEPT ![p].step = journal[k].step]
    BY <1>3 DEF BeginOperation
  <2> HIDE DEF k
  <2> DEFINE r == [journal[k] EXCEPT !.status = "started", !.lease = Taken(p)]
  <2>2. r \in RowTypes /\ r.target = journal[k].target
    <3>1. r.target = journal[k].target
      BY <1>1 DEF RowTypes
    <3>2. r \in RowTypes
      BY <1>1, RowTyped
    <3> QED
      BY <3>1, <3>2
  <2>3. journal' = [journal EXCEPT ![k] = r]
    BY <2>1, <1>1 DEF JournalTyped
  <2>4. JournalTyped' /\ JournalGrows
    BY <1>1, <2>1, <2>2, <2>3, RowWrites
  <2>5. [at[p] EXCEPT !.step = journal[k].step] \in CallTypes
    BY <1>1, MemoryTyped DEF RowTypes
  <2>6. at' = [at EXCEPT ![p] = [at[p] EXCEPT !.step = journal[k].step]]
    BY <1>1, <2>1
  <2> QED
    BY <1>1, <2>1, <2>4, <2>5, <2>6, WriteMoves DEF k
<1> QED
  BY <1>2, <1>3

LEMMA AdvanceMoves ==
  ASSUME CallsTyped, JournalTyped, NEW p \in Handlers, NEW place \in Places,
         NEW step \in {"validated", "updated"}, AdvanceOperation(p, step, place)
  PROVE  /\ JournalTyped' /\ JournalGrows
         /\ \/ MovesTo(p, "failing")
            \/ /\ OnlyCall(p) /\ CallsTyped'
               /\ pc'[p] = place
               /\ at'[p] = [at[p] EXCEPT !.step = step]
<1> DEFINE k == KeyOf(p)
<1>1. k \in Keys /\ journal[k] \in RowTypes /\ p \in Calls /\ at[p] \in CallTypes
  BY KeyTyped, ReturnsFacts DEF JournalTyped, CallsTyped
<1>2. CASE ~Mine(p)
  <2>1. "failing" \in Places /\ Goto(p, "failing") /\ UNCHANGED journal
    BY <1>2 DEF AdvanceOperation, Places
  <2> QED
    BY <1>1, <2>1, GotoMoves, SameJournal
<1>3. CASE Mine(p)
  <2>1. /\ journal' = [journal EXCEPT ![k].step = step, ![k].target = TRUE]
        /\ pc' = [pc EXCEPT ![p] = place]
        /\ at' = [at EXCEPT ![p].step = step]
    BY <1>3 DEF AdvanceOperation
  <2>2. journal[k].status = "started"
    BY <1>3 DEF Mine
  <2> HIDE DEF k
  <2> DEFINE r == [journal[k] EXCEPT !.step = step, !.target = TRUE]
  <2>3. r.target = TRUE /\ r.status = journal[k].status
    BY <1>1 DEF RowTypes
  <2>4. r \in RowTypes
    BY <1>1, RowTyped
  <2>5. journal' = [journal EXCEPT ![k] = r]
    BY <2>1, <1>1 DEF JournalTyped
  <2> HIDE DEF r
  <2>6. JournalTyped' /\ JournalGrows
    BY <1>1, <2>2, <2>3, <2>4, <2>5, RowWrites
  <2>7. [at[p] EXCEPT !.step = step] \in CallTypes
    BY <1>1, MemoryTyped
  <2>8. at' = [at EXCEPT ![p] = [at[p] EXCEPT !.step = step]]
    BY <1>1, <2>1
  <2> QED
    BY <1>1, <2>1, <2>6, <2>7, <2>8, WriteMoves
<1> QED
  BY <1>2, <1>3

LEMMA CompleteMoves ==
  ASSUME CallsTyped, JournalTyped, NEW p \in Handlers, NEW finished,
         CompleteOperation(p, finished)
  PROVE  /\ JournalTyped' /\ JournalGrows
         /\ \/ finished /\ journal'[KeyOf(p)].status = "completed"
            \/ MovesTo(p, "failing")
<1> DEFINE k == KeyOf(p)
<1>1. k \in Keys /\ journal[k] \in RowTypes /\ p \in Calls
  BY KeyTyped, ReturnsFacts DEF JournalTyped
<1>2. CASE ~Mine(p) /\ journal[k].status = "completed"
  <2>1. finished /\ UNCHANGED journal
    BY <1>2 DEF CompleteOperation
  <2> QED
    BY <1>2, <2>1, SameJournal
<1>3. CASE ~Mine(p) /\ journal[k].status # "completed"
  <2>1. "failing" \in Places /\ Goto(p, "failing") /\ UNCHANGED journal
    BY <1>3 DEF CompleteOperation, Places
  <2> QED
    BY <1>1, <2>1, GotoMoves, SameJournal
<1>4. CASE Mine(p)
  <2>1. finished /\ journal' = [journal EXCEPT ![k].status = "completed", ![k].lease = Free]
    BY <1>4 DEF CompleteOperation
  <2> HIDE DEF k
  <2> DEFINE r == [journal[k] EXCEPT !.status = "completed", !.lease = Free]
  <2>2. r.target = journal[k].target /\ r.status = "completed"
    BY <1>1 DEF RowTypes
  <2>3. r \in RowTypes
    BY <1>1, RowTyped
  <2>4. journal' = [journal EXCEPT ![k] = r]
    BY <2>1, <1>1 DEF JournalTyped
  <2> HIDE DEF r
  <2>5. JournalTyped' /\ JournalGrows /\ journal'[k] = r
    BY <1>1, <2>2, <2>3, <2>4, RowWrites
  <2> QED
    BY <2>1, <2>2, <2>5 DEF k
<1> QED
  BY <1>2, <1>3, <1>4

LEMMA FailMoves ==
  ASSUME CallsTyped, JournalTyped, NEW p \in Handlers, FailOperation(p)
  PROVE  JournalTyped' /\ JournalGrows /\ Abort(p)
<1> DEFINE k == KeyOf(p)
<1>1. k \in Keys /\ journal[k] \in RowTypes
  BY KeyTyped DEF JournalTyped
<1>2. CASE UNCHANGED journal
  BY <1>2, SameJournal DEF FailOperation
<1>3. CASE ~UNCHANGED journal
  <2>1. journal' = [journal EXCEPT ![k].lease = Free]
    BY <1>3 DEF FailOperation
  <2> HIDE DEF k
  <2> DEFINE r == [journal[k] EXCEPT !.lease = Free]
  <2>2. r.target = journal[k].target /\ r.status = journal[k].status
    BY <1>1 DEF RowTypes
  <2>3. r \in RowTypes
    BY <1>1, RowTyped, LeaseTyped
  <2>4. journal' = [journal EXCEPT ![k] = r]
    BY <2>1, <1>1 DEF JournalTyped
  <2> HIDE DEF r
  <2>5. JournalTyped' /\ JournalGrows
    BY <1>1, <2>2, <2>3, <2>4, RowWrites
  <2> QED
    BY <2>5 DEF FailOperation
<1> QED
  BY <1>2, <1>3

LEMMA OrphansTyped ==
  ASSUME JournalTyped, NEW p \in Calls, OrphanJournal(p)
  PROVE  JournalTyped' /\ JournalGrows
<1>1. \A k \in Keys : /\ [journal[k] EXCEPT !.lease = Orphaned(@, p)] \in RowTypes
                      /\ [journal[k] EXCEPT !.lease = Orphaned(@, p)].status = journal[k].status
                      /\ [journal[k] EXCEPT !.lease = Orphaned(@, p)].target = journal[k].target
  <2> SUFFICES ASSUME NEW k \in Keys
               PROVE /\ [journal[k] EXCEPT !.lease = Orphaned(@, p)] \in RowTypes
                     /\ [journal[k] EXCEPT !.lease = Orphaned(@, p)].status = journal[k].status
                     /\ [journal[k] EXCEPT !.lease = Orphaned(@, p)].target = journal[k].target
    OBVIOUS
  <2>1. journal[k] \in RowTypes /\ journal[k].lease \in Leases
    BY DEF JournalTyped, RowTypes
  <2>2. Orphaned(journal[k].lease, p) \in Leases
    BY <2>1, LeaseTyped
  <2> DEFINE l == Orphaned(journal[k].lease, p)
  <2> HIDE DEF l
  <2>3. /\ [journal[k] EXCEPT !.lease = l] \in RowTypes
        /\ [journal[k] EXCEPT !.lease = l].status = journal[k].status
        /\ [journal[k] EXCEPT !.lease = l].target = journal[k].target
    BY <2>1, <2>2 DEF RowTypes, l
  <2> QED
    BY <2>3 DEF l
<1> QED
  BY <1>1 DEF OrphanJournal, JournalTyped, JournalGrows

\* The leases of the saga come and go without its cursor.
SameCursor == /\ saga'.status = saga.status
              /\ saga'.plan = saga.plan
              /\ saga'.next = saga.next

LEMMA LeaseMoves ==
  ASSUME SagaTyped, NEW l \in Leases, saga' = [saga EXCEPT !.lease = l]
  PROVE  SagaTyped' /\ SameCursor
BY DEF SagaTyped, SameCursor

-----------------------------------------------------------------------------
(***************************************************************************)
(* What no step undoes, and what it leaves of other calls.                 *)
(***************************************************************************)

GoodsGrow ==
    \A i \in Returns :
        /\ ret[i] # "none" => ret'[i] # "none"
        /\ ret[i] = "cancelled" => ret'[i] = "cancelled"
        /\ \/ event'[i] = event[i]
           \/ event[i] \in {"pending", "applied"} /\ event'[i] \in {"applied", "cancelled"}
           \/ event[i] = "none" /\ event'[i] = "pending" /\ i \notin Existing

SagaGrows ==
    /\ saga.status # "none" => saga'.status # "none" /\ saga'.plan = saga.plan
    /\ saga.status \in {"ready_for_final_delete", "completed"} =>
         saga'.status \in {"ready_for_final_delete", "completed"}

Grows == /\ JournalGrows /\ GoodsGrow /\ SagaGrows
         /\ order = "deleted" => order' = "deleted"

\* Only the call that takes in a return touches one that nobody knows of yet.
Still(i) == /\ ret[i] = "none" => ret'[i] = "none"
            /\ event[i] = "none" => event'[i] = "none" /\ booked'[i] = booked[i]

Apart(p) == \A i \in Returns : (p \in Creators /\ i = at[p].op) \/ Still(i)

LEMMA GrowsKeeps ==
  ASSUME SagaTypeOK, SagaTypeOK', Grows
  PROVE  /\ \A i \in Returns : PassedOK(i) => PassedOK(i)'
         /\ \A i \in Returns : ret[i] = "cancelled" /\ ClearOK(i) => ClearOK(i)'
         /\ AllGone => AllGone'
         /\ Confirmed => Confirmed'
<1>1. FinalKey \in Keys /\ \A i \in Returns : <<i, Saga>> \in Keys
  BY DEF Keys
<1>2. Existing \subseteq Returns
  BY ReturnsFacts
<1>3. \A i \in Returns : PassedOK(i) => PassedOK(i)'
  BY <1>1 DEF Grows, JournalGrows, GoodsGrow, PassedOK
<1>4. \A i \in Returns : ClearOK(i) => ClearOK(i)'
  BY DEF Grows, GoodsGrow, ClearOK
<1>5. AllGone => AllGone'
  BY <1>2, <1>4 DEF Grows, GoodsGrow, AllGone
<1>6. Confirmed => Confirmed'
  BY <1>1 DEF Grows, JournalGrows, Confirmed
<1> QED
  BY <1>3, <1>4, <1>5, <1>6

\* What a call relies on stays as it is while other calls step.
LEMMA OthersKeep ==
  ASSUME SagaTypeOK, SagaTypeOK', Grows, NEW q \in Calls,
         pc'[q] = pc[q], at'[q] = at[q], CallOK(q),
         q \in Creators => (at[q].op # 0 => Still(at[q].op))
  PROVE  CallOK(q)'
<1>1. /\ at[q].op \in Returns \cup {0} /\ at[q].plan \in Seq(Returns)
      /\ ret \in [Returns -> ReturnStatus] /\ event \in [Returns -> EventStatus]
      /\ saga.plan \in Seq(Returns)
  BY TypeParts DEF CallsTyped, CallTypes, GoodsTyped, SagaTyped
<1>2. 0 \notin Returns /\ Existing \subseteq Returns /\ Creators \cap Handlers = {}
      /\ Admins \subseteq Handlers
  BY ReturnsFacts
<1>3. CASE q \in Creators
  <2>1. CreatorOK(q)
    BY <1>3 DEF CallOK
  <2>2. at[q].op # 0 => Still(at[q].op)
    BY <1>3
  <2>3. CreatorOK(q)'
    <3>1. pc[q] # "idle" => at[q].op \in Returns
      BY <1>1, <2>1 DEF CreatorOK
    <3>2. pc[q] # "idle" =>
             /\ ret[at[q].op] = "none" => ret'[at[q].op] = "none"
             /\ event[at[q].op] = "none" =>
                  event'[at[q].op] = "none" /\ booked'[at[q].op] = booked[at[q].op]
      BY <1>2, <2>1, <2>2, <3>1 DEF Still, CreatorOK
    <3>3. pc[q] # "idle" => (ret[at[q].op] # "none" => ret'[at[q].op] # "none")
      BY <3>1 DEF Grows, GoodsGrow
    <3> QED
      BY <2>1, <3>2, <3>3 DEF CreatorOK
  <2> QED
    BY <1>2, <1>3, <2>3 DEF CallOK
<1>4. CASE q \in Handlers
  <2>1. HandlerOK(q)
    BY <1>4 DEF CallOK
  <2>2. HandlerOK(q)'
    <3>1. CASE at[q].op = 0
      <4>1. 0 \notin Existing
        BY <1>2
      <4>2. pc[q] # "event_write"
        BY <2>1, <3>1 DEF HandlerOK, CancelPlaces
      <4> QED
        BY <2>1, <3>1, <4>1, <4>2 DEF HandlerOK
    <3>2. CASE at[q].op \in Returns
      BY <2>1, <3>2 DEF HandlerOK, Grows, GoodsGrow
    <3> QED
      BY <1>1, <3>1, <3>2
  <2>3. CASE q \in Admins
    <3>1. PlannerOK(q) /\ DeleterOK(q)
      BY <2>3 DEF CallOK
    <3>2. PlannerOK(q)'
      <4>1. \A j \in DOMAIN at[q].plan : at[q].plan[j] \in Returns
        BY <1>1
      <4>2. \A j \in DOMAIN at[q].plan : ret'[at[q].plan[j]] # "none"
        BY <3>1, <4>1 DEF PlannerOK, Grows, GoodsGrow
      <4>3. pc[q] \in ChainPlaces => /\ saga'.status # "none"
                                     /\ at[q].next + 1 \in DOMAIN saga'.plan
                                     /\ at[q].op = saga'.plan[at[q].next + 1]
        BY <3>1 DEF PlannerOK, Grows, SagaGrows
      <4>4. pc[q] = "checkpoint" => PassedOK(at[q].op)' /\ ClearOK(at[q].op)'
        <5> SUFFICES ASSUME pc[q] = "checkpoint"
                     PROVE  PassedOK(at[q].op)' /\ ClearOK(at[q].op)'
          OBVIOUS
        <5>1. PassedOK(at[q].op) /\ ClearOK(at[q].op)
          BY <3>1 DEF PlannerOK
        <5>2. pc[q] \in ChainPlaces
          BY DEF ChainPlaces
        <5>3. at[q].op \in Returns
          BY <1>1, <3>1, <5>2 DEF PlannerOK
        <5>4. ret[at[q].op] = "cancelled"
          BY <5>1 DEF PassedOK
        <5>5. \A i \in Returns : i = at[q].op => PassedOK(i)' /\ ClearOK(i)'
          BY <5>1, <5>4, GrowsKeeps
        <5> QED
          BY <5>3, <5>5 DEF PassedOK, ClearOK
      <4> QED
        BY <3>1, <4>2, <4>3, <4>4 DEF PlannerOK, Descending, PassedOK, ClearOK
    <3>3. DeleterOK(q)'
      BY <3>1, GrowsKeeps DEF DeleterOK, Grows, SagaGrows
    <3> QED
      BY <1>2, <1>4, <2>2, <3>2, <3>3 DEF CallOK
  <2> QED
    BY <1>2, <1>4, <2>2, <2>3 DEF CallOK
<1> QED
  BY <1>3, <1>4, ReturnsFacts

\* A step of one call that grows the tables and leaves what is promised of them
\* and of the call itself keeps the invariant.
LEMMA StepKeeps ==
  ASSUME SagaInv, SagaTypeOK', Grows, TablesOK', NEW p \in Calls, OnlyCall(p), Apart(p),
         CallOK(p)', p \in Creators => OwnReturn(p)'
  PROVE  SagaInv'
<1>1. SagaTypeOK /\ (\A q \in Calls : CallOK(q)) /\ (\A q \in Creators : OwnReturn(q))
  BY DEF SagaInv
<1>2. \A q \in Calls : CallOK(q)'
  <2> SUFFICES ASSUME NEW q \in Calls, q # p PROVE CallOK(q)'
    OBVIOUS
  <2>1. pc'[q] = pc[q] /\ at'[q] = at[q]
    BY DEF OnlyCall
  <2>2. q \in Creators => (at[q].op # 0 => Still(at[q].op))
    <3>1. at[q].op \in Returns \cup {0}
      BY <1>1, TypeParts DEF CallsTyped, CallTypes
    <3>2. p \in Creators /\ q \in Creators => (at[q].op = at[p].op => at[p].op = 0)
      BY <1>1 DEF OwnReturn
    <3> QED
      BY <3>1, <3>2 DEF Apart
  <2> QED
    BY <1>1, <2>1, <2>2, OthersKeep
<1>3. \A q \in Creators : OwnReturn(q)'
  <2>1. \A q \in Creators : q # p => at'[q] = at[q]
    BY ReturnsFacts DEF OnlyCall
  <2> QED
    BY <1>1, <2>1 DEF OwnReturn
<1>4. SagaTypeOK' /\ TablesOK' /\ (\A q \in Calls : CallOK(q)') /\ (\A q \in Creators : OwnReturn(q)')
  BY <1>2, <1>3
<1> QED
  BY <1>4 DEF SagaInv

\* Nothing but leases, journal rows and one call: the tables say what they said.
Quiet == /\ SagaTyped' /\ SameCursor
         /\ JournalTyped' /\ JournalGrows
         /\ UNCHANGED <<steps, ret, event, booked, order>>
         /\ faults' \in 0..MaxFaults

LEMMA QuietTables ==
  ASSUME SagaInv, Quiet
  PROVE  Grows /\ TablesOK' /\ (CallsTyped' => SagaTypeOK') /\ \A p : Apart(p)
<1>1. SagaTypeOK /\ TablesOK
  BY DEF SagaInv
<1>2. SagaTyped /\ GoodsTyped /\ StepsTyped /\ OrderTyped
  BY <1>1, TypeParts
<1>3. GoodsTyped' /\ StepsTyped' /\ OrderTyped'
  BY <1>2 DEF Quiet, GoodsTyped, StepsTyped, OrderTyped
<1>4. Grows
  BY DEF Quiet, Grows, GoodsGrow, SagaGrows, SameCursor
<1>5. FinalKey \in Keys /\ (\A i \in Returns : <<i, Saga>> \in Keys)
      /\ (\A j \in DOMAIN saga.plan : saga.plan[j] \in Returns)
      /\ DOMAIN saga.plan = 1..Len(saga.plan)
  BY <1>2 DEF Keys, SagaTyped
<1>6. GoodsInv'
  BY <1>1 DEF TablesOK, Quiet, GoodsInv, StockUndoneOnce
<1>7. PlanOK'
  <2>1. PassedIsCancelled'
    BY <1>1, <1>5 DEF TablesOK, PlanOK, Quiet, SameCursor, PassedIsCancelled, JournalGrows
  <2> QED
    BY <1>1, <2>1 DEF TablesOK, PlanOK, Quiet, SameCursor, Descending, ClearOK
<1>8. CompletedProved'
  BY <1>1, <1>5 DEF TablesOK, CompletedProved, Quiet, SameCursor, JournalGrows
<1>9. AllGone' = AllGone
  BY DEF Quiet, AllGone, ClearOK
<1>10. TablesOK'
  BY <1>1, <1>6, <1>7, <1>8, <1>9 DEF TablesOK, Quiet, SameCursor
<1>11. CallsTyped' => SagaTypeOK'
  <2>1. CallsTyped' => /\ SagaTyped' /\ GoodsTyped' /\ CallsTyped' /\ StepsTyped'
                       /\ JournalTyped' /\ OrderTyped'
    BY <1>3 DEF Quiet
  <2> QED
    BY <2>1, TypeParts
<1>12. \A p : Apart(p)
  BY DEF Quiet, Apart, Still
<1> QED
  BY <1>4, <1>10, <1>11, <1>12

LEMMA QuietStep ==
  ASSUME SagaInv, Quiet, NEW p \in Calls, OnlyCall(p), CallsTyped',
         CallOK(p)', p \in Creators => OwnReturn(p)'
  PROVE  SagaInv'
BY QuietTables, StepKeeps

\* A call that has left, and one that goes on with its errand.
LEMMA LeftOK ==
  ASSUME NEW p \in Calls, LeavesIt(p)
  PROVE  CallOK(p)' /\ OwnReturn(p)'
<1>1. pc'[p] = "idle" /\ at'[p].op = 0 /\ at'[p].plan = <<>>
  BY DEF LeavesIt, Blank
<1>2. 0 \notin Existing
  BY ReturnsFacts
<1> QED
  BY <1>1, <1>2 DEF CallOK, OwnReturn, CreatorOK, HandlerOK, PlannerOK, DeleterOK, Descending,
     CancelPlaces, ChainPlaces, FinalPlaces, DeletePlaces

\* Places one enters only with something new to show.
Checked == {"idle", "plan", "return_insert", "return_event", "event_write", "mark",
            "checkpoint", "final_checkpoint"}

GoesOn(p) ==
    /\ at'[p].op = at[p].op /\ at'[p].next = at[p].next /\ at'[p].plan = at[p].plan
    /\ pc'[p] \notin Checked
    /\ pc'[p] \in CancelPlaces => pc[p] \in CancelPlaces \/ at[p].op # 0
    /\ pc'[p] \in ChainPlaces => pc[p] \in ChainPlaces
    /\ pc'[p] \in FinalPlaces => pc[p] \in FinalPlaces
    /\ pc'[p] \in DeletePlaces => pc[p] \in DeletePlaces

LEMMA GoesOnOK ==
  ASSUME SagaTypeOK, SagaTypeOK', Grows, NEW p \in Handlers, CallOK(p), GoesOn(p)
  PROVE  CallOK(p)'
<1>1. /\ at[p].op \in Returns \cup {0} /\ at[p].plan \in Seq(Returns)
      /\ saga.plan \in Seq(Returns)
  BY TypeParts, ReturnsFacts DEF CallsTyped, CallTypes, SagaTyped
<1>2. p \notin Creators /\ HandlerOK(p) /\ (p \in Admins => PlannerOK(p) /\ DeleterOK(p))
  BY ReturnsFacts DEF CallOK
<1>3. HandlerOK(p)'
  BY <1>1, <1>2 DEF HandlerOK, GoesOn, Checked, Grows, GoodsGrow
<1>4. ASSUME p \in Admins PROVE PlannerOK(p)' /\ DeleterOK(p)'
  <2>1. \A j \in DOMAIN at[p].plan : ret'[at[p].plan[j]] # "none"
    <3>1. \A j \in DOMAIN at[p].plan : at[p].plan[j] \in Returns
      BY <1>1
    <3> QED
      BY <1>2, <1>4, <3>1 DEF PlannerOK, Grows, GoodsGrow
  <2>2. PlannerOK(p)'
    BY <1>2, <1>4, <2>1 DEF PlannerOK, GoesOn, Checked, Descending, Grows, SagaGrows
  <2>3. DeleterOK(p)'
    BY <1>2, <1>4, GrowsKeeps DEF DeleterOK, GoesOn, Checked, Grows, SagaGrows
  <2> QED
    BY <2>2, <2>3
<1> QED
  BY <1>2, <1>3, <1>4 DEF CallOK

\* A quiet step of a call that leaves or goes on.
LEMMA QuietMove ==
  ASSUME SagaInv, Quiet, NEW p \in Calls, OnlyCall(p), CallsTyped',
         LeavesIt(p) \/ (p \in Handlers /\ GoesOn(p))
  PROVE  SagaInv'
<1>1. CASE LeavesIt(p)
  BY <1>1, LeftOK, QuietStep
<1>2. CASE p \in Handlers /\ GoesOn(p)
  <2>1. CallOK(p) /\ SagaTypeOK /\ p \notin Creators
    BY <1>2, ReturnsFacts DEF SagaInv
  <2>2. SagaTypeOK' /\ Grows
    BY QuietTables
  <2>3. CallOK(p)'
    BY <1>2, <2>1, <2>2, GoesOnOK
  <2> QED
    BY <2>1, <2>3, QuietStep
<1> QED
  BY <1>1, <1>2

LEMMA InvTyped ==
  ASSUME SagaInv
  PROVE  /\ SagaTypeOK /\ SagaTyped /\ GoodsTyped /\ CallsTyped /\ StepsTyped
         /\ JournalTyped /\ OrderTyped
         /\ \A p \in Calls : at[p] \in CallTypes /\ CallOK(p)
BY TypeParts DEF SagaInv, CallsTyped

\* The tables are quiet when only the journal and the saga's lease are written.
LEMMA QuietJournal ==
  ASSUME SagaInv, JournalTyped', JournalGrows,
         UNCHANGED <<saga, steps, ret, event, booked, order, faults>>
  PROVE  Quiet
BY InvTyped DEF Quiet, SagaTyped, SameCursor, OrderTyped

LEMMA QuietAtAll ==
  ASSUME SagaInv, UNCHANGED <<tables, faults>>
  PROVE  Quiet
<1>1. JournalTyped' /\ JournalGrows
  BY InvTyped, SameJournal DEF tables
<1> QED
  BY <1>1, QuietJournal DEF tables

LEMMA QuietLease ==
  ASSUME SagaInv, NEW l \in Leases, saga' = [saga EXCEPT !.lease = l],
         UNCHANGED <<steps, ret, event, booked, order, journal, faults>>
  PROVE  Quiet
BY InvTyped, LeaseMoves, SameJournal DEF Quiet, OrderTyped

LEMMA QuietAbort ==
  ASSUME SagaInv, Quiet, NEW p \in Calls, Abort(p)
  PROVE  SagaInv'
<1>1. CASE p \in Admins /\ MovesTo(p, "releasing")
  <2>1. OnlyCall(p) /\ CallsTyped' /\ GoesOn(p)
    BY <1>1 DEF MovesTo, GoesOn, Checked, CancelPlaces, ChainPlaces, FinalPlaces, DeletePlaces
  <2> QED
    BY <1>1, <2>1, QuietMove, ReturnsFacts
<1>2. CASE LeavesIt(p)
  BY <1>2, QuietMove DEF LeavesIt
<1> QED
  BY <1>1, <1>2, AbortMoves, InvTyped

LEMMA QuietDone ==
  ASSUME SagaInv, Quiet, NEW p \in Handlers, pc[p] \in CancelPlaces, Done(p)
  PROVE  SagaInv'
<1>1. CASE p \in Admins /\ MovesTo(p, "verify")
  <2>1. OnlyCall(p) /\ CallsTyped' /\ GoesOn(p)
    BY <1>1 DEF MovesTo, GoesOn, Checked, CancelPlaces, ChainPlaces, FinalPlaces, DeletePlaces
  <2> QED
    BY <1>1, <2>1, QuietMove, ReturnsFacts
<1>2. CASE LeavesIt(p)
  BY <1>2, QuietMove, ReturnsFacts DEF LeavesIt
<1> QED
  BY <1>1, <1>2, DoneMoves, InvTyped, ReturnsFacts

LEMMA QuietLeave ==
  ASSUME SagaInv, Quiet, NEW p \in Calls, Leave(p)
  PROVE  SagaInv'
BY LeaveMoves, QuietMove, InvTyped DEF LeavesIt

\* A call that goes on from one place to the next.
LEMMA QuietGoto ==
  ASSUME SagaInv, Quiet, NEW p \in Handlers, NEW place \in Places, MovesTo(p, place),
         place \notin Checked,
         place \in CancelPlaces => pc[p] \in CancelPlaces \/ at[p].op # 0,
         place \in ChainPlaces => pc[p] \in ChainPlaces,
         place \in FinalPlaces => pc[p] \in FinalPlaces,
         place \in DeletePlaces => pc[p] \in DeletePlaces
  PROVE  SagaInv'
<1>1. OnlyCall(p) /\ CallsTyped' /\ GoesOn(p)
  BY DEF MovesTo, GoesOn
<1> QED
  BY <1>1, QuietMove, ReturnsFacts

\* The same when it notes a step of the operation on the way.
LEMMA QuietNote ==
  ASSUME SagaInv, Quiet, NEW p \in Handlers, NEW step, OnlyCall(p), CallsTyped',
         at'[p] = [at[p] EXCEPT !.step = step],
         pc'[p] \notin Checked,
         pc'[p] \in CancelPlaces => pc[p] \in CancelPlaces,
         pc'[p] \in ChainPlaces => pc[p] \in ChainPlaces,
         pc'[p] \in FinalPlaces => pc[p] \in FinalPlaces,
         pc'[p] \in DeletePlaces => pc[p] \in DeletePlaces
  PROVE  SagaInv'
<1>1. at[p] \in CallTypes
  BY InvTyped, ReturnsFacts
<1>2. GoesOn(p)
  BY <1>1 DEF GoesOn, CallTypes
<1> QED
  BY <1>2, QuietMove, ReturnsFacts

-----------------------------------------------------------------------------
(***************************************************************************)
(* The steps that leave the tables quiet.                                  *)
(***************************************************************************)

LEMMA PlanReadKeeps == ASSUME SagaInv, NEW p \in Admins, PlanRead(p) PROVE SagaInv'
<1>1. Quiet
  BY QuietAtAll DEF PlanRead
<1>2. p \in Calls /\ p \in Handlers /\ p \notin Creators
  BY ReturnsFacts
<1> DEFINE s == PlanOf(Active)
           r == [at[p] EXCEPT !.plan = s]
<1>3. /\ s \in Seq(Returns) /\ s # <<>> /\ Descending(s)
      /\ \A j \in DOMAIN s : ret[s[j]] # "none"
  <2>1. Active \in SUBSET Returns /\ Active # {} /\ \A i \in Active : ret[i] # "none"
    BY DEF PlanRead, Active
  <2> QED
    BY <2>1, PlanListed
<1>4. at[p] \in CallTypes /\ at[p].op = at[p].op
  BY <1>2, InvTyped
<1>5. r \in CallTypes
  BY <1>3, <1>4, MemoryTyped
<1>6. r.op = at[p].op /\ r.plan = s
  BY <1>4 DEF CallTypes
<1>7. pc' = [pc EXCEPT ![p] = "plan"] /\ at' = [at EXCEPT ![p] = r]
  BY DEF PlanRead
<1> HIDE DEF r, s
<1>8. OnlyCall(p) /\ CallsTyped' /\ pc'[p] = "plan" /\ at'[p] = r
  <2>1. "plan" \in Places
    BY DEF Places, Unclaimed
  <2> QED
    BY <1>2, <1>5, <1>7, <2>1, WriteMoves, InvTyped
<1>9. CallOK(p)'
  <2>1. HandlerOK(p)'
    <3>1. CallOK(p) /\ HandlerOK(p) /\ UNCHANGED ret
      BY <1>2, InvTyped DEF CallOK, PlanRead, tables
    <3> QED
      BY <1>6, <1>8, <3>1 DEF HandlerOK, CancelPlaces
  <2>2. PlannerOK(p)' /\ DeleterOK(p)'
    <3>1. UNCHANGED ret
      BY DEF PlanRead, tables
    <3> QED
      BY <1>3, <1>6, <1>8, <3>1 DEF PlannerOK, DeleterOK, CancelPlaces, ChainPlaces, FinalPlaces,
         DeletePlaces, Descending
  <2> QED
    BY <1>2, <2>1, <2>2 DEF CallOK
<1> QED
  BY <1>1, <1>2, <1>8, <1>9, QuietStep

LEMMA OpenKeeps == ASSUME SagaInv, NEW p \in Admins, Open(p) PROVE SagaInv'
<1>1. Quiet
  BY QuietAtAll DEF Open
<1>2. p \in Calls /\ p \in Handlers /\ p \notin Creators
  BY ReturnsFacts
<1>3. SagaTyped /\ PlanOK /\ CallsTyped /\ UNCHANGED <<saga, ret>>
  BY InvTyped DEF SagaInv, TablesOK, Open, tables
<1>4. CASE /\ saga.status \in {"planned", "running"}
           /\ pc' = [pc EXCEPT ![p] = "claim"]
           /\ at' = [at EXCEPT ![p] = [Blank EXCEPT !.next = saga.next, !.op = NextStep]]
  <2>1. /\ saga.next \in Nat /\ saga.next + 1 \in DOMAIN saga.plan
        /\ NextStep \in Returns /\ ret[NextStep] # "none"
    BY <1>3, <1>4 DEF SagaTyped, PlanOK, NextStep
  <2> DEFINE r == [Blank EXCEPT !.next = saga.next, !.op = NextStep]
  <2>2. r \in CallTypes
    BY <1>2, <2>1, MemoryTyped, InvTyped
  <2>3. r.op = NextStep /\ r.next = saga.next /\ r.plan = <<>>
    BY DEF Blank
  <2>4. "claim" \in Places
    BY DEF Places, Unclaimed
  <2> HIDE DEF r
  <2>5. OnlyCall(p) /\ CallsTyped' /\ pc'[p] = "claim" /\ at'[p] = r
    BY <1>2, <1>3, <1>4, <2>2, <2>4, WriteMoves DEF r
  <2>6. HandlerOK(p)'
    BY <1>3, <2>1, <2>3, <2>5 DEF HandlerOK, CancelPlaces
  <2>7. PlannerOK(p)'
    <3>1. at'[p].plan = <<>> /\ at'[p].op = NextStep /\ at'[p].next = saga.next
      BY <2>3, <2>5
    <3>2. Descending(at'[p].plan) /\ DOMAIN at'[p].plan = {}
      BY <3>1 DEF Descending
    <3>3. /\ saga'.status # "none"
          /\ at'[p].next + 1 \in DOMAIN saga'.plan
          /\ at'[p].op = saga'.plan[at'[p].next + 1]
      BY <1>3, <1>4, <2>1, <3>1 DEF NextStep
    <3> QED
      BY <2>5, <3>2, <3>3 DEF PlannerOK
  <2>8. DeleterOK(p)'
    BY <2>5 DEF DeleterOK, FinalPlaces, DeletePlaces
  <2> QED
    BY <1>1, <1>2, <2>5, <2>6, <2>7, <2>8, QuietStep DEF CallOK
<1>5. CASE /\ saga.status = "ready_for_final_delete"
           /\ pc' = [pc EXCEPT ![p] = "final_claim"]
           /\ at' = [at EXCEPT ![p] = [Blank EXCEPT !.next = saga.next]]
  <2> DEFINE r == [Blank EXCEPT !.next = saga.next]
  <2>1. r \in CallTypes
    <3>1. saga.next \in Nat
      BY <1>3 DEF SagaTyped
    <3> QED
      BY <1>2, <3>1, MemoryTyped, InvTyped
  <2>2. r.op = 0 /\ r.plan = <<>>
    BY DEF Blank
  <2>3. "final_claim" \in Places
    BY DEF Places, Unclaimed
  <2> HIDE DEF r
  <2>4. OnlyCall(p) /\ CallsTyped' /\ pc'[p] = "final_claim" /\ at'[p] = r
    BY <1>2, <1>3, <1>5, <2>1, <2>3, WriteMoves DEF r
  <2>5. HandlerOK(p)' /\ PlannerOK(p)' /\ DeleterOK(p)'
    <3>1. at'[p].plan = <<>> /\ at'[p].op = 0
      BY <2>2, <2>4
    <3>2. Descending(at'[p].plan) /\ DOMAIN at'[p].plan = {}
      BY <3>1 DEF Descending
    <3>3. HandlerOK(p)'
      BY <2>4, <3>1 DEF HandlerOK, CancelPlaces
    <3>4. PlannerOK(p)'
      BY <2>4, <3>2 DEF PlannerOK, CancelPlaces, ChainPlaces
    <3>5. DeleterOK(p)'
      BY <1>3, <1>5, <2>4 DEF DeleterOK, DeletePlaces
    <3> QED
      BY <3>3, <3>4, <3>5
  <2> QED
    BY <1>1, <1>2, <2>4, <2>5, QuietStep DEF CallOK
<1>6. CASE Leave(p)
  BY <1>1, <1>2, <1>6, QuietLeave
<1> QED
  BY <1>4, <1>5, <1>6 DEF Open

\* A step of no call at all.
LEMMA NoCallStep ==
  ASSUME SagaInv, SagaTypeOK', Grows, TablesOK', UNCHANGED <<pc, at>>,
         \A i \in Returns : Still(i)
  PROVE  SagaInv'
<1>1. \A q \in Calls : CallOK(q)'
  <2> SUFFICES ASSUME NEW q \in Calls PROVE CallOK(q)'
    OBVIOUS
  <2>1. SagaTypeOK /\ CallOK(q) /\ at[q].op \in Returns \cup {0}
    BY InvTyped DEF CallTypes
  <2>2. q \in Creators => (at[q].op # 0 => Still(at[q].op))
    BY <2>1
  <2> QED
    BY <2>1, <2>2, OthersKeep
<1>2. \A q \in Creators : OwnReturn(q)'
  BY DEF OwnReturn, SagaInv
<1> QED
  BY <1>1, <1>2 DEF SagaInv

LEMMA QuietNobody ==
  ASSUME SagaInv, Quiet, UNCHANGED <<pc, at>>
  PROVE  SagaInv'
<1>1. CallsTyped'
  BY InvTyped DEF CallsTyped
<1>2. \A i \in Returns : Still(i)
  BY DEF Quiet, Still
<1> QED
  BY <1>1, <1>2, QuietTables, NoCallStep

LEMMA PreflightKeeps == ASSUME SagaInv, NEW p \in Admins, Preflight(p) PROVE SagaInv'
<1>1. Quiet /\ p \in Calls /\ p \in Handlers
  BY QuietAtAll, ReturnsFacts DEF Preflight
<1>2. CASE Goto(p, "intent")
  <2>1. "intent" \in Places
    BY DEF Places
  <2>2. MovesTo(p, "intent")
    BY <1>1, <1>2, <2>1, GotoMoves, InvTyped
  <2>3. pc[p] \in ChainPlaces
    BY DEF Preflight, ChainPlaces
  <2>4. "intent" \notin Checked \cup CancelPlaces \cup FinalPlaces \cup DeletePlaces
    BY DEF Checked, CancelPlaces, FinalPlaces, DeletePlaces
  <2> QED
    BY <1>1, <2>1, <2>2, <2>3, <2>4, QuietGoto
<1>3. CASE Abort(p)
  BY <1>1, <1>3, QuietAbort
<1> QED
  BY <1>2, <1>3 DEF Preflight

LEMMA VerifyKeeps == ASSUME SagaInv, NEW p \in Admins, Verify(p) PROVE SagaInv'
<1>1. Quiet /\ p \in Calls /\ p \in Handlers /\ p \notin Creators
  BY QuietAtAll, ReturnsFacts DEF Verify
<1>2. CASE Verified(p) /\ Goto(p, "checkpoint")
  <2>1. "checkpoint" \in Places
    BY DEF Places
  <2>2. MovesTo(p, "checkpoint")
    BY <1>1, <1>2, <2>1, GotoMoves, InvTyped
  <2>3. PlannerOK(p) /\ HandlerOK(p) /\ DeleterOK(p) /\ pc[p] \in ChainPlaces
        /\ SagaTyped /\ GoodsTyped /\ GoodsInv
    BY <1>1, InvTyped DEF CallOK, Verify, ChainPlaces, SagaInv, TablesOK
  <2>4. at[p].op \in Returns /\ at[p].op # 0
    BY <2>3, ReturnsFacts DEF PlannerOK, SagaTyped
  <2>5. PassedOK(at[p].op) /\ ClearOK(at[p].op)
    <3>1. KeyOf(p) = <<at[p].op, Saga>>
      BY <2>4 DEF KeyOf
    <3>2. event[at[p].op] # "applied"
      BY <1>2, <2>4 DEF Verified, Applied
    <3>3. at[p].op \in Existing => event[at[p].op] # "pending"
      BY <1>2, <2>3 DEF Verified, GoodsInv
    <3> QED
      BY <1>2, <3>1, <3>2, <3>3 DEF Verified, PassedOK, ClearOK
  <2>6. UNCHANGED <<saga, ret, event, journal>> /\ pc'[p] = "checkpoint" /\ at'[p] = at[p]
    BY <2>2 DEF Verify, tables, MovesTo
  <2>7. PlannerOK(p)'
    BY <2>3, <2>5, <2>6 DEF PlannerOK, PassedOK, ClearOK, Descending, ChainPlaces
  <2>8. HandlerOK(p)' /\ DeleterOK(p)'
    BY <2>3, <2>6 DEF HandlerOK, DeleterOK, CancelPlaces, FinalPlaces, DeletePlaces
  <2>9. CallOK(p)'
    BY <1>1, <2>7, <2>8 DEF CallOK
  <2> QED
    BY <1>1, <2>2, <2>9, QuietStep DEF MovesTo
<1>3. CASE Abort(p)
  BY <1>1, <1>3, QuietAbort
<1> QED
  BY <1>2, <1>3 DEF Verify

LEMMA ReleaseKeeps == ASSUME SagaInv, NEW p \in Admins, Release(p) PROVE SagaInv'
<1>1. Quiet
  <2>1. CASE UNCHANGED saga
    BY <2>1, QuietAtAll DEF Release, tables
  <2>2. CASE saga' = [saga EXCEPT !.lease = Free]
    <3>1. Free \in Leases
      BY LeaseTyped
    <3> QED
      BY <2>2, <3>1, QuietLease DEF Release
  <2> QED
    BY <2>1, <2>2 DEF Release
<1> QED
  BY <1>1, QuietLeave, ReturnsFacts DEF Release

LEMMA FinalClaimKeeps == ASSUME SagaInv, NEW p \in Admins, FinalClaim(p) PROVE SagaInv'
<1>1. p \in Calls /\ p \in Handlers
  BY ReturnsFacts
<1>2. CASE Leave(p) /\ UNCHANGED saga
  <2>1. Quiet
    BY <1>2, QuietAtAll DEF FinalClaim, tables
  <2> QED
    BY <1>1, <1>2, <2>1, QuietLeave
<1>3. CASE saga' = [saga EXCEPT !.lease = Taken(p)] /\ Goto(p, "facts")
  <2>1. Taken(p) \in Leases
    BY <1>1, LeaseTyped
  <2>2. Quiet
    BY <1>3, <2>1, QuietLease DEF FinalClaim
  <2>3. "facts" \in Places /\ pc[p] \in FinalPlaces
    BY DEF Places, FinalClaim, FinalPlaces
  <2>4. MovesTo(p, "facts")
    BY <1>1, <1>3, <2>3, GotoMoves, InvTyped
  <2>5. "facts" \notin Checked \cup CancelPlaces \cup ChainPlaces \cup DeletePlaces
    BY DEF Checked, CancelPlaces, ChainPlaces, DeletePlaces
  <2> QED
    BY <1>1, <2>2, <2>3, <2>4, <2>5, QuietGoto
<1> QED
  BY <1>2, <1>3 DEF FinalClaim

LEMMA FinalFactsKeeps == ASSUME SagaInv, NEW p \in Admins, FinalFacts(p) PROVE SagaInv'
<1>1. Quiet /\ p \in Calls /\ p \in Handlers /\ pc[p] \in FinalPlaces
  BY QuietAtAll, ReturnsFacts DEF FinalFacts, FinalPlaces
<1>2. CASE Goto(p, "confirm")
  <2>1. "confirm" \in Places
    BY DEF Places
  <2>2. MovesTo(p, "confirm")
    BY <1>1, <1>2, <2>1, GotoMoves, InvTyped
  <2>3. "confirm" \notin Checked \cup CancelPlaces \cup ChainPlaces \cup DeletePlaces
    BY DEF Checked, CancelPlaces, ChainPlaces, DeletePlaces
  <2> QED
    BY <1>1, <2>1, <2>2, <2>3, QuietGoto
<1>3. CASE pc' = [pc EXCEPT ![p] = "final_begin"] /\ at' = [at EXCEPT ![p].seen = <<ret, event>>]
  <2> DEFINE r == [at[p] EXCEPT !.seen = <<ret, event>>]
  <2>1. at[p] \in CallTypes
    BY <1>1, InvTyped
  <2>2. r \in CallTypes
    BY <2>1, SeenTyped, InvTyped
  <2>3. r.op = at[p].op /\ r.next = at[p].next /\ r.plan = at[p].plan
    BY <2>1 DEF CallTypes
  <2>4. at' = [at EXCEPT ![p] = r]
    BY <1>1, <1>3
  <2> HIDE DEF r
  <2>5. "final_begin" \in Places
    BY DEF Places
  <2>6. OnlyCall(p) /\ CallsTyped' /\ pc'[p] = "final_begin" /\ at'[p] = r
    BY <1>1, <1>3, <2>2, <2>4, <2>5, WriteMoves, InvTyped
  <2>7. GoesOn(p)
    BY <1>1, <2>3, <2>6 DEF GoesOn, Checked, CancelPlaces, ChainPlaces, DeletePlaces
  <2> QED
    BY <1>1, <2>6, <2>7, QuietMove
<1>4. CASE Abort(p)
  BY <1>1, <1>4, QuietAbort
<1> QED
  BY <1>2, <1>3, <1>4 DEF FinalFacts

\* Nothing is left of the returns there were, and nothing comes back.
LEMMA NothingLeftGone ==
  ASSUME SagaInv, NothingLeft
  PROVE  AllGone
<1>1. GoodsTyped /\ GoodsInv /\ Existing \subseteq Returns
  BY InvTyped, ReturnsFacts DEF SagaInv, TablesOK
<1> SUFFICES ASSUME NEW i \in Existing PROVE ret[i] = "cancelled" /\ ClearOK(i)
  BY DEF AllGone
<1>2. ret[i] # "active" /\ event[i] # "applied"
  BY <1>1 DEF NothingLeft, Active, Applied
<1>3. ret[i] = "cancelled"
  BY <1>1, <1>2 DEF GoodsInv, GoodsTyped, ReturnStatus
<1> QED
  BY <1>1, <1>2, <1>3 DEF GoodsInv, ClearOK

LEMMA FinalBeginKeeps == ASSUME SagaInv, NEW p \in Admins, FinalBegin(p) PROVE SagaInv'
<1>1. p \in Calls /\ p \in Handlers /\ p \notin Creators /\ pc[p] \in FinalPlaces
  BY ReturnsFacts DEF FinalBegin, FinalPlaces
<1>2. "confirm" \in Places /\ "final_plan" \in Places
  BY DEF Places, InOperation
<1>3. ASSUME Quiet, Goto(p, "confirm") PROVE SagaInv'
  <2>1. MovesTo(p, "confirm")
    BY <1>1, <1>2, <1>3, GotoMoves, InvTyped
  <2>2. "confirm" \notin Checked \cup CancelPlaces \cup ChainPlaces \cup DeletePlaces
    BY DEF Checked, CancelPlaces, ChainPlaces, DeletePlaces
  <2> QED
    BY <1>1, <1>2, <1>3, <2>1, <2>2, QuietGoto
<1>4. CASE UNCHANGED journal /\ (Goto(p, "confirm") \/ Abort(p))
  <2>1. Quiet
    BY <1>4, QuietAtAll DEF FinalBegin, tables
  <2> QED
    BY <1>1, <1>3, <1>4, <2>1, QuietAbort
<1>5. CASE NothingLeft /\ BeginOperation(p, "final_plan", Goto(p, "confirm"))
  <2>1. /\ JournalTyped' /\ JournalGrows
        /\ \/ Goto(p, "confirm")
           \/ Abort(p)
           \/ /\ OnlyCall(p) /\ CallsTyped'
              /\ pc'[p] = "final_plan"
              /\ at'[p] = [at[p] EXCEPT !.step = journal[KeyOf(p)].step]
    BY <1>1, <1>2, <1>5, BeginMoves, InvTyped
  <2>2. Quiet
    BY <2>1, QuietJournal DEF FinalBegin
  <2>3. CASE /\ OnlyCall(p) /\ CallsTyped'
             /\ pc'[p] = "final_plan"
             /\ at'[p] = [at[p] EXCEPT !.step = journal[KeyOf(p)].step]
    <3>1. at'[p].op = at[p].op /\ at'[p].plan = at[p].plan
      BY <1>1, <2>3, InvTyped DEF CallTypes
    <3>2. AllGone'
      BY <1>5, <2>2, NothingLeftGone, QuietTables, GrowsKeeps, <2>3, InvTyped
    <3>3. PlannerOK(p) /\ HandlerOK(p) /\ DeleterOK(p)
      BY <1>1, InvTyped DEF CallOK
    <3>4. UNCHANGED <<saga, ret>>
      BY DEF FinalBegin
    <3>5. HandlerOK(p)' /\ PlannerOK(p)'
      BY <2>3, <3>1, <3>3, <3>4 DEF HandlerOK, PlannerOK, CancelPlaces, ChainPlaces, Descending
    <3>6. DeleterOK(p)'
      BY <1>1, <2>3, <3>2, <3>3, <3>4 DEF DeleterOK
    <3>7. CallOK(p)'
      BY <1>1, <3>5, <3>6 DEF CallOK
    <3> QED
      BY <1>1, <2>2, <2>3, <3>7, QuietStep
  <2> QED
    BY <1>1, <1>3, <2>1, <2>2, <2>3, QuietAbort
<1> QED
  BY <1>4, <1>5 DEF FinalBegin

LEMMA FinalPlanKeeps == ASSUME SagaInv, NEW p \in Admins, FinalPlan(p) PROVE SagaInv'
<1>1. p \in Calls /\ p \in Handlers /\ pc[p] \in FinalPlaces /\ pc[p] \in DeletePlaces
  BY ReturnsFacts DEF FinalPlan, FinalPlaces, DeletePlaces
<1>2. "final_delete" \in Places /\ "failing" \in Places
  BY DEF Places, InOperation
<1>3. /\ "final_delete" \notin Checked \cup CancelPlaces \cup ChainPlaces
      /\ "failing" \notin Checked \cup CancelPlaces \cup ChainPlaces \cup FinalPlaces \cup DeletePlaces
  BY DEF Checked, CancelPlaces, ChainPlaces, FinalPlaces, DeletePlaces
<1>4. CASE AdvanceOperation(p, "validated", "final_delete")
  <2>1. /\ JournalTyped' /\ JournalGrows
        /\ \/ MovesTo(p, "failing")
           \/ /\ OnlyCall(p) /\ CallsTyped'
              /\ pc'[p] = "final_delete"
              /\ at'[p] = [at[p] EXCEPT !.step = "validated"]
    BY <1>1, <1>2, <1>4, AdvanceMoves, InvTyped
  <2>2. Quiet
    BY <2>1, QuietJournal DEF FinalPlan
  <2> QED
    BY <1>1, <1>2, <1>3, <2>1, <2>2, QuietGoto, QuietNote
<1>5. CASE UNCHANGED journal /\ (Goto(p, "failing") \/ Goto(p, "final_delete"))
  <2>1. Quiet
    BY <1>5, QuietAtAll DEF FinalPlan, tables
  <2>2. MovesTo(p, "failing") \/ MovesTo(p, "final_delete")
    BY <1>1, <1>2, <1>5, GotoMoves, InvTyped
  <2> QED
    BY <1>1, <1>2, <1>3, <2>1, <2>2, QuietGoto
<1> QED
  BY <1>4, <1>5 DEF FinalPlan

LEMMA FinalUpdateKeeps == ASSUME SagaInv, NEW p \in Admins, FinalUpdate(p) PROVE SagaInv'
<1>1. p \in Calls /\ p \in Handlers /\ pc[p] \in FinalPlaces /\ pc[p] \in DeletePlaces
  BY ReturnsFacts DEF FinalUpdate, FinalPlaces, DeletePlaces
<1>2. "final_complete" \in Places /\ "failing" \in Places
  BY DEF Places, InOperation
<1>3. /\ "final_complete" \notin Checked \cup CancelPlaces \cup ChainPlaces
      /\ "failing" \notin Checked \cup CancelPlaces \cup ChainPlaces \cup FinalPlaces \cup DeletePlaces
  BY DEF Checked, CancelPlaces, ChainPlaces, FinalPlaces, DeletePlaces
<1>4. /\ JournalTyped' /\ JournalGrows
      /\ \/ MovesTo(p, "failing")
         \/ /\ OnlyCall(p) /\ CallsTyped'
            /\ pc'[p] = "final_complete"
            /\ at'[p] = [at[p] EXCEPT !.step = "updated"]
  BY <1>1, <1>2, AdvanceMoves, InvTyped DEF FinalUpdate
<1>5. Quiet
  BY <1>4, QuietJournal DEF FinalUpdate
<1> QED
  BY <1>1, <1>2, <1>3, <1>4, <1>5, QuietGoto, QuietNote

LEMMA FinalCompleteKeeps == ASSUME SagaInv, NEW p \in Admins, FinalComplete(p) PROVE SagaInv'
<1>1. p \in Calls /\ p \in Handlers /\ pc[p] \in FinalPlaces /\ pc[p] \in DeletePlaces
  BY ReturnsFacts DEF FinalComplete, FinalPlaces, DeletePlaces
<1>2. "confirm" \in Places /\ "failing" \in Places
  BY DEF Places, InOperation
<1>3. /\ "confirm" \notin Checked \cup CancelPlaces \cup ChainPlaces \cup DeletePlaces
      /\ "failing" \notin Checked \cup CancelPlaces \cup ChainPlaces \cup FinalPlaces \cup DeletePlaces
  BY DEF Checked, CancelPlaces, ChainPlaces, FinalPlaces, DeletePlaces
<1>4. JournalTyped' /\ JournalGrows /\ (Goto(p, "confirm") \/ MovesTo(p, "failing"))
  BY <1>1, <1>2, CompleteMoves, InvTyped DEF FinalComplete
<1>5. Quiet
  BY <1>4, QuietJournal DEF FinalComplete
<1>6. MovesTo(p, "confirm") \/ MovesTo(p, "failing")
  BY <1>1, <1>2, <1>4, GotoMoves, InvTyped
<1> QED
  BY <1>1, <1>2, <1>3, <1>5, <1>6, QuietGoto

LEMMA ConfirmKeeps == ASSUME SagaInv, NEW p \in Admins, Confirm(p) PROVE SagaInv'
<1>1. Quiet /\ p \in Calls /\ p \in Handlers /\ p \notin Creators /\ pc[p] \in FinalPlaces
  BY QuietAtAll, ReturnsFacts DEF Confirm, FinalPlaces
<1>2. CASE Confirmed /\ Goto(p, "final_checkpoint")
  <2>1. "final_checkpoint" \in Places
    BY DEF Places
  <2>2. MovesTo(p, "final_checkpoint")
    BY <1>1, <1>2, <2>1, GotoMoves, InvTyped
  <2>3. PlannerOK(p) /\ HandlerOK(p) /\ DeleterOK(p)
    BY <1>1, InvTyped DEF CallOK
  <2>4. UNCHANGED <<saga, ret, event, journal, order>> /\ pc'[p] = "final_checkpoint" /\ at'[p] = at[p]
    BY <2>2 DEF Confirm, tables, MovesTo
  <2>5. HandlerOK(p)' /\ PlannerOK(p)'
    BY <2>3, <2>4 DEF HandlerOK, PlannerOK, CancelPlaces, ChainPlaces, Descending
  <2>6. DeleterOK(p)'
    BY <1>1, <1>2, <2>3, <2>4 DEF DeleterOK, DeletePlaces, Confirmed
  <2> QED
    BY <1>1, <2>2, <2>5, <2>6, QuietStep DEF MovesTo, CallOK
<1>3. CASE Abort(p)
  BY <1>1, <1>3, QuietAbort
<1> QED
  BY <1>2, <1>3 DEF Confirm

LEMMA ClerkStartKeeps ==
  ASSUME SagaInv, NEW p \in Clerks, NEW i \in Returns, ClerkStart(p, i)
  PROVE  SagaInv'
<1>1. Quiet /\ p \in Calls /\ p \in Handlers /\ p \notin Creators /\ p \notin Admins
  BY QuietAtAll, ReturnsFacts DEF ClerkStart, Handlers
<1> DEFINE r == [at[p] EXCEPT !.op = i]
<1>2. at[p] \in CallTypes
  BY <1>1, InvTyped
<1>3. r \in CallTypes /\ r.op = i
  <2>1. r \in CallTypes
    BY <1>2, MemoryTyped
  <2>2. r.op = i
    BY <1>2 DEF CallTypes
  <2> QED
    BY <2>1, <2>2
<1>4. pc' = [pc EXCEPT ![p] = "begin"] /\ at' = [at EXCEPT ![p] = r]
  BY <1>1 DEF ClerkStart
<1> HIDE DEF r
<1>5. OnlyCall(p) /\ CallsTyped' /\ pc'[p] = "begin" /\ at'[p] = r
  <2>1. "begin" \in Places
    BY DEF Places
  <2> QED
    BY <1>1, <1>3, <1>4, <2>1, WriteMoves, InvTyped
<1>6. HandlerOK(p)'
  <2>1. ret[i] # "none" /\ UNCHANGED ret /\ i # 0
    BY ReturnsFacts DEF ClerkStart, tables
  <2> QED
    BY <1>3, <1>5, <2>1 DEF HandlerOK
<1> QED
  BY <1>1, <1>5, <1>6, QuietStep DEF CallOK

LEMMA CancelBeginKeeps == ASSUME SagaInv, NEW p \in Handlers, CancelBegin(p) PROVE SagaInv'
<1>1. p \in Calls /\ pc[p] \in CancelPlaces /\ pc[p] \in ChainPlaces
  BY ReturnsFacts DEF CancelBegin, CancelPlaces, ChainPlaces
<1>2. "read" \in Places
  BY DEF Places, InOperation
<1>3. "read" \notin Checked \cup FinalPlaces \cup DeletePlaces
  BY DEF Checked, FinalPlaces, DeletePlaces
<1>4. /\ JournalTyped' /\ JournalGrows
      /\ \/ Done(p)
         \/ Abort(p)
         \/ /\ OnlyCall(p) /\ CallsTyped'
            /\ pc'[p] = "read"
            /\ at'[p] = [at[p] EXCEPT !.step = journal[KeyOf(p)].step]
  BY <1>2, BeginMoves, InvTyped DEF CancelBegin
<1>5. Quiet
  BY <1>4, QuietJournal DEF CancelBegin
<1> QED
  BY <1>1, <1>3, <1>4, <1>5, QuietDone, QuietAbort, QuietNote

LEMMA CancelReadKeeps == ASSUME SagaInv, NEW p \in Handlers, CancelRead(p) PROVE SagaInv'
<1>1. Quiet /\ p \in Calls /\ pc[p] \in CancelPlaces /\ pc[p] \in ChainPlaces
  BY QuietAtAll, ReturnsFacts DEF CancelRead, CancelPlaces, ChainPlaces
<1>2. PICK place \in {"events", "complete", "advance"} : Goto(p, place)
  BY DEF CancelRead
<1>3. /\ place \in Places
      /\ place \notin Checked \cup FinalPlaces \cup DeletePlaces
  BY DEF Places, InOperation, Checked, FinalPlaces, DeletePlaces
<1>4. MovesTo(p, place)
  BY <1>1, <1>2, <1>3, GotoMoves, InvTyped
<1> QED
  BY <1>1, <1>3, <1>4, QuietGoto

LEMMA CancelAdvanceKeeps == ASSUME SagaInv, NEW p \in Handlers, CancelAdvance(p) PROVE SagaInv'
<1>1. p \in Calls /\ pc[p] \in CancelPlaces /\ pc[p] \in ChainPlaces
  BY ReturnsFacts DEF CancelAdvance, CancelPlaces, ChainPlaces
<1>2. "events" \in Places /\ "failing" \in Places
  BY DEF Places, InOperation
<1>3. /\ "events" \notin Checked \cup FinalPlaces \cup DeletePlaces
      /\ "failing" \notin Checked \cup CancelPlaces \cup ChainPlaces \cup FinalPlaces \cup DeletePlaces
  BY DEF Checked, CancelPlaces, ChainPlaces, FinalPlaces, DeletePlaces
<1>4. /\ JournalTyped' /\ JournalGrows
      /\ \/ MovesTo(p, "failing")
         \/ /\ OnlyCall(p) /\ CallsTyped'
            /\ pc'[p] = "events"
            /\ at'[p] = [at[p] EXCEPT !.step = "validated"]
  BY <1>1, <1>2, AdvanceMoves, InvTyped DEF CancelAdvance
<1>5. Quiet
  BY <1>4, QuietJournal DEF CancelAdvance
<1> QED
  BY <1>1, <1>2, <1>3, <1>4, <1>5, QuietGoto, QuietNote

LEMMA CancelCompleteKeeps == ASSUME SagaInv, NEW p \in Handlers, CancelComplete(p) PROVE SagaInv'
<1>1. p \in Calls /\ pc[p] \in CancelPlaces /\ pc[p] \in ChainPlaces
  BY ReturnsFacts DEF CancelComplete, CancelPlaces, ChainPlaces
<1>2. "failing" \in Places
  BY DEF Places, InOperation
<1>3. "failing" \notin Checked \cup CancelPlaces \cup ChainPlaces \cup FinalPlaces \cup DeletePlaces
  BY DEF Checked, CancelPlaces, ChainPlaces, FinalPlaces, DeletePlaces
<1>4. JournalTyped' /\ JournalGrows /\ (Done(p) \/ MovesTo(p, "failing"))
  BY CompleteMoves, InvTyped DEF CancelComplete
<1>5. Quiet
  BY <1>4, QuietJournal DEF CancelComplete
<1> QED
  BY <1>1, <1>2, <1>3, <1>4, <1>5, QuietGoto, QuietDone

LEMMA FailOperationKeeps == ASSUME SagaInv, NEW p \in Handlers, FailOperation(p) PROVE SagaInv'
<1>1. JournalTyped' /\ JournalGrows /\ Abort(p)
  BY FailMoves, InvTyped
<1>2. Quiet
  BY <1>1, QuietJournal DEF FailOperation
<1> QED
  BY <1>1, <1>2, QuietAbort, ReturnsFacts

LEMMA EventReadKeeps == ASSUME SagaInv, NEW p \in Handlers, EventRead(p) PROVE SagaInv'
<1>1. Quiet /\ p \in Calls /\ p \notin Creators /\ pc[p] \in CancelPlaces /\ pc[p] \in ChainPlaces
  BY QuietAtAll, ReturnsFacts DEF EventRead, CancelPlaces, ChainPlaces
<1>2. /\ HandlerOK(p) /\ (p \in Admins => PlannerOK(p) /\ DeleterOK(p))
      /\ at[p] \in CallTypes /\ GoodsTyped
  BY <1>1, InvTyped DEF CallOK
<1>3. at[p].op \in Returns /\ at[p].op # 0
  BY <1>1, <1>2 DEF HandlerOK, CallTypes
<1>4. UNCHANGED <<saga, ret, event, journal, order>>
  BY DEF EventRead, tables
<1>5. ASSUME OnlyCall(p), CallsTyped', pc'[p] \in {"mark", "event_write"},
             at'[p].op = at[p].op, at'[p].next = at[p].next, at'[p].plan = at[p].plan,
             HandlerOK(p)'
      PROVE SagaInv'
  <2>1. p \in Admins => PlannerOK(p)' /\ DeleterOK(p)'
    BY <1>1, <1>2, <1>4, <1>5 DEF PlannerOK, DeleterOK, FinalPlaces, DeletePlaces, Descending
  <2> QED
    BY <1>1, <1>5, <2>1, QuietStep DEF CallOK
<1>6. CASE event[at[p].op] \in {"none", "cancelled"} /\ Goto(p, "mark")
  <2>1. "mark" \in Places
    BY DEF Places, InOperation
  <2>2. MovesTo(p, "mark")
    BY <1>1, <1>6, <2>1, GotoMoves, InvTyped
  <2>3. HandlerOK(p)'
    BY <1>2, <1>3, <1>4, <1>6, <2>2 DEF HandlerOK, MovesTo
  <2> QED
    BY <1>5, <2>2, <2>3 DEF MovesTo
<1>7. CASE /\ event[at[p].op] \in {"pending", "applied"}
           /\ pc' = [pc EXCEPT ![p] = "event_write"]
           /\ at' = [at EXCEPT ![p].event = event[at[p].op]]
  <2> DEFINE r == [at[p] EXCEPT !.event = event[at[p].op]]
  <2>1. r \in CallTypes
    BY <1>2, <1>7, MemoryTyped
  <2>2. /\ r.op = at[p].op /\ r.next = at[p].next /\ r.plan = at[p].plan
        /\ r.event = event[at[p].op]
    BY <1>2 DEF CallTypes
  <2>3. at' = [at EXCEPT ![p] = r]
    BY <1>1, <1>7
  <2> HIDE DEF r
  <2>4. "event_write" \in Places
    BY DEF Places, InOperation
  <2>5. OnlyCall(p) /\ CallsTyped' /\ pc'[p] = "event_write" /\ at'[p] = r
    BY <1>1, <1>7, <2>1, <2>3, <2>4, WriteMoves, InvTyped
  <2>6. HandlerOK(p)'
    BY <1>2, <1>3, <1>4, <1>7, <2>2, <2>5 DEF HandlerOK
  <2> QED
    BY <1>5, <2>2, <2>5, <2>6
<1> QED
  BY <1>6, <1>7 DEF EventRead

LEMMA OrphanTyped ==
  ASSUME SagaTyped, NEW p \in Calls, OrphanSaga(p)
  PROVE  SagaTyped' /\ SameCursor
<1> DEFINE l == Orphaned(saga.lease, p)
<1>1. l \in Leases
  BY LeaseTyped DEF SagaTyped
<1>2. saga' = [saga EXCEPT !.lease = l]
  BY DEF OrphanSaga
<1> HIDE DEF l
<1> QED
  BY <1>1, <1>2, LeaseMoves

LEMMA QuietFault ==
  ASSUME SagaInv, NEW p \in Calls, Fault, UNCHANGED saga \/ OrphanSaga(p),
         UNCHANGED journal \/ OrphanJournal(p),
         UNCHANGED <<steps, ret, event, booked, order>>
  PROVE  Quiet
<1>1. SagaTyped' /\ SameCursor
  BY InvTyped, OrphanTyped DEF SagaTyped, SameCursor
<1>2. JournalTyped' /\ JournalGrows
  BY InvTyped, SameJournal, OrphansTyped
<1>3. faults' \in 0..MaxFaults
  BY InvTyped, SagaAssumption DEF Fault, OrderTyped
<1> QED
  BY <1>1, <1>2, <1>3 DEF Quiet

LEMMA ThrowKeeps == ASSUME SagaInv, NEW p \in Calls, Throw(p) PROVE SagaInv'
<1>1. Quiet
  BY QuietFault DEF Throw
<1>2. CASE Leave(p)
  BY <1>1, <1>2, QuietLeave
<1>3. CASE Abort(p)
  BY <1>1, <1>3, QuietAbort
<1>4. CASE pc[p] \in InOperation /\ Goto(p, "failing")
  <2>1. "failing" \in Places
    BY DEF Places
  <2>2. MovesTo(p, "failing")
    BY <1>4, <2>1, GotoMoves, InvTyped
  <2>3. p \in Handlers
    BY <1>4, ReturnsFacts, InvTyped DEF CallOK, CreatorOK, InOperation
  <2>4. "failing" \notin Checked \cup CancelPlaces \cup ChainPlaces \cup FinalPlaces \cup DeletePlaces
    BY DEF Checked, CancelPlaces, ChainPlaces, FinalPlaces, DeletePlaces
  <2> QED
    BY <1>1, <2>1, <2>2, <2>3, <2>4, QuietGoto
<1> QED
  BY <1>2, <1>3, <1>4 DEF Throw

LEMMA CrashKeeps == ASSUME SagaInv, NEW p \in Calls, Crash(p) PROVE SagaInv'
<1>1. Quiet
  BY QuietFault DEF Crash
<1> QED
  BY <1>1, QuietLeave DEF Crash

LEMMA ExpireKeeps == ASSUME SagaInv, Expire PROVE SagaInv'
<1>1. CASE ExpireSaga
  <2> DEFINE l == [saga.lease EXCEPT !.live = FALSE]
  <2>1. l \in Leases
    BY InvTyped, LeaseTyped DEF SagaTyped
  <2>2. saga' = [saga EXCEPT !.lease = l]
    BY <1>1, InvTyped DEF ExpireSaga, SagaTyped
  <2> HIDE DEF l
  <2>3. Quiet
    BY <1>1, <2>1, <2>2, QuietLease DEF ExpireSaga
  <2> QED
    BY <1>1, <2>3, QuietNobody DEF ExpireSaga
<1>2. ASSUME NEW k \in Keys, ExpireOperation(k) PROVE SagaInv'
  <2> DEFINE r == [journal[k] EXCEPT !.lease.live = FALSE]
  <2>1. journal[k] \in RowTypes
    BY InvTyped DEF JournalTyped
  <2>2. r \in RowTypes
    BY <2>1, RowTyped
  <2>3. r.status = journal[k].status /\ r.target = journal[k].target
    BY <2>1 DEF RowTypes
  <2>4. journal' = [journal EXCEPT ![k] = r]
    BY <1>2, InvTyped DEF ExpireOperation, JournalTyped
  <2> HIDE DEF r
  <2>5. JournalTyped' /\ JournalGrows
    BY <2>2, <2>3, <2>4, RowWrites, InvTyped
  <2>6. Quiet
    BY <1>2, <2>5, QuietJournal DEF ExpireOperation
  <2> QED
    BY <1>2, <2>6, QuietNobody DEF ExpireOperation
<1> QED
  BY <1>1, <1>2 DEF Expire

LEMMA ReturnReadKeeps ==
  ASSUME SagaInv, NEW p \in Creators, NEW i \in Returns, ReturnRead(p, i)
  PROVE  SagaInv'
<1>1. Quiet /\ p \in Calls /\ p \notin Handlers /\ p \notin Admins
  BY QuietAtAll, ReturnsFacts DEF ReturnRead
<1> DEFINE r == [at[p] EXCEPT !.op = i]
<1>2. at[p] \in CallTypes
  BY <1>1, InvTyped
<1>3. r \in CallTypes /\ r.op = i
  <2>1. r \in CallTypes
    BY <1>2, MemoryTyped
  <2>2. r.op = i
    BY <1>2 DEF CallTypes
  <2> QED
    BY <2>1, <2>2
<1>4. pc' = [pc EXCEPT ![p] = "return_insert"] /\ at' = [at EXCEPT ![p] = r]
  BY <1>1 DEF ReturnRead
<1> HIDE DEF r
<1>5. OnlyCall(p) /\ CallsTyped' /\ pc'[p] = "return_insert" /\ at'[p] = r
  <2>1. "return_insert" \in Places
    BY DEF Places, Unclaimed
  <2> QED
    BY <1>1, <1>3, <1>4, <2>1, WriteMoves, InvTyped
<1>6. ret[i] = "none" /\ UNCHANGED ret /\ i # 0 /\ i \notin Existing
  BY ReturnsFacts, InvTyped DEF ReturnRead, tables, SagaInv, TablesOK, GoodsInv
<1>7. CreatorOK(p)'
  BY <1>3, <1>5, <1>6 DEF CreatorOK
<1>8. OwnReturn(p)'
  <2>1. \A q \in Creators : q # p => at'[q] = at[q] /\ at[q].op # i
    BY <1>5, ReturnsFacts DEF OnlyCall, ReturnRead
  <2> QED
    BY <1>3, <1>5, <2>1 DEF OwnReturn
<1> QED
  BY <1>1, <1>5, <1>7, <1>8, QuietStep DEF CallOK

-----------------------------------------------------------------------------
(***************************************************************************)
(* The steps that write the saga, its steps, the goods or the order.       *)
(***************************************************************************)

\* When only returns, events and stock change, the plan's promises last.
LEMMA GoodsWritten ==
  ASSUME SagaInv, UNCHANGED <<saga, steps, order, journal, faults>>,
         GoodsTyped', GoodsGrow, GoodsInv'
  PROVE  Grows /\ TablesOK' /\ (CallsTyped' => SagaTypeOK')
<1>1. SagaTypeOK /\ TablesOK
  BY DEF SagaInv
<1>2. SagaTyped' /\ StepsTyped' /\ JournalTyped' /\ OrderTyped' /\ JournalGrows
  <2>1. SagaTyped /\ StepsTyped /\ JournalTyped /\ OrderTyped
    BY InvTyped
  <2>2. JournalTyped' /\ JournalGrows
    BY <2>1, SameJournal
  <2> QED
    BY <2>1, <2>2 DEF SagaTyped, StepsTyped, OrderTyped
<1>3. Grows
  BY <1>2 DEF Grows, SagaGrows
<1>4. CallsTyped' => SagaTypeOK'
  BY <1>2, TypeParts
<1>5. \A i \in Returns : PassedOK(i) => PassedOK(i)'
  BY <1>3 DEF PassedOK, Grows, GoodsGrow
<1>6. \A i \in Returns : ClearOK(i) => ClearOK(i)'
  BY <1>3 DEF ClearOK, Grows, GoodsGrow
<1>7. AllGone => AllGone'
  BY <1>3, <1>6, ReturnsFacts DEF AllGone, Grows, GoodsGrow
<1>8. \A j \in DOMAIN saga.plan : saga.plan[j] \in Returns
  BY InvTyped DEF SagaTyped
<1>9. PlanOK'
  <2>1. PassedIsCancelled'
    <3>1. DOMAIN saga.plan = 1..Len(saga.plan)
      BY InvTyped DEF SagaTyped
    <3> QED
      BY <1>1, <1>3, <1>8, <3>1 DEF TablesOK, PlanOK, PassedIsCancelled, Grows, GoodsGrow
  <2>2. \A j \in DOMAIN saga.plan : ret'[saga.plan[j]] # "none"
    BY <1>1, <1>3, <1>8 DEF TablesOK, PlanOK, Grows, GoodsGrow
  <2>3. \A i \in Returns : steps[i] = "completed" => ClearOK(i)'
    BY <1>1, <1>6 DEF TablesOK, PlanOK
  <2> QED
    BY <1>1, <2>1, <2>2, <2>3 DEF TablesOK, PlanOK, Descending, ClearOK
<1>10. TablesOK'
  BY <1>1, <1>7, <1>9 DEF TablesOK, CompletedProved
<1> QED
  BY <1>3, <1>4, <1>10

\* When only the saga and its steps change, the goods' promises last.
LEMMA SagaWritten ==
  ASSUME SagaInv, UNCHANGED <<ret, event, booked, order, journal, faults>>,
         SagaTyped', StepsTyped', SagaGrows, PlanOK', CompletedProved'
  PROVE  Grows /\ TablesOK' /\ (CallsTyped' => SagaTypeOK') /\ \A p : Apart(p)
<1>1. SagaTypeOK /\ TablesOK
  BY DEF SagaInv
<1>2. GoodsTyped' /\ JournalTyped' /\ OrderTyped' /\ JournalGrows
  <2>1. GoodsTyped /\ OrderTyped /\ JournalTyped
    BY InvTyped
  <2>2. JournalTyped' /\ JournalGrows
    BY <2>1, SameJournal
  <2> QED
    BY <2>1, <2>2 DEF GoodsTyped, OrderTyped
<1>3. Grows
  BY <1>2 DEF Grows, GoodsGrow
<1>4. CallsTyped' => SagaTypeOK'
  BY <1>2, TypeParts
<1>5. GoodsInv' /\ AllGone' = AllGone
  BY <1>1 DEF TablesOK, GoodsInv, StockUndoneOnce, AllGone, ClearOK
<1>6. TablesOK'
  BY <1>1, <1>5 DEF TablesOK, SagaGrows
<1>7. \A p : Apart(p)
  BY DEF Apart, Still
<1> QED
  BY <1>3, <1>4, <1>6, <1>7

\* The step of a call that goes on or leaves.
LEMMA MoveKeeps ==
  ASSUME SagaInv, Grows, TablesOK', CallsTyped' => SagaTypeOK',
         NEW p \in Calls, OnlyCall(p), CallsTyped', Apart(p),
         LeavesIt(p) \/ (p \in Handlers /\ GoesOn(p))
  PROVE  SagaInv'
<1>1. CASE LeavesIt(p)
  BY <1>1, LeftOK, StepKeeps
<1>2. CASE p \in Handlers /\ GoesOn(p)
  <2>1. CallOK(p) /\ SagaTypeOK /\ p \notin Creators
    BY <1>2, ReturnsFacts DEF SagaInv
  <2>2. CallOK(p)'
    BY <1>2, <2>1, GoesOnOK
  <2> QED
    BY <2>1, <2>2, StepKeeps
<1> QED
  BY <1>1, <1>2

LEMMA PlanWriteKeeps == ASSUME SagaInv, NEW p \in Admins, PlanWrite(p) PROVE SagaInv'
<1>1. p \in Calls /\ p \in Handlers /\ pc[p] = "plan"
  BY ReturnsFacts DEF PlanWrite
<1>2. "opened" \in Places /\ "opened" \notin Checked \cup CancelPlaces \cup ChainPlaces
                                              \cup FinalPlaces \cup DeletePlaces
  BY DEF Places, Unclaimed, Checked, CancelPlaces, ChainPlaces, FinalPlaces, DeletePlaces
<1>3. CASE UNCHANGED <<saga, steps>>
  <2>1. Quiet
    BY <1>3, QuietAtAll DEF PlanWrite, tables
  <2>2. Goto(p, "opened") => MovesTo(p, "opened")
    BY <1>1, <1>2, GotoMoves, InvTyped
  <2> QED
    BY <1>1, <1>2, <2>1, <2>2, QuietGoto, QuietLeave DEF PlanWrite
<1>4. CASE ~UNCHANGED <<saga, steps>>
  <2> DEFINE inPlan(i) == \E j \in DOMAIN at[p].plan : at[p].plan[j] = i
  <2>1. /\ saga.status = "none"
        /\ saga' = [saga EXCEPT !.status = "planned", !.plan = at[p].plan]
        /\ steps' = [i \in Returns |-> IF inPlan(i) THEN "pending" ELSE "none"]
        /\ Goto(p, "opened")
        /\ UNCHANGED <<ret, event, booked, order, journal, faults>>
    BY <1>4 DEF PlanWrite
  <2> HIDE DEF inPlan
  <2>2. PlannerOK(p) /\ PlanOK /\ SagaTyped /\ at[p].plan \in Seq(Returns)
    BY <1>1, InvTyped DEF CallOK, SagaInv, TablesOK, CallTypes
  <2>3. /\ saga'.status = "planned" /\ saga'.plan = at[p].plan /\ saga'.next = 0
        /\ SagaTyped'
    <3>1. saga.next = 0
      BY <2>1, <2>2 DEF PlanOK
    <3>2. /\ saga'.status = "planned" /\ saga'.plan = at[p].plan /\ saga'.next = saga.next
          /\ saga' \in [status : {"none", "planned", "running", "ready_for_final_delete", "completed"},
                        plan : Seq(Returns), next : Nat, lease : Leases]
      BY <2>1, <2>2 DEF SagaTyped
    <3>3. Len(at[p].plan) \in Nat
      BY <2>2
    <3> QED
      BY <3>1, <3>2, <3>3 DEF SagaTyped
  <2>4. StepsTyped' /\ \A i \in Returns : steps'[i] # "completed"
    BY <2>1 DEF StepsTyped
  <2>5. PassedIsCancelled'
    <3>1. \A j \in 1..Len(saga'.plan) : saga'.plan[j] \in Returns /\ ~(j <= saga'.next)
      BY <2>2, <2>3
    <3> QED
      BY <2>4, <3>1 DEF PassedIsCancelled
  <2>6. PlanOK'
    <3>1. Len(at[p].plan) # 0
      BY <1>1, <2>2 DEF PlannerOK
    <3>2. saga'.next < Len(saga'.plan)
      BY <2>2, <2>3, <3>1
    <3> QED
      BY <1>1, <2>1, <2>2, <2>3, <2>4, <2>5, <3>2 DEF PlanOK, PlannerOK, Descending
  <2>7. SagaGrows /\ CompletedProved'
    BY <2>1, <2>3 DEF SagaGrows, CompletedProved
  <2>8. Grows /\ TablesOK' /\ (CallsTyped' => SagaTypeOK') /\ Apart(p)
    BY <2>1, <2>3, <2>4, <2>6, <2>7, SagaWritten
  <2>9. MovesTo(p, "opened")
    BY <1>1, <1>2, <2>1, GotoMoves, InvTyped
  <2>10. OnlyCall(p) /\ CallsTyped' /\ GoesOn(p)
    BY <1>2, <2>9 DEF MovesTo, GoesOn
  <2> QED
    BY <1>1, <2>8, <2>10, MoveKeeps
<1> QED
  BY <1>3, <1>4

LEMMA ClaimKeeps == ASSUME SagaInv, NEW p \in Admins, Claim(p) PROVE SagaInv'
<1>1. p \in Calls /\ p \in Handlers /\ pc[p] \in ChainPlaces
  BY ReturnsFacts DEF Claim, ChainPlaces
<1>2. CASE UNCHANGED saga /\ Leave(p)
  <2>1. Quiet
    BY <1>2, QuietAtAll DEF Claim, tables
  <2> QED
    BY <1>1, <1>2, <2>1, QuietLeave
<1>3. CASE /\ saga.status \in {"planned", "running"}
           /\ saga' = [saga EXCEPT !.status = "running", !.lease = Taken(p)]
           /\ Goto(p, "preflight")
  <2>1. PlanOK /\ SagaTyped /\ StepsTyped /\ Taken(p) \in Leases
    BY <1>1, InvTyped, LeaseTyped DEF SagaInv, TablesOK
  <2>2. /\ saga'.status = "running" /\ saga'.plan = saga.plan /\ saga'.next = saga.next
        /\ SagaTyped'
    BY <1>3, <2>1 DEF SagaTyped
  <2>3. UNCHANGED <<steps, ret, event, booked, order, journal, faults>>
    BY DEF Claim
  <2>4. PlanOK'
    <3>1. PassedIsCancelled'
      BY <2>1, <2>2, <2>3 DEF PlanOK, PassedIsCancelled
    <3> QED
      BY <1>3, <2>1, <2>2, <2>3, <3>1 DEF PlanOK, Descending, ClearOK
  <2>5. SagaGrows /\ CompletedProved' /\ StepsTyped'
    BY <1>3, <2>1, <2>2, <2>3 DEF SagaGrows, CompletedProved, StepsTyped
  <2>6. Grows /\ TablesOK' /\ (CallsTyped' => SagaTypeOK') /\ Apart(p)
    BY <2>2, <2>3, <2>4, <2>5, SagaWritten
  <2>7. "preflight" \in Places
    BY DEF Places
  <2>8. MovesTo(p, "preflight")
    BY <1>1, <1>3, <2>7, GotoMoves, InvTyped
  <2>9. OnlyCall(p) /\ CallsTyped' /\ GoesOn(p)
    BY <1>1, <2>8 DEF MovesTo, GoesOn, Checked, CancelPlaces, FinalPlaces, DeletePlaces
  <2> QED
    BY <1>1, <2>6, <2>9, MoveKeeps
<1> QED
  BY <1>2, <1>3 DEF Claim

LEMMA IntentKeeps == ASSUME SagaInv, NEW p \in Admins, Intent(p) PROVE SagaInv'
<1>1. p \in Calls /\ p \in Handlers /\ pc[p] \in ChainPlaces
  BY ReturnsFacts DEF Intent, ChainPlaces
<1>2. PlanOK /\ SagaTyped /\ StepsTyped /\ PlannerOK(p) /\ CompletedProved
  BY <1>1, InvTyped DEF CallOK, SagaInv, TablesOK
<1>3. at[p].op \in Returns /\ at[p].op # 0
  BY <1>1, <1>2, ReturnsFacts DEF PlannerOK, SagaTyped
<1>4. /\ StepsTyped'
      /\ \A i \in Returns : steps'[i] = "completed" <=> steps[i] = "completed"
      /\ saga.status # "none"
  BY <1>1, <1>2, <1>3 DEF Intent, StepsTyped, PlannerOK
<1>5. UNCHANGED <<saga, ret, event, booked, order, journal, faults>>
  BY DEF Intent
<1>6. PlanOK'
  <2>1. PassedIsCancelled'
    <3>1. \A j \in 1..Len(saga.plan) : saga.plan[j] \in Returns
      BY <1>2 DEF SagaTyped
    <3> QED
      BY <1>2, <1>4, <1>5, <3>1 DEF PlanOK, PassedIsCancelled
  <2> QED
    BY <1>2, <1>4, <1>5, <2>1 DEF PlanOK, Descending, ClearOK
<1>7. SagaGrows /\ CompletedProved' /\ SagaTyped'
  BY <1>2, <1>5 DEF SagaGrows, CompletedProved, SagaTyped
<1>8. Grows /\ TablesOK' /\ (CallsTyped' => SagaTypeOK') /\ Apart(p)
  BY <1>4, <1>5, <1>6, <1>7, SagaWritten
<1>9. MovesTo(p, "begin")
  <2>1. "begin" \in Places
    BY DEF Places
  <2> QED
    BY <1>1, <2>1, GotoMoves, InvTyped DEF Intent
<1>10. OnlyCall(p) /\ CallsTyped' /\ GoesOn(p)
  BY <1>1, <1>3, <1>9 DEF MovesTo, GoesOn, Checked, FinalPlaces, DeletePlaces
<1> QED
  BY <1>1, <1>8, <1>10, MoveKeeps

LEMMA CheckpointKeeps == ASSUME SagaInv, NEW p \in Admins, Checkpoint(p) PROVE SagaInv'
<1>1. p \in Calls /\ p \in Handlers /\ pc[p] = "checkpoint"
  BY ReturnsFacts DEF Checkpoint
<1>2. CASE UNCHANGED <<saga, steps>> /\ Abort(p)
  <2>1. Quiet
    BY <1>2, QuietAtAll DEF Checkpoint, tables
  <2> QED
    BY <1>1, <1>2, <2>1, QuietAbort
<1>3. CASE OwnsStep(p) /\ Leave(p)
           /\ steps' = [steps EXCEPT ![at[p].op] = "completed"]
           /\ saga' = [saga EXCEPT !.next = at[p].next + 1,
                         !.status = IF at[p].next + 1 = Len(saga.plan)
                                      THEN "ready_for_final_delete" ELSE "running",
                         !.lease = Free]
  <2> DEFINE n == saga.next + 1
             i == at[p].op
  <2>1. PlanOK /\ SagaTyped /\ StepsTyped /\ PlannerOK(p) /\ Free \in Leases /\ TablesOK
    BY <1>1, InvTyped, LeaseTyped DEF CallOK, SagaInv, TablesOK
  <2>2. saga.next = at[p].next /\ saga.status = "running" /\ saga.next \in Nat
        /\ saga.next < Len(saga.plan) /\ Len(saga.plan) \in Nat
    BY <1>3, <2>1 DEF OwnsStep, SagaTyped, PlanOK
  <2>3. /\ n \in 1..Len(saga.plan) /\ saga.plan[n] = i /\ i \in Returns
        /\ PassedOK(i) /\ ClearOK(i)
    <3>1. pc[p] \in ChainPlaces
      BY <1>1 DEF ChainPlaces
    <3> QED
      BY <1>1, <2>1, <2>2, <3>1 DEF PlannerOK, SagaTyped
  <2> DEFINE st == IF n = Len(saga.plan) THEN "ready_for_final_delete" ELSE "running"
  <2>4. saga' = [saga EXCEPT !.next = n, !.status = st, !.lease = Free]
    BY <1>3, <2>2
  <2>5. st \in {"ready_for_final_delete", "running"} /\ (st = "running" => n # Len(saga.plan))
    OBVIOUS
  <2> HIDE DEF st, n, i
  <2>6. /\ saga'.status = st /\ saga'.plan = saga.plan /\ saga'.next = n
        /\ SagaTyped'
    <3>1. n <= Len(saga.plan) /\ n \in Nat
      BY <2>2, <2>3
    <3>2. /\ saga'.status = st /\ saga'.plan = saga.plan /\ saga'.next = n
          /\ saga' \in [status : {"none", "planned", "running", "ready_for_final_delete", "completed"},
                        plan : Seq(Returns), next : Nat, lease : Leases]
      BY <2>1, <2>4, <2>5, <3>1 DEF SagaTyped
    <3> QED
      BY <3>1, <3>2 DEF SagaTyped
  <2>7. UNCHANGED <<ret, event, booked, order, journal, faults>>
    BY DEF Checkpoint
  <2>8. /\ StepsTyped' /\ steps'[i] = "completed"
        /\ \A k \in Returns : k # i => steps'[k] = steps[k]
    BY <1>3, <2>1, <2>3 DEF StepsTyped, i
  <2>9. \A j \in 1..Len(saga.plan) : saga.plan[j] \in Returns /\ (j # n => saga.plan[j] # i)
    <3>1. \A j \in 1..Len(saga.plan) : saga.plan[j] \in Returns /\ saga.plan[j] \in Nat
      <4>1. \A j \in 1..Len(saga.plan) : saga.plan[j] \in Returns
        BY <2>1 DEF SagaTyped
      <4> QED
        BY <4>1, ReturnsFacts
    <3>2. \A j, k \in 1..Len(saga.plan) : j < k => saga.plan[j] > saga.plan[k]
      <4>1. DOMAIN saga.plan = 1..Len(saga.plan)
        BY <2>1 DEF SagaTyped
      <4> QED
        BY <2>1, <4>1 DEF PlanOK, Descending
    <3> QED
      BY <2>2, <2>3, <3>1, <3>2
  <2>10. PassedIsCancelled'
    <3> SUFFICES ASSUME NEW j \in 1..Len(saga.plan)
                 PROVE /\ j <= n <=> steps'[saga.plan[j]] = "completed"
                       /\ j <= n => PassedOK(saga.plan[j])
      BY <2>6, <2>7 DEF PassedIsCancelled, PassedOK
    <3>1. CASE j = n
      BY <2>2, <2>3, <2>8, <3>1 DEF n
    <3>2. CASE j # n
      <4>1. j <= n <=> j <= saga.next
        BY <2>2, <3>2 DEF n
      <4>2. steps'[saga.plan[j]] = steps[saga.plan[j]]
        BY <2>8, <2>9, <3>2
      <4> QED
        BY <2>1, <4>1, <4>2 DEF PlanOK, PassedIsCancelled, PassedOK
    <3> QED
      BY <3>1, <3>2
  <2>11. PlanOK'
    <3>1. saga'.status # "none" /\ saga'.status # "planned"
      BY <2>5, <2>6
    <3>2. saga'.status = "running" => saga'.next < Len(saga'.plan)
      BY <2>2, <2>3, <2>5, <2>6
    <3>3. \A k \in Returns : steps'[k] = "completed" => ClearOK(k)'
      BY <2>1, <2>3, <2>7, <2>8 DEF PlanOK, ClearOK
    <3> QED
      BY <2>1, <2>6, <2>7, <2>10, <3>1, <3>2, <3>3 DEF PlanOK, Descending
  <2>12. SagaGrows /\ CompletedProved'
    BY <2>2, <2>5, <2>6 DEF SagaGrows, CompletedProved
  <2>13. Grows /\ TablesOK' /\ (CallsTyped' => SagaTypeOK') /\ Apart(p)
    BY <2>6, <2>7, <2>8, <2>11, <2>12, SagaWritten
  <2>14. LeavesIt(p) /\ OnlyCall(p) /\ CallsTyped'
    BY <1>1, <1>3, LeaveMoves, InvTyped DEF LeavesIt
  <2> QED
    BY <1>1, <2>13, <2>14, MoveKeeps
<1> QED
  BY <1>2, <1>3 DEF Checkpoint

LEMMA FinalCheckpointKeeps == ASSUME SagaInv, NEW p \in Admins, FinalCheckpoint(p) PROVE SagaInv'
<1>1. p \in Calls /\ p \in Handlers /\ pc[p] = "final_checkpoint"
  BY ReturnsFacts DEF FinalCheckpoint
<1>2. CASE UNCHANGED saga /\ Abort(p)
  <2>1. Quiet
    BY <1>2, QuietAtAll DEF FinalCheckpoint, tables
  <2> QED
    BY <1>1, <1>2, <2>1, QuietAbort
<1>3. CASE /\ saga.status = "ready_for_final_delete"
           /\ saga' = [saga EXCEPT !.status = "completed", !.lease = Free]
           /\ Leave(p)
  <2>1. PlanOK /\ SagaTyped /\ StepsTyped /\ DeleterOK(p) /\ Free \in Leases
    BY <1>1, InvTyped, LeaseTyped DEF CallOK, SagaInv, TablesOK
  <2>2. /\ saga'.status = "completed" /\ saga'.plan = saga.plan /\ saga'.next = saga.next
        /\ SagaTyped'
    BY <1>3, <2>1 DEF SagaTyped
  <2>3. UNCHANGED <<steps, ret, event, booked, order, journal, faults>>
    BY DEF FinalCheckpoint
  <2>4. PlanOK'
    <3>1. PassedIsCancelled'
      BY <2>1, <2>2, <2>3 DEF PlanOK, PassedIsCancelled
    <3> QED
      BY <1>3, <2>1, <2>2, <2>3, <3>1 DEF PlanOK, Descending, ClearOK
  <2>5. SagaGrows /\ CompletedProved' /\ StepsTyped'
    BY <1>1, <1>3, <2>1, <2>2, <2>3 DEF SagaGrows, CompletedProved, StepsTyped, DeleterOK, Confirmed
  <2>6. Grows /\ TablesOK' /\ (CallsTyped' => SagaTypeOK') /\ Apart(p)
    BY <2>2, <2>3, <2>4, <2>5, SagaWritten
  <2>7. LeavesIt(p) /\ OnlyCall(p) /\ CallsTyped'
    BY <1>1, <1>3, LeaveMoves, InvTyped DEF LeavesIt
  <2> QED
    BY <1>1, <2>6, <2>7, MoveKeeps
<1> QED
  BY <1>2, <1>3 DEF FinalCheckpoint

LEMMA FinalDeleteKeeps == ASSUME SagaInv, NEW p \in Admins, FinalDelete(p) PROVE SagaInv'
<1>1. p \in Calls /\ p \in Handlers /\ pc[p] = "final_delete" /\ pc[p] \in DeletePlaces
      /\ pc[p] \in FinalPlaces
  BY ReturnsFacts DEF FinalDelete, DeletePlaces, FinalPlaces
<1>2. TablesOK /\ DeleterOK(p)
  BY <1>1, InvTyped DEF CallOK, SagaInv
<1>3. order' = "deleted" /\ UNCHANGED <<saga, steps, ret, event, booked, journal, faults>>
  BY DEF FinalDelete
<1>4. SagaTyped' /\ GoodsTyped' /\ StepsTyped' /\ JournalTyped' /\ OrderTyped' /\ JournalGrows
  <2>1. SagaTyped /\ GoodsTyped /\ StepsTyped /\ JournalTyped /\ OrderTyped
    BY InvTyped
  <2>2. JournalTyped' /\ JournalGrows
    BY <1>3, <2>1, SameJournal
  <2> QED
    BY <1>3, <2>1, <2>2 DEF SagaTyped, GoodsTyped, StepsTyped, OrderTyped
<1>5. Grows
  BY <1>3, <1>4 DEF Grows, GoodsGrow, SagaGrows
<1>6. GoodsInv' /\ AllGone' = AllGone
  BY <1>2, <1>3 DEF TablesOK, GoodsInv, StockUndoneOnce, AllGone, ClearOK
<1>7. PlanOK'
  BY <1>2, <1>3 DEF TablesOK, PlanOK, Descending, PassedIsCancelled, ClearOK
<1>8. TablesOK'
  BY <1>1, <1>2, <1>3, <1>6, <1>7 DEF TablesOK, CompletedProved, DeleterOK
<1>9. MovesTo(p, "final_update")
  <2>1. "final_update" \in Places
    BY DEF Places, InOperation
  <2> QED
    BY <1>1, <2>1, GotoMoves, InvTyped DEF FinalDelete
<1>10. OnlyCall(p) /\ CallsTyped' /\ GoesOn(p)
  BY <1>1, <1>9 DEF MovesTo, GoesOn, Checked, CancelPlaces, ChainPlaces
<1>11. Apart(p) /\ (CallsTyped' => SagaTypeOK')
  BY <1>3, <1>4, TypeParts DEF Apart, Still
<1> QED
  BY <1>1, <1>5, <1>8, <1>10, <1>11, MoveKeeps

LEMMA EventWriteKeeps == ASSUME SagaInv, NEW p \in Handlers, EventWrite(p) PROVE SagaInv'
<1>1. p \in Calls /\ p \notin Creators /\ pc[p] = "event_write" /\ pc[p] \in CancelPlaces
      /\ pc[p] \in ChainPlaces
  BY ReturnsFacts DEF EventWrite, CancelPlaces, ChainPlaces
<1> DEFINE i == at[p].op
<1>2. /\ HandlerOK(p) /\ (p \in Admins => PlannerOK(p) /\ DeleterOK(p))
      /\ GoodsTyped /\ GoodsInv /\ i \in Returns
      /\ at[p].event \in {"pending", "applied"}
  BY <1>1, InvTyped DEF CallOK, SagaInv, TablesOK, HandlerOK, CallTypes
<1>3. ret[i] # "none" /\ event[i] # "none"
  BY <1>1, <1>2, ReturnsFacts DEF HandlerOK
<1>4. UNCHANGED <<saga, steps, ret, order, journal, faults>>
  BY DEF EventWrite
<1>5. /\ \A k \in Returns : k # i => event'[k] = event[k] /\ booked'[k] = booked[k]
      /\ \/ event'[i] = event[i] /\ booked'[i] = booked[i] /\ event[i] # at[p].event
         \/ /\ event[i] = at[p].event /\ event'[i] = "cancelled"
            /\ \/ at[p].event = "applied" /\ booked'[i] = booked[i] - 1
               \/ booked'[i] = booked[i]
      /\ event' \in [Returns -> EventStatus]
      /\ booked' = [k \in Returns |-> booked'[k]]
  <2>1. CASE Undoable(p)
    BY <1>2, <2>1 DEF EventWrite, Undoable, GoodsTyped, EventStatus
  <2>2. CASE ~Undoable(p)
    BY <1>2, <2>2 DEF EventWrite, Undoable, GoodsTyped, EventStatus
  <2> QED
    BY <2>1, <2>2
<1> HIDE DEF i
<1>6. booked'[i] \in {0, 1}
  BY <1>2, <1>5 DEF GoodsInv, StockUndoneOnce
<1>7. GoodsTyped'
  <2>1. \A k \in Returns : booked'[k] \in {0, 1}
    BY <1>2, <1>5, <1>6 DEF GoodsTyped
  <2> QED
    BY <1>2, <1>4, <1>5, <2>1 DEF GoodsTyped
<1>8. GoodsGrow
  BY <1>2, <1>3, <1>4, <1>5 DEF GoodsGrow
<1>9. GoodsInv'
  <2>1. StockUndoneOnce'
    BY <1>2, <1>5, <1>6 DEF GoodsInv, StockUndoneOnce
  <2>2. \A k \in Returns : ret'[k] = "none" => event'[k] = "none" /\ booked'[k] = 0
    BY <1>2, <1>3, <1>4, <1>5 DEF GoodsInv
  <2>3. \A k \in Existing : ret'[k] # "none" /\ (ret'[k] = "cancelled" => event'[k] # "pending")
    BY <1>2, <1>4, <1>5, ReturnsFacts DEF GoodsInv
  <2> QED
    BY <2>1, <2>2, <2>3 DEF GoodsInv
<1>10. Grows /\ TablesOK' /\ (CallsTyped' => SagaTypeOK')
  BY <1>4, <1>7, <1>8, <1>9, GoodsWritten
<1>11. Apart(p)
  BY <1>3, <1>4, <1>5 DEF Apart, Still
<1>12. MovesTo(p, "mark")
  <2>1. "mark" \in Places
    BY DEF Places, InOperation
  <2> QED
    BY <1>1, <2>1, GotoMoves, InvTyped DEF EventWrite
<1>13. OnlyCall(p) /\ CallsTyped' /\ pc'[p] = "mark" /\ at'[p] = at[p]
  BY <1>12 DEF MovesTo
<1>14. HandlerOK(p)'
  <2>1. event'[i] # "pending"
    BY <1>1, <1>2, <1>5 DEF HandlerOK, i
  <2> QED
    BY <1>1, <1>2, <1>4, <1>13, <2>1 DEF HandlerOK, i
<1>15. p \in Admins => PlannerOK(p)' /\ DeleterOK(p)'
  BY <1>1, <1>2, <1>4, <1>13 DEF PlannerOK, DeleterOK, FinalPlaces, DeletePlaces, Descending
<1> QED
  BY <1>1, <1>10, <1>11, <1>13, <1>14, <1>15, StepKeeps DEF CallOK

LEMMA MarkKeeps == ASSUME SagaInv, NEW p \in Handlers, Mark(p) PROVE SagaInv'
<1>1. p \in Calls /\ p \notin Creators /\ pc[p] = "mark" /\ pc[p] \in CancelPlaces
      /\ pc[p] \in ChainPlaces
  BY ReturnsFacts DEF Mark, CancelPlaces, ChainPlaces
<1> DEFINE i == at[p].op
<1>2. HandlerOK(p) /\ GoodsTyped /\ GoodsInv /\ i \in Returns
  BY <1>1, InvTyped DEF CallOK, SagaInv, TablesOK, HandlerOK, CallTypes
<1>3. ret[i] # "none"
  BY <1>1, <1>2, ReturnsFacts DEF HandlerOK
<1>4. UNCHANGED <<saga, steps, event, booked, order, journal, faults>>
  BY DEF Mark
<1>5. /\ ret' \in [Returns -> ReturnStatus] /\ ret'[i] = "cancelled"
      /\ \A k \in Returns : k # i => ret'[k] = ret[k]
  BY <1>2 DEF Mark, GoodsTyped, ReturnStatus
<1>6. i \in Existing => event[i] # "pending"
  BY <1>1, <1>2 DEF HandlerOK
<1> HIDE DEF i
<1>7. GoodsTyped' /\ GoodsGrow
  BY <1>2, <1>3, <1>4, <1>5 DEF GoodsTyped, GoodsGrow
<1>8. GoodsInv'
  BY <1>2, <1>3, <1>4, <1>5, <1>6, ReturnsFacts DEF GoodsInv, StockUndoneOnce
<1>9. Grows /\ TablesOK' /\ (CallsTyped' => SagaTypeOK')
  BY <1>4, <1>7, <1>8, GoodsWritten
<1>10. Apart(p)
  BY <1>3, <1>4, <1>5 DEF Apart, Still
<1>11. MovesTo(p, "complete")
  <2>1. "complete" \in Places
    BY DEF Places, InOperation
  <2> QED
    BY <1>1, <2>1, GotoMoves, InvTyped DEF Mark
<1>12. OnlyCall(p) /\ CallsTyped' /\ GoesOn(p)
  BY <1>1, <1>11 DEF MovesTo, GoesOn, Checked, FinalPlaces, DeletePlaces
<1> QED
  BY <1>1, <1>9, <1>10, <1>12, MoveKeeps

LEMMA ReturnInsertKeeps == ASSUME SagaInv, NEW p \in Creators, ReturnInsert(p) PROVE SagaInv'
<1>1. p \in Calls /\ p \notin Handlers /\ p \notin Admins /\ pc[p] = "return_insert"
  BY ReturnsFacts DEF ReturnInsert
<1>2. CASE Leave(p) /\ UNCHANGED ret
  <2>1. Quiet
    BY <1>2, QuietAtAll DEF ReturnInsert, tables
  <2> QED
    BY <1>1, <1>2, <2>1, QuietLeave
<1>3. CASE ret' = [ret EXCEPT ![at[p].op] = "active"] /\ Goto(p, "return_event")
  <2> DEFINE i == at[p].op
  <2>1. CreatorOK(p) /\ GoodsTyped /\ GoodsInv /\ i \in Returns \cup {0} /\ OwnReturn(p)
    BY <1>1, InvTyped DEF CallOK, SagaInv, TablesOK, CallTypes
  <2>2. i \in Returns /\ i \notin Existing /\ ret[i] = "none"
    BY <1>1, <2>1 DEF CreatorOK
  <2>3. UNCHANGED <<saga, steps, event, booked, order, journal, faults>>
    BY DEF ReturnInsert
  <2>4. /\ ret' \in [Returns -> ReturnStatus] /\ ret'[i] = "active"
        /\ \A k \in Returns : k # i => ret'[k] = ret[k]
    BY <1>3, <2>1, <2>2 DEF GoodsTyped, ReturnStatus
  <2>5. CreatorOK(p) /\ pc[p] = "return_insert" /\ event[i] = "none" /\ booked[i] = 0
    BY <1>1, <2>1, <2>2 DEF GoodsInv
  <2>6. MovesTo(p, "return_event")
    <3>1. "return_event" \in Places
      BY DEF Places, Unclaimed
    <3> QED
      BY <1>1, <1>3, <3>1, GotoMoves, InvTyped
  <2>7. OnlyCall(p) /\ CallsTyped' /\ pc'[p] = "return_event" /\ at'[p].op = i
    BY <2>6 DEF MovesTo
  <2>8. \A q \in Creators \ {p} : at'[q].op = at[q].op
    BY <2>7, ReturnsFacts DEF OnlyCall
  <2>9. OwnReturn(p)'
    BY <2>1, <2>7, <2>8 DEF OwnReturn
  <2>10. CreatorOK(p)'
    BY <2>1, <2>2, <2>3, <2>4, <2>5, <2>7, ReturnsFacts DEF CreatorOK
  <2>11. Apart(p)
    BY <2>3, <2>4 DEF Apart, Still
  <2> HIDE DEF i
  <2>12. GoodsTyped' /\ GoodsGrow
    BY <2>1, <2>2, <2>3, <2>4 DEF GoodsTyped, GoodsGrow
  <2>13. GoodsInv'
    BY <2>1, <2>2, <2>3, <2>4, ReturnsFacts DEF GoodsInv, StockUndoneOnce
  <2>14. Grows /\ TablesOK' /\ (CallsTyped' => SagaTypeOK')
    BY <2>3, <2>12, <2>13, GoodsWritten
  <2> QED
    BY <1>1, <2>7, <2>9, <2>10, <2>11, <2>14, StepKeeps DEF CallOK
<1> QED
  BY <1>2, <1>3 DEF ReturnInsert

LEMMA ReturnEventKeeps == ASSUME SagaInv, NEW p \in Creators, ReturnEvent(p) PROVE SagaInv'
<1>1. p \in Calls /\ p \notin Handlers /\ pc[p] = "return_event" /\ Leave(p)
  BY ReturnsFacts DEF ReturnEvent
<1>2. CASE UNCHANGED event
  <2>1. Quiet
    BY <1>2, QuietAtAll DEF ReturnEvent, tables
  <2> QED
    BY <1>1, <1>2, <2>1, QuietLeave
<1>3. CASE event' = [event EXCEPT ![at[p].op] = "pending"]
  <2> DEFINE i == at[p].op
  <2>1. CreatorOK(p) /\ GoodsTyped /\ GoodsInv /\ i \in Returns \cup {0}
    BY <1>1, InvTyped DEF CallOK, SagaInv, TablesOK, CallTypes
  <2>2. /\ i \in Returns /\ i \notin Existing /\ ret[i] # "none"
        /\ event[i] = "none" /\ booked[i] = 0
    BY <1>1, <2>1 DEF CreatorOK
  <2>3. UNCHANGED <<saga, steps, ret, booked, order, journal, faults>>
    BY DEF ReturnEvent
  <2>4. /\ event' \in [Returns -> EventStatus] /\ event'[i] = "pending"
        /\ \A k \in Returns : k # i => event'[k] = event[k]
    BY <1>3, <2>1, <2>2 DEF GoodsTyped, EventStatus
  <2>5. Apart(p)
    BY <2>3, <2>4 DEF Apart, Still
  <2> HIDE DEF i
  <2>6. GoodsTyped' /\ GoodsGrow
    BY <2>1, <2>2, <2>3, <2>4 DEF GoodsTyped, GoodsGrow
  <2>7. GoodsInv'
    BY <2>1, <2>2, <2>3, <2>4, ReturnsFacts DEF GoodsInv, StockUndoneOnce
  <2>8. Grows /\ TablesOK' /\ (CallsTyped' => SagaTypeOK')
    BY <2>3, <2>6, <2>7, GoodsWritten
  <2>9. LeavesIt(p) /\ OnlyCall(p) /\ CallsTyped'
    BY <1>1, LeaveMoves, InvTyped DEF LeavesIt
  <2> QED
    BY <1>1, <2>5, <2>8, <2>9, MoveKeeps
<1> QED
  BY <1>2, <1>3 DEF ReturnEvent

LEMMA ApplyEventKeeps ==
  ASSUME SagaInv, NEW i \in Returns, ApplyEvent(i)
  PROVE  SagaInv'
<1>1. GoodsTyped /\ GoodsInv
  BY InvTyped DEF SagaInv, TablesOK
<1>2. event[i] = "pending" /\ booked[i] = 0
  BY <1>1 DEF ApplyEvent, Bookable, GoodsInv, StockUndoneOnce
<1>3. UNCHANGED <<saga, steps, ret, order, journal, pc, at, faults>>
  BY DEF ApplyEvent
<1>4. /\ event' \in [Returns -> EventStatus] /\ event'[i] = "applied"
      /\ booked' \in [Returns -> {0, 1}] /\ booked'[i] = 1
      /\ \A k \in Returns : k # i => event'[k] = event[k] /\ booked'[k] = booked[k]
  BY <1>1, <1>2 DEF ApplyEvent, GoodsTyped, EventStatus
<1>5. GoodsTyped' /\ GoodsGrow
  BY <1>1, <1>2, <1>3, <1>4 DEF GoodsTyped, GoodsGrow
<1>6. GoodsInv'
  BY <1>1, <1>2, <1>3, <1>4, ReturnsFacts DEF GoodsInv, StockUndoneOnce
<1>7. Grows /\ TablesOK' /\ (CallsTyped' => SagaTypeOK')
  BY <1>3, <1>5, <1>6, GoodsWritten
<1>8. CallsTyped'
  BY <1>3, InvTyped DEF CallsTyped
<1>9. \A k \in Returns : Still(k)
  BY <1>2, <1>3, <1>4 DEF Still
<1> QED
  BY <1>3, <1>7, <1>8, <1>9, NoCallStep

-----------------------------------------------------------------------------
(***************************************************************************)
(* The theorems.                                                           *)
(***************************************************************************)

LEMMA SagaInit == Init => SagaInv
<1> SUFFICES ASSUME Init PROVE SagaInv
  OBVIOUS
<1>1. Free \in Leases /\ Blank \in CallTypes /\ <<>> \in Seq(Returns)
  BY LeaseTyped DEF CallTypes, Blank
<1>2. /\ saga.status = "none" /\ saga.plan = <<>> /\ saga.next = 0
      /\ SagaTyped
  BY <1>1 DEF Init, SagaTyped
<1>3. GoodsTyped
  BY DEF Init, GoodsTyped, ReturnStatus, EventStatus
<1>4. CallsTyped /\ StepsTyped
  <2>1. "idle" \in Places
    BY DEF Places
  <2> QED
    BY <1>1, <2>1 DEF Init, CallsTyped, StepsTyped
<1>5. JournalTyped
  BY <1>1 DEF Init, JournalTyped, RowTypes, AbsentOperation
<1>6. OrderTyped
  BY SagaAssumption DEF Init, OrderTyped
<1>7. SagaTypeOK
  BY <1>2, <1>3, <1>4, <1>5, <1>6, TypeParts
<1>8. GoodsInv
  BY ReturnsFacts DEF Init, GoodsInv, StockUndoneOnce
<1>9. PlanOK
  <2>1. DOMAIN saga.plan = {} /\ 1..Len(saga.plan) = {}
    BY <1>2
  <2> QED
    BY <1>2, <2>1 DEF Init, PlanOK, Descending, PassedIsCancelled
<1>10. TablesOK
  BY <1>2, <1>8, <1>9 DEF Init, TablesOK, CompletedProved
<1>11. \A p \in Calls : CallOK(p)
  <2> SUFFICES ASSUME NEW p \in Calls PROVE CallOK(p)
    OBVIOUS
  <2>1. pc[p] = "idle" /\ at[p].op = 0 /\ at[p].plan = <<>>
    BY DEF Init, Blank
  <2>2. Descending(at[p].plan) /\ DOMAIN at[p].plan = {}
    BY <2>1 DEF Descending
  <2>3. CreatorOK(p)
    BY <2>1, ReturnsFacts DEF CreatorOK
  <2>4. HandlerOK(p)
    BY <2>1 DEF HandlerOK, CancelPlaces
  <2>5. PlannerOK(p) /\ DeleterOK(p)
    BY <2>1, <2>2 DEF PlannerOK, DeleterOK, CancelPlaces, ChainPlaces, FinalPlaces, DeletePlaces
  <2> QED
    BY <2>3, <2>4, <2>5 DEF CallOK
<1>12. \A p \in Creators : OwnReturn(p)
  BY ReturnsFacts DEF Init, Blank, OwnReturn
<1> QED
  BY <1>7, <1>10, <1>11, <1>12 DEF SagaInv

LEMMA SagaStep == SagaInv /\ [Next]_vars => SagaInv'
<1> SUFFICES ASSUME SagaInv, [Next]_vars PROVE SagaInv'
  OBVIOUS
<1>1. CASE UNCHANGED vars
  BY <1>1, QuietAtAll, QuietNobody DEF vars
<1>2. ASSUME NEW p \in Admins, Administer(p) PROVE SagaInv'
  BY <1>2, PlanReadKeeps, PlanWriteKeeps, OpenKeeps, ClaimKeeps, PreflightKeeps, IntentKeeps,
     VerifyKeeps, CheckpointKeeps, ReleaseKeeps, FinalClaimKeeps, FinalFactsKeeps,
     FinalBeginKeeps, FinalPlanKeeps, FinalDeleteKeeps, FinalUpdateKeeps, FinalCompleteKeeps,
     ConfirmKeeps, FinalCheckpointKeeps DEF Administer
<1>3. ASSUME NEW p \in Handlers, Cancel(p) PROVE SagaInv'
  BY <1>3, CancelBeginKeeps, CancelReadKeeps, CancelAdvanceKeeps, EventReadKeeps,
     EventWriteKeeps, MarkKeeps, CancelCompleteKeeps, FailOperationKeeps DEF Cancel
<1>4. ASSUME NEW p \in Creators, ReturnInsert(p) \/ ReturnEvent(p) PROVE SagaInv'
  BY <1>4, ReturnInsertKeeps, ReturnEventKeeps
<1>5. ASSUME NEW p \in Calls, Throw(p) \/ Crash(p) PROVE SagaInv'
  BY <1>5, ThrowKeeps, CrashKeeps
<1>6. CASE \E p \in Clerks, i \in Returns : ClerkStart(p, i)
  BY <1>6, ClerkStartKeeps
<1>7. CASE \E p \in Creators, i \in Returns : ReturnRead(p, i)
  BY <1>7, ReturnReadKeeps
<1>8. CASE \E i \in Returns : ApplyEvent(i)
  BY <1>8, ApplyEventKeeps
<1>9. CASE Expire
  BY <1>9, ExpireKeeps
<1> QED
  BY <1>1, <1>2, <1>3, <1>4, <1>5, <1>6, <1>7, <1>8, <1>9 DEF Next, Handlers

\* The whole invariant holds of every reachable state.
THEOREM SagaInvariant == Spec => []SagaInv
BY SagaInit, SagaStep, PTL DEF Spec

\* The tables and the calls' memory keep their types; above all, the cursor of the
\* saga stays within its plan.
THEOREM SagaTypes == Spec => []SagaTypeOK
<1>1. SagaInv => SagaTypeOK
  BY DEF SagaInv
<1> QED
  BY <1>1, SagaInvariant, PTL

\* The goods of a return are booked out at most once, whoever cancels it: the
\* saga, its retries after a lost lease, or an employee by hand.
THEOREM UndoneOnce == Spec => []StockUndoneOnce
<1>1. SagaInv => StockUndoneOnce
  BY DEF SagaInv, TablesOK, GoodsInv
<1> QED
  BY <1>1, SagaInvariant, PTL

\* The cursor stands behind exactly the completed steps, and what it has passed is
\* cancelled by the saga's own request.
THEOREM PassedAreCancelled == Spec => []PassedIsCancelled
<1>1. SagaInv => PassedIsCancelled
  BY DEF SagaInv, TablesOK, PlanOK
<1> QED
  BY <1>1, SagaInvariant, PTL

\* A saga reported complete is proved by the order and by its journal.
THEOREM CompletedAreProved == Spec => []CompletedProved
<1>1. SagaInv => CompletedProved
  BY DEF SagaInv, TablesOK
<1> QED
  BY <1>1, SagaInvariant, PTL

\* Of the returns that were there when the deletion began, none is active, awaits
\* its goods or has them in the books once the order is deleted, whatever returns
\* employees take in meanwhile.
THEOREM ExistingAreGone == Spec => []ExistingGone
<1>1. SagaInv => ExistingGone
  BY ReturnsFacts DEF SagaInv, TablesOK, PlanOK, AllGone, ClearOK, ExistingGone
<1> QED
  BY <1>1, SagaInvariant, PTL

\* Without calls that take in returns there are no others.
NoOthers == \A i \in Returns \ Existing : ret[i] = "none"

LEMMA NoOthersKept ==
  ASSUME Creators = {}
  PROVE  Spec => []NoOthers
<1>1. Init => NoOthers
  BY DEF Init, NoOthers
<1>2. NoOthers /\ SagaInv /\ [Next]_vars => NoOthers'
  <2> SUFFICES ASSUME NoOthers, SagaInv, [Next]_vars PROVE NoOthers'
    OBVIOUS
  <2>1. CASE UNCHANGED ret
    BY <2>1 DEF NoOthers
  <2>2. ASSUME NEW p \in Handlers, Mark(p) PROVE NoOthers'
    <3>1. /\ HandlerOK(p) /\ pc[p] \in CancelPlaces /\ GoodsTyped
          /\ at[p].op \in Returns \cup {0}
      BY <2>2, InvTyped, ReturnsFacts DEF CallOK, CallTypes, Mark, CancelPlaces
    <3>2. at[p].op \in Returns /\ ret[at[p].op] # "none"
      BY <3>1 DEF HandlerOK
    <3> QED
      BY <2>2, <3>1, <3>2 DEF Mark, NoOthers, GoodsTyped
  <2>3. UNCHANGED ret \/ \E p \in Handlers : Mark(p)
    <3>1. CASE UNCHANGED vars
      BY <3>1 DEF vars, tables
    <3>2. ASSUME NEW p \in Admins, Administer(p) PROVE UNCHANGED ret
      BY <3>2 DEF Administer, PlanRead, PlanWrite, Open, Claim, Preflight, Intent, Verify,
         Checkpoint, Release, FinalClaim, FinalFacts, FinalBegin, FinalPlan, FinalDelete,
         FinalUpdate, FinalComplete, Confirm, FinalCheckpoint, tables
    <3>3. ASSUME NEW p \in Handlers, Cancel(p) PROVE UNCHANGED ret \/ Mark(p)
      BY <3>3 DEF Cancel, CancelBegin, CancelRead, CancelAdvance, EventRead, EventWrite,
         CancelComplete, FailOperation, tables
    <3>4. ASSUME NEW p \in Calls, Throw(p) \/ Crash(p) PROVE UNCHANGED ret
      BY <3>4 DEF Throw, Crash
    <3>5. ASSUME NEW p \in Clerks, NEW i \in Returns, ClerkStart(p, i) PROVE UNCHANGED ret
      BY <3>5 DEF ClerkStart, tables
    <3>6. ASSUME NEW i \in Returns, ApplyEvent(i) PROVE UNCHANGED ret
      BY <3>6 DEF ApplyEvent
    <3>7. Expire => UNCHANGED ret
      BY DEF Expire, ExpireSaga, ExpireOperation
    <3> QED
      BY <3>1, <3>2, <3>3, <3>4, <3>5, <3>6, <3>7 DEF Next, Handlers
  <2> QED
    BY <2>1, <2>2, <2>3
<1> QED
  BY <1>1, <1>2, SagaInvariant, PTL DEF Spec

\* With the returns the order has when the deletion begins, the goods of a passed
\* return are out of the stock's books and stay out.
THEOREM PassedAreOutOfStock ==
  ASSUME Creators = {}
  PROVE  Spec => []PassedOutOfStock
<1>1. SagaInv /\ NoOthers => PassedOutOfStock
  <2> SUFFICES ASSUME SagaInv, NoOthers, NEW i \in Returns, steps[i] = "completed"
               PROVE  event[i] # "applied"
    BY DEF PassedOutOfStock
  <2>1. CASE i \in Existing
    BY <2>1 DEF SagaInv, TablesOK, PlanOK, ClearOK
  <2>2. CASE i \notin Existing
    BY <2>2 DEF SagaInv, TablesOK, GoodsInv, NoOthers
  <2> QED
    BY <2>1, <2>2
<1> QED
  BY <1>1, NoOthersKept, SagaInvariant, PTL
===============================================================================
