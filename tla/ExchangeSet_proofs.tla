-------------------------- MODULE ExchangeSet_proofs --------------------------
(***************************************************************************)
(* Proofs about the exchanges of an order, for every set of lines and      *)
(* exchanges, every quantity, every number of returns and dying calls.     *)
(*                                                                         *)
(* The invariant grows in layers, each with the hypotheses it needs:       *)
(*   CoreInv     types, and where the two handlers of an exchange stand    *)
(*               beside what its rows remember: no hypothesis;             *)
(*   UnitInv     one operation is unfinished at a time and the claim of    *)
(*               units is held (ExchangesApart), no unit given back twice  *)
(*               (ReturnsApart);                                           *)
(*   ShelfInv    the shelf follows the reservations and the events: none.  *)
(* The layers that make the order add up are in ExchangeOrder_proofs.      *)
(* Where most steps leave a layer alone, a predicate says so (Quiet,       *)
(* OffShelf), one lemma shows that it keeps the layer, and the steps that  *)
(* do not are proved one by one.                                           *)
(***************************************************************************)
EXTENDS ExchangeSet, SumLemmas

-----------------------------------------------------------------------------
(* What holds whoever works beside whom *)

\* The parts of the type invariant.
LinesTyped ==
  /\ qty \in [Lines -> Nat] /\ returned \in [Lines -> Nat]
  /\ mark \in [Lines -> Marks]
  /\ resv \in [Lines -> [status : {"none", "active", "fulfilled", "released"}, qty : Nat]]
BooksTyped == total \in Int /\ paid \in Int /\ stock \in [quantity : Int, reserved : Nat]
Exchange ==
  [step : {"none", "dropped", "completed"} \cup DOMAIN Resumes, plan : Plans \cup {NoPlan}, id : Nat,
   status : {"none", "completed", "cancelled"}, oldRow : BOOLEAN, newRow : BOOLEAN,
   in : Events, out : Events, movement : {"none", "inserted", "linked"}, money : BOOLEAN, linked : BOOLEAN]
Cancellation == [step : {"none", "validated", "completed"}, baseline : Nat, target : Nat, projected : Int]
WorkTyped ==
  /\ made \in [Exchanges -> Exchange]
  /\ undo \in [Exchanges -> Cancellation]
  /\ pc \in [Exchanges -> [create : CreatePlaces, cancel : CancelPlaces]]
  /\ spent \in [returns : Nat, crashes : Nat]
Typed == LinesTyped /\ BooksTyped /\ WorkTyped

\* Steps of a creation that has claimed its units and is not finished.
Midway == {"exchange_created", "old_done", "content_inserted", "new_done", "finances_done"}

\* The step of the row at which a creation comes to a place.
StepAt ==
  [claim |-> "validated", reserve |-> "exchange_created", setQty |-> "exchange_created",
   oldRow |-> "exchange_created", in |-> "exchange_created", applyIn |-> "exchange_created",
   oldDone |-> "exchange_created", content |-> "old_done", promise |-> "old_done", contentDone |-> "old_done",
   newRow |-> "content_inserted", out |-> "content_inserted", applyOut |-> "content_inserted",
   linkOut |-> "content_inserted", newDone |-> "content_inserted", money |-> "new_done", total |-> "new_done", moneyDone |-> "new_done",
   complete |-> "finances_done"]

\* A cancellation that has passed its preflight and has not cancelled yet.
Undoing(c) == undo[c].step = "validated" /\ Standing(c)

\* Where the two handlers of an exchange are, and what its rows say then.
CreateStage(c) ==
  /\ made[c].id = 0 <=> made[c].step \in {"none", "validated", "dropped"}
  /\ made[c].status = "none" <=> made[c].id = 0
  /\ made[c].step # "none" <=> made[c].plan # NoPlan
  /\ pc[c].create # "idle" => made[c].step = StepAt[pc[c].create]
  /\ made[c].step \in {"old_done", "content_inserted", "new_done", "finances_done", "completed"} => made[c].oldRow
  /\ pc[c].create \in {"in", "applyIn", "oldDone"} => made[c].oldRow
CancelStage(c) ==
  /\ pc[c].cancel = "freeze" => undo[c].step = "none" /\ Standing(c)
  /\ pc[c].cancel = "complete" => undo[c].step = "validated" /\ made[c].status = "cancelled"
  /\ pc[c].cancel \notin {"idle", "freeze", "complete"} => Undoing(c)
  /\ made[c].status = "cancelled" => undo[c].step \in {"validated", "completed"}
  /\ undo[c].step = "completed" => made[c].status = "cancelled"
  /\ undo[c].step # "none" => Claimed(c)
  /\ undo[c].step # "none" => undo[c].target = undo[c].baseline + made[c].plan.take

\* A cancellation begins at a finished exchange, if one exchange is worked on at
\* a time, and never at one that recorded a handover, if those stay.
Ready(c) == pc[c].cancel # "idle" \/ undo[c].step # "none"
ReadyStage(c) ==
  /\ ExchangesApart /\ Ready(c) => made[c].step = "completed"
  /\ HandoversStay /\ Ready(c) => ~made[c].plan.handover

\* What a plan was validated against.
PlanOK(c) ==
  LET p == made[c].plan
  IN made[c].step # "none" =>
       /\ p.line # c /\ (p.line \in Exchanges => p.marked # "absent")
       /\ p.initial = p.target + p.take
       /\ p.snapshot.status = "active" => p.snapshot.qty = p.initial /\ p.physical = "not_issued"
       /\ p.handover <=> p.physical = "warehouse" /\ p.marked # "fulfilled"
       /\ p.physical = "not_issued" => p.marked # "fulfilled"

\* The new line is there from the insertion of the content on.
NewLineOK(c) ==
  /\ mark[c] = "absent" => qty[c] = 0 /\ resv[c] = Nothing
  /\ made[c].step \notin Midway \cup {"completed"} => mark[c] = "absent"
  /\ made[c].step \in {"content_inserted", "new_done", "finances_done", "completed"} => mark[c] # "absent"
  /\ pc[c].create \in {"promise", "contentDone"} => mark[c] # "absent"

\* What is planned on a new line is planned once the line is there.
LineThere(c) ==
  made[c].step # "none" /\ made[c].plan.line \in Exchanges => mark[made[c].plan.line] # "absent"

Staged(c) == CreateStage(c) /\ CancelStage(c) /\ ReadyStage(c) /\ PlanOK(c) /\ NewLineOK(c) /\ LineThere(c)
CoreInv == Typed /\ \A c \in Exchanges : Staged(c)

\* Exchanges other than c are not touched.
Only(c) == \A d \in Exchanges \ {c} : made'[d] = made[d] /\ undo'[d] = undo[d] /\ pc'[d] = pc[d]

\* The floor of an integer is a number, its own when it is not negative.
LEMMA FloorType == ASSUME NEW n \in Int PROVE Floor(n) \in Nat /\ (n >= 0 => Floor(n) = n)
BY DEF Floor

\* Where a creation goes: its place changes and nothing else of the handlers.
LEMMA CreateGoes ==
  ASSUME WorkTyped, NEW c \in Exchanges, NEW place \in CreatePlaces, Goes(c, "create", place)
  PROVE  /\ pc' \in [Exchanges -> [create : CreatePlaces, cancel : CancelPlaces]]
         /\ pc'[c].create = place /\ pc'[c].cancel = pc[c].cancel
         /\ \A d \in Exchanges \ {c} : pc'[d] = pc[d]
BY DEF WorkTyped, Goes

\* Where a cancellation goes: its place changes and nothing else of the handlers.
LEMMA CancelGoes ==
  ASSUME WorkTyped, NEW c \in Exchanges, NEW place \in CancelPlaces, Goes(c, "cancel", place)
  PROVE  /\ pc' \in [Exchanges -> [create : CreatePlaces, cancel : CancelPlaces]]
         /\ pc'[c].cancel = place /\ pc'[c].create = pc[c].create
         /\ \A d \in Exchanges \ {c} : pc'[d] = pc[d]
BY DEF WorkTyped, Goes

\* A plan is a plan: its line is one of the order's.
LEMMA PlansOf ==
  ASSUME CoreInv, NEW c \in Exchanges, made[c].step # "none"
  PROVE  made[c].plan \in Plans
BY DEF CoreInv, Typed, WorkTyped, Exchange, Staged, CreateStage

\* No plan is the missing one: the line of a plan is a line.
LEMMA NoPlanIsNone == ASSUME NEW p \in Plans PROVE p # NoPlan
BY ExchangeAssumption DEF Plans, NoPlan, Lines

\* A sum of the values of a function is taken as it is.
LEMMA PlainSum == ASSUME NEW f, NEW S PROVE MapThenSumSet(LAMBDA l : f[l], S) = Sum(f, S)
BY DEF MapThenSumSet, Sum, SumFunctionOnSet, FoldFunctionOnSet

\* The ordered units of a set of lines are a sum of SumLemmas.
LEMMA OrderedIs == ASSUME NEW S PROVE OrderedUnits(S) = Sum(Ordered, S)
BY PlainSum DEF OrderedUnits

\* The ordered units of lines of the order are a number.
LEMMA OrderedNat == ASSUME NEW S \in SUBSET First PROVE OrderedUnits(S) \in Nat
<1>1. IsFiniteSet(S) /\ \A l \in S : Ordered[l] \in Nat
  BY ExchangeAssumption, FS_Subset
<1> QED
  BY <1>1, OrderedIs, SumNat DEF Sum

\* The core holds of an order nobody has exchanged yet.
LEMMA CoreInit == Init => CoreInv
<1> SUFFICES ASSUME Init PROVE CoreInv
  OBVIOUS
<1>0. OrderedUnits(First) \in Nat /\ \A S \in SUBSET First : OrderedUnits(S) \in Nat /\ OrderedUnits(First \ S) \in Nat
  BY OrderedNat
<1>1. LinesTyped
  BY ExchangeAssumption DEF Init, LinesTyped, Lines, Marks, Nothing
<1>2. BooksTyped
  <2>1. total \in Int
    BY <1>0 DEF Init
  <2> QED
    BY <1>0, <2>1, ExchangeAssumption DEF Init, BooksTyped
<1>3. WorkTyped
  <2>1. made \in [Exchanges -> Exchange]
    BY DEF Init, Exchange, Events, Resumes
  <2>2. undo \in [Exchanges -> Cancellation]
    BY DEF Init, Cancellation
  <2>3. pc \in [Exchanges -> [create : CreatePlaces, cancel : CancelPlaces]]
    BY DEF Init, CreatePlaces, CancelPlaces
  <2>4. spent \in [returns : Nat, crashes : Nat]
    BY DEF Init
  <2> QED
    BY <2>1, <2>2, <2>3, <2>4 DEF WorkTyped
<1>4. ASSUME NEW c \in Exchanges PROVE Staged(c)
  <2>1. c \in Lines /\ c \notin First
    BY ExchangeAssumption DEF Lines
  <2>2. /\ made[c].step = "none" /\ made[c].id = 0 /\ made[c].status = "none" /\ made[c].plan = NoPlan
        /\ undo[c].step = "none" /\ pc[c] = [create |-> "idle", cancel |-> "idle"]
    BY DEF Init
  <2>3. qty[c] = 0 /\ mark[c] = "absent" /\ resv[c] = Nothing
    BY <2>1 DEF Init
  <2> QED
    BY <2>2, <2>3 DEF Staged, CreateStage, CancelStage, ReadyStage, PlanOK, NewLineOK, LineThere, Midway, Claimed,
                     Standing, Ready
<1> QED
  BY <1>1, <1>2, <1>3, <1>4 DEF CoreInv, Typed

\* A step of one exchange that leaves the new lines of the others as they were.
LEMMA OneStaged ==
  ASSUME CoreInv, NEW c \in Exchanges, Typed', Only(c), Staged(c)', mark'[c] = "absent" => mark[c] = "absent",
         \A d \in Exchanges \ {c} : /\ mark'[d] = "absent" <=> mark[d] = "absent"
                                    /\ mark[d] = "absent" => qty'[d] = qty[d] /\ resv'[d] = resv[d]
  PROVE  CoreInv'
<1> SUFFICES ASSUME NEW d \in Exchanges \ {c} PROVE Staged(d)'
  BY DEF CoreInv
<1>1. Staged(d)
  BY DEF CoreInv
<1>2. made'[d] = made[d] /\ undo'[d] = undo[d] /\ pc'[d] = pc[d]
  BY DEF Only
<1>3. CreateStage(d)' /\ CancelStage(d)'
  BY <1>1, <1>2 DEF Staged, CreateStage, CancelStage, Claimed, Standing, Undoing
<1>4. ReadyStage(d)' /\ PlanOK(d)'
  BY <1>1, <1>2 DEF Staged, ReadyStage, PlanOK, Ready
<1>5. NewLineOK(d)'
  BY <1>1, <1>2 DEF Staged, NewLineOK
<1>6. LineThere(d)'
  BY <1>1, <1>2 DEF Staged, LineThere
<1> QED
  BY <1>3, <1>4, <1>5, <1>6 DEF Staged

\* The rows are as they were, a handler goes elsewhere.
Moves(c) == UNCHANGED <<lineVars, bookVars, made, undo>> /\ spent' \in [returns : Nat, crashes : Nat]

\* A creation that only goes elsewhere, to a place its step allows, keeps the core.
LEMMA MovedCreate ==
  ASSUME CoreInv, NEW c \in Exchanges, NEW place \in CreatePlaces, Goes(c, "create", place), Moves(c),
         place # "idle" => made[c].step = StepAt[place] /\ place \notin {"in", "applyIn", "oldDone", "promise", "contentDone"}
  PROVE  CoreInv'
<1>0. Staged(c) /\ WorkTyped
  BY DEF CoreInv, Typed
<1>1. /\ pc' \in [Exchanges -> [create : CreatePlaces, cancel : CancelPlaces]]
      /\ pc'[c].create = place /\ pc'[c].cancel = pc[c].cancel
      /\ \A d \in Exchanges \ {c} : pc'[d] = pc[d]
  BY <1>0, CreateGoes
<1>2. Typed'
  BY <1>1 DEF CoreInv, Typed, LinesTyped, BooksTyped, WorkTyped, Moves, lineVars, bookVars
<1>3. Only(c)
  BY <1>1 DEF Only, Moves
<1>4. Staged(c)'
  <2>1. CreateStage(c)' /\ CancelStage(c)'
    BY <1>0, <1>1 DEF Moves, Staged, CreateStage, CancelStage, Claimed, Standing, Undoing
  <2>2. ReadyStage(c)' /\ PlanOK(c)' /\ NewLineOK(c)' /\ LineThere(c)'
    BY <1>0, <1>1 DEF Moves, lineVars, Staged, ReadyStage, PlanOK, NewLineOK, LineThere, Ready
  <2> QED
    BY <2>1, <2>2 DEF Staged
<1> QED
  BY <1>2, <1>3, <1>4, OneStaged DEF Moves, lineVars

\* A cancellation that only goes elsewhere, to a place its step allows, keeps the core.
LEMMA MovedCancel ==
  ASSUME CoreInv, NEW c \in Exchanges, NEW place \in CancelPlaces, Goes(c, "cancel", place), Moves(c),
         place = "freeze" => undo[c].step = "none" /\ Standing(c),
         place = "complete" => undo[c].step = "validated" /\ made[c].status = "cancelled",
         place \notin {"idle", "freeze", "complete"} => Undoing(c),
         place # "idle" => /\ ExchangesApart => made[c].step = "completed"
                           /\ HandoversStay => ~made[c].plan.handover
  PROVE  CoreInv'
<1>0. Staged(c) /\ WorkTyped
  BY DEF CoreInv, Typed
<1>1. /\ pc' \in [Exchanges -> [create : CreatePlaces, cancel : CancelPlaces]]
      /\ pc'[c].cancel = place /\ pc'[c].create = pc[c].create
      /\ \A d \in Exchanges \ {c} : pc'[d] = pc[d]
  BY <1>0, CancelGoes
<1>2. Typed'
  BY <1>1 DEF CoreInv, Typed, LinesTyped, BooksTyped, WorkTyped, Moves, lineVars, bookVars
<1>3. Only(c)
  BY <1>1 DEF Only, Moves
<1>4. Staged(c)'
  <2>1. CreateStage(c)' /\ CancelStage(c)'
    BY <1>0, <1>1 DEF Moves, Staged, CreateStage, CancelStage, Claimed, Standing, Undoing
  <2>2. ReadyStage(c)' /\ PlanOK(c)' /\ NewLineOK(c)' /\ LineThere(c)'
    BY <1>0, <1>1 DEF Moves, lineVars, Staged, ReadyStage, PlanOK, NewLineOK, LineThere, Ready
  <2> QED
    BY <2>1, <2>2 DEF Staged
<1> QED
  BY <1>2, <1>3, <1>4, OneStaged DEF Moves, lineVars

\* A request that is refused keeps the core.
LEMMA RefusedCore ==
  ASSUME CoreInv, NEW c \in Exchanges, NEW op \in {"create", "cancel"}, Refused(c, op)
  PROVE  CoreInv'
<1>1. Moves(c)
  BY DEF Refused, Moves, CoreInv, Typed, WorkTyped
<1>2. "idle" \in CreatePlaces /\ "idle" \in CancelPlaces
  BY DEF CreatePlaces, CancelPlaces
<1>3. CASE op = "create"
  BY <1>1, <1>2, <1>3, MovedCreate DEF Refused
<1>4. CASE op = "cancel"
  BY <1>1, <1>2, <1>4, MovedCancel DEF Refused
<1> QED
  BY <1>3, <1>4

\* The step of Retry keeps the core.
LEMMA RetryCore == ASSUME CoreInv, NEW c \in Exchanges, Retry(c) PROVE CoreInv'
<1> DEFINE place == Resumes[made[c].step]
<1>1. Moves(c)
  BY DEF Retry, Moves, CoreInv, Typed, WorkTyped
<1>2. /\ place \in CreatePlaces \ {"idle", "in", "applyIn", "oldDone", "promise", "contentDone"}
      /\ made[c].step = StepAt[place]
  BY DEF Retry, Resumes, CreatePlaces, StepAt
<1>3. Goes(c, "create", place)
  BY DEF Retry
<1> HIDE DEF place
<1> QED
  BY <1>1, <1>2, <1>3, MovedCreate

\* A call that dies keeps the core.
LEMMA CrashCore ==
  ASSUME CoreInv, NEW c \in Exchanges, NEW op \in {"create", "cancel"}, Crash(c, op)
  PROVE  CoreInv'
<1>1. Moves(c)
  BY DEF Crash, Moves, CoreInv, Typed, WorkTyped
<1>2. "idle" \in CreatePlaces /\ "idle" \in CancelPlaces
  BY DEF CreatePlaces, CancelPlaces
<1>3. CASE op = "create"
  BY <1>1, <1>2, <1>3, MovedCreate DEF Crash
<1>4. CASE op = "cancel"
  BY <1>1, <1>2, <1>4, MovedCancel DEF Crash
<1> QED
  BY <1>3, <1>4

\* Nobody else works on an exchange of the order.
LEMMA AloneMeans ==
  ASSUME CoreInv, NEW c \in Exchanges, Alone(c, "cancel"), ExchangesApart, Claimed(c)
  PROVE  made[c].step = "completed"
<1>1. ~Under(c, "create")
  BY DEF Alone
<1>2. CreateStage(c)
  BY DEF CoreInv, Staged
<1> QED
  BY <1>1, <1>2 DEF Under, CreateStage, Claimed

\* The step of BeginCancel keeps the core.
LEMMA BeginCancelCore == ASSUME CoreInv, NEW c \in Exchanges, BeginCancel(c) PROVE CoreInv'
<1> DEFINE place == IF ~Standing(c) THEN "complete" ELSE IF undo[c].step = "none" THEN "freeze" ELSE "in"
<1>0. Staged(c) /\ made[c] \in Exchange /\ undo[c] \in Cancellation
  BY DEF CoreInv, Typed, WorkTyped
<1>1. Moves(c) /\ Goes(c, "cancel", place) /\ place \in CancelPlaces
  BY DEF BeginCancel, Moves, CoreInv, Typed, WorkTyped, CancelPlaces
<1>2. ~Standing(c) => made[c].status = "cancelled" /\ undo[c].step = "validated"
  BY <1>0 DEF BeginCancel, Staged, CreateStage, CancelStage, Standing, Claimed, Exchange
<1>3. Standing(c) /\ undo[c].step # "none" => Undoing(c)
  BY <1>0 DEF BeginCancel, Undoing, Cancellation
<1>4. ExchangesApart => made[c].step = "completed"
  BY <1>0, AloneMeans DEF BeginCancel, Staged, ReadyStage, Ready
<1>5. HandoversStay => ~made[c].plan.handover
  BY <1>0 DEF BeginCancel, Staged, ReadyStage, Ready
<1>6. /\ place = "freeze" => undo[c].step = "none" /\ Standing(c)
      /\ place = "complete" => undo[c].step = "validated" /\ made[c].status = "cancelled"
      /\ place \notin {"idle", "freeze", "complete"} => Undoing(c)
  BY <1>2, <1>3
<1> HIDE DEF place
<1> QED
  BY <1>1, <1>4, <1>5, <1>6, MovedCancel

\* The step of Drop keeps the core.
LEMMA DropCore == ASSUME CoreInv, NEW c \in Exchanges, Drop(c) PROVE CoreInv'
<1>0. Staged(c) /\ WorkTyped /\ made[c] \in Exchange
  BY DEF CoreInv, Typed, WorkTyped
<1>1. /\ made' \in [Exchanges -> Exchange] /\ \A d \in Exchanges \ {c} : made'[d] = made[d]
      /\ made'[c].step = "dropped" /\ made'[c].plan = made[c].plan /\ made'[c].id = made[c].id /\ made'[c].status = made[c].status /\ made'[c].oldRow = made[c].oldRow
      /\ made'[c].newRow = made[c].newRow /\ made'[c].in = made[c].in /\ made'[c].out = made[c].out /\ made'[c].money = made[c].money /\ made'[c].linked = made[c].linked
  BY <1>0 DEF Drop, WorkTyped, Exchange, Resumes
<1>2. UNCHANGED <<lineVars, bookVars, undo, pc, spent>>
  BY DEF Drop
<1>3. Typed' /\ Only(c)
  BY <1>1, <1>2 DEF CoreInv, Typed, LinesTyped, BooksTyped, WorkTyped, lineVars, bookVars, Only
<1>4. CreateStage(c)' /\ CancelStage(c)'
  BY <1>0, <1>1, <1>2 DEF Drop, At, Staged, CreateStage, CancelStage, Claimed, Standing, Undoing
<1>5. ReadyStage(c)' /\ PlanOK(c)'
  BY <1>0, <1>1, <1>2 DEF Drop, At, Staged, CreateStage, CancelStage, ReadyStage, PlanOK, Ready, Claimed
<1>6. NewLineOK(c)' /\ LineThere(c)'
  BY <1>0, <1>1, <1>2 DEF Drop, At, Staged, CreateStage, NewLineOK, LineThere, Midway, lineVars
<1> QED
  BY <1>0, <1>2, <1>3, <1>4, <1>5, <1>6, OneStaged DEF Staged, lineVars

\* The step that ends the old line keeps the core.
LEMMA AdvanceOldCore == ASSUME CoreInv, NEW c \in Exchanges, Advance(c, "oldDone", "old_done", "content") PROVE CoreInv'
<1>0. Staged(c) /\ WorkTyped /\ LinesTyped /\ BooksTyped /\ made[c] \in Exchange /\ undo[c] \in Cancellation
  BY DEF CoreInv, Typed, WorkTyped
<1>1. /\ made' \in [Exchanges -> Exchange] /\ \A d \in Exchanges \ {c} : made'[d] = made[d]
      /\ made'[c].step = "old_done" /\ made'[c].plan = made[c].plan /\ made'[c].id = made[c].id /\ made'[c].status = made[c].status /\ made'[c].oldRow = made[c].oldRow
      /\ made'[c].newRow = made[c].newRow /\ made'[c].in = made[c].in /\ made'[c].out = made[c].out /\ made'[c].money = made[c].money /\ made'[c].linked = made[c].linked
  BY <1>0 DEF Advance, WorkTyped, Exchange, Events, Resumes
<1>2. /\ pc' \in [Exchanges -> [create : CreatePlaces, cancel : CancelPlaces]]
      /\ pc'[c].create = "content" /\ pc'[c].cancel = pc[c].cancel
      /\ \A d \in Exchanges \ {c} : pc'[d] = pc[d]
  <2>1. Goes(c, "create", "content") /\ "content" \in CreatePlaces
    BY DEF Advance, CreatePlaces
  <2> QED
    BY <1>0, <2>1, CreateGoes
<1>3. undo' = undo /\ spent' = spent
  BY DEF Advance
<1>4. UNCHANGED lineVars
  BY DEF Advance, lineVars
<1>5. UNCHANGED bookVars
  BY DEF Advance, bookVars
<1>6. Typed' /\ Only(c)
  BY <1>0, <1>1, <1>2, <1>3, <1>4, <1>5 DEF Typed, LinesTyped, BooksTyped, WorkTyped, lineVars, bookVars, Only
<1>7. CreateStage(c)' /\ CancelStage(c)'
  BY <1>0, <1>1, <1>2, <1>3 DEF Advance, At, StepAt, Staged, CreateStage, CancelStage, Claimed, Standing, Undoing
<1>8. ReadyStage(c)' /\ PlanOK(c)'
  BY <1>0, <1>1, <1>2, <1>3 DEF Advance, At, Staged, CreateStage, CancelStage, ReadyStage, PlanOK, Ready, StepAt
<1>9. NewLineOK(c)'
  BY <1>0, <1>1, <1>2, <1>3, <1>4 DEF Advance, At, Staged, CreateStage, NewLineOK, StepAt, Midway, lineVars
<1>10. LineThere(c)' /\ (mark'[c] = "absent" => mark[c] = "absent")
  BY <1>0, <1>1, <1>3, <1>4 DEF Advance, At, Staged, CreateStage, LineThere, StepAt, lineVars
<1> QED
  BY <1>0, <1>4, <1>6, <1>7, <1>8, <1>9, <1>10, OneStaged DEF Staged, lineVars

\* The step that ends the insertion of the content keeps the core.
LEMMA AdvanceContentCore == ASSUME CoreInv, NEW c \in Exchanges, Advance(c, "contentDone", "content_inserted", "newRow") PROVE CoreInv'
<1>0. Staged(c) /\ WorkTyped /\ LinesTyped /\ BooksTyped /\ made[c] \in Exchange /\ undo[c] \in Cancellation
  BY DEF CoreInv, Typed, WorkTyped
<1>1. /\ made' \in [Exchanges -> Exchange] /\ \A d \in Exchanges \ {c} : made'[d] = made[d]
      /\ made'[c].step = "content_inserted" /\ made'[c].plan = made[c].plan /\ made'[c].id = made[c].id /\ made'[c].status = made[c].status /\ made'[c].oldRow = made[c].oldRow
      /\ made'[c].newRow = made[c].newRow /\ made'[c].in = made[c].in /\ made'[c].out = made[c].out /\ made'[c].money = made[c].money /\ made'[c].linked = made[c].linked
  BY <1>0 DEF Advance, WorkTyped, Exchange, Events, Resumes
<1>2. /\ pc' \in [Exchanges -> [create : CreatePlaces, cancel : CancelPlaces]]
      /\ pc'[c].create = "newRow" /\ pc'[c].cancel = pc[c].cancel
      /\ \A d \in Exchanges \ {c} : pc'[d] = pc[d]
  <2>1. Goes(c, "create", "newRow") /\ "newRow" \in CreatePlaces
    BY DEF Advance, CreatePlaces
  <2> QED
    BY <1>0, <2>1, CreateGoes
<1>3. undo' = undo /\ spent' = spent
  BY DEF Advance
<1>4. UNCHANGED lineVars
  BY DEF Advance, lineVars
<1>5. UNCHANGED bookVars
  BY DEF Advance, bookVars
<1>6. Typed' /\ Only(c)
  BY <1>0, <1>1, <1>2, <1>3, <1>4, <1>5 DEF Typed, LinesTyped, BooksTyped, WorkTyped, lineVars, bookVars, Only
<1>7. CreateStage(c)' /\ CancelStage(c)'
  BY <1>0, <1>1, <1>2, <1>3 DEF Advance, At, StepAt, Staged, CreateStage, CancelStage, Claimed, Standing, Undoing
<1>8. ReadyStage(c)' /\ PlanOK(c)'
  BY <1>0, <1>1, <1>2, <1>3 DEF Advance, At, Staged, CreateStage, CancelStage, ReadyStage, PlanOK, Ready, StepAt
<1>9. NewLineOK(c)'
  BY <1>0, <1>1, <1>2, <1>3, <1>4 DEF Advance, At, Staged, CreateStage, NewLineOK, StepAt, Midway, lineVars
<1>10. LineThere(c)' /\ (mark'[c] = "absent" => mark[c] = "absent")
  BY <1>0, <1>1, <1>3, <1>4 DEF Advance, At, Staged, CreateStage, LineThere, StepAt, lineVars
<1> QED
  BY <1>0, <1>4, <1>6, <1>7, <1>8, <1>9, <1>10, OneStaged DEF Staged, lineVars

\* The step that ends the new line keeps the core.
LEMMA AdvanceNewCore == ASSUME CoreInv, NEW c \in Exchanges, Advance(c, "newDone", "new_done", "money") PROVE CoreInv'
<1>0. Staged(c) /\ WorkTyped /\ LinesTyped /\ BooksTyped /\ made[c] \in Exchange /\ undo[c] \in Cancellation
  BY DEF CoreInv, Typed, WorkTyped
<1>1. /\ made' \in [Exchanges -> Exchange] /\ \A d \in Exchanges \ {c} : made'[d] = made[d]
      /\ made'[c].step = "new_done" /\ made'[c].plan = made[c].plan /\ made'[c].id = made[c].id /\ made'[c].status = made[c].status /\ made'[c].oldRow = made[c].oldRow
      /\ made'[c].newRow = made[c].newRow /\ made'[c].in = made[c].in /\ made'[c].out = made[c].out /\ made'[c].money = made[c].money /\ made'[c].linked = made[c].linked
  BY <1>0 DEF Advance, WorkTyped, Exchange, Events, Resumes
<1>2. /\ pc' \in [Exchanges -> [create : CreatePlaces, cancel : CancelPlaces]]
      /\ pc'[c].create = "money" /\ pc'[c].cancel = pc[c].cancel
      /\ \A d \in Exchanges \ {c} : pc'[d] = pc[d]
  <2>1. Goes(c, "create", "money") /\ "money" \in CreatePlaces
    BY DEF Advance, CreatePlaces
  <2> QED
    BY <1>0, <2>1, CreateGoes
<1>3. undo' = undo /\ spent' = spent
  BY DEF Advance
<1>4. UNCHANGED lineVars
  BY DEF Advance, lineVars
<1>5. UNCHANGED bookVars
  BY DEF Advance, bookVars
<1>6. Typed' /\ Only(c)
  BY <1>0, <1>1, <1>2, <1>3, <1>4, <1>5 DEF Typed, LinesTyped, BooksTyped, WorkTyped, lineVars, bookVars, Only
<1>7. CreateStage(c)' /\ CancelStage(c)'
  BY <1>0, <1>1, <1>2, <1>3 DEF Advance, At, StepAt, Staged, CreateStage, CancelStage, Claimed, Standing, Undoing
<1>8. ReadyStage(c)' /\ PlanOK(c)'
  BY <1>0, <1>1, <1>2, <1>3 DEF Advance, At, Staged, CreateStage, CancelStage, ReadyStage, PlanOK, Ready, StepAt
<1>9. NewLineOK(c)'
  BY <1>0, <1>1, <1>2, <1>3, <1>4 DEF Advance, At, Staged, CreateStage, NewLineOK, StepAt, Midway, lineVars
<1>10. LineThere(c)' /\ (mark'[c] = "absent" => mark[c] = "absent")
  BY <1>0, <1>1, <1>3, <1>4 DEF Advance, At, Staged, CreateStage, LineThere, StepAt, lineVars
<1> QED
  BY <1>0, <1>4, <1>6, <1>7, <1>8, <1>9, <1>10, OneStaged DEF Staged, lineVars

\* The step that ends the money keeps the core.
LEMMA AdvanceMoneyCore == ASSUME CoreInv, NEW c \in Exchanges, Advance(c, "moneyDone", "finances_done", "complete") PROVE CoreInv'
<1>0. Staged(c) /\ WorkTyped /\ LinesTyped /\ BooksTyped /\ made[c] \in Exchange /\ undo[c] \in Cancellation
  BY DEF CoreInv, Typed, WorkTyped
<1>1. /\ made' \in [Exchanges -> Exchange] /\ \A d \in Exchanges \ {c} : made'[d] = made[d]
      /\ made'[c].step = "finances_done" /\ made'[c].plan = made[c].plan /\ made'[c].id = made[c].id /\ made'[c].status = made[c].status /\ made'[c].oldRow = made[c].oldRow
      /\ made'[c].newRow = made[c].newRow /\ made'[c].in = made[c].in /\ made'[c].out = made[c].out /\ made'[c].money = made[c].money /\ made'[c].linked = made[c].linked
  BY <1>0 DEF Advance, WorkTyped, Exchange, Events, Resumes
<1>2. /\ pc' \in [Exchanges -> [create : CreatePlaces, cancel : CancelPlaces]]
      /\ pc'[c].create = "complete" /\ pc'[c].cancel = pc[c].cancel
      /\ \A d \in Exchanges \ {c} : pc'[d] = pc[d]
  <2>1. Goes(c, "create", "complete") /\ "complete" \in CreatePlaces
    BY DEF Advance, CreatePlaces
  <2> QED
    BY <1>0, <2>1, CreateGoes
<1>3. undo' = undo /\ spent' = spent
  BY DEF Advance
<1>4. UNCHANGED lineVars
  BY DEF Advance, lineVars
<1>5. UNCHANGED bookVars
  BY DEF Advance, bookVars
<1>6. Typed' /\ Only(c)
  BY <1>0, <1>1, <1>2, <1>3, <1>4, <1>5 DEF Typed, LinesTyped, BooksTyped, WorkTyped, lineVars, bookVars, Only
<1>7. CreateStage(c)' /\ CancelStage(c)'
  BY <1>0, <1>1, <1>2, <1>3 DEF Advance, At, StepAt, Staged, CreateStage, CancelStage, Claimed, Standing, Undoing
<1>8. ReadyStage(c)' /\ PlanOK(c)'
  BY <1>0, <1>1, <1>2, <1>3 DEF Advance, At, Staged, CreateStage, CancelStage, ReadyStage, PlanOK, Ready, StepAt
<1>9. NewLineOK(c)'
  BY <1>0, <1>1, <1>2, <1>3, <1>4 DEF Advance, At, Staged, CreateStage, NewLineOK, StepAt, Midway, lineVars
<1>10. LineThere(c)' /\ (mark'[c] = "absent" => mark[c] = "absent")
  BY <1>0, <1>1, <1>3, <1>4 DEF Advance, At, Staged, CreateStage, LineThere, StepAt, lineVars
<1> QED
  BY <1>0, <1>4, <1>6, <1>7, <1>8, <1>9, <1>10, OneStaged DEF Staged, lineVars

\* The step of OldRow keeps the core.
LEMMA OldRowCore == ASSUME CoreInv, NEW c \in Exchanges, OldRow(c) PROVE CoreInv'
<1>0. Staged(c) /\ WorkTyped /\ LinesTyped /\ BooksTyped /\ made[c] \in Exchange /\ undo[c] \in Cancellation
  BY DEF CoreInv, Typed, WorkTyped
<1>1. /\ made' \in [Exchanges -> Exchange] /\ \A d \in Exchanges \ {c} : made'[d] = made[d]
      /\ made'[c].step = made[c].step /\ made'[c].plan = made[c].plan /\ made'[c].id = made[c].id /\ made'[c].status = made[c].status /\ made'[c].oldRow = TRUE
      /\ made'[c].newRow = made[c].newRow /\ made'[c].in = made[c].in /\ made'[c].out = made[c].out /\ made'[c].money = made[c].money /\ made'[c].linked = made[c].linked
  BY <1>0 DEF OldRow, WorkTyped, Exchange, Events, Resumes
<1>2. /\ pc' \in [Exchanges -> [create : CreatePlaces, cancel : CancelPlaces]]
      /\ pc'[c].create = (IF made[c].plan.physical = "warehouse" THEN "in" ELSE "oldDone") /\ pc'[c].cancel = pc[c].cancel
      /\ \A d \in Exchanges \ {c} : pc'[d] = pc[d]
  <2>1. Goes(c, "create", (IF made[c].plan.physical = "warehouse" THEN "in" ELSE "oldDone")) /\ (IF made[c].plan.physical = "warehouse" THEN "in" ELSE "oldDone") \in CreatePlaces
    BY DEF OldRow, CreatePlaces
  <2> QED
    BY <1>0, <2>1, CreateGoes
<1>3. undo' = undo /\ spent' = spent
  BY DEF OldRow
<1>4. UNCHANGED lineVars
  BY DEF OldRow, lineVars
<1>5. UNCHANGED bookVars
  BY DEF OldRow, bookVars
<1>6. Typed' /\ Only(c)
  BY <1>0, <1>1, <1>2, <1>3, <1>4, <1>5 DEF Typed, LinesTyped, BooksTyped, WorkTyped, lineVars, bookVars, Only
<1>7. CreateStage(c)' /\ CancelStage(c)'
  BY <1>0, <1>1, <1>2, <1>3 DEF OldRow, At, StepAt, Staged, CreateStage, CancelStage, Claimed, Standing, Undoing
<1>8. ReadyStage(c)' /\ PlanOK(c)'
  BY <1>0, <1>1, <1>2, <1>3 DEF OldRow, At, Staged, CreateStage, CancelStage, ReadyStage, PlanOK, Ready, StepAt
<1>9. NewLineOK(c)'
  BY <1>0, <1>1, <1>2, <1>3, <1>4 DEF OldRow, At, Staged, CreateStage, NewLineOK, StepAt, Midway, lineVars
<1>10. LineThere(c)' /\ (mark'[c] = "absent" => mark[c] = "absent")
  BY <1>0, <1>1, <1>3, <1>4 DEF OldRow, At, Staged, CreateStage, LineThere, StepAt, lineVars
<1> QED
  BY <1>0, <1>4, <1>6, <1>7, <1>8, <1>9, <1>10, OneStaged DEF Staged, lineVars

\* The step of InsertIn keeps the core.
LEMMA InsertInCore == ASSUME CoreInv, NEW c \in Exchanges, InsertIn(c) PROVE CoreInv'
<1>0. Staged(c) /\ WorkTyped /\ LinesTyped /\ BooksTyped /\ made[c] \in Exchange /\ undo[c] \in Cancellation
  BY DEF CoreInv, Typed, WorkTyped
<1>1. /\ made' \in [Exchanges -> Exchange] /\ \A d \in Exchanges \ {c} : made'[d] = made[d]
      /\ made'[c].step = made[c].step /\ made'[c].plan = made[c].plan /\ made'[c].id = made[c].id /\ made'[c].status = made[c].status /\ made'[c].oldRow = made[c].oldRow
      /\ made'[c].newRow = made[c].newRow /\ made'[c].in = (IF Fresh(made[c].in) THEN "pending" ELSE made[c].in) /\ made'[c].out = made[c].out /\ made'[c].money = made[c].money /\ made'[c].linked = made[c].linked
  BY <1>0 DEF InsertIn, WorkTyped, Exchange, Events, Resumes
<1>2. /\ pc' \in [Exchanges -> [create : CreatePlaces, cancel : CancelPlaces]]
      /\ pc'[c].create = "applyIn" /\ pc'[c].cancel = pc[c].cancel
      /\ \A d \in Exchanges \ {c} : pc'[d] = pc[d]
  <2>1. Goes(c, "create", "applyIn") /\ "applyIn" \in CreatePlaces
    BY DEF InsertIn, CreatePlaces
  <2> QED
    BY <1>0, <2>1, CreateGoes
<1>3. undo' = undo /\ spent' = spent
  BY DEF InsertIn
<1>4. UNCHANGED lineVars
  BY DEF InsertIn, lineVars
<1>5. UNCHANGED bookVars
  BY DEF InsertIn, bookVars
<1>6. Typed' /\ Only(c)
  BY <1>0, <1>1, <1>2, <1>3, <1>4, <1>5 DEF Typed, LinesTyped, BooksTyped, WorkTyped, lineVars, bookVars, Only
<1>7. CreateStage(c)' /\ CancelStage(c)'
  BY <1>0, <1>1, <1>2, <1>3 DEF InsertIn, At, StepAt, Staged, CreateStage, CancelStage, Claimed, Standing, Undoing
<1>8. ReadyStage(c)' /\ PlanOK(c)'
  BY <1>0, <1>1, <1>2, <1>3 DEF InsertIn, At, Staged, CreateStage, CancelStage, ReadyStage, PlanOK, Ready, StepAt
<1>9. NewLineOK(c)'
  BY <1>0, <1>1, <1>2, <1>3, <1>4 DEF InsertIn, At, Staged, CreateStage, NewLineOK, StepAt, Midway, lineVars
<1>10. LineThere(c)' /\ (mark'[c] = "absent" => mark[c] = "absent")
  BY <1>0, <1>1, <1>3, <1>4 DEF InsertIn, At, Staged, CreateStage, LineThere, StepAt, lineVars
<1> QED
  BY <1>0, <1>4, <1>6, <1>7, <1>8, <1>9, <1>10, OneStaged DEF Staged, lineVars

\* The step of NewRow keeps the core.
LEMMA NewRowCore == ASSUME CoreInv, NEW c \in Exchanges, NewRow(c) PROVE CoreInv'
<1>0. Staged(c) /\ WorkTyped /\ LinesTyped /\ BooksTyped /\ made[c] \in Exchange /\ undo[c] \in Cancellation
  BY DEF CoreInv, Typed, WorkTyped
<1>1. /\ made' \in [Exchanges -> Exchange] /\ \A d \in Exchanges \ {c} : made'[d] = made[d]
      /\ made'[c].step = made[c].step /\ made'[c].plan = made[c].plan /\ made'[c].id = made[c].id /\ made'[c].status = made[c].status /\ made'[c].oldRow = made[c].oldRow
      /\ made'[c].newRow = TRUE /\ made'[c].in = made[c].in /\ made'[c].out = made[c].out /\ made'[c].money = made[c].money /\ made'[c].linked = made[c].linked
  BY <1>0 DEF NewRow, WorkTyped, Exchange, Events, Resumes
<1>2. /\ pc' \in [Exchanges -> [create : CreatePlaces, cancel : CancelPlaces]]
      /\ pc'[c].create = "out" /\ pc'[c].cancel = pc[c].cancel
      /\ \A d \in Exchanges \ {c} : pc'[d] = pc[d]
  <2>1. Goes(c, "create", "out") /\ "out" \in CreatePlaces
    BY DEF NewRow, CreatePlaces
  <2> QED
    BY <1>0, <2>1, CreateGoes
<1>3. undo' = undo /\ spent' = spent
  BY DEF NewRow
<1>4. UNCHANGED lineVars
  BY DEF NewRow, lineVars
<1>5. UNCHANGED bookVars
  BY DEF NewRow, bookVars
<1>6. Typed' /\ Only(c)
  BY <1>0, <1>1, <1>2, <1>3, <1>4, <1>5 DEF Typed, LinesTyped, BooksTyped, WorkTyped, lineVars, bookVars, Only
<1>7. CreateStage(c)' /\ CancelStage(c)'
  BY <1>0, <1>1, <1>2, <1>3 DEF NewRow, At, StepAt, Staged, CreateStage, CancelStage, Claimed, Standing, Undoing
<1>8. ReadyStage(c)' /\ PlanOK(c)'
  BY <1>0, <1>1, <1>2, <1>3 DEF NewRow, At, Staged, CreateStage, CancelStage, ReadyStage, PlanOK, Ready, StepAt
<1>9. NewLineOK(c)'
  BY <1>0, <1>1, <1>2, <1>3, <1>4 DEF NewRow, At, Staged, CreateStage, NewLineOK, StepAt, Midway, lineVars
<1>10. LineThere(c)' /\ (mark'[c] = "absent" => mark[c] = "absent")
  BY <1>0, <1>1, <1>3, <1>4 DEF NewRow, At, Staged, CreateStage, LineThere, StepAt, lineVars
<1> QED
  BY <1>0, <1>4, <1>6, <1>7, <1>8, <1>9, <1>10, OneStaged DEF Staged, lineVars

\* The step of InsertOut keeps the core.
LEMMA InsertOutCore == ASSUME CoreInv, NEW c \in Exchanges, InsertOut(c) PROVE CoreInv'
<1>0. Staged(c) /\ WorkTyped /\ LinesTyped /\ BooksTyped /\ made[c] \in Exchange /\ undo[c] \in Cancellation
  BY DEF CoreInv, Typed, WorkTyped
<1>1. /\ made' \in [Exchanges -> Exchange] /\ \A d \in Exchanges \ {c} : made'[d] = made[d]
      /\ made'[c].step = made[c].step /\ made'[c].plan = made[c].plan /\ made'[c].id = made[c].id /\ made'[c].status = made[c].status /\ made'[c].oldRow = made[c].oldRow
      /\ made'[c].newRow = made[c].newRow /\ made'[c].in = made[c].in /\ made'[c].out = (IF Fresh(made[c].out) THEN "pending" ELSE made[c].out) /\ made'[c].money = made[c].money /\ made'[c].linked = made[c].linked
  BY <1>0 DEF InsertOut, WorkTyped, Exchange, Events, Resumes
<1>2. /\ pc' \in [Exchanges -> [create : CreatePlaces, cancel : CancelPlaces]]
      /\ pc'[c].create = (IF made[c].plan.sent THEN "applyOut" ELSE "newDone") /\ pc'[c].cancel = pc[c].cancel
      /\ \A d \in Exchanges \ {c} : pc'[d] = pc[d]
  <2>1. Goes(c, "create", (IF made[c].plan.sent THEN "applyOut" ELSE "newDone")) /\ (IF made[c].plan.sent THEN "applyOut" ELSE "newDone") \in CreatePlaces
    BY DEF InsertOut, CreatePlaces
  <2> QED
    BY <1>0, <2>1, CreateGoes
<1>3. undo' = undo /\ spent' = spent
  BY DEF InsertOut
<1>4. UNCHANGED lineVars
  BY DEF InsertOut, lineVars
<1>5. UNCHANGED bookVars
  BY DEF InsertOut, bookVars
<1>6. Typed' /\ Only(c)
  BY <1>0, <1>1, <1>2, <1>3, <1>4, <1>5 DEF Typed, LinesTyped, BooksTyped, WorkTyped, lineVars, bookVars, Only
<1>7. CreateStage(c)' /\ CancelStage(c)'
  BY <1>0, <1>1, <1>2, <1>3 DEF InsertOut, At, StepAt, Staged, CreateStage, CancelStage, Claimed, Standing, Undoing
<1>8. ReadyStage(c)' /\ PlanOK(c)'
  BY <1>0, <1>1, <1>2, <1>3 DEF InsertOut, At, Staged, CreateStage, CancelStage, ReadyStage, PlanOK, Ready, StepAt
<1>9. NewLineOK(c)'
  BY <1>0, <1>1, <1>2, <1>3, <1>4 DEF InsertOut, At, Staged, CreateStage, NewLineOK, StepAt, Midway, lineVars
<1>10. LineThere(c)' /\ (mark'[c] = "absent" => mark[c] = "absent")
  BY <1>0, <1>1, <1>3, <1>4 DEF InsertOut, At, Staged, CreateStage, LineThere, StepAt, lineVars
<1> QED
  BY <1>0, <1>4, <1>6, <1>7, <1>8, <1>9, <1>10, OneStaged DEF Staged, lineVars

\* The step of Complete keeps the core.
LEMMA CompleteCore == ASSUME CoreInv, NEW c \in Exchanges, Complete(c) PROVE CoreInv'
<1>0. Staged(c) /\ WorkTyped /\ LinesTyped /\ BooksTyped /\ made[c] \in Exchange /\ undo[c] \in Cancellation
  BY DEF CoreInv, Typed, WorkTyped
<1>1. /\ made' \in [Exchanges -> Exchange] /\ \A d \in Exchanges \ {c} : made'[d] = made[d]
      /\ made'[c].step = "completed" /\ made'[c].plan = made[c].plan /\ made'[c].id = made[c].id /\ made'[c].status = made[c].status /\ made'[c].oldRow = made[c].oldRow
      /\ made'[c].newRow = made[c].newRow /\ made'[c].in = made[c].in /\ made'[c].out = made[c].out /\ made'[c].money = made[c].money /\ made'[c].linked = made[c].linked
  BY <1>0 DEF Complete, WorkTyped, Exchange, Events, Resumes
<1>2. /\ pc' \in [Exchanges -> [create : CreatePlaces, cancel : CancelPlaces]]
      /\ pc'[c].create = "idle" /\ pc'[c].cancel = pc[c].cancel
      /\ \A d \in Exchanges \ {c} : pc'[d] = pc[d]
  <2>1. Goes(c, "create", "idle") /\ "idle" \in CreatePlaces
    BY DEF Complete, CreatePlaces
  <2> QED
    BY <1>0, <2>1, CreateGoes
<1>3. undo' = undo /\ spent' = spent
  BY DEF Complete
<1>4. UNCHANGED lineVars
  BY DEF Complete, lineVars
<1>5. UNCHANGED bookVars
  BY DEF Complete, bookVars
<1>6. Typed' /\ Only(c)
  BY <1>0, <1>1, <1>2, <1>3, <1>4, <1>5 DEF Typed, LinesTyped, BooksTyped, WorkTyped, lineVars, bookVars, Only
<1>7. CreateStage(c)' /\ CancelStage(c)'
  BY <1>0, <1>1, <1>2, <1>3 DEF Complete, At, StepAt, Staged, CreateStage, CancelStage, Claimed, Standing, Undoing
<1>8. ReadyStage(c)' /\ PlanOK(c)'
  BY <1>0, <1>1, <1>2, <1>3 DEF Complete, At, Staged, CreateStage, CancelStage, ReadyStage, PlanOK, Ready, StepAt
<1>9. NewLineOK(c)'
  BY <1>0, <1>1, <1>2, <1>3, <1>4 DEF Complete, At, Staged, CreateStage, NewLineOK, StepAt, Midway, lineVars
<1>10. LineThere(c)' /\ (mark'[c] = "absent" => mark[c] = "absent")
  BY <1>0, <1>1, <1>3, <1>4 DEF Complete, At, Staged, CreateStage, LineThere, StepAt, lineVars
<1> QED
  BY <1>0, <1>4, <1>6, <1>7, <1>8, <1>9, <1>10, OneStaged DEF Staged, lineVars

\* The step of Claim, when it is not refused, keeps the core.
LEMMA ClaimDoneCore ==
  ASSUME CoreInv, NEW c \in Exchanges, Claim(c), qty[made[c].plan.line] = made[c].plan.initial, Unclaimed(c)
  PROVE  CoreInv'
<1>0. Staged(c) /\ WorkTyped /\ LinesTyped /\ BooksTyped /\ made[c] \in Exchange /\ undo[c] \in Cancellation
  BY DEF CoreInv, Typed, WorkTyped
<1>a. /\ c \in Lines /\ made[c].plan.line \in Lines /\ made[c].plan.line # c
      /\ made[c].plan.line \in Exchanges => mark[made[c].plan.line] # "absent"
      /\ made[c].plan.initial \in Nat /\ made[c].plan.target \in Nat /\ made[c].plan.take \in Nat \ {0}
      /\ made[c].plan.give \in Nat \ {0} /\ made[c].plan \in Plans
  <2>1. made[c].step # "none"
    BY <1>0 DEF Claim, At, Staged, CreateStage, StepAt
  <2>2. made[c].plan \in Plans
    BY <2>1, PlansOf
  <2> QED
    BY <1>0, <2>1, <2>2, ExchangeAssumption DEF Staged, PlanOK, LineThere, Lines, Plans

<1>b. Cardinality({d \in Exchanges : Claimed(d)}) \in Nat
  BY ExchangeAssumption, FS_Subset, FS_CardinalityType
<1>1. /\ made' \in [Exchanges -> Exchange] /\ \A d \in Exchanges \ {c} : made'[d] = made[d]
      /\ made'[c].step = "exchange_created" /\ made'[c].plan = made[c].plan /\ made'[c].id = 1 + Cardinality({d \in Exchanges : Claimed(d)}) /\ made'[c].status = "completed" /\ made'[c].oldRow = made[c].oldRow
      /\ made'[c].newRow = made[c].newRow /\ made'[c].in = made[c].in /\ made'[c].out = made[c].out /\ made'[c].money = made[c].money /\ made'[c].linked = made[c].linked
  <2>1. made' = [made EXCEPT ![c].step = "exchange_created", ![c].status = "completed",
                             ![c].id = 1 + Cardinality({d \in Exchanges : Claimed(d)})]
    BY DEF Claim
  <2> DEFINE n == 1 + Cardinality({d \in Exchanges : Claimed(d)})
  <2>2. n \in Nat
    BY <1>b
  <2> HIDE DEF n
  <2>3. made' = [made EXCEPT ![c].step = "exchange_created", ![c].status = "completed", ![c].id = n]
    BY <2>1 DEF n
  <2>4. /\ made' \in [Exchanges -> Exchange] /\ \A d \in Exchanges \ {c} : made'[d] = made[d]
        /\ made'[c] = [made[c] EXCEPT !.step = "exchange_created", !.status = "completed", !.id = n]
    BY <1>0, <2>2, <2>3 DEF WorkTyped, Exchange, Resumes
  <2> QED
    BY <1>0, <2>4 DEF Exchange, n
<1>2. /\ pc' \in [Exchanges -> [create : CreatePlaces, cancel : CancelPlaces]]
      /\ pc'[c].create = "reserve" /\ pc'[c].cancel = pc[c].cancel
      /\ \A d \in Exchanges \ {c} : pc'[d] = pc[d]
  <2>1. Goes(c, "create", "reserve") /\ "reserve" \in CreatePlaces
    BY DEF Claim, CreatePlaces
  <2> QED
    BY <1>0, <2>1, CreateGoes
<1>3. undo' = undo /\ spent' = spent
  BY <1>0, <1>b DEF Claim
<1>4. /\ LinesTyped' /\ resv' = resv /\ qty'[c] = qty[c] /\ mark'[c] = mark[c]
      /\ \A d \in Exchanges \ {c} : /\ mark'[d] = "absent" <=> mark[d] = "absent"
                                    /\ mark[d] = "absent" => qty'[d] = qty[d] /\ resv'[d] = resv[d]
      /\ \A d \in Exchanges : mark[d] # "absent" => mark'[d] # "absent"
  <2>1. /\ qty' \in [Lines -> Nat] /\ \A k \in Lines \ {made[c].plan.line} : qty'[k] = qty[k]
    BY <1>0, <1>a DEF Claim, LinesTyped
  <2>2. /\ mark' \in [Lines -> Marks] /\ \A k \in Lines \ {made[c].plan.line} : mark'[k] = mark[k]
    BY <1>0, <1>a DEF Claim, LinesTyped, Marks
  <2>3. resv' = resv /\ returned' = returned
    BY DEF Claim
  <2>4. mark[made[c].plan.line] # "absent" => mark'[made[c].plan.line] # "absent"
    BY <1>0, <1>a DEF Claim, LinesTyped
  <2>5. \A d \in Exchanges : d \in Lines
    BY DEF Lines
  <2> QED
    BY <1>0, <1>a, <2>1, <2>2, <2>3, <2>4, <2>5 DEF LinesTyped
<1>5. UNCHANGED bookVars
  BY <1>0, <1>b DEF Claim, bookVars
<1>6. Typed' /\ Only(c)
  <2>1. LinesTyped'
    BY <1>4
  <2>2. BooksTyped'
    BY <1>0, <1>5 DEF BooksTyped, bookVars
  <2>3. WorkTyped' /\ Only(c)
    BY <1>0, <1>1, <1>2, <1>3 DEF WorkTyped, Only
  <2> QED
    BY <2>1, <2>2, <2>3 DEF Typed
<1>7. CreateStage(c)' /\ CancelStage(c)'
  BY <1>0, <1>1, <1>2, <1>3, <1>a, <1>b DEF Claim, At, StepAt, Staged, CreateStage, CancelStage, Claimed, Standing, Undoing
<1>8. ReadyStage(c)' /\ PlanOK(c)'
  BY <1>0, <1>1, <1>2, <1>3, <1>a, <1>b DEF Claim, At, Staged, CreateStage, CancelStage, ReadyStage, PlanOK, Ready, StepAt, Undoing
<1>9. NewLineOK(c)'
  BY <1>0, <1>1, <1>2, <1>3, <1>4, <1>a, <1>b DEF Claim, At, Staged, CreateStage, CancelStage, NewLineOK, StepAt, Midway, lineVars
<1>10. LineThere(c)' /\ (mark'[c] = "absent" => mark[c] = "absent")
  BY <1>0, <1>1, <1>3, <1>4, <1>a, <1>b DEF Claim, At, Staged, CreateStage, LineThere, StepAt, lineVars
<1> QED
  BY <1>0, <1>4, <1>6, <1>7, <1>8, <1>9, <1>10, OneStaged DEF Staged, lineVars

\* The step of SetQty, when it is not refused, keeps the core.
LEMMA SetQtyDoneCore ==
  ASSUME CoreInv, NEW c \in Exchanges, SetQty(c), qty[made[c].plan.line] \in {made[c].plan.target, made[c].plan.initial}
  PROVE  CoreInv'
<1>0. Staged(c) /\ WorkTyped /\ LinesTyped /\ BooksTyped /\ made[c] \in Exchange /\ undo[c] \in Cancellation
  BY DEF CoreInv, Typed, WorkTyped
<1>a. /\ c \in Lines /\ made[c].plan.line \in Lines /\ made[c].plan.line # c
      /\ made[c].plan.line \in Exchanges => mark[made[c].plan.line] # "absent"
      /\ made[c].plan.initial \in Nat /\ made[c].plan.target \in Nat /\ made[c].plan.take \in Nat \ {0}
      /\ made[c].plan.give \in Nat \ {0} /\ made[c].plan \in Plans
  <2>1. made[c].step # "none"
    BY <1>0 DEF SetQty, At, Staged, CreateStage, StepAt
  <2>2. made[c].plan \in Plans
    BY <2>1, PlansOf
  <2> QED
    BY <1>0, <2>1, <2>2, ExchangeAssumption DEF Staged, PlanOK, LineThere, Lines, Plans
<1>1. made' = made
  BY DEF SetQty
<1>2. /\ pc' \in [Exchanges -> [create : CreatePlaces, cancel : CancelPlaces]]
      /\ pc'[c].create = "oldRow" /\ pc'[c].cancel = pc[c].cancel
      /\ \A d \in Exchanges \ {c} : pc'[d] = pc[d]
  <2>1. Goes(c, "create", "oldRow") /\ "oldRow" \in CreatePlaces
    BY DEF SetQty, CreatePlaces
  <2> QED
    BY <1>0, <2>1, CreateGoes
<1>3. undo' = undo /\ spent' = spent
  BY DEF SetQty
<1>4. /\ LinesTyped' /\ resv' = resv /\ qty'[c] = qty[c] /\ mark'[c] = mark[c]
      /\ \A d \in Exchanges \ {c} : /\ mark'[d] = "absent" <=> mark[d] = "absent"
                                    /\ mark[d] = "absent" => qty'[d] = qty[d] /\ resv'[d] = resv[d]
      /\ \A d \in Exchanges : mark[d] # "absent" => mark'[d] # "absent"
  <2>1. /\ qty' \in [Lines -> Nat] /\ \A k \in Lines \ {made[c].plan.line} : qty'[k] = qty[k]
    BY <1>0, <1>a DEF SetQty, LinesTyped
  <2>2. /\ mark' \in [Lines -> Marks] /\ \A k \in Lines \ {made[c].plan.line} : mark'[k] = mark[k]
    BY <1>0, <1>a DEF SetQty, LinesTyped, Marks
  <2>3. resv' = resv /\ returned' = returned
    BY DEF SetQty
  <2>4. mark[made[c].plan.line] # "absent" => mark'[made[c].plan.line] # "absent"
    BY <1>0, <1>a DEF SetQty, LinesTyped
  <2>5. \A d \in Exchanges : d \in Lines
    BY DEF Lines
  <2> QED
    BY <1>0, <1>a, <2>1, <2>2, <2>3, <2>4, <2>5 DEF LinesTyped
<1>5. UNCHANGED bookVars
  BY DEF SetQty, bookVars
<1>6. Typed' /\ Only(c)
  <2>1. LinesTyped'
    BY <1>4
  <2>2. BooksTyped'
    BY <1>0, <1>5 DEF BooksTyped, bookVars
  <2>3. WorkTyped' /\ Only(c)
    BY <1>0, <1>1, <1>2, <1>3 DEF WorkTyped, Only
  <2> QED
    BY <2>1, <2>2, <2>3 DEF Typed
<1>7. CreateStage(c)' /\ CancelStage(c)'
  BY <1>0, <1>1, <1>2, <1>3, <1>a DEF SetQty, At, StepAt, Staged, CreateStage, CancelStage, Claimed, Standing, Undoing
<1>8. ReadyStage(c)' /\ PlanOK(c)'
  BY <1>0, <1>1, <1>2, <1>3, <1>a DEF SetQty, At, Staged, CreateStage, CancelStage, ReadyStage, PlanOK, Ready, StepAt, Undoing
<1>9. NewLineOK(c)'
  BY <1>0, <1>1, <1>2, <1>3, <1>4, <1>a DEF SetQty, At, Staged, CreateStage, CancelStage, NewLineOK, StepAt, Midway, lineVars
<1>10. LineThere(c)' /\ (mark'[c] = "absent" => mark[c] = "absent")
  BY <1>0, <1>1, <1>3, <1>4, <1>a DEF SetQty, At, Staged, CreateStage, LineThere, StepAt, lineVars
<1> QED
  BY <1>0, <1>4, <1>6, <1>7, <1>8, <1>9, <1>10, OneStaged DEF Staged, lineVars

\* The step of Claim keeps the core.
LEMMA ClaimCore == ASSUME CoreInv, NEW c \in Exchanges, Claim(c) PROVE CoreInv'
<1>1. CASE qty[made[c].plan.line] = made[c].plan.initial /\ Unclaimed(c)
  BY <1>1, ClaimDoneCore
<1>2. CASE Refused(c, "create")
  BY <1>2, RefusedCore
<1> QED
  BY <1>1, <1>2 DEF Claim

\* The step of SetQty keeps the core.
LEMMA SetQtyCore == ASSUME CoreInv, NEW c \in Exchanges, SetQty(c) PROVE CoreInv'
<1>1. CASE qty[made[c].plan.line] \in {made[c].plan.target, made[c].plan.initial}
  BY <1>1, SetQtyDoneCore
<1>2. CASE Refused(c, "create")
  BY <1>2, RefusedCore
<1> QED
  BY <1>1, <1>2 DEF SetQty

\* The step of InsertContent keeps the core.
LEMMA InsertContentCore ==
  ASSUME CoreInv, NEW c \in Exchanges, InsertContent(c)
  PROVE  CoreInv'
<1>0. Staged(c) /\ WorkTyped /\ LinesTyped /\ BooksTyped /\ made[c] \in Exchange /\ undo[c] \in Cancellation
  BY DEF CoreInv, Typed, WorkTyped
<1>a. /\ c \in Lines /\ made[c].plan.line \in Lines /\ made[c].plan.line # c
      /\ made[c].plan.line \in Exchanges => mark[made[c].plan.line] # "absent"
      /\ made[c].plan.initial \in Nat /\ made[c].plan.target \in Nat /\ made[c].plan.take \in Nat \ {0}
      /\ made[c].plan.give \in Nat \ {0} /\ made[c].plan \in Plans
  <2>1. made[c].step # "none"
    BY <1>0 DEF InsertContent, At, Staged, CreateStage, StepAt
  <2>2. made[c].plan \in Plans
    BY <2>1, PlansOf
  <2> QED
    BY <1>0, <2>1, <2>2, ExchangeAssumption DEF Staged, PlanOK, LineThere, Lines, Plans
<1>1. made' = made
  BY DEF InsertContent
<1>2. /\ pc' \in [Exchanges -> [create : CreatePlaces, cancel : CancelPlaces]]
      /\ pc'[c].create = "promise" /\ pc'[c].cancel = pc[c].cancel
      /\ \A d \in Exchanges \ {c} : pc'[d] = pc[d]
  <2>1. Goes(c, "create", "promise") /\ "promise" \in CreatePlaces
    BY DEF InsertContent, CreatePlaces
  <2> QED
    BY <1>0, <2>1, CreateGoes
<1>3. undo' = undo /\ spent' = spent
  BY DEF InsertContent
<1>4. /\ LinesTyped' /\ resv' = resv /\ mark'[c] # "absent"
      /\ \A d \in Exchanges \ {c} : /\ mark'[d] = "absent" <=> mark[d] = "absent"
                                    /\ mark[d] = "absent" => qty'[d] = qty[d] /\ resv'[d] = resv[d]
      /\ \A d \in Exchanges : mark[d] # "absent" => mark'[d] # "absent"
  <2>1. /\ qty' \in [Lines -> Nat] /\ \A k \in Lines \ {c} : qty'[k] = qty[k]
    BY <1>0, <1>a DEF InsertContent, LinesTyped
  <2>2. /\ mark' \in [Lines -> Marks] /\ mark'[c] # "absent" /\ \A k \in Lines \ {c} : mark'[k] = mark[k]
    BY <1>0, <1>a DEF InsertContent, LinesTyped, Marks
  <2>3. resv' = resv /\ returned' = returned
    BY DEF InsertContent
  <2>5. \A d \in Exchanges : d \in Lines
    BY DEF Lines
  <2> QED
    BY <1>0, <1>a, <2>1, <2>2, <2>3, <2>5 DEF LinesTyped
<1>5. UNCHANGED bookVars
  BY DEF InsertContent, bookVars
<1>6. Typed' /\ Only(c)
  <2>1. LinesTyped'
    BY <1>4
  <2>2. BooksTyped'
    BY <1>0, <1>5 DEF BooksTyped, bookVars
  <2>3. WorkTyped' /\ Only(c)
    BY <1>0, <1>1, <1>2, <1>3 DEF WorkTyped, Only
  <2> QED
    BY <2>1, <2>2, <2>3 DEF Typed
<1>7. CreateStage(c)' /\ CancelStage(c)'
  BY <1>0, <1>1, <1>2, <1>3, <1>a DEF InsertContent, At, StepAt, Staged, CreateStage, CancelStage, Claimed, Standing, Undoing
<1>8. ReadyStage(c)' /\ PlanOK(c)'
  BY <1>0, <1>1, <1>2, <1>3, <1>a DEF InsertContent, At, Staged, CreateStage, CancelStage, ReadyStage, PlanOK, Ready, StepAt, Undoing
<1>9. NewLineOK(c)'
  BY <1>0, <1>1, <1>2, <1>3, <1>4, <1>a DEF InsertContent, At, Staged, CreateStage, CancelStage, NewLineOK, StepAt, Midway, lineVars
<1>10. LineThere(c)' /\ (mark'[c] = "absent" => mark[c] = "absent")
  BY <1>0, <1>1, <1>3, <1>4, <1>a DEF InsertContent, At, Staged, CreateStage, LineThere, StepAt, lineVars
<1> QED
  BY <1>0, <1>4, <1>6, <1>7, <1>8, <1>9, <1>10, OneStaged DEF Staged, lineVars

\* The step of Promise keeps the core.
LEMMA PromiseCore ==
  ASSUME CoreInv, NEW c \in Exchanges, Promise(c)
  PROVE  CoreInv'
<1>0. Staged(c) /\ WorkTyped /\ LinesTyped /\ BooksTyped /\ made[c] \in Exchange /\ undo[c] \in Cancellation
  BY DEF CoreInv, Typed, WorkTyped
<1>a. /\ c \in Lines /\ made[c].plan.line \in Lines /\ made[c].plan.line # c
      /\ made[c].plan.line \in Exchanges => mark[made[c].plan.line] # "absent"
      /\ made[c].plan.initial \in Nat /\ made[c].plan.target \in Nat /\ made[c].plan.take \in Nat \ {0}
      /\ made[c].plan.give \in Nat \ {0} /\ made[c].plan \in Plans
  <2>1. made[c].step # "none"
    BY <1>0 DEF Promise, At, Staged, CreateStage, StepAt
  <2>2. made[c].plan \in Plans
    BY <2>1, PlansOf
  <2> QED
    BY <1>0, <2>1, <2>2, ExchangeAssumption DEF Staged, PlanOK, LineThere, Lines, Plans
<1>1. made' = made
  BY DEF Promise
<1>2. /\ pc' \in [Exchanges -> [create : CreatePlaces, cancel : CancelPlaces]]
      /\ pc'[c].create = "contentDone" /\ pc'[c].cancel = pc[c].cancel
      /\ \A d \in Exchanges \ {c} : pc'[d] = pc[d]
  <2>1. Goes(c, "create", "contentDone") /\ "contentDone" \in CreatePlaces
    BY DEF Promise, CreatePlaces
  <2> QED
    BY <1>0, <2>1, CreateGoes
<1>3. undo' = undo /\ spent' = spent
  BY DEF Promise
<1>4. /\ LinesTyped' /\ qty' = qty /\ mark'[c] # "absent"
      /\ \A d \in Exchanges \ {c} : /\ mark'[d] = "absent" <=> mark[d] = "absent"
                                    /\ mark[d] = "absent" => qty'[d] = qty[d] /\ resv'[d] = resv[d]
      /\ \A d \in Exchanges : mark[d] # "absent" => mark'[d] # "absent"
  <2>1. mark[c] # "absent"
    BY <1>0 DEF Promise, At, Staged, NewLineOK
  <2>2. /\ mark' \in [Lines -> Marks] /\ mark'[c] # "absent" /\ \A k \in Lines \ {c} : mark'[k] = mark[k]
    BY <1>0, <1>a, <2>1 DEF Promise, LinesTyped, Marks
  <2>3. /\ resv' \in [Lines -> [status : {"none", "active", "fulfilled", "released"}, qty : Nat]]
        /\ \A k \in Lines \ {c} : resv'[k] = resv[k]
    BY <1>0, <1>a DEF Promise, LinesTyped
  <2>4. qty' = qty /\ returned' = returned
    BY DEF Promise
  <2>5. \A d \in Exchanges : d \in Lines
    BY DEF Lines
  <2> QED
    BY <1>0, <1>a, <2>2, <2>3, <2>4, <2>5 DEF LinesTyped
<1>5. BooksTyped'
  BY <1>0, <1>a DEF Promise, BooksTyped
<1>6. Typed' /\ Only(c)
  <2>1. LinesTyped'
    BY <1>4
  <2>2. BooksTyped'
    BY <1>5
  <2>3. WorkTyped' /\ Only(c)
    BY <1>0, <1>1, <1>2, <1>3 DEF WorkTyped, Only
  <2> QED
    BY <2>1, <2>2, <2>3 DEF Typed
<1>7. CreateStage(c)' /\ CancelStage(c)'
  BY <1>0, <1>1, <1>2, <1>3, <1>a DEF Promise, At, StepAt, Staged, CreateStage, CancelStage, Claimed, Standing, Undoing
<1>8. ReadyStage(c)' /\ PlanOK(c)'
  BY <1>0, <1>1, <1>2, <1>3, <1>a DEF Promise, At, Staged, CreateStage, CancelStage, ReadyStage, PlanOK, Ready, StepAt, Undoing
<1>9. NewLineOK(c)'
  BY <1>0, <1>1, <1>2, <1>3, <1>4, <1>a DEF Promise, At, Staged, CreateStage, CancelStage, NewLineOK, StepAt, Midway, lineVars
<1>10. LineThere(c)' /\ (mark'[c] = "absent" => mark[c] = "absent")
  BY <1>0, <1>1, <1>3, <1>4, <1>a DEF Promise, At, Staged, CreateStage, LineThere, StepAt, lineVars
<1> QED
  BY <1>0, <1>4, <1>6, <1>7, <1>8, <1>9, <1>10, OneStaged DEF Staged, lineVars

\* The step of ApplyIn, when it is not refused, keeps the core.
LEMMA ApplyInDoneCore ==
  ASSUME CoreInv, NEW c \in Exchanges, ApplyIn(c), made[c].in # "cancelled"
  PROVE  CoreInv'
<1>0. Staged(c) /\ WorkTyped /\ LinesTyped /\ BooksTyped /\ made[c] \in Exchange /\ undo[c] \in Cancellation
  BY DEF CoreInv, Typed, WorkTyped
<1>a. /\ c \in Lines /\ made[c].plan.line \in Lines /\ made[c].plan.line # c
      /\ made[c].plan.line \in Exchanges => mark[made[c].plan.line] # "absent"
      /\ made[c].plan.initial \in Nat /\ made[c].plan.target \in Nat /\ made[c].plan.take \in Nat \ {0}
      /\ made[c].plan.give \in Nat \ {0} /\ made[c].plan \in Plans
  <2>1. made[c].step # "none"
    BY <1>0 DEF ApplyIn, At, Staged, CreateStage, StepAt
  <2>2. made[c].plan \in Plans
    BY <2>1, PlansOf
  <2> QED
    BY <1>0, <2>1, <2>2, ExchangeAssumption DEF Staged, PlanOK, LineThere, Lines, Plans

<1>b. made' = [made EXCEPT ![c].in = "applied"]
  BY DEF ApplyIn
<1>1. /\ made' \in [Exchanges -> Exchange] /\ \A d \in Exchanges \ {c} : made'[d] = made[d]
      /\ made'[c].step = made[c].step /\ made'[c].plan = made[c].plan /\ made'[c].id = made[c].id /\ made'[c].status = made[c].status /\ made'[c].oldRow = made[c].oldRow
      /\ made'[c].newRow = made[c].newRow /\ made'[c].in = "applied" /\ made'[c].out = made[c].out /\ made'[c].money = made[c].money /\ made'[c].linked = made[c].linked
  BY <1>0, <1>b DEF ApplyIn, WorkTyped, Exchange, Events, Resumes
<1>2. /\ pc' \in [Exchanges -> [create : CreatePlaces, cancel : CancelPlaces]]
      /\ pc'[c].create = "oldDone" /\ pc'[c].cancel = pc[c].cancel
      /\ \A d \in Exchanges \ {c} : pc'[d] = pc[d]
  <2>1. Goes(c, "create", "oldDone") /\ "oldDone" \in CreatePlaces
    BY DEF ApplyIn, CreatePlaces
  <2> QED
    BY <1>0, <2>1, CreateGoes
<1>3. undo' = undo /\ spent' = spent
  BY <1>0, <1>b DEF ApplyIn
<1>4. UNCHANGED lineVars
  BY <1>0, <1>b DEF ApplyIn, lineVars
<1>5. BooksTyped'
  BY <1>0, <1>a DEF ApplyIn, BooksTyped
<1>6. Typed' /\ Only(c)
  <2>1. LinesTyped'
    BY <1>0, <1>4 DEF LinesTyped, lineVars
  <2>2. BooksTyped'
    BY <1>5
  <2>3. WorkTyped' /\ Only(c)
    BY <1>0, <1>1, <1>2, <1>3 DEF WorkTyped, Only
  <2> QED
    BY <2>1, <2>2, <2>3 DEF Typed
<1>7. CreateStage(c)' /\ CancelStage(c)'
  BY <1>0, <1>1, <1>2, <1>3, <1>a DEF ApplyIn, At, StepAt, Staged, CreateStage, CancelStage, Claimed, Standing, Undoing
<1>8. ReadyStage(c)' /\ PlanOK(c)'
  BY <1>0, <1>1, <1>2, <1>3, <1>a DEF ApplyIn, At, Staged, CreateStage, CancelStage, ReadyStage, PlanOK, Ready, StepAt, Undoing
<1>9. NewLineOK(c)'
  BY <1>0, <1>1, <1>2, <1>3, <1>4, <1>a DEF ApplyIn, At, Staged, CreateStage, CancelStage, NewLineOK, StepAt, Midway, lineVars
<1>10. LineThere(c)' /\ (mark'[c] = "absent" => mark[c] = "absent")
  BY <1>0, <1>1, <1>3, <1>4, <1>a DEF ApplyIn, At, Staged, CreateStage, LineThere, StepAt, lineVars
<1> QED
  BY <1>0, <1>4, <1>6, <1>7, <1>8, <1>9, <1>10, OneStaged DEF Staged, lineVars

\* The step of BookMoney keeps the core.
LEMMA BookMoneyCore ==
  ASSUME CoreInv, NEW c \in Exchanges, BookMoney(c)
  PROVE  CoreInv'
<1>0. Staged(c) /\ WorkTyped /\ LinesTyped /\ BooksTyped /\ made[c] \in Exchange /\ undo[c] \in Cancellation
  BY DEF CoreInv, Typed, WorkTyped
<1>a. /\ c \in Lines /\ made[c].plan.line \in Lines /\ made[c].plan.line # c
      /\ made[c].plan.line \in Exchanges => mark[made[c].plan.line] # "absent"
      /\ made[c].plan.initial \in Nat /\ made[c].plan.target \in Nat /\ made[c].plan.take \in Nat \ {0}
      /\ made[c].plan.give \in Nat \ {0} /\ made[c].plan \in Plans
  <2>1. made[c].step # "none"
    BY <1>0 DEF BookMoney, At, Staged, CreateStage, StepAt
  <2>2. made[c].plan \in Plans
    BY <2>1, PlansOf
  <2> QED
    BY <1>0, <2>1, <2>2, ExchangeAssumption DEF Staged, PlanOK, LineThere, Lines, Plans

<1>b. made' = made \/ made' = [made EXCEPT ![c].money = TRUE]
  BY DEF BookMoney
<1>1. /\ made' \in [Exchanges -> Exchange] /\ \A d \in Exchanges \ {c} : made'[d] = made[d]
      /\ made'[c].step = made[c].step /\ made'[c].plan = made[c].plan /\ made'[c].id = made[c].id /\ made'[c].status = made[c].status /\ made'[c].oldRow = made[c].oldRow
      /\ made'[c].newRow = made[c].newRow /\ made'[c].in = made[c].in /\ made'[c].out = made[c].out /\ made'[c].linked = made[c].linked
  <2>1. CASE made' = made
    BY <1>0, <2>1 DEF WorkTyped
  <2>2. CASE made' = [made EXCEPT ![c].money = TRUE]
    BY <1>0, <2>2 DEF WorkTyped, Exchange
  <2> QED
    BY <1>b, <2>1, <2>2
<1>2. /\ pc' \in [Exchanges -> [create : CreatePlaces, cancel : CancelPlaces]]
      /\ pc'[c].create = "total" /\ pc'[c].cancel = pc[c].cancel
      /\ \A d \in Exchanges \ {c} : pc'[d] = pc[d]
  <2>1. Goes(c, "create", "total") /\ "total" \in CreatePlaces
    BY DEF BookMoney, CreatePlaces
  <2> QED
    BY <1>0, <2>1, CreateGoes
<1>3. undo' = undo /\ spent' = spent
  BY <1>0, <1>b DEF BookMoney
<1>4. UNCHANGED lineVars
  BY <1>0, <1>b DEF BookMoney, lineVars
<1>5. BooksTyped'
  BY <1>0, <1>a DEF BookMoney, BooksTyped, Plans, bookVars
<1>6. Typed' /\ Only(c)
  <2>1. LinesTyped'
    BY <1>0, <1>4 DEF LinesTyped, lineVars
  <2>2. BooksTyped'
    BY <1>5
  <2>3. WorkTyped' /\ Only(c)
    BY <1>0, <1>1, <1>2, <1>3 DEF WorkTyped, Only
  <2> QED
    BY <2>1, <2>2, <2>3 DEF Typed
<1>7. CreateStage(c)' /\ CancelStage(c)'
  BY <1>0, <1>1, <1>2, <1>3, <1>a DEF BookMoney, At, StepAt, Staged, CreateStage, CancelStage, Claimed, Standing, Undoing
<1>8. ReadyStage(c)' /\ PlanOK(c)'
  BY <1>0, <1>1, <1>2, <1>3, <1>a DEF BookMoney, At, Staged, CreateStage, CancelStage, ReadyStage, PlanOK, Ready, StepAt, Undoing
<1>9. NewLineOK(c)'
  BY <1>0, <1>1, <1>2, <1>3, <1>4, <1>a DEF BookMoney, At, Staged, CreateStage, CancelStage, NewLineOK, StepAt, Midway, lineVars
<1>10. LineThere(c)' /\ (mark'[c] = "absent" => mark[c] = "absent")
  BY <1>0, <1>1, <1>3, <1>4, <1>a DEF BookMoney, At, Staged, CreateStage, LineThere, StepAt, lineVars
<1> QED
  BY <1>0, <1>4, <1>6, <1>7, <1>8, <1>9, <1>10, OneStaged DEF Staged, lineVars

\* The step of SetTotal keeps the core.
LEMMA SetTotalCore ==
  ASSUME CoreInv, NEW c \in Exchanges, SetTotal(c)
  PROVE  CoreInv'
<1>0. Staged(c) /\ WorkTyped /\ LinesTyped /\ BooksTyped /\ made[c] \in Exchange /\ undo[c] \in Cancellation
  BY DEF CoreInv, Typed, WorkTyped
<1>a. /\ c \in Lines /\ made[c].plan.line \in Lines /\ made[c].plan.line # c
      /\ made[c].plan.line \in Exchanges => mark[made[c].plan.line] # "absent"
      /\ made[c].plan.initial \in Nat /\ made[c].plan.target \in Nat /\ made[c].plan.take \in Nat \ {0}
      /\ made[c].plan.give \in Nat \ {0} /\ made[c].plan \in Plans
  <2>1. made[c].step # "none"
    BY <1>0 DEF SetTotal, At, Staged, CreateStage, StepAt
  <2>2. made[c].plan \in Plans
    BY <2>1, PlansOf
  <2> QED
    BY <1>0, <2>1, <2>2, ExchangeAssumption DEF Staged, PlanOK, LineThere, Lines, Plans
<1>1. /\ made' \in [Exchanges -> Exchange] /\ \A d \in Exchanges \ {c} : made'[d] = made[d]
      /\ made'[c].step = made[c].step /\ made'[c].plan = made[c].plan /\ made'[c].id = made[c].id /\ made'[c].status = made[c].status /\ made'[c].oldRow = made[c].oldRow
      /\ made'[c].newRow = made[c].newRow /\ made'[c].in = made[c].in /\ made'[c].out = made[c].out /\ made'[c].money = made[c].money /\ made'[c].linked = made[c].money
  BY <1>0 DEF SetTotal, WorkTyped, Exchange, Events, Resumes
<1>2. /\ pc' \in [Exchanges -> [create : CreatePlaces, cancel : CancelPlaces]]
      /\ pc'[c].create = "moneyDone" /\ pc'[c].cancel = pc[c].cancel
      /\ \A d \in Exchanges \ {c} : pc'[d] = pc[d]
  <2>1. Goes(c, "create", "moneyDone") /\ "moneyDone" \in CreatePlaces
    BY DEF SetTotal, CreatePlaces
  <2> QED
    BY <1>0, <2>1, CreateGoes
<1>3. undo' = undo /\ spent' = spent
  BY DEF SetTotal
<1>4. UNCHANGED lineVars
  BY DEF SetTotal, lineVars
<1>5. BooksTyped'
  BY <1>0, <1>a DEF SetTotal, BooksTyped, Plans, bookVars
<1>6. Typed' /\ Only(c)
  <2>1. LinesTyped'
    BY <1>0, <1>4 DEF LinesTyped, lineVars
  <2>2. BooksTyped'
    BY <1>5
  <2>3. WorkTyped' /\ Only(c)
    BY <1>0, <1>1, <1>2, <1>3 DEF WorkTyped, Only
  <2> QED
    BY <2>1, <2>2, <2>3 DEF Typed
<1>7. CreateStage(c)' /\ CancelStage(c)'
  BY <1>0, <1>1, <1>2, <1>3, <1>a DEF SetTotal, At, StepAt, Staged, CreateStage, CancelStage, Claimed, Standing, Undoing
<1>8. ReadyStage(c)' /\ PlanOK(c)'
  BY <1>0, <1>1, <1>2, <1>3, <1>a DEF SetTotal, At, Staged, CreateStage, CancelStage, ReadyStage, PlanOK, Ready, StepAt, Undoing
<1>9. NewLineOK(c)'
  BY <1>0, <1>1, <1>2, <1>3, <1>4, <1>a DEF SetTotal, At, Staged, CreateStage, CancelStage, NewLineOK, StepAt, Midway, lineVars
<1>10. LineThere(c)' /\ (mark'[c] = "absent" => mark[c] = "absent")
  BY <1>0, <1>1, <1>3, <1>4, <1>a DEF SetTotal, At, Staged, CreateStage, LineThere, StepAt, lineVars
<1> QED
  BY <1>0, <1>4, <1>6, <1>7, <1>8, <1>9, <1>10, OneStaged DEF Staged, lineVars

\* The step of Reserve, when it is not refused, keeps the core.
LEMMA ReserveDoneCore ==
  ASSUME CoreInv, NEW c \in Exchanges, Reserve(c), ~Refused(c, "create")
  PROVE  CoreInv'
<1>0. Staged(c) /\ WorkTyped /\ LinesTyped /\ BooksTyped /\ made[c] \in Exchange /\ undo[c] \in Cancellation
  BY DEF CoreInv, Typed, WorkTyped
<1>a. /\ c \in Lines /\ made[c].plan.line \in Lines /\ made[c].plan.line # c
      /\ made[c].plan.line \in Exchanges => mark[made[c].plan.line] # "absent"
      /\ made[c].plan.initial \in Nat /\ made[c].plan.target \in Nat /\ made[c].plan.take \in Nat \ {0}
      /\ made[c].plan.give \in Nat \ {0} /\ made[c].plan \in Plans
  <2>1. made[c].step # "none"
    BY <1>0 DEF Reserve, At, Staged, CreateStage, StepAt
  <2>2. made[c].plan \in Plans
    BY <2>1, PlansOf
  <2> QED
    BY <1>0, <2>1, <2>2, ExchangeAssumption DEF Staged, PlanOK, LineThere, Lines, Plans
<1>1. made' = made
  BY DEF Reserve
<1>2. /\ pc' \in [Exchanges -> [create : CreatePlaces, cancel : CancelPlaces]]
      /\ pc'[c].create = "setQty" /\ pc'[c].cancel = pc[c].cancel
      /\ \A d \in Exchanges \ {c} : pc'[d] = pc[d]
  <2>1. Goes(c, "create", "setQty") /\ "setQty" \in CreatePlaces
    BY DEF Reserve, CreatePlaces
  <2> QED
    BY <1>0, <2>1, CreateGoes
<1>3. undo' = undo /\ spent' = spent
  BY DEF Reserve
<1>4. /\ LinesTyped' /\ qty' = qty /\ mark'[c] = mark[c] /\ resv'[c] = resv[c]
      /\ \A d \in Exchanges \ {c} : /\ mark'[d] = "absent" <=> mark[d] = "absent"
                                    /\ mark[d] = "absent" => qty'[d] = qty[d] /\ resv'[d] = resv[d]
      /\ \A d \in Exchanges : mark[d] # "absent" => mark'[d] # "absent"
  <2>1. /\ mark' \in [Lines -> Marks] /\ \A k \in Lines \ {made[c].plan.line} : mark'[k] = mark[k]
    BY <1>0, <1>a DEF Reserve, Releases, LinesTyped, Marks
  <2>2. mark[made[c].plan.line] # "absent" => mark'[made[c].plan.line] # "absent"
    BY <1>0, <1>a DEF Reserve, Releases, LinesTyped
  <2>3. /\ resv' \in [Lines -> [status : {"none", "active", "fulfilled", "released"}, qty : Nat]]
        /\ \A k \in Lines \ {made[c].plan.line} : resv'[k] = resv[k]
    BY <1>0, <1>a DEF Reserve, Releases, LinesTyped, Reduced, Plans
  <2>4. qty' = qty /\ returned' = returned
    BY DEF Reserve
  <2>5. \A d \in Exchanges : d \in Lines
    BY DEF Lines
  <2> QED
    BY <1>0, <1>a, <2>1, <2>2, <2>3, <2>4, <2>5 DEF LinesTyped
<1>5. BooksTyped'
  <2>1. stock' \in [quantity : Int, reserved : Nat]
    BY <1>0, <1>a DEF Reserve, Releases, BooksTyped, LinesTyped, Floor
  <2> QED
    BY <1>0, <2>1 DEF Reserve, BooksTyped
<1>6. Typed' /\ Only(c)
  <2>1. LinesTyped'
    BY <1>4
  <2>2. BooksTyped'
    BY <1>5
  <2>3. WorkTyped' /\ Only(c)
    BY <1>0, <1>1, <1>2, <1>3 DEF WorkTyped, Only
  <2> QED
    BY <2>1, <2>2, <2>3 DEF Typed
<1>7. CreateStage(c)' /\ CancelStage(c)'
  BY <1>0, <1>1, <1>2, <1>3, <1>a DEF Reserve, At, StepAt, Staged, CreateStage, CancelStage, Claimed, Standing, Undoing
<1>8. ReadyStage(c)' /\ PlanOK(c)'
  BY <1>0, <1>1, <1>2, <1>3, <1>a DEF Reserve, At, Staged, CreateStage, CancelStage, ReadyStage, PlanOK, Ready, StepAt, Undoing
<1>9. NewLineOK(c)'
  BY <1>0, <1>1, <1>2, <1>3, <1>4, <1>a DEF Reserve, At, Staged, CreateStage, CancelStage, NewLineOK, StepAt, Midway, lineVars
<1>10. LineThere(c)' /\ (mark'[c] = "absent" => mark[c] = "absent")
  BY <1>0, <1>1, <1>3, <1>4, <1>a DEF Reserve, At, Staged, CreateStage, LineThere, StepAt, lineVars
<1> QED
  BY <1>0, <1>4, <1>6, <1>7, <1>8, <1>9, <1>10, OneStaged DEF Staged, lineVars

\* The step of ApplyOut, when it is not refused, keeps the core.
LEMMA ApplyOutDoneCore ==
  ASSUME CoreInv, NEW c \in Exchanges, ApplyOut(c), ~Refused(c, "create")
  PROVE  CoreInv'
<1>0. Staged(c) /\ WorkTyped /\ LinesTyped /\ BooksTyped /\ made[c] \in Exchange /\ undo[c] \in Cancellation
  BY DEF CoreInv, Typed, WorkTyped
<1>a. /\ c \in Lines /\ made[c].plan.line \in Lines /\ made[c].plan.line # c
      /\ made[c].plan.line \in Exchanges => mark[made[c].plan.line] # "absent"
      /\ made[c].plan.initial \in Nat /\ made[c].plan.target \in Nat /\ made[c].plan.take \in Nat \ {0}
      /\ made[c].plan.give \in Nat \ {0} /\ made[c].plan \in Plans
  <2>1. made[c].step # "none"
    BY <1>0 DEF ApplyOut, At, Staged, CreateStage, StepAt
  <2>2. made[c].plan \in Plans
    BY <2>1, PlansOf
  <2> QED
    BY <1>0, <2>1, <2>2, ExchangeAssumption DEF Staged, PlanOK, LineThere, Lines, Plans

<1>b. \/ made' = [made EXCEPT ![c].out = "applied", ![c].movement = "inserted"] /\ Goes(c, "create", "linkOut")
      \/ made' = made /\ made[c].out = "applied" /\ Goes(c, "create", "newDone")
  BY DEF ApplyOut
<1>c. mark[c] # "absent"
  BY <1>0 DEF ApplyOut, At, Staged, NewLineOK, CreateStage, StepAt
<1>1. /\ made' \in [Exchanges -> Exchange] /\ \A d \in Exchanges \ {c} : made'[d] = made[d]
      /\ made'[c].step = made[c].step /\ made'[c].plan = made[c].plan /\ made'[c].id = made[c].id /\ made'[c].status = made[c].status /\ made'[c].oldRow = made[c].oldRow
      /\ made'[c].newRow = made[c].newRow /\ made'[c].in = made[c].in /\ made'[c].out = "applied" /\ made'[c].money = made[c].money /\ made'[c].linked = made[c].linked
  <2>1. CASE made' = made /\ made[c].out = "applied"
    BY <1>0, <2>1 DEF WorkTyped
  <2>2. CASE made' = [made EXCEPT ![c].out = "applied", ![c].movement = "inserted"]
    BY <1>0, <2>2 DEF WorkTyped, Exchange, Events
  <2> QED
    BY <1>b, <2>1, <2>2
<1>2. /\ pc' \in [Exchanges -> [create : CreatePlaces, cancel : CancelPlaces]]
      /\ pc'[c].create \in {"linkOut", "newDone"} /\ pc'[c].cancel = pc[c].cancel
      /\ \A d \in Exchanges \ {c} : pc'[d] = pc[d]
  <2>1. "newDone" \in CreatePlaces /\ "linkOut" \in CreatePlaces
    BY DEF CreatePlaces
  <2> QED
    BY <1>0, <1>b, <2>1, CreateGoes
<1>3. undo' = undo /\ spent' = spent
  BY DEF ApplyOut
<1>4. /\ LinesTyped' /\ qty' = qty /\ mark'[c] # "absent"
      /\ \A d \in Exchanges \ {c} : /\ mark'[d] = "absent" <=> mark[d] = "absent"
                                    /\ mark[d] = "absent" => qty'[d] = qty[d] /\ resv'[d] = resv[d]
      /\ \A d \in Exchanges : mark[d] # "absent" => mark'[d] # "absent"
  <2>1. /\ mark' \in [Lines -> Marks] /\ mark'[c] # "absent" /\ \A k \in Lines \ {c} : mark'[k] = mark[k]
    BY <1>0, <1>a, <1>c DEF ApplyOut, LinesTyped, Marks, lineVars
  <2>3. /\ resv' \in [Lines -> [status : {"none", "active", "fulfilled", "released"}, qty : Nat]]
        /\ \A k \in Lines \ {c} : resv'[k] = resv[k]
    <3>1. resv' = [resv EXCEPT ![c].status = "fulfilled"] \/ resv' = resv
      BY DEF ApplyOut, lineVars
    <3> QED
      BY <1>0, <1>a, <3>1 DEF LinesTyped
  <2>4. qty' = qty /\ returned' = returned
    BY DEF ApplyOut, lineVars
  <2>5. \A d \in Exchanges : d \in Lines
    BY DEF Lines
  <2> QED
    BY <1>0, <1>a, <2>1, <2>3, <2>4, <2>5 DEF LinesTyped
<1>5. BooksTyped'
  <2>1. stock' \in [quantity : Int, reserved : Nat]
    BY <1>0, <1>a DEF ApplyOut, BooksTyped, bookVars, Floor
  <2> QED
    BY <1>0, <2>1 DEF ApplyOut, BooksTyped, bookVars
<1>6. Typed' /\ Only(c)
  <2>1. LinesTyped'
    BY <1>4
  <2>2. BooksTyped'
    BY <1>5
  <2>3. WorkTyped' /\ Only(c)
    BY <1>0, <1>1, <1>2, <1>3 DEF WorkTyped, Only
  <2> QED
    BY <2>1, <2>2, <2>3 DEF Typed
<1>7. CreateStage(c)' /\ CancelStage(c)'
  BY <1>0, <1>1, <1>2, <1>3, <1>a, <1>c DEF ApplyOut, At, StepAt, Staged, CreateStage, CancelStage, Claimed, Standing, Undoing
<1>8. ReadyStage(c)' /\ PlanOK(c)'
  BY <1>0, <1>1, <1>2, <1>3, <1>a, <1>c DEF ApplyOut, At, Staged, CreateStage, CancelStage, ReadyStage, PlanOK, Ready, StepAt, Undoing
<1>9. NewLineOK(c)'
  BY <1>0, <1>1, <1>2, <1>3, <1>4, <1>a, <1>c DEF ApplyOut, At, Staged, CreateStage, CancelStage, NewLineOK, StepAt, Midway, lineVars
<1>10. LineThere(c)' /\ (mark'[c] = "absent" => mark[c] = "absent")
  BY <1>0, <1>1, <1>3, <1>4, <1>a, <1>c DEF ApplyOut, At, Staged, CreateStage, LineThere, StepAt, lineVars
<1> QED
  BY <1>0, <1>4, <1>6, <1>7, <1>8, <1>9, <1>10, OneStaged DEF Staged, lineVars

\* The step of Reserve keeps the core.
LEMMA ReserveCore == ASSUME CoreInv, NEW c \in Exchanges, Reserve(c) PROVE CoreInv'
<1>1. CASE Refused(c, "create")
  BY <1>1, RefusedCore
<1> QED
  BY <1>1, ReserveDoneCore

\* The step of ApplyOut keeps the core.
LEMMA ApplyOutCore == ASSUME CoreInv, NEW c \in Exchanges, ApplyOut(c) PROVE CoreInv'
<1>1. CASE Refused(c, "create")
  BY <1>1, RefusedCore
<1> QED
  BY <1>1, ApplyOutDoneCore

\* The step of LinkOut, when it is not refused, keeps the core.
LEMMA LinkOutDoneCore ==
  ASSUME CoreInv, NEW c \in Exchanges, LinkOut(c), made[c].out = "applied"
  PROVE  CoreInv'
<1>0. Staged(c) /\ WorkTyped /\ LinesTyped /\ BooksTyped /\ made[c] \in Exchange /\ undo[c] \in Cancellation
  BY DEF CoreInv, Typed, WorkTyped
<1>1. /\ made' \in [Exchanges -> Exchange] /\ \A d \in Exchanges \ {c} : made'[d] = made[d]
      /\ made'[c].step = made[c].step /\ made'[c].plan = made[c].plan /\ made'[c].id = made[c].id /\ made'[c].status = made[c].status /\ made'[c].oldRow = made[c].oldRow
      /\ made'[c].newRow = made[c].newRow /\ made'[c].in = made[c].in /\ made'[c].out = made[c].out /\ made'[c].money = made[c].money /\ made'[c].linked = made[c].linked
  <2>1. made' = [made EXCEPT ![c].movement = "linked"]
    BY DEF LinkOut
  <2> QED
    BY <1>0, <2>1 DEF WorkTyped, Exchange
<1>2. /\ pc' \in [Exchanges -> [create : CreatePlaces, cancel : CancelPlaces]]
      /\ pc'[c].create = "newDone" /\ pc'[c].cancel = pc[c].cancel
      /\ \A d \in Exchanges \ {c} : pc'[d] = pc[d]
  <2>1. Goes(c, "create", "newDone") /\ "newDone" \in CreatePlaces
    BY DEF LinkOut, CreatePlaces
  <2> QED
    BY <1>0, <2>1, CreateGoes
<1>3. undo' = undo /\ spent' = spent
  BY DEF LinkOut
<1>4. UNCHANGED lineVars
  BY DEF LinkOut, lineVars
<1>5. UNCHANGED bookVars
  BY DEF LinkOut, bookVars
<1>6. Typed' /\ Only(c)
  BY <1>0, <1>1, <1>2, <1>3, <1>4, <1>5 DEF Typed, LinesTyped, BooksTyped, WorkTyped, lineVars, bookVars, Only
<1>7. CreateStage(c)' /\ CancelStage(c)'
  BY <1>0, <1>1, <1>2, <1>3 DEF LinkOut, At, StepAt, Staged, CreateStage, CancelStage, Claimed, Standing, Undoing
<1>8. ReadyStage(c)' /\ PlanOK(c)'
  BY <1>0, <1>1, <1>2, <1>3 DEF LinkOut, At, Staged, CreateStage, CancelStage, ReadyStage, PlanOK, Ready, StepAt
<1>9. NewLineOK(c)'
  BY <1>0, <1>1, <1>2, <1>3, <1>4 DEF LinkOut, At, Staged, CreateStage, NewLineOK, StepAt, Midway, lineVars
<1>10. LineThere(c)' /\ (mark'[c] = "absent" => mark[c] = "absent")
  BY <1>0, <1>1, <1>3, <1>4 DEF LinkOut, At, Staged, CreateStage, LineThere, StepAt, lineVars
<1> QED
  BY <1>0, <1>4, <1>6, <1>7, <1>8, <1>9, <1>10, OneStaged DEF Staged, lineVars

\* The step of LinkOut keeps the core.
LEMMA LinkOutCore == ASSUME CoreInv, NEW c \in Exchanges, LinkOut(c) PROVE CoreInv'
<1>1. CASE made[c].out # "applied"
  BY <1>1, RefusedCore DEF LinkOut
<1> QED
  BY <1>1, LinkOutDoneCore

\* The step of ApplyIn keeps the core.
LEMMA ApplyInCore == ASSUME CoreInv, NEW c \in Exchanges, ApplyIn(c) PROVE CoreInv'
<1>1. CASE made[c].in = "cancelled"
  BY <1>1, RefusedCore DEF ApplyIn
<1> QED
  BY <1>1, ApplyInDoneCore

\* The step of Freeze, when it is not refused, keeps the core.
LEMMA FreezeDoneCore ==
  ASSUME CoreInv, NEW c \in Exchanges, Freeze(c), ~Refused(c, "cancel")
  PROVE  CoreInv'
<1>0. Staged(c) /\ WorkTyped /\ LinesTyped /\ BooksTyped /\ made[c] \in Exchange /\ undo[c] \in Cancellation
  BY DEF CoreInv, Typed, WorkTyped
<1>a. /\ c \in Lines /\ made[c].plan.line \in Lines /\ made[c].plan.line # c
      /\ made[c].plan.line \in Exchanges => mark[made[c].plan.line] # "absent"
      /\ made[c].plan.initial \in Nat /\ made[c].plan.target \in Nat /\ made[c].plan.take \in Nat \ {0}
      /\ made[c].plan.give \in Nat \ {0} /\ made[c].plan \in Plans
  <2>1. made[c].step # "none"
    BY <1>0 DEF Freeze, At, Staged, CancelStage, CreateStage, Undoing, Standing
  <2>2. made[c].plan \in Plans
    BY <2>1, PlansOf
  <2> QED
    BY <1>0, <2>1, <2>2, ExchangeAssumption DEF Staged, PlanOK, LineThere, Lines, Plans

<1>b. /\ undo' = [undo EXCEPT ![c] = [step |-> "validated", baseline |-> qty[made[c].plan.line],
                                    target |-> qty[made[c].plan.line] + made[c].plan.take,
                                    projected |-> total - qty[c] + made[c].plan.take]]
      /\ qty[made[c].plan.line] \in Nat /\ total - qty[c] + made[c].plan.take \in Int
  BY <1>0, <1>a DEF Freeze, LinesTyped, BooksTyped
<1>1. made' = made
  BY <1>0, <1>a, <1>b DEF Freeze
<1>2. /\ pc' \in [Exchanges -> [create : CreatePlaces, cancel : CancelPlaces]]
      /\ pc'[c].cancel = "in" /\ pc'[c].create = pc[c].create
      /\ \A d \in Exchanges \ {c} : pc'[d] = pc[d]
  <2>1. Goes(c, "cancel", "in") /\ "in" \in CancelPlaces
    BY DEF Freeze, CancelPlaces
  <2> QED
    BY <1>0, <2>1, CancelGoes
<1>3. undo' \in [Exchanges -> Cancellation] /\ (\A d \in Exchanges \ {c} : undo'[d] = undo[d]) /\ spent' = spent
      /\ undo'[c].step = "validated" /\ undo'[c].target = undo'[c].baseline + made[c].plan.take
  BY <1>0, <1>a, <1>b DEF Freeze, WorkTyped, Cancellation
<1>4. UNCHANGED lineVars
  BY <1>0, <1>a, <1>b DEF Freeze, lineVars
<1>5. UNCHANGED bookVars
  BY <1>0, <1>a, <1>b DEF Freeze, bookVars
<1>6. Typed' /\ Only(c)
  <2>1. LinesTyped'
    BY <1>0, <1>4 DEF LinesTyped, lineVars
  <2>2. BooksTyped'
    BY <1>0, <1>5 DEF BooksTyped, bookVars
  <2>3. WorkTyped' /\ Only(c)
    BY <1>0, <1>1, <1>2, <1>3 DEF WorkTyped, Only
  <2> QED
    BY <2>1, <2>2, <2>3 DEF Typed
<1>7. CreateStage(c)' /\ CancelStage(c)'
  BY <1>0, <1>1, <1>2, <1>3, <1>a DEF Freeze, At, StepAt, Staged, CreateStage, CancelStage, Claimed, Standing, Undoing
<1>8. ReadyStage(c)' /\ PlanOK(c)'
  BY <1>0, <1>1, <1>2, <1>3, <1>a DEF Freeze, At, Staged, CreateStage, CancelStage, ReadyStage, PlanOK, Ready, StepAt, Undoing
<1>9. NewLineOK(c)'
  BY <1>0, <1>1, <1>2, <1>3, <1>4, <1>a DEF Freeze, At, Staged, CreateStage, CancelStage, NewLineOK, StepAt, Midway, lineVars
<1>10. LineThere(c)' /\ (mark'[c] = "absent" => mark[c] = "absent")
  BY <1>0, <1>1, <1>3, <1>4, <1>a DEF Freeze, At, Staged, CreateStage, LineThere, StepAt, lineVars
<1> QED
  BY <1>0, <1>4, <1>6, <1>7, <1>8, <1>9, <1>10, OneStaged DEF Staged, lineVars

\* The step of CancelIn keeps the core.
LEMMA CancelInCore ==
  ASSUME CoreInv, NEW c \in Exchanges, CancelIn(c)
  PROVE  CoreInv'
<1>0. Staged(c) /\ WorkTyped /\ LinesTyped /\ BooksTyped /\ made[c] \in Exchange /\ undo[c] \in Cancellation
  BY DEF CoreInv, Typed, WorkTyped
<1>a. /\ c \in Lines /\ made[c].plan.line \in Lines /\ made[c].plan.line # c
      /\ made[c].plan.line \in Exchanges => mark[made[c].plan.line] # "absent"
      /\ made[c].plan.initial \in Nat /\ made[c].plan.target \in Nat /\ made[c].plan.take \in Nat \ {0}
      /\ made[c].plan.give \in Nat \ {0} /\ made[c].plan \in Plans
  <2>1. made[c].step # "none"
    BY <1>0 DEF CancelIn, At, Staged, CancelStage, CreateStage, Undoing, Standing
  <2>2. made[c].plan \in Plans
    BY <2>1, PlansOf
  <2> QED
    BY <1>0, <2>1, <2>2, ExchangeAssumption DEF Staged, PlanOK, LineThere, Lines, Plans
<1>1. /\ made' \in [Exchanges -> Exchange] /\ \A d \in Exchanges \ {c} : made'[d] = made[d]
      /\ made'[c].step = made[c].step /\ made'[c].plan = made[c].plan /\ made'[c].id = made[c].id /\ made'[c].status = made[c].status /\ made'[c].oldRow = made[c].oldRow
      /\ made'[c].newRow = made[c].newRow /\ made'[c].in = (IF made[c].in = "none" THEN "none" ELSE "cancelled") /\ made'[c].out = made[c].out /\ made'[c].money = made[c].money /\ made'[c].linked = made[c].linked
  BY <1>0 DEF CancelIn, WorkTyped, Exchange, Events, Resumes
<1>2. /\ pc' \in [Exchanges -> [create : CreatePlaces, cancel : CancelPlaces]]
      /\ pc'[c].cancel = "out" /\ pc'[c].create = pc[c].create
      /\ \A d \in Exchanges \ {c} : pc'[d] = pc[d]
  <2>1. Goes(c, "cancel", "out") /\ "out" \in CancelPlaces
    BY DEF CancelIn, CancelPlaces
  <2> QED
    BY <1>0, <2>1, CancelGoes
<1>3. undo' = undo /\ spent' = spent
  BY DEF CancelIn
<1>4. UNCHANGED lineVars
  BY DEF CancelIn, lineVars
<1>5. BooksTyped'
  BY <1>0, <1>a DEF CancelIn, BooksTyped
<1>6. Typed' /\ Only(c)
  <2>1. LinesTyped'
    BY <1>0, <1>4 DEF LinesTyped, lineVars
  <2>2. BooksTyped'
    BY <1>5
  <2>3. WorkTyped' /\ Only(c)
    BY <1>0, <1>1, <1>2, <1>3 DEF WorkTyped, Only
  <2> QED
    BY <2>1, <2>2, <2>3 DEF Typed
<1>7. CreateStage(c)' /\ CancelStage(c)'
  BY <1>0, <1>1, <1>2, <1>3, <1>a DEF CancelIn, At, StepAt, Staged, CreateStage, CancelStage, Claimed, Standing, Undoing
<1>8. ReadyStage(c)' /\ PlanOK(c)'
  BY <1>0, <1>1, <1>2, <1>3, <1>a DEF CancelIn, At, Staged, CreateStage, CancelStage, ReadyStage, PlanOK, Ready, StepAt, Undoing
<1>9. NewLineOK(c)'
  BY <1>0, <1>1, <1>2, <1>3, <1>4, <1>a DEF CancelIn, At, Staged, CreateStage, CancelStage, NewLineOK, StepAt, Midway, lineVars
<1>10. LineThere(c)' /\ (mark'[c] = "absent" => mark[c] = "absent")
  BY <1>0, <1>1, <1>3, <1>4, <1>a DEF CancelIn, At, Staged, CreateStage, LineThere, StepAt, lineVars
<1> QED
  BY <1>0, <1>4, <1>6, <1>7, <1>8, <1>9, <1>10, OneStaged DEF Staged, lineVars

\* The step of CancelOut keeps the core.
LEMMA CancelOutCore ==
  ASSUME CoreInv, NEW c \in Exchanges, CancelOut(c)
  PROVE  CoreInv'
<1>0. Staged(c) /\ WorkTyped /\ LinesTyped /\ BooksTyped /\ made[c] \in Exchange /\ undo[c] \in Cancellation
  BY DEF CoreInv, Typed, WorkTyped
<1>a. /\ c \in Lines /\ made[c].plan.line \in Lines /\ made[c].plan.line # c
      /\ made[c].plan.line \in Exchanges => mark[made[c].plan.line] # "absent"
      /\ made[c].plan.initial \in Nat /\ made[c].plan.target \in Nat /\ made[c].plan.take \in Nat \ {0}
      /\ made[c].plan.give \in Nat \ {0} /\ made[c].plan \in Plans
  <2>1. made[c].step # "none"
    BY <1>0 DEF CancelOut, At, Staged, CancelStage, CreateStage, Undoing, Standing
  <2>2. made[c].plan \in Plans
    BY <2>1, PlansOf
  <2> QED
    BY <1>0, <2>1, <2>2, ExchangeAssumption DEF Staged, PlanOK, LineThere, Lines, Plans
<1>1. /\ made' \in [Exchanges -> Exchange] /\ \A d \in Exchanges \ {c} : made'[d] = made[d]
      /\ made'[c].step = made[c].step /\ made'[c].plan = made[c].plan /\ made'[c].id = made[c].id /\ made'[c].status = made[c].status /\ made'[c].oldRow = made[c].oldRow
      /\ made'[c].newRow = made[c].newRow /\ made'[c].in = made[c].in /\ made'[c].out = (IF made[c].out = "none" THEN "none" ELSE "cancelled") /\ made'[c].money = made[c].money /\ made'[c].linked = made[c].linked
  BY <1>0 DEF CancelOut, WorkTyped, Exchange, Events, Resumes
<1>2. /\ pc' \in [Exchanges -> [create : CreatePlaces, cancel : CancelPlaces]]
      /\ pc'[c].cancel = "release" /\ pc'[c].create = pc[c].create
      /\ \A d \in Exchanges \ {c} : pc'[d] = pc[d]
  <2>1. Goes(c, "cancel", "release") /\ "release" \in CancelPlaces
    BY DEF CancelOut, CancelPlaces
  <2> QED
    BY <1>0, <2>1, CancelGoes
<1>3. undo' = undo /\ spent' = spent
  BY DEF CancelOut
<1>4. /\ LinesTyped' /\ qty' = qty /\ (mark[c] = "absent" <=> mark'[c] = "absent") /\ (mark[c] = "absent" => resv'[c] = resv[c])
      /\ \A d \in Exchanges \ {c} : /\ mark'[d] = "absent" <=> mark[d] = "absent"
                                    /\ mark[d] = "absent" => qty'[d] = qty[d] /\ resv'[d] = resv[d]
      /\ \A d \in Exchanges : mark[d] # "absent" => mark'[d] # "absent"
  <2>1. mark' = mark /\ qty' = qty /\ returned' = returned
    BY DEF CancelOut
  <2>3. /\ resv' \in [Lines -> [status : {"none", "active", "fulfilled", "released"}, qty : Nat]]
        /\ (\A k \in Lines \ {c} : resv'[k] = resv[k]) /\ (resv[c] = Nothing => resv'[c] = resv[c])
    <3>1. \/ resv' = [resv EXCEPT ![c].status = "released"] /\ resv[c].status \in {"fulfilled", "active"}
          \/ resv' = resv
      BY DEF CancelOut
    <3> QED
      BY <1>0, <1>a, <3>1 DEF LinesTyped, Nothing
  <2>5. \A d \in Exchanges : d \in Lines
    BY DEF Lines
  <2> QED
    BY <1>0, <1>a, <2>1, <2>3, <2>5 DEF LinesTyped, Staged, NewLineOK
<1>5. BooksTyped'
  <2>1. resv[c].qty \in Nat
    BY <1>0, <1>a DEF LinesTyped
  <2> QED
    BY <1>0, <1>a, <2>1 DEF CancelOut, BooksTyped, Floor
<1>6. Typed' /\ Only(c)
  <2>1. LinesTyped'
    BY <1>4
  <2>2. BooksTyped'
    BY <1>5
  <2>3. WorkTyped' /\ Only(c)
    BY <1>0, <1>1, <1>2, <1>3 DEF WorkTyped, Only
  <2> QED
    BY <2>1, <2>2, <2>3 DEF Typed
<1>7. CreateStage(c)' /\ CancelStage(c)'
  BY <1>0, <1>1, <1>2, <1>3, <1>a DEF CancelOut, At, StepAt, Staged, CreateStage, CancelStage, Claimed, Standing, Undoing
<1>8. ReadyStage(c)' /\ PlanOK(c)'
  BY <1>0, <1>1, <1>2, <1>3, <1>a DEF CancelOut, At, Staged, CreateStage, CancelStage, ReadyStage, PlanOK, Ready, StepAt, Undoing
<1>9. NewLineOK(c)'
  BY <1>0, <1>1, <1>2, <1>3, <1>4, <1>a DEF CancelOut, At, Staged, CreateStage, CancelStage, NewLineOK, StepAt, Midway, lineVars
<1>10. LineThere(c)' /\ (mark'[c] = "absent" => mark[c] = "absent")
  BY <1>0, <1>1, <1>3, <1>4, <1>a DEF CancelOut, At, Staged, CreateStage, LineThere, StepAt, lineVars
<1> QED
  BY <1>0, <1>4, <1>6, <1>7, <1>8, <1>9, <1>10, OneStaged DEF Staged, lineVars

\* The step of ReleaseNew keeps the core.
LEMMA ReleaseNewCore ==
  ASSUME CoreInv, NEW c \in Exchanges, ReleaseNew(c)
  PROVE  CoreInv'
<1>0. Staged(c) /\ WorkTyped /\ LinesTyped /\ BooksTyped /\ made[c] \in Exchange /\ undo[c] \in Cancellation
  BY DEF CoreInv, Typed, WorkTyped
<1>a. /\ c \in Lines /\ made[c].plan.line \in Lines /\ made[c].plan.line # c
      /\ made[c].plan.line \in Exchanges => mark[made[c].plan.line] # "absent"
      /\ made[c].plan.initial \in Nat /\ made[c].plan.target \in Nat /\ made[c].plan.take \in Nat \ {0}
      /\ made[c].plan.give \in Nat \ {0} /\ made[c].plan \in Plans
  <2>1. made[c].step # "none"
    BY <1>0 DEF ReleaseNew, At, Staged, CancelStage, CreateStage, Undoing, Standing
  <2>2. made[c].plan \in Plans
    BY <2>1, PlansOf
  <2> QED
    BY <1>0, <2>1, <2>2, ExchangeAssumption DEF Staged, PlanOK, LineThere, Lines, Plans
<1>1. made' = made
  BY DEF ReleaseNew
<1>2. /\ pc' \in [Exchanges -> [create : CreatePlaces, cancel : CancelPlaces]]
      /\ pc'[c].cancel = "empty" /\ pc'[c].create = pc[c].create
      /\ \A d \in Exchanges \ {c} : pc'[d] = pc[d]
  <2>1. Goes(c, "cancel", "empty") /\ "empty" \in CancelPlaces
    BY DEF ReleaseNew, CancelPlaces
  <2> QED
    BY <1>0, <2>1, CancelGoes
<1>3. undo' = undo /\ spent' = spent
  BY DEF ReleaseNew
<1>4. /\ LinesTyped' /\ qty' = qty /\ (mark[c] = "absent" <=> mark'[c] = "absent") /\ (mark[c] = "absent" => resv'[c] = resv[c])
      /\ \A d \in Exchanges \ {c} : /\ mark'[d] = "absent" <=> mark[d] = "absent"
                                    /\ mark[d] = "absent" => qty'[d] = qty[d] /\ resv'[d] = resv[d]
      /\ \A d \in Exchanges : mark[d] # "absent" => mark'[d] # "absent"
  <2>1. \/ UNCHANGED <<mark, resv>>
        \/ /\ resv[c].status = "active" /\ resv' = [resv EXCEPT ![c].status = "released"]
           /\ mark' = [mark EXCEPT ![c] = "reservation_released"]
    BY DEF ReleaseNew, Releases
  <2>2. qty' = qty /\ returned' = returned
    BY DEF ReleaseNew
  <2>3. resv[c].status = "active" => mark[c] # "absent"
    BY <1>0 DEF Staged, NewLineOK, Nothing
  <2>4. /\ resv' \in [Lines -> [status : {"none", "active", "fulfilled", "released"}, qty : Nat]] /\ mark' \in [Lines -> Marks]
        /\ \A k \in Lines \ {c} : resv'[k] = resv[k] /\ mark'[k] = mark[k]
        /\ (mark[c] = "absent" <=> mark'[c] = "absent") /\ (mark[c] = "absent" => resv'[c] = resv[c])
    BY <1>0, <1>a, <2>1, <2>3 DEF LinesTyped, Marks
  <2>5. \A d \in Exchanges : d \in Lines
    BY DEF Lines
  <2> QED
    BY <1>0, <1>a, <2>2, <2>4, <2>5 DEF LinesTyped
<1>5. BooksTyped'
  <2>1. resv[c].qty \in Nat
    BY <1>0, <1>a DEF LinesTyped
  <2> QED
    BY <1>0, <1>a, <2>1 DEF ReleaseNew, Releases, BooksTyped, Floor
<1>6. Typed' /\ Only(c)
  <2>1. LinesTyped'
    BY <1>4
  <2>2. BooksTyped'
    BY <1>5
  <2>3. WorkTyped' /\ Only(c)
    BY <1>0, <1>1, <1>2, <1>3 DEF WorkTyped, Only
  <2> QED
    BY <2>1, <2>2, <2>3 DEF Typed
<1>7. CreateStage(c)' /\ CancelStage(c)'
  BY <1>0, <1>1, <1>2, <1>3, <1>a DEF ReleaseNew, At, StepAt, Staged, CreateStage, CancelStage, Claimed, Standing, Undoing
<1>8. ReadyStage(c)' /\ PlanOK(c)'
  BY <1>0, <1>1, <1>2, <1>3, <1>a DEF ReleaseNew, At, Staged, CreateStage, CancelStage, ReadyStage, PlanOK, Ready, StepAt, Undoing
<1>9. NewLineOK(c)'
  BY <1>0, <1>1, <1>2, <1>3, <1>4, <1>a DEF ReleaseNew, At, Staged, CreateStage, CancelStage, NewLineOK, StepAt, Midway, lineVars
<1>10. LineThere(c)' /\ (mark'[c] = "absent" => mark[c] = "absent")
  BY <1>0, <1>1, <1>3, <1>4, <1>a DEF ReleaseNew, At, Staged, CreateStage, LineThere, StepAt, lineVars
<1> QED
  BY <1>0, <1>4, <1>6, <1>7, <1>8, <1>9, <1>10, OneStaged DEF Staged, lineVars

\* The step of EmptyNew keeps the core.
LEMMA EmptyNewCore ==
  ASSUME CoreInv, NEW c \in Exchanges, EmptyNew(c)
  PROVE  CoreInv'
<1>0. Staged(c) /\ WorkTyped /\ LinesTyped /\ BooksTyped /\ made[c] \in Exchange /\ undo[c] \in Cancellation
  BY DEF CoreInv, Typed, WorkTyped
<1>a. /\ c \in Lines /\ made[c].plan.line \in Lines /\ made[c].plan.line # c
      /\ made[c].plan.line \in Exchanges => mark[made[c].plan.line] # "absent"
      /\ made[c].plan.initial \in Nat /\ made[c].plan.target \in Nat /\ made[c].plan.take \in Nat \ {0}
      /\ made[c].plan.give \in Nat \ {0} /\ made[c].plan \in Plans
  <2>1. made[c].step # "none"
    BY <1>0 DEF EmptyNew, At, Staged, CancelStage, CreateStage, Undoing, Standing
  <2>2. made[c].plan \in Plans
    BY <2>1, PlansOf
  <2> QED
    BY <1>0, <2>1, <2>2, ExchangeAssumption DEF Staged, PlanOK, LineThere, Lines, Plans

<1>b. made[c].step \in Midway \cup {"completed"}
  BY <1>0 DEF EmptyNew, At, Staged, CancelStage, CreateStage, Undoing, Standing, Exchange, Resumes, Midway
<1>1. made' = made
  BY DEF EmptyNew
<1>2. /\ pc' \in [Exchanges -> [create : CreatePlaces, cancel : CancelPlaces]]
      /\ pc'[c].cancel = "oldQty" /\ pc'[c].create = pc[c].create
      /\ \A d \in Exchanges \ {c} : pc'[d] = pc[d]
  <2>1. Goes(c, "cancel", "oldQty") /\ "oldQty" \in CancelPlaces
    BY DEF EmptyNew, CancelPlaces
  <2> QED
    BY <1>0, <2>1, CancelGoes
<1>3. undo' = undo /\ spent' = spent
  BY DEF EmptyNew
<1>4. /\ LinesTyped' /\ resv' = resv /\ qty'[c] = 0 /\ mark'[c] # "absent"
      /\ \A d \in Exchanges \ {c} : /\ mark'[d] = "absent" <=> mark[d] = "absent"
                                    /\ mark[d] = "absent" => qty'[d] = qty[d] /\ resv'[d] = resv[d]
      /\ \A d \in Exchanges : mark[d] # "absent" => mark'[d] # "absent"
  <2>1. /\ qty' \in [Lines -> Nat] /\ mark' \in [Lines -> Marks] /\ resv' = resv /\ returned' = returned
        /\ qty'[c] = 0 /\ mark'[c] = "cancelled"
        /\ \A k \in Lines \ {c} : qty'[k] = qty[k] /\ mark'[k] = mark[k]
    BY <1>0, <1>a DEF EmptyNew, LinesTyped, Marks
  <2>5. \A d \in Exchanges : d \in Lines
    BY DEF Lines
  <2> QED
    BY <1>0, <1>a, <2>1, <2>5 DEF LinesTyped
<1>5. UNCHANGED bookVars
  BY DEF EmptyNew, bookVars
<1>6. Typed' /\ Only(c)
  <2>1. LinesTyped'
    BY <1>4
  <2>2. BooksTyped'
    BY <1>0, <1>5 DEF BooksTyped, bookVars
  <2>3. WorkTyped' /\ Only(c)
    BY <1>0, <1>1, <1>2, <1>3 DEF WorkTyped, Only
  <2> QED
    BY <2>1, <2>2, <2>3 DEF Typed
<1>7. CreateStage(c)' /\ CancelStage(c)'
  BY <1>0, <1>1, <1>2, <1>3, <1>a, <1>b DEF EmptyNew, At, StepAt, Staged, CreateStage, CancelStage, Claimed, Standing, Undoing
<1>8. ReadyStage(c)' /\ PlanOK(c)'
  BY <1>0, <1>1, <1>2, <1>3, <1>a, <1>b DEF EmptyNew, At, Staged, CreateStage, CancelStage, ReadyStage, PlanOK, Ready, StepAt, Undoing
<1>9. NewLineOK(c)'
  BY <1>1, <1>4, <1>b DEF NewLineOK
<1>10. LineThere(c)' /\ (mark'[c] = "absent" => mark[c] = "absent")
  BY <1>0, <1>1, <1>3, <1>4, <1>a, <1>b DEF EmptyNew, At, Staged, CreateStage, LineThere, StepAt, lineVars
<1> QED
  BY <1>0, <1>4, <1>6, <1>7, <1>8, <1>9, <1>10, OneStaged DEF Staged, lineVars

\* The step of RestoreQty, when it is not refused, keeps the core.
LEMMA RestoreQtyDoneCore ==
  ASSUME CoreInv, NEW c \in Exchanges, RestoreQty(c), ~Refused(c, "cancel")
  PROVE  CoreInv'
<1>0. Staged(c) /\ WorkTyped /\ LinesTyped /\ BooksTyped /\ made[c] \in Exchange /\ undo[c] \in Cancellation
  BY DEF CoreInv, Typed, WorkTyped
<1>a. /\ c \in Lines /\ made[c].plan.line \in Lines /\ made[c].plan.line # c
      /\ made[c].plan.line \in Exchanges => mark[made[c].plan.line] # "absent"
      /\ made[c].plan.initial \in Nat /\ made[c].plan.target \in Nat /\ made[c].plan.take \in Nat \ {0}
      /\ made[c].plan.give \in Nat \ {0} /\ made[c].plan \in Plans
  <2>1. made[c].step # "none"
    BY <1>0 DEF RestoreQty, At, Staged, CancelStage, CreateStage, Undoing, Standing
  <2>2. made[c].plan \in Plans
    BY <2>1, PlansOf
  <2> QED
    BY <1>0, <2>1, <2>2, ExchangeAssumption DEF Staged, PlanOK, LineThere, Lines, Plans

<1>b. /\ made[c].plan.marked \in Marks /\ undo[c].target \in Nat
      /\ made[c].plan.line \in Exchanges => made[c].plan.marked # "absent"
  BY <1>0, <1>a DEF Staged, PlanOK, CreateStage, Plans, Cancellation, NoPlan, RestoreQty, At, CancelStage, Undoing, Standing
<1>1. made' = made
  BY DEF RestoreQty
<1>2. /\ pc' \in [Exchanges -> [create : CreatePlaces, cancel : CancelPlaces]]
      /\ pc'[c].cancel = "oldResv" /\ pc'[c].create = pc[c].create
      /\ \A d \in Exchanges \ {c} : pc'[d] = pc[d]
  <2>1. Goes(c, "cancel", "oldResv") /\ "oldResv" \in CancelPlaces
    BY DEF RestoreQty, CancelPlaces
  <2> QED
    BY <1>0, <2>1, CancelGoes
<1>3. undo' = undo /\ spent' = spent
  BY DEF RestoreQty
<1>4. /\ LinesTyped' /\ resv' = resv /\ qty'[c] = qty[c] /\ mark'[c] = mark[c]
      /\ \A d \in Exchanges \ {c} : /\ mark'[d] = "absent" <=> mark[d] = "absent"
                                    /\ mark[d] = "absent" => qty'[d] = qty[d] /\ resv'[d] = resv[d]
      /\ \A d \in Exchanges : mark[d] # "absent" => mark'[d] # "absent"
  <2>1. /\ qty' \in [Lines -> Nat] /\ \A k \in Lines \ {made[c].plan.line} : qty'[k] = qty[k]
    BY <1>0, <1>a, <1>b DEF RestoreQty, Restores, LinesTyped
  <2>2. /\ mark' \in [Lines -> Marks] /\ \A k \in Lines \ {made[c].plan.line} : mark'[k] = mark[k]
    BY <1>0, <1>a, <1>b DEF RestoreQty, LinesTyped
  <2>3. resv' = resv /\ returned' = returned
    BY DEF RestoreQty
  <2>4. made[c].plan.line \in Exchanges /\ mark[made[c].plan.line] # "absent" => mark'[made[c].plan.line] # "absent"
    BY <1>0, <1>a, <1>b DEF RestoreQty, LinesTyped
  <2>5. \A d \in Exchanges : d \in Lines
    BY DEF Lines
  <2> QED
    BY <1>0, <1>a, <2>1, <2>2, <2>3, <2>4, <2>5 DEF LinesTyped
<1>5. UNCHANGED bookVars
  BY DEF RestoreQty, bookVars
<1>6. Typed' /\ Only(c)
  <2>1. LinesTyped'
    BY <1>4
  <2>2. BooksTyped'
    BY <1>0, <1>5 DEF BooksTyped, bookVars
  <2>3. WorkTyped' /\ Only(c)
    BY <1>0, <1>1, <1>2, <1>3 DEF WorkTyped, Only
  <2> QED
    BY <2>1, <2>2, <2>3 DEF Typed
<1>7. CreateStage(c)' /\ CancelStage(c)'
  BY <1>0, <1>1, <1>2, <1>3, <1>a DEF RestoreQty, At, StepAt, Staged, CreateStage, CancelStage, Claimed, Standing, Undoing
<1>8. ReadyStage(c)' /\ PlanOK(c)'
  BY <1>0, <1>1, <1>2, <1>3, <1>a DEF RestoreQty, At, Staged, CreateStage, CancelStage, ReadyStage, PlanOK, Ready, StepAt, Undoing
<1>9. NewLineOK(c)'
  BY <1>0, <1>1, <1>2, <1>3, <1>4, <1>a DEF RestoreQty, At, Staged, CreateStage, CancelStage, NewLineOK, StepAt, Midway, lineVars
<1>10. LineThere(c)' /\ (mark'[c] = "absent" => mark[c] = "absent")
  BY <1>0, <1>1, <1>3, <1>4, <1>a DEF RestoreQty, At, Staged, CreateStage, LineThere, StepAt, lineVars
<1> QED
  BY <1>0, <1>4, <1>6, <1>7, <1>8, <1>9, <1>10, OneStaged DEF Staged, lineVars

\* The step of RestoreResv, when it is not refused, keeps the core.
LEMMA RestoreResvDoneCore ==
  ASSUME CoreInv, NEW c \in Exchanges, RestoreResv(c), ~Refused(c, "cancel")
  PROVE  CoreInv'
<1>0. Staged(c) /\ WorkTyped /\ LinesTyped /\ BooksTyped /\ made[c] \in Exchange /\ undo[c] \in Cancellation
  BY DEF CoreInv, Typed, WorkTyped
<1>a. /\ c \in Lines /\ made[c].plan.line \in Lines /\ made[c].plan.line # c
      /\ made[c].plan.line \in Exchanges => mark[made[c].plan.line] # "absent"
      /\ made[c].plan.initial \in Nat /\ made[c].plan.target \in Nat /\ made[c].plan.take \in Nat \ {0}
      /\ made[c].plan.give \in Nat \ {0} /\ made[c].plan \in Plans
  <2>1. made[c].step # "none"
    BY <1>0 DEF RestoreResv, At, Staged, CancelStage, CreateStage, Undoing, Standing
  <2>2. made[c].plan \in Plans
    BY <2>1, PlansOf
  <2> QED
    BY <1>0, <2>1, <2>2, ExchangeAssumption DEF Staged, PlanOK, LineThere, Lines, Plans
<1>1. made' = made
  BY DEF RestoreResv
<1>2. /\ pc' \in [Exchanges -> [create : CreatePlaces, cancel : CancelPlaces]]
      /\ pc'[c].cancel = "moneyBack" /\ pc'[c].create = pc[c].create
      /\ \A d \in Exchanges \ {c} : pc'[d] = pc[d]
  <2>1. Goes(c, "cancel", "moneyBack") /\ "moneyBack" \in CancelPlaces
    BY DEF RestoreResv, CancelPlaces
  <2> QED
    BY <1>0, <2>1, CancelGoes
<1>3. undo' = undo /\ spent' = spent
  BY DEF RestoreResv
<1>4. /\ LinesTyped' /\ resv'[c] = resv[c] /\ qty' = qty /\ mark'[c] = mark[c]
      /\ \A d \in Exchanges \ {c} : /\ mark'[d] = "absent" <=> mark[d] = "absent"
                                    /\ mark[d] = "absent" => qty'[d] = qty[d] /\ resv'[d] = resv[d]
      /\ \A d \in Exchanges : mark[d] # "absent" => mark'[d] # "absent"
  <2>2. /\ mark' \in [Lines -> Marks] /\ \A k \in Lines \ {made[c].plan.line} : mark'[k] = mark[k]
    BY <1>0, <1>a DEF RestoreResv, LinesTyped, Marks
  <2>4. mark[made[c].plan.line] # "absent" => mark'[made[c].plan.line] # "absent"
    BY <1>0, <1>a DEF RestoreResv, LinesTyped
  <2>6. /\ resv' \in [Lines -> [status : {"none", "active", "fulfilled", "released"}, qty : Nat]]
        /\ \A k \in Lines \ {made[c].plan.line} : resv'[k] = resv[k]
    BY <1>0, <1>a DEF RestoreResv, LinesTyped, Plans
  <2>3. qty' = qty /\ returned' = returned
    BY DEF RestoreResv
  <2>5. \A d \in Exchanges : d \in Lines
    BY DEF Lines
  <2> QED
    BY <1>0, <1>a, <2>2, <2>3, <2>4, <2>5, <2>6 DEF LinesTyped
<1>5. BooksTyped'
  <2>1. resv[made[c].plan.line].qty \in Nat
    BY <1>0, <1>a DEF LinesTyped
  <2> QED
    BY <1>0, <1>a, <2>1 DEF RestoreResv, BooksTyped
<1>6. Typed' /\ Only(c)
  <2>1. LinesTyped'
    BY <1>4
  <2>2. BooksTyped'
    BY <1>5
  <2>3. WorkTyped' /\ Only(c)
    BY <1>0, <1>1, <1>2, <1>3 DEF WorkTyped, Only
  <2> QED
    BY <2>1, <2>2, <2>3 DEF Typed
<1>7. CreateStage(c)' /\ CancelStage(c)'
  BY <1>0, <1>1, <1>2, <1>3, <1>a DEF RestoreResv, At, StepAt, Staged, CreateStage, CancelStage, Claimed, Standing, Undoing
<1>8. ReadyStage(c)' /\ PlanOK(c)'
  BY <1>0, <1>1, <1>2, <1>3, <1>a DEF RestoreResv, At, Staged, CreateStage, CancelStage, ReadyStage, PlanOK, Ready, StepAt, Undoing
<1>9. NewLineOK(c)'
  BY <1>0, <1>1, <1>2, <1>3, <1>4, <1>a DEF RestoreResv, At, Staged, CreateStage, CancelStage, NewLineOK, StepAt, Midway, lineVars
<1>10. LineThere(c)' /\ (mark'[c] = "absent" => mark[c] = "absent")
  BY <1>0, <1>1, <1>3, <1>4, <1>a DEF RestoreResv, At, Staged, CreateStage, LineThere, StepAt, lineVars
<1> QED
  BY <1>0, <1>4, <1>6, <1>7, <1>8, <1>9, <1>10, OneStaged DEF Staged, lineVars

\* The step of MoneyBack keeps the core.
LEMMA MoneyBackCore ==
  ASSUME CoreInv, NEW c \in Exchanges, MoneyBack(c)
  PROVE  CoreInv'
<1>0. Staged(c) /\ WorkTyped /\ LinesTyped /\ BooksTyped /\ made[c] \in Exchange /\ undo[c] \in Cancellation
  BY DEF CoreInv, Typed, WorkTyped
<1>a. /\ c \in Lines /\ made[c].plan.line \in Lines /\ made[c].plan.line # c
      /\ made[c].plan.line \in Exchanges => mark[made[c].plan.line] # "absent"
      /\ made[c].plan.initial \in Nat /\ made[c].plan.target \in Nat /\ made[c].plan.take \in Nat \ {0}
      /\ made[c].plan.give \in Nat \ {0} /\ made[c].plan \in Plans
  <2>1. made[c].step # "none"
    BY <1>0 DEF MoneyBack, At, Staged, CancelStage, CreateStage, Undoing, Standing
  <2>2. made[c].plan \in Plans
    BY <2>1, PlansOf
  <2> QED
    BY <1>0, <2>1, <2>2, ExchangeAssumption DEF Staged, PlanOK, LineThere, Lines, Plans

<1>b. made' = made \/ made' = [made EXCEPT ![c].money = FALSE]
  BY DEF MoneyBack
<1>1. /\ made' \in [Exchanges -> Exchange] /\ \A d \in Exchanges \ {c} : made'[d] = made[d]
      /\ made'[c].step = made[c].step /\ made'[c].plan = made[c].plan /\ made'[c].id = made[c].id /\ made'[c].status = made[c].status /\ made'[c].oldRow = made[c].oldRow
      /\ made'[c].newRow = made[c].newRow /\ made'[c].in = made[c].in /\ made'[c].out = made[c].out /\ made'[c].linked = made[c].linked
  <2>1. CASE made' = made
    BY <1>0, <2>1 DEF WorkTyped
  <2>2. CASE made' = [made EXCEPT ![c].money = FALSE]
    BY <1>0, <2>2 DEF WorkTyped, Exchange
  <2> QED
    BY <1>b, <2>1, <2>2
<1>2. /\ pc' \in [Exchanges -> [create : CreatePlaces, cancel : CancelPlaces]]
      /\ pc'[c].cancel = "finish" /\ pc'[c].create = pc[c].create
      /\ \A d \in Exchanges \ {c} : pc'[d] = pc[d]
  <2>1. Goes(c, "cancel", "finish") /\ "finish" \in CancelPlaces
    BY DEF MoneyBack, CancelPlaces
  <2> QED
    BY <1>0, <2>1, CancelGoes
<1>3. undo' = undo /\ spent' = spent
  BY DEF MoneyBack
<1>4. UNCHANGED lineVars
  BY DEF MoneyBack, lineVars
<1>5. BooksTyped'
  BY <1>0, <1>a DEF MoneyBack, BooksTyped, Plans
<1>6. Typed' /\ Only(c)
  <2>1. LinesTyped'
    BY <1>0, <1>4 DEF LinesTyped, lineVars
  <2>2. BooksTyped'
    BY <1>5
  <2>3. WorkTyped' /\ Only(c)
    BY <1>0, <1>1, <1>2, <1>3 DEF WorkTyped, Only
  <2> QED
    BY <2>1, <2>2, <2>3 DEF Typed
<1>7. CreateStage(c)' /\ CancelStage(c)'
  BY <1>0, <1>1, <1>2, <1>3, <1>a DEF MoneyBack, At, StepAt, Staged, CreateStage, CancelStage, Claimed, Standing, Undoing
<1>8. ReadyStage(c)' /\ PlanOK(c)'
  BY <1>0, <1>1, <1>2, <1>3, <1>a DEF MoneyBack, At, Staged, CreateStage, CancelStage, ReadyStage, PlanOK, Ready, StepAt, Undoing
<1>9. NewLineOK(c)'
  BY <1>0, <1>1, <1>2, <1>3, <1>4, <1>a DEF MoneyBack, At, Staged, CreateStage, CancelStage, NewLineOK, StepAt, Midway, lineVars
<1>10. LineThere(c)' /\ (mark'[c] = "absent" => mark[c] = "absent")
  BY <1>0, <1>1, <1>3, <1>4, <1>a DEF MoneyBack, At, Staged, CreateStage, LineThere, StepAt, lineVars
<1> QED
  BY <1>0, <1>4, <1>6, <1>7, <1>8, <1>9, <1>10, OneStaged DEF Staged, lineVars

\* The step of Finish, when it is not refused, keeps the core.
LEMMA FinishDoneCore ==
  ASSUME CoreInv, NEW c \in Exchanges, Finish(c), ~Refused(c, "cancel")
  PROVE  CoreInv'
<1>0. Staged(c) /\ WorkTyped /\ LinesTyped /\ BooksTyped /\ made[c] \in Exchange /\ undo[c] \in Cancellation
  BY DEF CoreInv, Typed, WorkTyped
<1>a. /\ c \in Lines /\ made[c].plan.line \in Lines /\ made[c].plan.line # c
      /\ made[c].plan.line \in Exchanges => mark[made[c].plan.line] # "absent"
      /\ made[c].plan.initial \in Nat /\ made[c].plan.target \in Nat /\ made[c].plan.take \in Nat \ {0}
      /\ made[c].plan.give \in Nat \ {0} /\ made[c].plan \in Plans
  <2>1. made[c].step # "none"
    BY <1>0 DEF Finish, At, Staged, CancelStage, CreateStage, Undoing, Standing
  <2>2. made[c].plan \in Plans
    BY <2>1, PlansOf
  <2> QED
    BY <1>0, <2>1, <2>2, ExchangeAssumption DEF Staged, PlanOK, LineThere, Lines, Plans

<1>b. made' = [made EXCEPT ![c].status = "cancelled"]
  BY DEF Finish
<1>1. /\ made' \in [Exchanges -> Exchange] /\ \A d \in Exchanges \ {c} : made'[d] = made[d]
      /\ made'[c].step = made[c].step /\ made'[c].plan = made[c].plan /\ made'[c].id = made[c].id /\ made'[c].status = "cancelled" /\ made'[c].oldRow = made[c].oldRow
      /\ made'[c].newRow = made[c].newRow /\ made'[c].in = made[c].in /\ made'[c].out = made[c].out /\ made'[c].money = made[c].money /\ made'[c].linked = made[c].linked
  BY <1>0, <1>b DEF WorkTyped, Exchange
<1>2. /\ pc' \in [Exchanges -> [create : CreatePlaces, cancel : CancelPlaces]]
      /\ pc'[c].cancel = "complete" /\ pc'[c].create = pc[c].create
      /\ \A d \in Exchanges \ {c} : pc'[d] = pc[d]
  <2>1. Goes(c, "cancel", "complete") /\ "complete" \in CancelPlaces
    BY DEF Finish, CancelPlaces
  <2> QED
    BY <1>0, <2>1, CancelGoes
<1>3. undo' = undo /\ spent' = spent
  BY DEF Finish
<1>4. UNCHANGED lineVars
  BY DEF Finish, lineVars
<1>5. BooksTyped'
  BY <1>0, <1>a DEF Finish, BooksTyped, Cancellation
<1>6. Typed' /\ Only(c)
  <2>1. LinesTyped'
    BY <1>0, <1>4 DEF LinesTyped, lineVars
  <2>2. BooksTyped'
    BY <1>5
  <2>3. WorkTyped' /\ Only(c)
    BY <1>0, <1>1, <1>2, <1>3 DEF WorkTyped, Only
  <2> QED
    BY <2>1, <2>2, <2>3 DEF Typed
<1>7. CreateStage(c)' /\ CancelStage(c)'
  BY <1>0, <1>1, <1>2, <1>3, <1>a DEF Finish, At, StepAt, Staged, CreateStage, CancelStage, Claimed, Standing, Undoing
<1>8. ReadyStage(c)' /\ PlanOK(c)'
  BY <1>0, <1>1, <1>2, <1>3, <1>a DEF Finish, At, Staged, CreateStage, CancelStage, ReadyStage, PlanOK, Ready, StepAt, Undoing
<1>9. NewLineOK(c)'
  BY <1>0, <1>1, <1>2, <1>3, <1>4, <1>a DEF Finish, At, Staged, CreateStage, CancelStage, NewLineOK, StepAt, Midway, lineVars
<1>10. LineThere(c)' /\ (mark'[c] = "absent" => mark[c] = "absent")
  BY <1>0, <1>1, <1>3, <1>4, <1>a DEF Finish, At, Staged, CreateStage, LineThere, StepAt, lineVars
<1> QED
  BY <1>0, <1>4, <1>6, <1>7, <1>8, <1>9, <1>10, OneStaged DEF Staged, lineVars

\* The step of CompleteCancel keeps the core.
LEMMA CompleteCancelCore ==
  ASSUME CoreInv, NEW c \in Exchanges, CompleteCancel(c)
  PROVE  CoreInv'
<1>0. Staged(c) /\ WorkTyped /\ LinesTyped /\ BooksTyped /\ made[c] \in Exchange /\ undo[c] \in Cancellation
  BY DEF CoreInv, Typed, WorkTyped
<1>1. made' = made
  BY DEF CompleteCancel
<1>2. /\ pc' \in [Exchanges -> [create : CreatePlaces, cancel : CancelPlaces]]
      /\ pc'[c].cancel = "idle" /\ pc'[c].create = pc[c].create
      /\ \A d \in Exchanges \ {c} : pc'[d] = pc[d]
  <2>1. Goes(c, "cancel", "idle") /\ "idle" \in CancelPlaces
    BY DEF CompleteCancel, CancelPlaces
  <2> QED
    BY <1>0, <2>1, CancelGoes
<1>3. undo' \in [Exchanges -> Cancellation] /\ (\A d \in Exchanges \ {c} : undo'[d] = undo[d]) /\ spent' = spent
      /\ undo'[c].step = "completed" /\ undo'[c].target = undo[c].target /\ undo'[c].baseline = undo[c].baseline
  BY <1>0 DEF CompleteCancel, WorkTyped, Cancellation
<1>4. UNCHANGED lineVars
  BY DEF CompleteCancel, lineVars
<1>5. UNCHANGED bookVars
  BY DEF CompleteCancel, bookVars
<1>6. Typed' /\ Only(c)
  <2>1. LinesTyped'
    BY <1>0, <1>4 DEF LinesTyped, lineVars
  <2>2. BooksTyped'
    BY <1>0, <1>5 DEF BooksTyped, bookVars
  <2>3. WorkTyped' /\ Only(c)
    BY <1>0, <1>1, <1>2, <1>3 DEF WorkTyped, Only
  <2> QED
    BY <2>1, <2>2, <2>3 DEF Typed
<1>7. CreateStage(c)' /\ CancelStage(c)'
  BY <1>0, <1>1, <1>2, <1>3 DEF CompleteCancel, At, StepAt, Staged, CreateStage, CancelStage, Claimed, Standing, Undoing
<1>8. ReadyStage(c)' /\ PlanOK(c)'
  BY <1>0, <1>1, <1>2, <1>3 DEF CompleteCancel, At, Staged, CreateStage, CancelStage, ReadyStage, PlanOK, Ready, StepAt, Undoing
<1>9. NewLineOK(c)'
  BY <1>0, <1>1, <1>2, <1>3, <1>4 DEF CompleteCancel, At, Staged, CreateStage, CancelStage, NewLineOK, StepAt, Midway, lineVars
<1>10. LineThere(c)' /\ (mark'[c] = "absent" => mark[c] = "absent")
  BY <1>0, <1>1, <1>3, <1>4 DEF CompleteCancel, At, Staged, CreateStage, LineThere, StepAt, lineVars
<1> QED
  BY <1>0, <1>4, <1>6, <1>7, <1>8, <1>9, <1>10, OneStaged DEF Staged, lineVars

\* The step of Freeze keeps the core.
LEMMA FreezeCore == ASSUME CoreInv, NEW c \in Exchanges, Freeze(c) PROVE CoreInv'
<1>1. CASE Refused(c, "cancel")
  BY <1>1, RefusedCore
<1> QED
  BY <1>1, FreezeDoneCore

\* The step of RestoreQty keeps the core.
LEMMA RestoreQtyCore == ASSUME CoreInv, NEW c \in Exchanges, RestoreQty(c) PROVE CoreInv'
<1>1. CASE Refused(c, "cancel")
  BY <1>1, RefusedCore
<1> QED
  BY <1>1, RestoreQtyDoneCore

\* The step of RestoreResv keeps the core.
LEMMA RestoreResvCore == ASSUME CoreInv, NEW c \in Exchanges, RestoreResv(c) PROVE CoreInv'
<1>1. CASE Refused(c, "cancel")
  BY <1>1, RefusedCore
<1> QED
  BY <1>1, RestoreResvDoneCore

\* The step of Finish keeps the core.
LEMMA FinishCore == ASSUME CoreInv, NEW c \in Exchanges, Finish(c) PROVE CoreInv'
<1>1. CASE Refused(c, "cancel")
  BY <1>1, RefusedCore
<1> QED
  BY <1>1, FinishDoneCore

\* What a plan says, and that nothing but the row of the exchange is changed.
PlanOf(c, l, take, give, physical, shipped, pay) ==
  [line |-> l, take |-> take, give |-> give, physical |-> physical, sent |-> shipped,
   handover |-> physical # "not_issued" /\ ~Issued(l),
   initial |-> qty[l], target |-> Floor(qty[l] - take),
   snapshot |-> IF physical = "not_issued" THEN resv[l] ELSE Nothing,
   marked |-> mark[l], final |-> total - take + give, money |-> Settlement(total - take + give, pay)]

Fits(c, l, take, give, physical, pay) ==
  /\ Available(l, take)
  /\ physical = "not_issued" =>
       /\ ~Issued(l)
       /\ resv[l].status = "none" \/ (resv[l].status = "active" /\ resv[l].qty = qty[l])
  /\ pay <= Floor((total - take + give) - paid)
Validated(c, p) ==
  /\ p \in Plans
  /\ made' \in [Exchanges -> Exchange]
  /\ made'[c] = [made[c] EXCEPT !.step = "validated", !.plan = p]
  /\ \A d \in Exchanges \ {c} : made'[d] = made[d]

\* A plan is made from what its validation read, and no row but its own is written.
LEMMA PlanMakes ==
  ASSUME CoreInv, NEW c \in Exchanges, Plan(c)
  PROVE  \E l \in Lines, take \in Takes, give \in Gives, physical \in {"not_issued", "warehouse"},
            shipped \in BOOLEAN, pay \in 0..1 :
           /\ Fits(c, l, take, give, physical, pay)
           /\ Validated(c, PlanOf(c, l, take, give, physical, shipped, pay))
           /\ Floor(qty[l] - take) = qty[l] - take
<1>0. LinesTyped /\ BooksTyped /\ WorkTyped
  BY DEF CoreInv, Typed
<1>1. PICK l \in Lines, take \in Takes, give \in Gives, physical \in {"not_issued", "warehouse"},
            shipped \in BOOLEAN, pay \in 0..1 :
        /\ Fits(c, l, take, give, physical, pay)
        /\ made' = [made EXCEPT ![c].step = "validated",
                                ![c].plan = PlanOf(c, l, take, give, physical, shipped, pay)]
  <2>1. PICK l \in Lines, take \in Takes, give \in Gives, physical \in {"not_issued", "warehouse"},
           shipped \in BOOLEAN, pay \in 0..1 :
          /\ Available(l, take)
          /\ physical = "not_issued" =>
               /\ ~Issued(l)
               /\ resv[l].status = "none" \/ (resv[l].status = "active" /\ resv[l].qty = qty[l])
          /\ pay <= Floor((total - take + give) - paid)
          /\ made' = [made EXCEPT
               ![c].step = "validated",
               ![c].plan = [line |-> l, take |-> take, give |-> give, physical |-> physical, sent |-> shipped,
                            handover |-> physical # "not_issued" /\ ~Issued(l),
                            initial |-> qty[l], target |-> Floor(qty[l] - take),
                            snapshot |-> IF physical = "not_issued" THEN resv[l] ELSE Nothing,
                            marked |-> mark[l], final |-> total - take + give,
                            money |-> Settlement(total - take + give, pay)]]
    BY Zenon DEF Plan
  <2>2. Fits(c, l, take, give, physical, pay)
    BY <2>1 DEF Fits
  <2>3. made' = [made EXCEPT ![c].step = "validated",
                             ![c].plan = PlanOf(c, l, take, give, physical, shipped, pay)]
    BY <2>1, Zenon DEF PlanOf
  <2> QED
    BY <2>2, <2>3
<1> DEFINE p == PlanOf(c, l, take, give, physical, shipped, pay)
<1>2. take \in Nat \ {0} /\ give \in Nat \ {0} /\ qty[l] \in Nat /\ returned[l] \in Nat
  BY <1>0, ExchangeAssumption DEF LinesTyped
<1>3. qty[l] - take \in Nat /\ Floor(qty[l] - take) = qty[l] - take
  BY <1>1, <1>2, FloorType DEF Fits, Available
<1>4. (IF physical = "not_issued" THEN resv[l] ELSE Nothing) \in [status : {"none", "active"}, qty : Nat]
  BY <1>0, <1>1 DEF LinesTyped, Nothing, Fits
<1>5. total - take + give \in Int /\ Settlement(total - take + give, pay) \in Int
  BY <1>0, <1>2 DEF BooksTyped, Settlement
<1>6. p \in Plans
  BY <1>0, <1>2, <1>3, <1>4, <1>5 DEF PlanOf, Plans, LinesTyped
<1>8. made' = [made EXCEPT ![c].step = "validated", ![c].plan = p]
  BY <1>1
<1> HIDE DEF p
<1>9. Validated(c, p)
  <2>1. made[c] \in Exchange /\ made \in [Exchanges -> Exchange]
    BY <1>0 DEF WorkTyped
  <2>2. [made[c] EXCEPT !.step = "validated", !.plan = p] \in Exchange
    BY <2>1, <1>6 DEF Exchange, Resumes
  <2> QED
    BY <1>6, <1>8, <2>1, <2>2 DEF Validated
<1> QED
  BY <1>1, <1>3, <1>9 DEF p

\* The step of Plan keeps the core.
LEMMA PlanCore == ASSUME CoreInv, NEW c \in Exchanges, Plan(c) PROVE CoreInv'
<1>0. Staged(c) /\ WorkTyped /\ LinesTyped /\ BooksTyped /\ made[c] \in Exchange /\ undo[c] \in Cancellation
  BY DEF CoreInv, Typed, WorkTyped
<1>1. PICK l \in Lines, take \in Takes, give \in Gives, physical \in {"not_issued", "warehouse"},
            shipped \in BOOLEAN, pay \in 0..1 :
           /\ Fits(c, l, take, give, physical, pay)
           /\ Validated(c, PlanOf(c, l, take, give, physical, shipped, pay))
           /\ Floor(qty[l] - take) = qty[l] - take
  BY PlanMakes
<1> DEFINE p == PlanOf(c, l, take, give, physical, shipped, pay)
<1>2. take \in Nat \ {0} /\ qty[l] \in Nat /\ returned[l] \in Nat /\ qty[l] > 0
  <2>1. take \in Nat \ {0}
    BY ExchangeAssumption
  <2>2. qty[l] \in Nat /\ returned[l] \in Nat
    BY <1>0 DEF LinesTyped
  <2>3. take + returned[l] <= qty[l]
    BY <1>1 DEF Fits, Available
  <2> QED
    BY <2>1, <2>2, <2>3
<1>3. made[c].step = "none" /\ c \in Lines
  BY DEF Plan, Lines
<1>4. qty[c] = 0 /\ mark[c] = "absent"
  BY <1>0, <1>3 DEF Staged, NewLineOK, Midway
<1>5. p.line = l /\ l # c /\ p.marked = mark[l] /\ (l \in Exchanges => mark[l] # "absent")
  BY <1>2, <1>4 DEF PlanOf, CoreInv, Staged, NewLineOK
<1>6. pc' = [pc EXCEPT ![c].create = "claim"] /\ UNCHANGED <<lineVars, bookVars, undo, spent>>
  BY DEF Plan, Goes
<1>7. /\ pc' \in [Exchanges -> [create : CreatePlaces, cancel : CancelPlaces]]
      /\ pc'[c].create = "claim" /\ pc'[c].cancel = pc[c].cancel
      /\ \A d \in Exchanges \ {c} : pc'[d] = pc[d]
  BY <1>0, <1>6 DEF WorkTyped, CreatePlaces
<1>8. Typed' /\ Only(c)
  BY <1>0, <1>1, <1>6, <1>7 DEF Validated, Typed, LinesTyped, BooksTyped, WorkTyped, lineVars, bookVars, Only
<1>9. /\ made'[c].step = "validated" /\ made'[c].plan = p /\ made'[c].id = made[c].id /\ made'[c].status = made[c].status
      /\ made'[c].oldRow = made[c].oldRow
  BY <1>0, <1>1 DEF Exchange, Validated
<1>10. p \in Plans /\ p # NoPlan /\ p.initial = p.target + p.take
  <2>1. p \in Plans
    BY <1>1 DEF Validated
  <2>2. p.target = qty[l] - take
    BY <1>1 DEF PlanOf
  <2>3. p.initial = qty[l] /\ p.take = take
    BY DEF PlanOf
  <2> HIDE DEF p
  <2> QED
    BY <1>2, <2>1, <2>2, <2>3, NoPlanIsNone
<1>11. /\ p.snapshot.status = "active" => p.snapshot.qty = p.initial /\ p.physical = "not_issued"
       /\ p.handover <=> p.physical = "warehouse" /\ p.marked # "fulfilled"
       /\ p.physical = "not_issued" => p.marked # "fulfilled"
  <2>1. p.physical = physical /\ p.initial = qty[l]
    BY DEF PlanOf
  <2>2. p.snapshot = IF physical = "not_issued" THEN resv[l] ELSE Nothing
    BY DEF PlanOf
  <2>3. p.handover <=> physical # "not_issued" /\ ~Issued(l)
    BY DEF PlanOf
  <2> HIDE DEF p
  <2> QED
    BY <1>1, <1>5, <2>1, <2>2, <2>3 DEF Nothing, Issued, Fits
<1>12. p.line \in Exchanges => p.marked # "absent"
  BY <1>5
<1> HIDE DEF p
<1>13. ~Ready(c)
  BY <1>0, <1>3 DEF Staged, CreateStage, CancelStage, Ready, Claimed, Standing, Undoing
<1>14. CreateStage(c)' /\ CancelStage(c)' /\ ReadyStage(c)'
  BY <1>0, <1>3, <1>6, <1>7, <1>9, <1>10, <1>13 DEF Staged, CreateStage, CancelStage, ReadyStage, Ready, StepAt, Claimed,
     Standing, Undoing
<1>15. PlanOK(c)'
  BY <1>5, <1>9, <1>10, <1>11, <1>12 DEF PlanOK
<1>16. NewLineOK(c)' /\ LineThere(c)'
  BY <1>0, <1>4, <1>5, <1>6, <1>7, <1>9 DEF Staged, NewLineOK, LineThere, Midway, lineVars
<1> QED
  BY <1>6, <1>8, <1>14, <1>15, <1>16, OneStaged DEF Staged, lineVars

\* The step of TakeReturn keeps the core.
LEMMA TakeReturnCore == ASSUME CoreInv, NEW l \in Lines, TakeReturn(l) PROVE CoreInv'
<1>1. Typed'
  <2>1. returned' \in [Lines -> Nat]
    BY DEF CoreInv, Typed, LinesTyped, TakeReturn
  <2>2. spent' \in [returns : Nat, crashes : Nat]
    BY DEF CoreInv, Typed, WorkTyped, TakeReturn
  <2> QED
    BY <2>1, <2>2 DEF CoreInv, Typed, LinesTyped, BooksTyped, WorkTyped, TakeReturn, bookVars
<1>2. UNCHANGED <<qty, mark, resv, made, undo, pc>>
  BY DEF TakeReturn
<1>3. \A c \in Exchanges : Staged(c)'
  BY <1>2 DEF CoreInv, Staged, CreateStage, CancelStage, ReadyStage, PlanOK, NewLineOK, LineThere, Claimed,
     Standing, Undoing, Ready
<1> QED
  BY <1>1, <1>3 DEF CoreInv

\* The step of CancelReturn keeps the core.
LEMMA CancelReturnCore == ASSUME CoreInv, NEW l \in Lines, CancelReturn(l) PROVE CoreInv'
<1>1. Typed'
  <2>1. returned' \in [Lines -> Nat]
    BY DEF CoreInv, Typed, LinesTyped, CancelReturn
  <2> QED
    BY <2>1 DEF CoreInv, Typed, LinesTyped, BooksTyped, WorkTyped, CancelReturn, bookVars
<1>2. UNCHANGED <<qty, mark, resv, made, undo, pc>>
  BY DEF CancelReturn
<1>3. \A c \in Exchanges : Staged(c)'
  BY <1>2 DEF CoreInv, Staged, CreateStage, CancelStage, ReadyStage, PlanOK, NewLineOK, LineThere, Claimed,
     Standing, Undoing, Ready
<1> QED
  BY <1>1, <1>3 DEF CoreInv

\* Every step keeps the core.
LEMMA CoreStep == ASSUME CoreInv, [Next]_vars PROVE CoreInv'
<1>1. CASE UNCHANGED vars
  <2>1. Typed'
    BY <1>1 DEF CoreInv, Typed, LinesTyped, BooksTyped, WorkTyped, vars, lineVars, bookVars
  <2>2. UNCHANGED <<qty, mark, resv, made, undo, pc>>
    BY <1>1 DEF vars, lineVars
  <2>3. \A c \in Exchanges : Staged(c)'
    BY <2>2 DEF CoreInv, Staged, CreateStage, CancelStage, ReadyStage, PlanOK, NewLineOK, LineThere, Claimed,
       Standing, Undoing, Ready
  <2> QED
    BY <2>1, <2>3 DEF CoreInv
<1>2. ASSUME NEW c \in Exchanges, Creates(c) PROVE CoreInv'
  BY <1>2, ClaimCore, ReserveCore, SetQtyCore, OldRowCore, InsertInCore, ApplyInCore, AdvanceOldCore,
     InsertContentCore, PromiseCore, AdvanceContentCore, NewRowCore, InsertOutCore, ApplyOutCore,
     LinkOutCore, AdvanceNewCore, BookMoneyCore, SetTotalCore, AdvanceMoneyCore, CompleteCore DEF Creates
<1>3. ASSUME NEW c \in Exchanges, Cancels(c) PROVE CoreInv'
  BY <1>3, FreezeCore, CancelInCore, CancelOutCore, ReleaseNewCore, EmptyNewCore, RestoreQtyCore,
     RestoreResvCore, MoneyBackCore, FinishCore, CompleteCancelCore DEF Cancels
<1>4. ASSUME NEW c \in Exchanges,
             Plan(c) \/ Retry(c) \/ Drop(c) \/ BeginCancel(c) \/ \E op \in {"create", "cancel"} : Crash(c, op)
      PROVE  CoreInv'
  BY <1>4, PlanCore, RetryCore, DropCore, BeginCancelCore, CrashCore
<1>5. ASSUME NEW l \in Lines, TakeReturn(l) \/ CancelReturn(l) PROVE CoreInv'
  BY <1>5, TakeReturnCore, CancelReturnCore
<1> QED
  BY <1>1, <1>2, <1>3, <1>4, <1>5 DEF Next

\* The core is an invariant.
LEMMA CoreHolds == Spec => []CoreInv
<1>1. CoreInv /\ [Next]_vars => CoreInv'
  BY CoreStep
<1> QED
  BY CoreInit, <1>1, PTL DEF Spec

\* The type invariant is a part of the core.
LEMMA TypedMeans == CoreInv => ExchangeTypeOK
<1> SUFFICES ASSUME CoreInv PROVE ExchangeTypeOK
  OBVIOUS
<1>1. ASSUME NEW c \in Exchanges, made[c].plan # NoPlan
      PROVE  made[c].plan.initial = made[c].plan.target + made[c].plan.take
  BY <1>1 DEF CoreInv, Staged, CreateStage, PlanOK
<1> QED
  BY <1>1 DEF CoreInv, Typed, LinesTyped, BooksTyped, WorkTyped, ExchangeTypeOK, Exchange, Cancellation

\* Whoever works beside whom, every variable keeps its type: no quantity of a line
\* and no promise is ever negative, and a plan takes no more than it found
\* (returns-exchanges.ts:3772-3777).
THEOREM ExchangeTypes == Spec => []ExchangeTypeOK
BY CoreHolds, TypedMeans, PTL

-----------------------------------------------------------------------------
(* One exchange at a time *)

Works(c) ==
  \/ Plan(c) \/ Retry(c) \/ Drop(c) \/ Creates(c)
  \/ BeginCancel(c) \/ Cancels(c)
  \/ \E op \in {"create", "cancel"} : Crash(c, op)

\* Nothing happens to the units of the lines, and no exchange is taken up.
Quiet(c) ==
  /\ UNCHANGED <<qty, returned>> /\ Only(c)
  /\ made'[c].step \in Midway => made[c].step \in Midway /\ made'[c].plan = made[c].plan
  /\ Standing(c)' => Standing(c)
  /\ pc'[c].cancel # "idle" => pc[c].cancel # "idle"
  /\ \A o \in {"create", "cancel"} : Under(c, o)' => Under(c, o)

Exclusive ==
  \A c, d \in Exchanges, o, p \in {"create", "cancel"} : Under(c, o) /\ Under(d, p) => c = d /\ o = p
ClaimHeld == \A c \in Exchanges : made[c].step \in Midway => qty[made[c].plan.line] = made[c].plan.target
NewUnreturned == \A c \in Exchanges : pc[c].cancel # "idle" /\ Standing(c) => returned[c] = 0
UnitInv ==
  CoreInv /\ Exclusive /\ ClaimHeld /\ (ReturnsApart => NewUnreturned /\ NoUnitTwice)

\* The step of Quiet keeps every unit in one hand.
LEMMA QuietUnits ==
  ASSUME UnitInv, NEW c \in Exchanges, CoreInv', Quiet(c)
  PROVE  UnitInv'
<1>1. \A d \in Exchanges, o \in {"create", "cancel"} : Under(d, o)' => Under(d, o)
  BY DEF Quiet, Only, Under
<1>2. Exclusive'
  BY <1>1 DEF UnitInv, Exclusive
<1>3. ClaimHeld'
  BY DEF UnitInv, ClaimHeld, Quiet, Only
<1>4. ASSUME ReturnsApart PROVE NewUnreturned'
  BY <1>4 DEF UnitInv, NewUnreturned, Quiet, Only, Standing
<1>5. ASSUME ReturnsApart PROVE NoUnitTwice'
  BY <1>5 DEF UnitInv, NoUnitTwice, Quiet
<1> QED
  BY <1>2, <1>3, <1>4, <1>5 DEF UnitInv

\* The step of Retry leaves the units of the lines alone.
LEMMA RetryQuiet == ASSUME CoreInv, NEW c \in Exchanges, Retry(c) PROVE Quiet(c)
<1>0. Staged(c) /\ WorkTyped /\ made[c] \in Exchange
  BY DEF CoreInv, Typed, WorkTyped
<1>1. UNCHANGED <<qty, returned>> /\ Only(c)
  BY <1>0 DEF Retry, Goes, Refused, lineVars, Only, WorkTyped
<1>2. /\ made'[c].step \in Midway => made[c].step \in Midway /\ made'[c].plan = made[c].plan
      /\ Standing(c)' => Standing(c)
  BY <1>0 DEF Retry, Goes, Refused, At, Staged, CreateStage, StepAt, Midway, Standing, WorkTyped, Exchange
<1>3. /\ pc'[c].cancel # "idle" => pc[c].cancel # "idle"
      /\ \A o \in {"create", "cancel"} : Under(c, o)' => Under(c, o)
  BY <1>0 DEF Retry, Goes, Refused, At, Under, Staged, CreateStage, StepAt, WorkTyped, Exchange, Resumes
<1> QED
  BY <1>1, <1>2, <1>3 DEF Quiet

\* The step of Drop leaves the units of the lines alone.
LEMMA DropQuiet == ASSUME CoreInv, NEW c \in Exchanges, Drop(c) PROVE Quiet(c)
<1>0. Staged(c) /\ WorkTyped /\ made[c] \in Exchange
  BY DEF CoreInv, Typed, WorkTyped
<1>1. UNCHANGED <<qty, returned>> /\ Only(c)
  BY <1>0 DEF Drop, Goes, Refused, lineVars, Only, WorkTyped
<1>2. /\ made'[c].step \in Midway => made[c].step \in Midway /\ made'[c].plan = made[c].plan
      /\ Standing(c)' => Standing(c)
  BY <1>0 DEF Drop, Goes, Refused, At, Staged, CreateStage, StepAt, Midway, Standing, WorkTyped, Exchange
<1>3. /\ pc'[c].cancel # "idle" => pc[c].cancel # "idle"
      /\ \A o \in {"create", "cancel"} : Under(c, o)' => Under(c, o)
  BY <1>0 DEF Drop, Goes, Refused, At, Under, Staged, CreateStage, StepAt, WorkTyped, Exchange, Resumes
<1> QED
  BY <1>1, <1>2, <1>3 DEF Quiet

\* The step of Reserve leaves the units of the lines alone.
LEMMA ReserveQuiet == ASSUME CoreInv, NEW c \in Exchanges, Reserve(c) PROVE Quiet(c)
<1>0. Staged(c) /\ WorkTyped /\ made[c] \in Exchange
  BY DEF CoreInv, Typed, WorkTyped
<1>1. UNCHANGED <<qty, returned>> /\ Only(c)
  BY <1>0 DEF Reserve, Goes, Refused, lineVars, Only, WorkTyped
<1>2. /\ made'[c].step \in Midway => made[c].step \in Midway /\ made'[c].plan = made[c].plan
      /\ Standing(c)' => Standing(c)
  BY <1>0 DEF Reserve, Goes, Refused, At, Staged, CreateStage, StepAt, Midway, Standing, WorkTyped, Exchange
<1>3. /\ pc'[c].cancel # "idle" => pc[c].cancel # "idle"
      /\ \A o \in {"create", "cancel"} : Under(c, o)' => Under(c, o)
  BY <1>0 DEF Reserve, Goes, Refused, At, Under, Staged, CreateStage, StepAt, WorkTyped, Exchange, Resumes
<1> QED
  BY <1>1, <1>2, <1>3 DEF Quiet

\* The step of OldRow leaves the units of the lines alone.
LEMMA OldRowQuiet == ASSUME CoreInv, NEW c \in Exchanges, OldRow(c) PROVE Quiet(c)
<1>0. Staged(c) /\ WorkTyped /\ made[c] \in Exchange
  BY DEF CoreInv, Typed, WorkTyped
<1>1. UNCHANGED <<qty, returned>> /\ Only(c)
  BY <1>0 DEF OldRow, Goes, Refused, lineVars, Only, WorkTyped
<1>2. /\ made'[c].step \in Midway => made[c].step \in Midway /\ made'[c].plan = made[c].plan
      /\ Standing(c)' => Standing(c)
  BY <1>0 DEF OldRow, Goes, Refused, At, Staged, CreateStage, StepAt, Midway, Standing, WorkTyped, Exchange
<1>3. /\ pc'[c].cancel # "idle" => pc[c].cancel # "idle"
      /\ \A o \in {"create", "cancel"} : Under(c, o)' => Under(c, o)
  BY <1>0 DEF OldRow, Goes, Refused, At, Under, Staged, CreateStage, StepAt, WorkTyped, Exchange, Resumes
<1> QED
  BY <1>1, <1>2, <1>3 DEF Quiet

\* The step of InsertIn leaves the units of the lines alone.
LEMMA InsertInQuiet == ASSUME CoreInv, NEW c \in Exchanges, InsertIn(c) PROVE Quiet(c)
<1>0. Staged(c) /\ WorkTyped /\ made[c] \in Exchange
  BY DEF CoreInv, Typed, WorkTyped
<1>1. UNCHANGED <<qty, returned>> /\ Only(c)
  BY <1>0 DEF InsertIn, Goes, Refused, lineVars, Only, WorkTyped
<1>2. /\ made'[c].step \in Midway => made[c].step \in Midway /\ made'[c].plan = made[c].plan
      /\ Standing(c)' => Standing(c)
  BY <1>0 DEF InsertIn, Goes, Refused, At, Staged, CreateStage, StepAt, Midway, Standing, WorkTyped, Exchange
<1>3. /\ pc'[c].cancel # "idle" => pc[c].cancel # "idle"
      /\ \A o \in {"create", "cancel"} : Under(c, o)' => Under(c, o)
  BY <1>0 DEF InsertIn, Goes, Refused, At, Under, Staged, CreateStage, StepAt, WorkTyped, Exchange, Resumes
<1> QED
  BY <1>1, <1>2, <1>3 DEF Quiet

\* The step of ApplyIn leaves the units of the lines alone.
LEMMA ApplyInQuiet == ASSUME CoreInv, NEW c \in Exchanges, ApplyIn(c) PROVE Quiet(c)
<1>0. Staged(c) /\ WorkTyped /\ made[c] \in Exchange
  BY DEF CoreInv, Typed, WorkTyped
<1>1. UNCHANGED <<qty, returned>> /\ Only(c)
  BY <1>0 DEF ApplyIn, Goes, Refused, lineVars, Only, WorkTyped
<1>2. /\ made'[c].step \in Midway => made[c].step \in Midway /\ made'[c].plan = made[c].plan
      /\ Standing(c)' => Standing(c)
  BY <1>0 DEF ApplyIn, Goes, Refused, At, Staged, CreateStage, StepAt, Midway, Standing, WorkTyped, Exchange
<1>3. /\ pc'[c].cancel # "idle" => pc[c].cancel # "idle"
      /\ \A o \in {"create", "cancel"} : Under(c, o)' => Under(c, o)
  BY <1>0 DEF ApplyIn, Goes, Refused, At, Under, Staged, CreateStage, StepAt, WorkTyped, Exchange, Resumes
<1> QED
  BY <1>1, <1>2, <1>3 DEF Quiet

\* The step of Promise leaves the units of the lines alone.
LEMMA PromiseQuiet == ASSUME CoreInv, NEW c \in Exchanges, Promise(c) PROVE Quiet(c)
<1>0. Staged(c) /\ WorkTyped /\ made[c] \in Exchange
  BY DEF CoreInv, Typed, WorkTyped
<1>1. UNCHANGED <<qty, returned>> /\ Only(c)
  BY <1>0 DEF Promise, Goes, Refused, lineVars, Only, WorkTyped
<1>2. /\ made'[c].step \in Midway => made[c].step \in Midway /\ made'[c].plan = made[c].plan
      /\ Standing(c)' => Standing(c)
  BY <1>0 DEF Promise, Goes, Refused, At, Staged, CreateStage, StepAt, Midway, Standing, WorkTyped, Exchange
<1>3. /\ pc'[c].cancel # "idle" => pc[c].cancel # "idle"
      /\ \A o \in {"create", "cancel"} : Under(c, o)' => Under(c, o)
  BY <1>0 DEF Promise, Goes, Refused, At, Under, Staged, CreateStage, StepAt, WorkTyped, Exchange, Resumes
<1> QED
  BY <1>1, <1>2, <1>3 DEF Quiet

\* The step of NewRow leaves the units of the lines alone.
LEMMA NewRowQuiet == ASSUME CoreInv, NEW c \in Exchanges, NewRow(c) PROVE Quiet(c)
<1>0. Staged(c) /\ WorkTyped /\ made[c] \in Exchange
  BY DEF CoreInv, Typed, WorkTyped
<1>1. UNCHANGED <<qty, returned>> /\ Only(c)
  BY <1>0 DEF NewRow, Goes, Refused, lineVars, Only, WorkTyped
<1>2. /\ made'[c].step \in Midway => made[c].step \in Midway /\ made'[c].plan = made[c].plan
      /\ Standing(c)' => Standing(c)
  BY <1>0 DEF NewRow, Goes, Refused, At, Staged, CreateStage, StepAt, Midway, Standing, WorkTyped, Exchange
<1>3. /\ pc'[c].cancel # "idle" => pc[c].cancel # "idle"
      /\ \A o \in {"create", "cancel"} : Under(c, o)' => Under(c, o)
  BY <1>0 DEF NewRow, Goes, Refused, At, Under, Staged, CreateStage, StepAt, WorkTyped, Exchange, Resumes
<1> QED
  BY <1>1, <1>2, <1>3 DEF Quiet

\* The step of InsertOut leaves the units of the lines alone.
LEMMA InsertOutQuiet == ASSUME CoreInv, NEW c \in Exchanges, InsertOut(c) PROVE Quiet(c)
<1>0. Staged(c) /\ WorkTyped /\ made[c] \in Exchange
  BY DEF CoreInv, Typed, WorkTyped
<1>1. UNCHANGED <<qty, returned>> /\ Only(c)
  BY <1>0 DEF InsertOut, Goes, Refused, lineVars, Only, WorkTyped
<1>2. /\ made'[c].step \in Midway => made[c].step \in Midway /\ made'[c].plan = made[c].plan
      /\ Standing(c)' => Standing(c)
  BY <1>0 DEF InsertOut, Goes, Refused, At, Staged, CreateStage, StepAt, Midway, Standing, WorkTyped, Exchange
<1>3. /\ pc'[c].cancel # "idle" => pc[c].cancel # "idle"
      /\ \A o \in {"create", "cancel"} : Under(c, o)' => Under(c, o)
  BY <1>0 DEF InsertOut, Goes, Refused, At, Under, Staged, CreateStage, StepAt, WorkTyped, Exchange, Resumes
<1> QED
  BY <1>1, <1>2, <1>3 DEF Quiet

\* The step of ApplyOut leaves the units of the lines alone.
LEMMA ApplyOutQuiet == ASSUME CoreInv, NEW c \in Exchanges, ApplyOut(c) PROVE Quiet(c)
<1>0. Staged(c) /\ WorkTyped /\ made[c] \in Exchange
  BY DEF CoreInv, Typed, WorkTyped
<1>1. UNCHANGED <<qty, returned>> /\ Only(c)
  BY <1>0 DEF ApplyOut, Goes, Refused, lineVars, Only, WorkTyped
<1>2. /\ made'[c].step \in Midway => made[c].step \in Midway /\ made'[c].plan = made[c].plan
      /\ Standing(c)' => Standing(c)
  BY <1>0 DEF ApplyOut, Goes, Refused, At, Staged, CreateStage, StepAt, Midway, Standing, WorkTyped, Exchange
<1>3. /\ pc'[c].cancel # "idle" => pc[c].cancel # "idle"
      /\ \A o \in {"create", "cancel"} : Under(c, o)' => Under(c, o)
  BY <1>0 DEF ApplyOut, Goes, Refused, At, Under, Staged, CreateStage, StepAt, WorkTyped, Exchange, Resumes
<1> QED
  BY <1>1, <1>2, <1>3 DEF Quiet

\* The step of LinkOut leaves the units of the lines alone.
LEMMA LinkOutQuiet == ASSUME CoreInv, NEW c \in Exchanges, LinkOut(c) PROVE Quiet(c)
<1>0. Staged(c) /\ WorkTyped /\ made[c] \in Exchange
  BY DEF CoreInv, Typed, WorkTyped
<1>1. UNCHANGED <<qty, returned>> /\ Only(c)
  BY <1>0 DEF LinkOut, Goes, Refused, lineVars, Only, WorkTyped
<1>2. /\ made'[c].step \in Midway => made[c].step \in Midway /\ made'[c].plan = made[c].plan
      /\ Standing(c)' => Standing(c)
  BY <1>0 DEF LinkOut, Goes, Refused, At, Staged, CreateStage, StepAt, Midway, Standing, WorkTyped, Exchange
<1>3. /\ pc'[c].cancel # "idle" => pc[c].cancel # "idle"
      /\ \A o \in {"create", "cancel"} : Under(c, o)' => Under(c, o)
  BY <1>0 DEF LinkOut, Goes, Refused, At, Under, Staged, CreateStage, StepAt, WorkTyped, Exchange, Resumes
<1> QED
  BY <1>1, <1>2, <1>3 DEF Quiet

\* The step of BookMoney leaves the units of the lines alone.
LEMMA BookMoneyQuiet == ASSUME CoreInv, NEW c \in Exchanges, BookMoney(c) PROVE Quiet(c)
<1>0. Staged(c) /\ WorkTyped /\ made[c] \in Exchange
  BY DEF CoreInv, Typed, WorkTyped
<1>1. UNCHANGED <<qty, returned>> /\ Only(c)
  BY <1>0 DEF BookMoney, Goes, Refused, lineVars, Only, WorkTyped
<1>2. /\ made'[c].step \in Midway => made[c].step \in Midway /\ made'[c].plan = made[c].plan
      /\ Standing(c)' => Standing(c)
  BY <1>0 DEF BookMoney, Goes, Refused, At, Staged, CreateStage, StepAt, Midway, Standing, WorkTyped, Exchange
<1>3. /\ pc'[c].cancel # "idle" => pc[c].cancel # "idle"
      /\ \A o \in {"create", "cancel"} : Under(c, o)' => Under(c, o)
  BY <1>0 DEF BookMoney, Goes, Refused, At, Under, Staged, CreateStage, StepAt, WorkTyped, Exchange, Resumes
<1> QED
  BY <1>1, <1>2, <1>3 DEF Quiet

\* The step of SetTotal leaves the units of the lines alone.
LEMMA SetTotalQuiet == ASSUME CoreInv, NEW c \in Exchanges, SetTotal(c) PROVE Quiet(c)
<1>0. Staged(c) /\ WorkTyped /\ made[c] \in Exchange
  BY DEF CoreInv, Typed, WorkTyped
<1>1. UNCHANGED <<qty, returned>> /\ Only(c)
  BY <1>0 DEF SetTotal, Goes, Refused, lineVars, Only, WorkTyped
<1>2. /\ made'[c].step \in Midway => made[c].step \in Midway /\ made'[c].plan = made[c].plan
      /\ Standing(c)' => Standing(c)
  BY <1>0 DEF SetTotal, Goes, Refused, At, Staged, CreateStage, StepAt, Midway, Standing, WorkTyped, Exchange
<1>3. /\ pc'[c].cancel # "idle" => pc[c].cancel # "idle"
      /\ \A o \in {"create", "cancel"} : Under(c, o)' => Under(c, o)
  BY <1>0 DEF SetTotal, Goes, Refused, At, Under, Staged, CreateStage, StepAt, WorkTyped, Exchange, Resumes
<1> QED
  BY <1>1, <1>2, <1>3 DEF Quiet

\* The step of Complete leaves the units of the lines alone.
LEMMA CompleteQuiet == ASSUME CoreInv, NEW c \in Exchanges, Complete(c) PROVE Quiet(c)
<1>0. Staged(c) /\ WorkTyped /\ made[c] \in Exchange
  BY DEF CoreInv, Typed, WorkTyped
<1>1. UNCHANGED <<qty, returned>> /\ Only(c)
  BY <1>0 DEF Complete, Goes, Refused, lineVars, Only, WorkTyped
<1>2. /\ made'[c].step \in Midway => made[c].step \in Midway /\ made'[c].plan = made[c].plan
      /\ Standing(c)' => Standing(c)
  BY <1>0 DEF Complete, Goes, Refused, At, Staged, CreateStage, StepAt, Midway, Standing, WorkTyped, Exchange
<1>3. /\ pc'[c].cancel # "idle" => pc[c].cancel # "idle"
      /\ \A o \in {"create", "cancel"} : Under(c, o)' => Under(c, o)
  BY <1>0 DEF Complete, Goes, Refused, At, Under, Staged, CreateStage, StepAt, WorkTyped, Exchange, Resumes
<1> QED
  BY <1>1, <1>2, <1>3 DEF Quiet

\* The step of Freeze leaves the units of the lines alone.
LEMMA FreezeQuiet == ASSUME CoreInv, NEW c \in Exchanges, Freeze(c) PROVE Quiet(c)
<1>0. Staged(c) /\ WorkTyped /\ made[c] \in Exchange
  BY DEF CoreInv, Typed, WorkTyped
<1>1. UNCHANGED <<qty, returned>> /\ Only(c)
  BY <1>0 DEF Freeze, Goes, Refused, lineVars, Only, WorkTyped
<1>2. /\ made'[c].step \in Midway => made[c].step \in Midway /\ made'[c].plan = made[c].plan
      /\ Standing(c)' => Standing(c)
  BY <1>0 DEF Freeze, Goes, Refused, At, Staged, CreateStage, StepAt, Midway, Standing, WorkTyped, Exchange
<1>3. /\ pc'[c].cancel # "idle" => pc[c].cancel # "idle"
      /\ \A o \in {"create", "cancel"} : Under(c, o)' => Under(c, o)
  BY <1>0 DEF Freeze, Goes, Refused, At, Under, Staged, CreateStage, StepAt, WorkTyped, Exchange, Resumes
<1> QED
  BY <1>1, <1>2, <1>3 DEF Quiet

\* The step of CancelIn leaves the units of the lines alone.
LEMMA CancelInQuiet == ASSUME CoreInv, NEW c \in Exchanges, CancelIn(c) PROVE Quiet(c)
<1>0. Staged(c) /\ WorkTyped /\ made[c] \in Exchange
  BY DEF CoreInv, Typed, WorkTyped
<1>1. UNCHANGED <<qty, returned>> /\ Only(c)
  BY <1>0 DEF CancelIn, Goes, Refused, lineVars, Only, WorkTyped
<1>2. /\ made'[c].step \in Midway => made[c].step \in Midway /\ made'[c].plan = made[c].plan
      /\ Standing(c)' => Standing(c)
  BY <1>0 DEF CancelIn, Goes, Refused, At, Staged, CreateStage, StepAt, Midway, Standing, WorkTyped, Exchange
<1>3. /\ pc'[c].cancel # "idle" => pc[c].cancel # "idle"
      /\ \A o \in {"create", "cancel"} : Under(c, o)' => Under(c, o)
  BY <1>0 DEF CancelIn, Goes, Refused, At, Under, Staged, CreateStage, StepAt, WorkTyped, Exchange, Resumes
<1> QED
  BY <1>1, <1>2, <1>3 DEF Quiet

\* The step of CancelOut leaves the units of the lines alone.
LEMMA CancelOutQuiet == ASSUME CoreInv, NEW c \in Exchanges, CancelOut(c) PROVE Quiet(c)
<1>0. Staged(c) /\ WorkTyped /\ made[c] \in Exchange
  BY DEF CoreInv, Typed, WorkTyped
<1>1. UNCHANGED <<qty, returned>> /\ Only(c)
  BY <1>0 DEF CancelOut, Goes, Refused, lineVars, Only, WorkTyped
<1>2. /\ made'[c].step \in Midway => made[c].step \in Midway /\ made'[c].plan = made[c].plan
      /\ Standing(c)' => Standing(c)
  BY <1>0 DEF CancelOut, Goes, Refused, At, Staged, CreateStage, StepAt, Midway, Standing, WorkTyped, Exchange
<1>3. /\ pc'[c].cancel # "idle" => pc[c].cancel # "idle"
      /\ \A o \in {"create", "cancel"} : Under(c, o)' => Under(c, o)
  BY <1>0 DEF CancelOut, Goes, Refused, At, Under, Staged, CreateStage, StepAt, WorkTyped, Exchange, Resumes
<1> QED
  BY <1>1, <1>2, <1>3 DEF Quiet

\* The step of ReleaseNew leaves the units of the lines alone.
LEMMA ReleaseNewQuiet == ASSUME CoreInv, NEW c \in Exchanges, ReleaseNew(c) PROVE Quiet(c)
<1>0. Staged(c) /\ WorkTyped /\ made[c] \in Exchange
  BY DEF CoreInv, Typed, WorkTyped
<1>1. UNCHANGED <<qty, returned>> /\ Only(c)
  BY <1>0 DEF ReleaseNew, Goes, Refused, lineVars, Only, WorkTyped
<1>2. /\ made'[c].step \in Midway => made[c].step \in Midway /\ made'[c].plan = made[c].plan
      /\ Standing(c)' => Standing(c)
  BY <1>0 DEF ReleaseNew, Goes, Refused, At, Staged, CreateStage, StepAt, Midway, Standing, WorkTyped, Exchange
<1>3. /\ pc'[c].cancel # "idle" => pc[c].cancel # "idle"
      /\ \A o \in {"create", "cancel"} : Under(c, o)' => Under(c, o)
  BY <1>0 DEF ReleaseNew, Goes, Refused, At, Under, Staged, CreateStage, StepAt, WorkTyped, Exchange, Resumes
<1> QED
  BY <1>1, <1>2, <1>3 DEF Quiet

\* The step of RestoreResv leaves the units of the lines alone.
LEMMA RestoreResvQuiet == ASSUME CoreInv, NEW c \in Exchanges, RestoreResv(c) PROVE Quiet(c)
<1>0. Staged(c) /\ WorkTyped /\ made[c] \in Exchange
  BY DEF CoreInv, Typed, WorkTyped
<1>1. UNCHANGED <<qty, returned>> /\ Only(c)
  BY <1>0 DEF RestoreResv, Goes, Refused, lineVars, Only, WorkTyped
<1>2. /\ made'[c].step \in Midway => made[c].step \in Midway /\ made'[c].plan = made[c].plan
      /\ Standing(c)' => Standing(c)
  BY <1>0 DEF RestoreResv, Goes, Refused, At, Staged, CreateStage, StepAt, Midway, Standing, WorkTyped, Exchange
<1>3. /\ pc'[c].cancel # "idle" => pc[c].cancel # "idle"
      /\ \A o \in {"create", "cancel"} : Under(c, o)' => Under(c, o)
  BY <1>0 DEF RestoreResv, Goes, Refused, At, Under, Staged, CreateStage, StepAt, WorkTyped, Exchange, Resumes
<1> QED
  BY <1>1, <1>2, <1>3 DEF Quiet

\* The step of MoneyBack leaves the units of the lines alone.
LEMMA MoneyBackQuiet == ASSUME CoreInv, NEW c \in Exchanges, MoneyBack(c) PROVE Quiet(c)
<1>0. Staged(c) /\ WorkTyped /\ made[c] \in Exchange
  BY DEF CoreInv, Typed, WorkTyped
<1>1. UNCHANGED <<qty, returned>> /\ Only(c)
  BY <1>0 DEF MoneyBack, Goes, Refused, lineVars, Only, WorkTyped
<1>2. /\ made'[c].step \in Midway => made[c].step \in Midway /\ made'[c].plan = made[c].plan
      /\ Standing(c)' => Standing(c)
  BY <1>0 DEF MoneyBack, Goes, Refused, At, Staged, CreateStage, StepAt, Midway, Standing, WorkTyped, Exchange
<1>3. /\ pc'[c].cancel # "idle" => pc[c].cancel # "idle"
      /\ \A o \in {"create", "cancel"} : Under(c, o)' => Under(c, o)
  BY <1>0 DEF MoneyBack, Goes, Refused, At, Under, Staged, CreateStage, StepAt, WorkTyped, Exchange, Resumes
<1> QED
  BY <1>1, <1>2, <1>3 DEF Quiet

\* The step of Finish leaves the units of the lines alone.
LEMMA FinishQuiet == ASSUME CoreInv, NEW c \in Exchanges, Finish(c) PROVE Quiet(c)
<1>0. Staged(c) /\ WorkTyped /\ made[c] \in Exchange
  BY DEF CoreInv, Typed, WorkTyped
<1>1. UNCHANGED <<qty, returned>> /\ Only(c)
  BY <1>0 DEF Finish, Goes, Refused, lineVars, Only, WorkTyped
<1>2. /\ made'[c].step \in Midway => made[c].step \in Midway /\ made'[c].plan = made[c].plan
      /\ Standing(c)' => Standing(c)
  BY <1>0 DEF Finish, Goes, Refused, At, Staged, CreateStage, StepAt, Midway, Standing, WorkTyped, Exchange
<1>3. /\ pc'[c].cancel # "idle" => pc[c].cancel # "idle"
      /\ \A o \in {"create", "cancel"} : Under(c, o)' => Under(c, o)
  BY <1>0 DEF Finish, Goes, Refused, At, Under, Staged, CreateStage, StepAt, WorkTyped, Exchange, Resumes
<1> QED
  BY <1>1, <1>2, <1>3 DEF Quiet

\* The step of CompleteCancel leaves the units of the lines alone.
LEMMA CompleteCancelQuiet == ASSUME CoreInv, NEW c \in Exchanges, CompleteCancel(c) PROVE Quiet(c)
<1>0. Staged(c) /\ WorkTyped /\ made[c] \in Exchange
  BY DEF CoreInv, Typed, WorkTyped
<1>1. UNCHANGED <<qty, returned>> /\ Only(c)
  BY <1>0 DEF CompleteCancel, Goes, Refused, lineVars, Only, WorkTyped
<1>2. /\ made'[c].step \in Midway => made[c].step \in Midway /\ made'[c].plan = made[c].plan
      /\ Standing(c)' => Standing(c)
  BY <1>0 DEF CompleteCancel, Goes, Refused, At, Staged, CreateStage, StepAt, Midway, Standing, WorkTyped, Exchange
<1>3. /\ pc'[c].cancel # "idle" => pc[c].cancel # "idle"
      /\ \A o \in {"create", "cancel"} : Under(c, o)' => Under(c, o)
  BY <1>0 DEF CompleteCancel, Goes, Refused, At, Under, Staged, CreateStage, StepAt, WorkTyped, Exchange, Resumes
<1> QED
  BY <1>1, <1>2, <1>3 DEF Quiet

\* The step that ends the old line leaves the units of the lines alone.
LEMMA AdvanceOldQuiet == ASSUME CoreInv, NEW c \in Exchanges, Advance(c, "oldDone", "old_done", "content") PROVE Quiet(c)
<1>0. Staged(c) /\ WorkTyped /\ made[c] \in Exchange
  BY DEF CoreInv, Typed, WorkTyped
<1>1. UNCHANGED <<qty, returned>> /\ Only(c)
  BY <1>0 DEF Advance, Goes, Refused, lineVars, Only, WorkTyped
<1>2. /\ made'[c].step \in Midway => made[c].step \in Midway /\ made'[c].plan = made[c].plan
      /\ Standing(c)' => Standing(c)
  BY <1>0 DEF Advance, Goes, Refused, At, Staged, CreateStage, StepAt, Midway, Standing, WorkTyped, Exchange
<1>3. /\ pc'[c].cancel # "idle" => pc[c].cancel # "idle"
      /\ \A o \in {"create", "cancel"} : Under(c, o)' => Under(c, o)
  BY <1>0 DEF Advance, Goes, Refused, At, Under, Staged, CreateStage, StepAt, WorkTyped, Exchange, Resumes
<1> QED
  BY <1>1, <1>2, <1>3 DEF Quiet

\* The step that ends the insertion of the content leaves the units of the lines alone.
LEMMA AdvanceContentQuiet == ASSUME CoreInv, NEW c \in Exchanges, Advance(c, "contentDone", "content_inserted", "newRow") PROVE Quiet(c)
<1>0. Staged(c) /\ WorkTyped /\ made[c] \in Exchange
  BY DEF CoreInv, Typed, WorkTyped
<1>1. UNCHANGED <<qty, returned>> /\ Only(c)
  BY <1>0 DEF Advance, Goes, Refused, lineVars, Only, WorkTyped
<1>2. /\ made'[c].step \in Midway => made[c].step \in Midway /\ made'[c].plan = made[c].plan
      /\ Standing(c)' => Standing(c)
  BY <1>0 DEF Advance, Goes, Refused, At, Staged, CreateStage, StepAt, Midway, Standing, WorkTyped, Exchange
<1>3. /\ pc'[c].cancel # "idle" => pc[c].cancel # "idle"
      /\ \A o \in {"create", "cancel"} : Under(c, o)' => Under(c, o)
  BY <1>0 DEF Advance, Goes, Refused, At, Under, Staged, CreateStage, StepAt, WorkTyped, Exchange, Resumes
<1> QED
  BY <1>1, <1>2, <1>3 DEF Quiet

\* The step that ends the new line leaves the units of the lines alone.
LEMMA AdvanceNewQuiet == ASSUME CoreInv, NEW c \in Exchanges, Advance(c, "newDone", "new_done", "money") PROVE Quiet(c)
<1>0. Staged(c) /\ WorkTyped /\ made[c] \in Exchange
  BY DEF CoreInv, Typed, WorkTyped
<1>1. UNCHANGED <<qty, returned>> /\ Only(c)
  BY <1>0 DEF Advance, Goes, Refused, lineVars, Only, WorkTyped
<1>2. /\ made'[c].step \in Midway => made[c].step \in Midway /\ made'[c].plan = made[c].plan
      /\ Standing(c)' => Standing(c)
  BY <1>0 DEF Advance, Goes, Refused, At, Staged, CreateStage, StepAt, Midway, Standing, WorkTyped, Exchange
<1>3. /\ pc'[c].cancel # "idle" => pc[c].cancel # "idle"
      /\ \A o \in {"create", "cancel"} : Under(c, o)' => Under(c, o)
  BY <1>0 DEF Advance, Goes, Refused, At, Under, Staged, CreateStage, StepAt, WorkTyped, Exchange, Resumes
<1> QED
  BY <1>1, <1>2, <1>3 DEF Quiet

\* The step that ends the money leaves the units of the lines alone.
LEMMA AdvanceMoneyQuiet == ASSUME CoreInv, NEW c \in Exchanges, Advance(c, "moneyDone", "finances_done", "complete") PROVE Quiet(c)
<1>0. Staged(c) /\ WorkTyped /\ made[c] \in Exchange
  BY DEF CoreInv, Typed, WorkTyped
<1>1. UNCHANGED <<qty, returned>> /\ Only(c)
  BY <1>0 DEF Advance, Goes, Refused, lineVars, Only, WorkTyped
<1>2. /\ made'[c].step \in Midway => made[c].step \in Midway /\ made'[c].plan = made[c].plan
      /\ Standing(c)' => Standing(c)
  BY <1>0 DEF Advance, Goes, Refused, At, Staged, CreateStage, StepAt, Midway, Standing, WorkTyped, Exchange
<1>3. /\ pc'[c].cancel # "idle" => pc[c].cancel # "idle"
      /\ \A o \in {"create", "cancel"} : Under(c, o)' => Under(c, o)
  BY <1>0 DEF Advance, Goes, Refused, At, Under, Staged, CreateStage, StepAt, WorkTyped, Exchange, Resumes
<1> QED
  BY <1>1, <1>2, <1>3 DEF Quiet

\* A call that dies leaves the units of the lines alone.
LEMMA CrashQuiet == ASSUME CoreInv, NEW c \in Exchanges, NEW op \in {"create", "cancel"}, Crash(c, op) PROVE Quiet(c)
<1>0. Staged(c) /\ WorkTyped /\ made[c] \in Exchange
  BY DEF CoreInv, Typed, WorkTyped
<1>1. UNCHANGED <<qty, returned>> /\ Only(c)
  BY <1>0 DEF Crash, Goes, Refused, lineVars, Only, WorkTyped
<1>2. /\ made'[c].step \in Midway => made[c].step \in Midway /\ made'[c].plan = made[c].plan
      /\ Standing(c)' => Standing(c)
  BY <1>0 DEF Crash, Goes, Refused, At, Staged, CreateStage, StepAt, Midway, Standing, WorkTyped, Exchange
<1>3. /\ pc'[c].cancel # "idle" => pc[c].cancel # "idle"
      /\ \A o \in {"create", "cancel"} : Under(c, o)' => Under(c, o)
  BY <1>0 DEF Crash, Goes, Refused, At, Under, Staged, CreateStage, StepAt, WorkTyped, Exchange, Resumes
<1> QED
  BY <1>1, <1>2, <1>3 DEF Quiet

\* A request that is refused leaves the units of the lines alone.
LEMMA RefusedQuiet == ASSUME CoreInv, NEW c \in Exchanges, NEW op \in {"create", "cancel"}, Refused(c, op) PROVE Quiet(c)
<1>0. Staged(c) /\ WorkTyped /\ made[c] \in Exchange
  BY DEF CoreInv, Typed, WorkTyped
<1>1. UNCHANGED <<qty, returned>> /\ Only(c)
  BY <1>0 DEF Refused, Goes, lineVars, Only, WorkTyped
<1>2. /\ made'[c].step \in Midway => made[c].step \in Midway /\ made'[c].plan = made[c].plan
      /\ Standing(c)' => Standing(c)
  BY <1>0 DEF Refused, Goes, At, Staged, CreateStage, StepAt, Midway, Standing, WorkTyped, Exchange
<1>3. /\ pc'[c].cancel # "idle" => pc[c].cancel # "idle"
      /\ \A o \in {"create", "cancel"} : Under(c, o)' => Under(c, o)
  BY <1>0 DEF Refused, Goes, At, Under, Staged, CreateStage, StepAt, WorkTyped, Exchange, Resumes
<1> QED
  BY <1>1, <1>2, <1>3 DEF Quiet

\* While one handler has work, no other exchange of the order is midway.
LEMMA OthersRest ==
  ASSUME UnitInv, NEW c \in Exchanges, NEW op \in {"create", "cancel"}, Under(c, op),
         NEW d \in Exchanges, made[d].step \in Midway
  PROVE  d = c /\ op = "create"
<1>1. Under(d, "create")
  BY DEF Under, Midway
<1> QED
  BY <1>1 DEF UnitInv, Exclusive

\* One more handler has work: nobody else had.
LEMMA TakenUp ==
  ASSUME UnitInv, ExchangesApart, NEW c \in Exchanges, NEW op \in {"create", "cancel"}, Alone(c, op), Only(c),
         \A o \in {"create", "cancel"} : o # op /\ Under(c, o)' => Under(c, o)
  PROVE  Exclusive'
<1>1. \A d \in Exchanges, o \in {"create", "cancel"} : Under(d, o)' => Under(d, o) \/ (d = c /\ o = op)
  BY DEF Only, Under
<1>2. \A d \in Exchanges, o \in {"create", "cancel"} : Under(d, o) => d = c /\ o = op
  BY DEF Alone
<1> QED
  BY <1>1, <1>2 DEF Exclusive

\* The step of Plan keeps every unit in one hand.
LEMMA PlanUnits == ASSUME UnitInv, ExchangesApart, NEW c \in Exchanges, Plan(c) PROVE UnitInv'
<1>0. WorkTyped /\ CoreInv' /\ CoreInv /\ Staged(c)
  BY PlanCore DEF UnitInv, CoreInv, Typed
<1>1. PICK p : Validated(c, p)
  BY <1>0, PlanMakes
<1>2. UNCHANGED <<qty, returned, undo>> /\ pc' = [pc EXCEPT ![c].create = "claim"] /\ Alone(c, "create")
  BY DEF Plan, Goes, lineVars
<1>3. Only(c) /\ pc'[c].cancel = pc[c].cancel
  BY <1>0, <1>1, <1>2 DEF Validated, Only, WorkTyped
<1>4. made'[c].step = "validated" /\ made'[c].status = made[c].status
  BY <1>0, <1>1 DEF Validated, WorkTyped, Exchange
<1>5. Exclusive'
  <2>1. Under(c, "cancel")' => Under(c, "cancel")
    BY <1>2, <1>3 DEF Under
  <2> QED
    BY <1>2, <1>3, <2>1, TakenUp
<1>6. ClaimHeld'
  BY <1>2, <1>3, <1>4 DEF UnitInv, ClaimHeld, Only, Midway
<1>7. ASSUME ReturnsApart PROVE NewUnreturned' /\ NoUnitTwice'
  BY <1>7, <1>2, <1>3, <1>4 DEF UnitInv, NewUnreturned, NoUnitTwice, Only, Standing
<1> QED
  BY <1>0, <1>5, <1>6, <1>7 DEF UnitInv

\* The step of BeginCancel keeps every unit in one hand.
LEMMA BeginCancelUnits == ASSUME UnitInv, ExchangesApart, NEW c \in Exchanges, BeginCancel(c) PROVE UnitInv'
<1>0. WorkTyped /\ CoreInv' /\ CoreInv /\ Staged(c) /\ undo[c] \in Cancellation
  BY BeginCancelCore DEF UnitInv, CoreInv, Typed, WorkTyped
<1>1. UNCHANGED <<qty, returned, undo, made>> /\ (Standing(c) => returned[c] = 0)
  BY DEF BeginCancel, lineVars, NothingRestsOn
<1>2. Only(c) /\ pc'[c].create = pc[c].create
  BY <1>0, <1>1 DEF BeginCancel, Goes, Only, WorkTyped
<1>3. Exclusive'
  <2>1. Under(c, "create")' => Under(c, "create")
    BY <1>1, <1>2 DEF Under
  <2>2. CASE undo[c].step = "none"
    BY <1>2, <2>1, <2>2, TakenUp DEF BeginCancel
  <2>3. CASE undo[c].step # "none"
    <3>1. Under(c, "cancel")
      BY <1>0, <2>3 DEF BeginCancel, Under, Cancellation
    <3>2. \A d \in Exchanges, o \in {"create", "cancel"} : Under(d, o)' => Under(d, o)
      BY <1>1, <1>2, <2>1, <3>1 DEF Only, Under
    <3> QED
      BY <3>2 DEF UnitInv, Exclusive
  <2> QED
    BY <2>2, <2>3
<1>4. ClaimHeld'
  BY <1>1, <1>2 DEF UnitInv, ClaimHeld, Only
<1>5. ASSUME ReturnsApart PROVE NewUnreturned' /\ NoUnitTwice'
  BY <1>5, <1>1, <1>2 DEF UnitInv, NewUnreturned, NoUnitTwice, Only, Standing
<1> QED
  BY <1>0, <1>3, <1>4, <1>5 DEF UnitInv

\* The step of Claim keeps every unit in one hand.
LEMMA ClaimUnits == ASSUME UnitInv, NEW c \in Exchanges, Claim(c) PROVE UnitInv'
<1>0. /\ WorkTyped /\ LinesTyped /\ CoreInv' /\ CoreInv /\ Staged(c) /\ made[c] \in Exchange
      /\ made[c].step = "validated" /\ made[c].plan \in Plans
  <2>1. made[c].step = "validated" /\ CoreInv
    BY DEF UnitInv, CoreInv, Staged, CreateStage, StepAt, Claim, At
  <2> QED
    BY <2>1, ClaimCore, PlansOf DEF UnitInv, CoreInv, Typed, WorkTyped
<1>1. CASE Refused(c, "create")
  BY <1>0, <1>1, RefusedQuiet, QuietUnits
<1>2. CASE ~Refused(c, "create")
  <2> DEFINE l == made[c].plan.line
  <2>1. /\ qty[l] = made[c].plan.initial /\ made[c].plan.take + returned[l] <= qty[l]
        /\ qty' = [qty EXCEPT ![l] = made[c].plan.target] /\ UNCHANGED <<returned, undo>>
        /\ made' = [made EXCEPT ![c].step = "exchange_created", ![c].status = "completed",
                                ![c].id = 1 + Cardinality({d \in Exchanges : Claimed(d)})]
        /\ pc' = [pc EXCEPT ![c].create = "reserve"]
    BY <1>2, Zenon DEF Claim, Goes, Unclaimed
  <2>2. /\ l \in Lines /\ made[c].plan.target \in Nat /\ made[c].plan.take \in Nat /\ returned[l] \in Nat
        /\ made[c].plan.initial = made[c].plan.target + made[c].plan.take
    BY <1>0, ExchangeAssumption DEF Plans, Staged, PlanOK, LinesTyped
  <2>3. qty'[l] = made[c].plan.target /\ returned[l] <= qty'[l] /\ \A k \in Lines \ {l} : qty'[k] = qty[k]
    BY <1>0, <2>1, <2>2 DEF LinesTyped
  <2>4. made'[c].plan = made[c].plan /\ made'[c].step = "exchange_created"
    BY <1>0, <2>1 DEF WorkTyped, Exchange
  <2>5. Only(c) /\ pc'[c].cancel = pc[c].cancel
    BY <1>0, <2>1 DEF Only, WorkTyped
  <2>6. Under(c, "create") /\ \A d \in Exchanges, o \in {"create", "cancel"} : Under(d, o)' => Under(d, o)
    BY <1>0, <2>1, <2>5 DEF Only, Under
  <2>7. Exclusive'
    BY <2>6 DEF UnitInv, Exclusive
  <2>8. ClaimHeld'
    BY <2>3, <2>4, <2>5, <2>6, OthersRest DEF Only, ClaimHeld, Midway
  <2>9. ASSUME ReturnsApart PROVE NewUnreturned'
    <3>1. pc[c].cancel = "idle"
      BY <2>9, <2>6 DEF UnitInv, Exclusive, Under
    <3> QED
      BY <2>9, <2>1, <2>5, <3>1 DEF UnitInv, NewUnreturned, Only, Standing
  <2>10. ASSUME ReturnsApart PROVE NoUnitTwice'
    BY <2>10, <2>1, <2>3 DEF UnitInv, NoUnitTwice
  <2> QED
    BY <1>0, <2>7, <2>8, <2>9, <2>10 DEF UnitInv
<1> QED
  BY <1>1, <1>2

\* The step of SetQty keeps every unit in one hand.
LEMMA SetQtyUnits == ASSUME UnitInv, NEW c \in Exchanges, SetQty(c) PROVE UnitInv'
<1>0. /\ WorkTyped /\ LinesTyped /\ CoreInv' /\ CoreInv /\ Staged(c) /\ made[c] \in Exchange
      /\ made[c].step = "exchange_created"
  BY SetQtyCore DEF UnitInv, CoreInv, Typed, WorkTyped, Staged, CreateStage, StepAt, SetQty, At
<1>1. qty[made[c].plan.line] = made[c].plan.target
  BY <1>0 DEF UnitInv, ClaimHeld, Midway
<1>2. UNCHANGED <<qty, returned, made, undo>> /\ \E place : pc' = [pc EXCEPT ![c].create = place]
  BY <1>0, <1>1 DEF SetQty, Goes, Refused, LinesTyped, lineVars
<1>3. Quiet(c)
  <2>1. Only(c) /\ pc'[c].cancel = pc[c].cancel
    BY <1>0, <1>2 DEF Only, WorkTyped
  <2>2. Under(c, "create")
    BY <1>0 DEF Under
  <2> QED
    BY <1>2, <2>1, <2>2 DEF Quiet, Under, Standing
<1> QED
  BY <1>0, <1>3, QuietUnits

\* The step of InsertContent keeps every unit in one hand.
LEMMA InsertContentUnits == ASSUME UnitInv, NEW c \in Exchanges, InsertContent(c) PROVE UnitInv'
<1>0. /\ WorkTyped /\ LinesTyped /\ CoreInv' /\ CoreInv /\ Staged(c) /\ made[c].step = "old_done" /\ c \in Lines
      /\ made[c].plan \in Plans /\ made[c].plan.line # c
  <2>1. made[c].step = "old_done" /\ CoreInv
    BY DEF UnitInv, CoreInv, Staged, CreateStage, StepAt, InsertContent, At
  <2> QED
    BY <2>1, PlansOf, InsertContentCore DEF UnitInv, CoreInv, Typed, Staged, PlanOK, Lines
<1>1. UNCHANGED <<returned, made, undo>> /\ pc' = [pc EXCEPT ![c].create = "promise"]
  BY DEF InsertContent, Goes
<1>2. Only(c) /\ pc'[c].cancel = pc[c].cancel
  BY <1>0, <1>1 DEF Only, WorkTyped
<1>3. Under(c, "create")
  BY <1>0 DEF Under
<1>4. qty' = qty \/ (mark[c] = "absent" /\ qty' = [qty EXCEPT ![c] = made[c].plan.give])
  BY DEF InsertContent
<1>5. /\ \A k \in Lines \ {c} : qty'[k] = qty[k]
      /\ ReturnsApart => returned[c] <= qty'[c]
  <2>1. (ReturnsApart => returned[c] <= qty[c]) /\ returned[c] \in Nat /\ qty[c] \in Nat
    BY <1>0 DEF UnitInv, NoUnitTwice, LinesTyped
  <2>2. mark[c] = "absent" => qty[c] = 0
    BY <1>0 DEF Staged, NewLineOK
  <2>3. made[c].plan.give \in Nat
    BY <1>0, ExchangeAssumption DEF Plans
  <2> QED
    BY <1>0, <1>4, <2>1, <2>2, <2>3 DEF LinesTyped
<1>6. \A d \in Exchanges, o \in {"create", "cancel"} : Under(d, o)' => Under(d, o)
  BY <1>1, <1>2, <1>3 DEF Only, Under
<1>7. Exclusive'
  BY <1>6 DEF UnitInv, Exclusive
<1>10. ASSUME ReturnsApart PROVE NewUnreturned'
  BY <1>10, <1>1, <1>2, <1>6 DEF UnitInv, NewUnreturned, Only, Standing
<1>8. ClaimHeld'
  <2> SUFFICES ASSUME NEW d \in Exchanges, made[d].step \in Midway PROVE qty'[made[d].plan.line] = made[d].plan.target
    BY <1>1 DEF ClaimHeld
  <2>1. d = c
    BY <1>3, OthersRest
  <2>2. made[c].plan.line \in Lines \ {c}
    BY <1>0 DEF Plans
  <2>3. qty[made[c].plan.line] = made[c].plan.target
    BY <2>1 DEF UnitInv, ClaimHeld
  <2> QED
    BY <1>5, <2>1, <2>2, <2>3
<1>9. ASSUME ReturnsApart PROVE NoUnitTwice'
  BY <1>9, <1>1, <1>5 DEF UnitInv, NoUnitTwice
<1> QED
  BY <1>0, <1>7, <1>8, <1>9, <1>10 DEF UnitInv

\* The step of EmptyNew keeps every unit in one hand.
LEMMA EmptyNewUnits == ASSUME UnitInv, NEW c \in Exchanges, EmptyNew(c) PROVE UnitInv'
<1>0. /\ WorkTyped /\ LinesTyped /\ CoreInv' /\ CoreInv /\ Staged(c) /\ Undoing(c) /\ c \in Lines
  BY EmptyNewCore DEF UnitInv, CoreInv, Typed, Staged, CancelStage, EmptyNew, At, Lines
<1>1. /\ UNCHANGED <<returned, made, undo>> /\ pc' = [pc EXCEPT ![c].cancel = "oldQty"]
      /\ qty' = [qty EXCEPT ![c] = 0]
  BY DEF EmptyNew, Goes
<1>2. Only(c) /\ pc'[c].create = pc[c].create
  BY <1>0, <1>1 DEF Only, WorkTyped
<1>3. Under(c, "cancel")
  BY DEF EmptyNew, At, Under
<1>4. ReturnsApart => returned[c] = 0
  BY <1>0 DEF UnitInv, NewUnreturned, EmptyNew, At, Undoing
<1>5. \A d \in Exchanges, o \in {"create", "cancel"} : Under(d, o)' => Under(d, o)
  BY <1>1, <1>2, <1>3 DEF Only, Under
<1>6. Exclusive'
  BY <1>5 DEF UnitInv, Exclusive
<1>7. ClaimHeld'
  BY <1>1, <1>3, OthersRest DEF ClaimHeld
<1>8. ASSUME ReturnsApart PROVE NewUnreturned'
  BY <1>8, <1>1, <1>2, <1>4 DEF UnitInv, NewUnreturned, Only, Standing
<1>9. ASSUME ReturnsApart PROVE NoUnitTwice'
  BY <1>9, <1>0, <1>1, <1>4 DEF UnitInv, NoUnitTwice, LinesTyped
<1> QED
  BY <1>0, <1>6, <1>7, <1>8, <1>9 DEF UnitInv

\* The step of RestoreQty keeps every unit in one hand.
LEMMA RestoreQtyUnits == ASSUME UnitInv, NEW c \in Exchanges, RestoreQty(c) PROVE UnitInv'
<1>0. /\ WorkTyped /\ LinesTyped /\ CoreInv' /\ CoreInv /\ Staged(c) /\ Undoing(c) /\ undo[c] \in Cancellation
      /\ made[c].plan \in Plans
  <2>1. Undoing(c) /\ CoreInv /\ Staged(c)
    BY DEF UnitInv, CoreInv, Staged, CancelStage, RestoreQty, At
  <2>2. made[c].step # "none"
    BY <2>1 DEF Staged, CreateStage, Undoing, Standing
  <2> QED
    BY <2>1, <2>2, PlansOf, RestoreQtyCore DEF UnitInv, CoreInv, Typed, WorkTyped
<1>1. CASE Refused(c, "cancel")
  BY <1>0, <1>1, RefusedQuiet, QuietUnits
<1>2. CASE ~Refused(c, "cancel")
  <2> DEFINE l == made[c].plan.line
  <2>1. /\ qty[l] \in {undo[c].target, undo[c].baseline} /\ qty' = [qty EXCEPT ![l] = undo[c].target]
        /\ UNCHANGED <<returned, made, undo>> /\ pc' = [pc EXCEPT ![c].cancel = "oldResv"]
    BY <1>2, Zenon DEF RestoreQty, Restores, Goes
  <2>2. Only(c) /\ pc'[c].create = pc[c].create
    BY <1>0, <2>1 DEF Only, WorkTyped
  <2>3. undo[c].target = undo[c].baseline + made[c].plan.take /\ made[c].plan.take \in Nat /\ l \in Lines
    BY <1>0, ExchangeAssumption DEF Staged, CancelStage, Undoing, Plans
  <2>4. Under(c, "cancel")
    BY DEF RestoreQty, At, Under
  <2>5. \A k \in Lines : qty'[k] >= qty[k]
    BY <1>0, <2>1, <2>3 DEF LinesTyped, Cancellation
  <2>6. \A d \in Exchanges, o \in {"create", "cancel"} : Under(d, o)' => Under(d, o)
    BY <2>1, <2>2, <2>4 DEF Only, Under
  <2>7. Exclusive'
    BY <2>6 DEF UnitInv, Exclusive
  <2>8. ClaimHeld'
    BY <2>1, <2>4, OthersRest DEF ClaimHeld
  <2>9. ASSUME ReturnsApart PROVE NewUnreturned'
    BY <2>9, <2>1, <2>2, <2>6 DEF UnitInv, NewUnreturned, Only, Standing, RestoreQty, At
  <2>10. ASSUME ReturnsApart PROVE NoUnitTwice'
    <3>1. \A k \in Lines : qty[k] \in Nat /\ qty'[k] \in Nat /\ returned[k] \in Nat
      BY <2>10, <1>0 DEF LinesTyped, CoreInv, Typed
    <3> QED
      BY <2>10, <2>1, <2>5, <3>1 DEF UnitInv, NoUnitTwice
  <2> QED
    BY <1>0, <2>7, <2>8, <2>9, <2>10 DEF UnitInv
<1> QED
  BY <1>1, <1>2

\* The step of TakeReturn keeps every unit in one hand.
LEMMA TakeReturnUnits == ASSUME UnitInv, NEW l \in Lines, TakeReturn(l) PROVE UnitInv'
<1>0. LinesTyped /\ CoreInv'
  BY TakeReturnCore DEF UnitInv, CoreInv, Typed
<1>1. UNCHANGED <<qty, made, undo, pc>> /\ returned' = [returned EXCEPT ![l] = @ + 1] /\ returned[l] + 1 <= qty[l]
  BY DEF TakeReturn
<1>2. Exclusive' /\ ClaimHeld'
  BY <1>1 DEF UnitInv, Exclusive, ClaimHeld, Under
<1>3. ASSUME ReturnsApart PROVE NewUnreturned'
  <2>1. l \in Exchanges => pc[l].cancel = "idle"
    BY <1>3 DEF TakeReturn, Under
  <2> QED
    BY <1>3, <1>0, <1>1, <2>1 DEF UnitInv, NewUnreturned, Standing, LinesTyped
<1>4. ASSUME ReturnsApart PROVE NoUnitTwice'
  BY <1>4, <1>0, <1>1 DEF UnitInv, NoUnitTwice, LinesTyped
<1> QED
  BY <1>0, <1>2, <1>3, <1>4 DEF UnitInv

\* The step of CancelReturn keeps every unit in one hand.
LEMMA CancelReturnUnits == ASSUME UnitInv, NEW l \in Lines, CancelReturn(l) PROVE UnitInv'
<1>0. LinesTyped /\ CoreInv'
  BY CancelReturnCore DEF UnitInv, CoreInv, Typed
<1>1. UNCHANGED <<qty, made, undo, pc>> /\ returned' = [returned EXCEPT ![l] = @ - 1] /\ returned[l] > 0
  BY DEF CancelReturn
<1>2. Exclusive' /\ ClaimHeld'
  BY <1>1 DEF UnitInv, Exclusive, ClaimHeld, Under
<1>3. ASSUME ReturnsApart PROVE NewUnreturned'
  <2>1. l \in Exchanges => ~(pc[l].cancel # "idle" /\ Standing(l))
    BY <1>3, <1>0, <1>1 DEF UnitInv, NewUnreturned, LinesTyped
  <2> QED
    BY <1>3, <1>0, <1>1, <2>1 DEF UnitInv, NewUnreturned, Standing, LinesTyped
<1>4. ASSUME ReturnsApart PROVE NoUnitTwice'
  BY <1>4, <1>0, <1>1 DEF UnitInv, NoUnitTwice, LinesTyped
<1> QED
  BY <1>0, <1>2, <1>3, <1>4 DEF UnitInv

\* The steps that touch the units of a line, or take an exchange up, are these.
LEMMA QuietWorks ==
  ASSUME CoreInv, NEW c \in Exchanges, Works(c)
  PROVE  \/ Quiet(c) \/ Plan(c) \/ BeginCancel(c) \/ Claim(c) \/ SetQty(c) \/ InsertContent(c) \/ EmptyNew(c)
         \/ RestoreQty(c)
<1>1. CASE Creates(c)
  BY <1>1, ReserveQuiet, OldRowQuiet, InsertInQuiet, ApplyInQuiet, AdvanceOldQuiet, PromiseQuiet,
     AdvanceContentQuiet, NewRowQuiet, InsertOutQuiet, ApplyOutQuiet, LinkOutQuiet, AdvanceNewQuiet, BookMoneyQuiet,
     SetTotalQuiet, AdvanceMoneyQuiet, CompleteQuiet DEF Creates
<1>2. CASE Cancels(c)
  BY <1>2, FreezeQuiet, CancelInQuiet, CancelOutQuiet, ReleaseNewQuiet, RestoreResvQuiet, MoneyBackQuiet,
     FinishQuiet, CompleteCancelQuiet DEF Cancels
<1> QED
  BY <1>1, <1>2, RetryQuiet, DropQuiet, CrashQuiet DEF Works

\* Every step keeps every unit in one hand, when one exchange is worked on at a time.
LEMMA UnitsStep == ASSUME UnitInv, ExchangesApart, [Next]_vars PROVE UnitInv'
<1>1. CoreInv /\ CoreInv'
  BY CoreStep DEF UnitInv
<1>2. CASE UNCHANGED vars
  BY <1>1, <1>2 DEF vars, lineVars, UnitInv, Exclusive, ClaimHeld, NewUnreturned, NoUnitTwice, Under, Standing
<1>3. ASSUME NEW c \in Exchanges, Works(c) PROVE UnitInv'
  BY <1>1, <1>3, QuietWorks, QuietUnits, PlanUnits, BeginCancelUnits, ClaimUnits, SetQtyUnits,
     InsertContentUnits, EmptyNewUnits, RestoreQtyUnits
<1>4. ASSUME NEW l \in Lines, TakeReturn(l) \/ CancelReturn(l) PROVE UnitInv'
  BY <1>4, TakeReturnUnits, CancelReturnUnits
<1> QED
  BY <1>2, <1>3, <1>4 DEF Next, Works

\* At first every unit is in one hand: nothing was returned.
LEMMA UnitsInit == Init => UnitInv
<1> SUFFICES ASSUME Init PROVE UnitInv
  OBVIOUS
<1>1. CoreInv
  BY CoreInit
<1>2. \A c \in Exchanges : /\ made[c].step = "none" /\ pc[c] = [create |-> "idle", cancel |-> "idle"]
                           /\ undo[c].step = "none"
  BY DEF Init
<1>3. \A c \in Exchanges, o \in {"create", "cancel"} : ~Under(c, o)
  BY <1>2 DEF Under
<1>4. NoUnitTwice
  BY <1>1 DEF Init, NoUnitTwice, CoreInv, Typed, LinesTyped
<1> QED
  BY <1>1, <1>2, <1>3, <1>4 DEF UnitInv, Exclusive, ClaimHeld, NewUnreturned, Midway

\* No unit is given back twice, by a return and by an exchange, whatever calls die
\* and are repeated: a shop that works on one exchange of the order at a time and
\* does not return goods of a line being cancelled needs no more than the claim of
\* the exchange and that of the return (returns-exchanges.ts:3972-4003, 534-560).
THEOREM UnitsOnce ==
  ASSUME ExchangesApart, ReturnsApart
  PROVE  Spec => []NoUnitTwice
<1>1. UnitInv /\ [Next]_vars => UnitInv'
  BY UnitsStep
<1>2. UnitInv => NoUnitTwice
  BY DEF UnitInv
<1> QED
  BY UnitsInit, <1>1, <1>2, PTL DEF Spec

-----------------------------------------------------------------------------
(* The shelf, whoever works beside whom *)

\* What a reservation adds to the units in a status, and an event to the units
\* taken back and to those lost.
Part(row, st) == IF row.status = st THEN row.qty ELSE 0
InStatus(rows, st) == [l \in Lines |-> Part(rows[l], st)]
TakenIn(c) == IF made[c].in = "applied" THEN made[c].plan.take ELSE 0
TakenUnits(rows) == [c \in Exchanges |-> IF rows[c].in = "applied" THEN rows[c].plan.take ELSE 0]
LostIn(c) == IF made[c].out = "cancelled" /\ made[c].movement = "inserted" THEN made[c].plan.give ELSE 0
LostUnits(rows) ==
  [c \in Exchanges |-> IF rows[c].out = "cancelled" /\ rows[c].movement = "inserted" THEN rows[c].plan.give ELSE 0]

Active == Sum(InStatus(resv, "active"), Lines)
Shipped == Sum(InStatus(resv, "fulfilled"), Lines)
TakenBack == Sum(TakenUnits(made), Exchanges)
Missing == Sum(LostUnits(made), Exchanges)

\* No row reserves more than its line was ever ordered in.
Cap(l) == IF l \in First THEN Ordered[l] ELSE IF made[l].step = "none" THEN 0 ELSE made[l].plan.give
Capped == \A l \in Lines : resv[l].qty <= Cap(l)

Counted == stock.reserved = Active /\ stock.quantity = InStock - Shipped + TakenBack - Missing
\* An exchange that has claimed nothing has no events; goods leave by a movement.
Orderly(c) ==
  /\ made[c].id = 0 => /\ made[c].in = "none" /\ made[c].out = "none"
                       /\ made[c].money = FALSE /\ made[c].linked = FALSE /\ made[c].oldRow = FALSE
  /\ made[c].out = "applied" => made[c].movement # "none"
  /\ made[c].out \in {"none", "pending"} => made[c].movement = "none"
EventRows(c) ==
  /\ Orderly(c)
  /\ made[c].out = "applied" => resv[c] = [status |-> "fulfilled", qty |-> made[c].plan.give]
  /\ pc[c].create = "applyIn" => made[c].in # "none"
  /\ made[c].step # "none" => made[c].plan.snapshot.qty <= Cap(made[c].plan.line)
ShelfInv == Counted /\ Capped /\ \A c \in Exchanges : EventRows(c)

\* Sums are taken over finite sets.
LEMMA LinesFinite == IsFiniteSet(Lines) /\ IsFiniteSet(Exchanges) /\ IsFiniteSet(First)
BY ExchangeAssumption, FS_Union DEF Lines

\* What a row adds is a number.
LEMMA PartNat ==
  ASSUME LinesTyped, NEW st, NEW l \in Lines
  PROVE  Part(resv[l], st) \in Nat /\ InStatus(resv, st)[l] = Part(resv[l], st)
BY DEF LinesTyped, Part, InStatus

\* One row changes: what it adds changes.
LEMMA RowChanges ==
  ASSUME LinesTyped, LinesTyped', NEW l \in Lines, \A k \in Lines \ {l} : resv'[k] = resv[k]
  PROVE  /\ Active' = Active - Part(resv[l], "active") + Part(resv'[l], "active")
         /\ Shipped' = Shipped - Part(resv[l], "fulfilled") + Part(resv'[l], "fulfilled")
<1>1. ASSUME NEW st
      PROVE  Sum(InStatus(resv', st), Lines) = Sum(InStatus(resv, st), Lines) - Part(resv[l], st) + Part(resv'[l], st)
  <2> DEFINE f == InStatus(resv, st)
             g == InStatus(resv', st)
  <2>1. \A k \in Lines : f[k] = Part(resv[k], st) /\ g[k] = Part(resv'[k], st)
    BY DEF InStatus
  <2>2. \A k \in Lines : f[k] \in Int /\ g[k] \in Int
    BY <2>1 DEF LinesTyped, Part
  <2>3. \A k \in Lines \ {l} : g[k] = f[k]
    BY <2>1
  <2> HIDE DEF f, g
  <2>4. Sum(g, Lines) = Sum(f, Lines) - f[l] + g[l]
    BY <2>2, <2>3, LinesFinite, SumPoint
  <2> QED
    BY <2>1, <2>4 DEF f, g
<1> QED
  BY <1>1 DEF Active, Shipped

\* The sums over the rows follow the rows.
LEMMA RowsKept == ASSUME resv' = resv PROVE Active' = Active /\ Shipped' = Shipped
BY DEF Active, Shipped

\* What an event adds to the units taken back, and to those lost, is a number.
LEMMA TakenNat ==
  ASSUME CoreInv, NEW c \in Exchanges, Orderly(c)
  PROVE  TakenIn(c) \in Nat /\ TakenUnits(made)[c] = TakenIn(c) /\ LostIn(c) \in Nat /\ LostUnits(made)[c] = LostIn(c)
<1>1. made[c].in = "applied" \/ made[c].out = "cancelled" => made[c].plan \in Plans
  BY PlansOf DEF Orderly, CoreInv, Staged, CreateStage
<1>2. \A p \in Plans : p.take \in Nat /\ p.give \in Nat
  BY ExchangeAssumption DEF Plans
<1> QED
  BY <1>1, <1>2 DEF TakenIn, TakenUnits, LostIn, LostUnits

\* One event changes: what it adds changes.
LEMMA EventChanges ==
  ASSUME CoreInv, CoreInv', NEW c \in Exchanges, Only(c),
         \A d \in Exchanges : Orderly(d), Orderly(c)'
  PROVE  /\ TakenBack' = TakenBack - TakenIn(c) + TakenIn(c)'
         /\ Missing' = Missing - LostIn(c) + LostIn(c)'
         /\ TakenIn(c)' \in Int /\ LostIn(c)' \in Int
<1>0. /\ made'[c].in = "applied" => made'[c].plan.take \in Int
      /\ made'[c].out = "cancelled" => made'[c].plan.give \in Int
  <2>1. made'[c].in = "applied" \/ made'[c].out = "cancelled" => made'[c].plan \in Plans
    BY DEF Orderly, CoreInv, Staged, CreateStage, Typed, WorkTyped, Exchange
  <2>2. \A p \in Plans : p.take \in Nat /\ p.give \in Nat
    BY ExchangeAssumption DEF Plans
  <2> QED
    BY <2>1, <2>2
<1>1. TakenBack' = TakenBack - TakenIn(c) + TakenIn(c)' /\ TakenIn(c)' \in Int
  <2> DEFINE f == TakenUnits(made)
             g == TakenUnits(made')
  <2>1. \A d \in Exchanges : f[d] \in Int /\ f[d] = TakenIn(d)
    BY TakenNat
  <2>2. \A d \in Exchanges \ {c} : g[d] = f[d]
    BY DEF TakenUnits, Only
  <2>3. g[c] = TakenIn(c)' /\ TakenIn(c)' \in Int
    BY <1>0 DEF TakenIn, TakenUnits
  <2>4. TakenBack' = Sum(g, Exchanges) /\ TakenBack = Sum(f, Exchanges)
    BY DEF TakenBack
  <2> HIDE DEF f, g
  <2> QED
    BY <2>1, <2>2, <2>3, <2>4, LinesFinite, SumPoint
<1>2. Missing' = Missing - LostIn(c) + LostIn(c)' /\ LostIn(c)' \in Int
  <2> DEFINE f == LostUnits(made)
             g == LostUnits(made')
  <2>1. \A d \in Exchanges : f[d] \in Int /\ f[d] = LostIn(d)
    BY TakenNat
  <2>2. \A d \in Exchanges \ {c} : g[d] = f[d]
    BY DEF LostUnits, Only
  <2>3. g[c] = LostIn(c)' /\ LostIn(c)' \in Int
    BY <1>0 DEF LostIn, LostUnits
  <2>4. Missing' = Sum(g, Exchanges) /\ Missing = Sum(f, Exchanges)
    BY DEF Missing
  <2> HIDE DEF f, g
  <2> QED
    BY <2>1, <2>2, <2>3, <2>4, LinesFinite, SumPoint
<1> QED
  BY <1>1, <1>2

\* The sums of the shelf are numbers.
LEMMA SumsTyped ==
  ASSUME CoreInv, \A c \in Exchanges : Orderly(c)
  PROVE  Active \in Nat /\ Shipped \in Nat /\ TakenBack \in Nat /\ Missing \in Nat
<1>1. \A l \in Lines : InStatus(resv, "active")[l] \in Nat /\ InStatus(resv, "fulfilled")[l] \in Nat
  BY PartNat DEF CoreInv, Typed
<1>2. \A c \in Exchanges : TakenUnits(made)[c] \in Nat /\ LostUnits(made)[c] \in Nat
  BY TakenNat
<1> QED
  BY <1>1, <1>2, LinesFinite, SumNat DEF Active, Shipped, TakenBack, Missing, Sum

\* The shelf holds whatever the lines can be reserved in, besides what is lost.
LEMMA CapsFit ==
  ASSUME CoreInv, \A d \in Exchanges : Orderly(d), NEW c \in Exchanges, made[c].step # "none"
  PROVE  Sum([l \in Lines |-> Cap(l)], Lines) + Missing <= InStock /\ \A l \in Lines : Cap(l) \in Nat
<1> DEFINE f == [l \in Lines |-> Cap(l)]
<1>1. \A d \in Exchanges : d \notin First /\ d \in Lines
  BY ExchangeAssumption DEF Lines
<1>2. \A d \in Exchanges : Cap(d) = 0 \/ (Cap(d) \in Gives /\ Cap(d) \in Nat)
  <2> TAKE d \in Exchanges
  <2>1. made[d].step # "none" => made[d].plan.give \in Gives
    BY PlansOf DEF Plans
  <2> QED
    BY <1>1, <2>1, ExchangeAssumption DEF Cap
<1>3. Cap(c) \in Gives /\ Cap(c) \in Nat \ {0}
  BY <1>1, PlansOf, ExchangeAssumption DEF Cap, Plans
<1>4. \A l \in Lines : Cap(l) \in Nat
  BY <1>2, ExchangeAssumption DEF Lines, Cap
<1>5. \A l \in Lines : f[l] = Cap(l) /\ f[l] \in Nat
  BY <1>4
<1> HIDE DEF f
<1>6. PICK e \in Exchanges : \A d \in Exchanges : f[d] <= f[e]
  <2>1. \A d \in Exchanges : f[d] \in Int
    BY <1>1, <1>5
  <2> QED
    BY <2>1, LinesFinite, HasGreatest
<1> DEFINE m == f[e]
<1>7. m \in Gives /\ m \in Nat /\ \A d \in Exchanges : f[d] <= m
  <2>1. f[c] <= f[e] /\ f[c] = Cap(c) /\ f[e] = Cap(e)
    BY <1>1, <1>5, <1>6
  <2> QED
    BY <1>2, <1>3, <1>6, <2>1
<1> HIDE DEF m
<1>8. Sum(f, Exchanges) <= m * Cardinality(Exchanges)
  <2>1. \A d \in Exchanges : f[d] \in Int /\ f[d] <= m
    BY <1>1, <1>5, <1>7
  <2> QED
    BY <1>7, <2>1, LinesFinite, SumAtMost
<1>9. Sum(f, First) = OrderedUnits(First)
  <2>1. \A l \in First : f[l] \in Int /\ f[l] = Ordered[l]
    BY <1>5 DEF Cap, Lines
  <2> QED
    BY <2>1, LinesFinite, SumSame, OrderedIs DEF Sum
<1>10. Sum(f, Lines) = Sum(f, First) + Sum(f, Exchanges)
  <2>1. First \cap Exchanges = {} /\ Lines = First \cup Exchanges
    BY ExchangeAssumption DEF Lines
  <2>2. \A x \in First \cup Exchanges : f[x] \in Int
    BY <1>5, <2>1
  <2>3. Sum(f, First \cup Exchanges) = Sum(f, First) + Sum(f, Exchanges)
    BY <2>1, <2>2, LinesFinite, SumUnion DEF Sum
  <2> QED
    BY <2>1, <2>3
<1>11. Sum(f, First) \in Int /\ Sum(f, Exchanges) \in Int /\ m * Cardinality(Exchanges) \in Int
  <2>1. \A l \in First : f[l] \in Int
    BY <1>5 DEF Lines
  <2>2. \A l \in Exchanges : f[l] \in Int
    BY <1>1, <1>5
  <2>3. Cardinality(Exchanges) \in Nat
    BY LinesFinite, FS_CardinalityType
  <2> QED
    BY <1>7, <2>1, <2>2, <2>3, LinesFinite, SumType DEF Sum
<1>12. OrderedUnits(First) + 2 * (m * Cardinality(Exchanges)) <= InStock
  BY <1>7, StockAssumption
<1>13. Missing <= Sum(f, Exchanges) /\ Missing \in Int
  <2>1. \A d \in Exchanges : LostUnits(made)[d] \in Nat /\ LostUnits(made)[d] = LostIn(d)
    BY TakenNat
  <2>2. \A d \in Exchanges : LostIn(d) <= Cap(d)
    <3> TAKE d \in Exchanges
    <3>1. made[d].out = "cancelled" => made[d].step # "none"
      BY DEF Orderly, CoreInv, Staged, CreateStage
    <3> QED
      BY <1>1, <1>4, <3>1 DEF LostIn, Cap
  <2>3. \A d \in Exchanges : LostUnits(made)[d] \in Int /\ f[d] \in Int /\ LostUnits(made)[d] <= f[d]
    BY <1>1, <1>5, <2>1, <2>2
  <2> QED
    BY <2>3, LinesFinite, SumLeq, SumType DEF Missing, Sum
<1>14. Sum(f, Lines) + Missing <= InStock
  BY <1>8, <1>9, <1>10, <1>11, <1>12, <1>13, ExchangeAssumption
<1> QED
  BY <1>4, <1>14 DEF f

\* An active row is on the shelf: its units can leave it and be released.
LEMMA RowOnShelf ==
  ASSUME CoreInv, ShelfInv, NEW c \in Exchanges, made[c].step # "none", NEW l \in Lines, resv[l].status = "active"
  PROVE  stock.quantity - resv[l].qty >= 0 /\ stock.reserved - resv[l].qty >= 0
<1> DEFINE f == InStatus(resv, "fulfilled")
           g == [f EXCEPT ![l] = resv[l].qty]
           h == [k \in Lines |-> Cap(k)]
<1>0. LinesTyped /\ \A d \in Exchanges : Orderly(d)
  BY DEF CoreInv, Typed, ShelfInv, EventRows
<1>1. \A k \in Lines : f[k] \in Nat /\ (f[k] = 0 \/ f[k] = resv[k].qty) /\ resv[k].qty \in Nat
  BY <1>0, PartNat DEF Part, LinesTyped
<1>2. f[l] = 0 /\ f = [k \in Lines |-> f[k]]
  BY DEF InStatus, Part
<1> HIDE DEF f
<1>3. g[l] = resv[l].qty /\ (\A k \in Lines \ {l} : g[k] = f[k]) /\ \A k \in Lines : g[k] \in Nat
  BY <1>1, <1>2
<1>4. \A k \in Lines : h[k] = Cap(k) /\ h[k] \in Nat /\ g[k] <= h[k]
  <2>1. \A k \in Lines : Cap(k) \in Nat /\ resv[k].qty <= Cap(k)
    BY <1>0, CapsFit DEF ShelfInv, Capped
  <2> QED
    BY <1>1, <1>3, <2>1
<1>5. Sum(h, Lines) + Missing <= InStock
  BY <1>0, CapsFit
<1> HIDE DEF g, h
<1>6. Sum(g, Lines) = Sum(f, Lines) - f[l] + g[l]
  <2>1. \A k \in Lines : f[k] \in Int /\ g[k] \in Int
    BY <1>1, <1>3
  <2> QED
    BY <1>3, <2>1, LinesFinite, SumPoint
<1>7. Sum(g, Lines) <= Sum(h, Lines) /\ Sum(g, Lines) \in Int /\ Sum(h, Lines) \in Int
  BY <1>3, <1>4, LinesFinite, SumLeq, SumType DEF Sum
<1>8. Shipped + resv[l].qty + Missing <= InStock
  <2>1. Shipped = Sum(f, Lines) /\ Sum(f, Lines) \in Int
    BY <1>1, LinesFinite, SumType DEF Shipped, f, Sum
  <2> QED
    BY <1>0, <1>1, <1>2, <1>3, <1>5, <1>6, <1>7, <2>1, SumsTyped, ExchangeAssumption
<1>9. resv[l].qty <= Active
  <2>1. InStatus(resv, "active")[l] = resv[l].qty
    BY DEF InStatus, Part
  <2>2. \A k \in Lines : InStatus(resv, "active")[k] \in Nat
    BY <1>0, PartNat
  <2>3. InStatus(resv, "active")[l] <= Active
    BY <2>2, LinesFinite, SumBounds DEF Active, Sum
  <2> QED
    BY <2>1, <2>3
<1> QED
  BY <1>0, <1>1, <1>8, <1>9, SumsTyped, ExchangeAssumption DEF ShelfInv, Counted

\* A plan is kept, and with it what the lines can be reserved in.
LEMMA CapsKept ==
  ASSUME CoreInv, CoreInv', NEW c \in Exchanges, Only(c), made[c].step # "none", made'[c].plan = made[c].plan
  PROVE  (\A l \in Lines : Cap(l)' = Cap(l)) /\ made'[c].step # "none"
<1>1. made'[c].step # "none"
  BY DEF CoreInv, Staged, CreateStage
<1>2. \A d \in Exchanges : made'[d].plan = made[d].plan /\ (made'[d].step = "none" <=> made[d].step = "none")
  BY <1>1 DEF Only
<1> QED
  BY <1>1, <1>2, ExchangeAssumption DEF Cap, Lines

\* What is asked of the rows of the other exchanges does not change with one.
LEMMA ShelfOthers ==
  ASSUME CoreInv, ShelfInv, CoreInv', NEW c \in Exchanges, Only(c),
         made[c].step # "none", made'[c].plan = made[c].plan,
         Counted', \A l \in Lines : resv'[l].qty <= Cap(l), Orderly(c)',
         made'[c].out = "applied" => resv'[c] = [status |-> "fulfilled", qty |-> made[c].plan.give],
         pc'[c].create = "applyIn" => made'[c].in # "none",
         \A d \in Exchanges \ {c} : resv[d].status = "fulfilled" => resv'[d] = resv[d]
  PROVE  ShelfInv'
<1>1. (\A l \in Lines : Cap(l)' = Cap(l)) /\ made'[c].step # "none"
  BY CapsKept
<1>2. \A d \in Exchanges : made[d].step # "none" => made[d].plan.line \in Lines
  BY PlansOf DEF Plans
<1>3. EventRows(c)'
  BY <1>1, <1>2 DEF ShelfInv, EventRows
<1>4. ASSUME NEW d \in Exchanges \ {c} PROVE EventRows(d)'
  <2>1. EventRows(d) /\ made'[d] = made[d] /\ pc'[d] = pc[d]
    BY DEF ShelfInv, Only
  <2>2. Orderly(d)'
    BY <2>1 DEF EventRows, Orderly
  <2>3. made[d].out = "applied" => resv'[d] = resv[d]
    BY <2>1 DEF EventRows
  <2> QED
    BY <1>1, <1>2, <2>1, <2>2, <2>3 DEF EventRows
<1> QED
  BY <1>1, <1>3, <1>4 DEF ShelfInv, Capped

\* The step concerns the shelf in nothing.
OffShelf(c) ==
  /\ UNCHANGED <<stock, resv>> /\ Only(c)
  /\ made[c].step # "none" /\ made'[c].plan = made[c].plan
  /\ TakenIn(c)' = TakenIn(c) /\ LostIn(c)' = LostIn(c)
  /\ made'[c].out = "applied" => made[c].out = "applied"
  /\ Orderly(c)'
  /\ pc'[c].create = "applyIn" => made'[c].in # "none"

\* A step that leaves the shelf alone keeps what is counted on it.
LEMMA OffShelfKeeps ==
  ASSUME CoreInv, ShelfInv, CoreInv', NEW c \in Exchanges, OffShelf(c)
  PROVE  ShelfInv'
<1>1. TakenBack' = TakenBack /\ Missing' = Missing
  <2>1. /\ TakenBack' = TakenBack - TakenIn(c) + TakenIn(c)'
        /\ Missing' = Missing - LostIn(c) + LostIn(c)'
    BY EventChanges DEF OffShelf, ShelfInv, EventRows
  <2>2. TakenBack \in Nat /\ TakenIn(c) \in Nat /\ Missing \in Nat /\ LostIn(c) \in Nat
    BY SumsTyped, TakenNat DEF ShelfInv, EventRows
  <2> QED
    BY <2>1, <2>2 DEF OffShelf
<1>2. Counted'
  BY <1>1, RowsKept DEF OffShelf, ShelfInv, Counted
<1> QED
  BY <1>2, ShelfOthers DEF OffShelf, ShelfInv, EventRows, Capped

\* An exchange a handler is at has been planned.
LEMMA AtWork ==
  ASSUME CoreInv, NEW c \in Exchanges, NEW op \in {"create", "cancel"}, pc[c][op] # "idle"
  PROVE  made[c].step # "none"
<1>0. Staged(c) /\ pc[c] \in [create : CreatePlaces, cancel : CancelPlaces]
  BY DEF CoreInv, Typed, WorkTyped
<1>1. CASE op = "create"
  BY <1>0, <1>1 DEF Staged, CreateStage, StepAt, CreatePlaces
<1>2. CASE op = "cancel"
  BY <1>0, <1>2 DEF Staged, CreateStage, CancelStage, Undoing, Standing, Claimed
<1> QED
  BY <1>1, <1>2

\* The step of Retry leaves the shelf alone.
LEMMA RetryOff == ASSUME CoreInv, ShelfInv, NEW c \in Exchanges, Retry(c) PROVE OffShelf(c)
<1>0. Staged(c) /\ EventRows(c) /\ WorkTyped /\ made[c] \in Exchange /\ undo[c] \in Cancellation
  BY DEF CoreInv, Typed, WorkTyped, ShelfInv
<1>1. UNCHANGED <<stock, resv>> /\ Only(c)
  BY <1>0 DEF Retry, Goes, Refused, lineVars, bookVars, Only, WorkTyped
<1>2. made[c].step # "none" /\ made'[c].plan = made[c].plan
  BY <1>0 DEF Retry, Goes, Refused, At, Staged, CreateStage, CancelStage, StepAt, Undoing, Standing, Claimed, WorkTyped,
     Exchange, Resumes
<1>3. /\ TakenIn(c)' = TakenIn(c) /\ LostIn(c)' = LostIn(c)
      /\ made'[c].out = "applied" => made[c].out = "applied"
      /\ pc'[c].create = "applyIn" => made'[c].in # "none"
  BY <1>0, <1>2 DEF Retry, Goes, Refused, At, TakenIn, LostIn, Fresh, EventRows, WorkTyped, Exchange, Resumes
<1>4. Orderly(c)'
  BY <1>0 DEF Retry, Goes, Refused, At, Staged, CreateStage, CancelStage, StepAt, Undoing, Standing, Claimed,
     EventRows, Orderly, WorkTyped, Exchange, Resumes
<1> QED
  BY <1>1, <1>2, <1>3, <1>4 DEF OffShelf

\* The step of Drop leaves the shelf alone.
LEMMA DropOff == ASSUME CoreInv, ShelfInv, NEW c \in Exchanges, Drop(c) PROVE OffShelf(c)
<1>0. Staged(c) /\ EventRows(c) /\ WorkTyped /\ made[c] \in Exchange /\ undo[c] \in Cancellation
  BY DEF CoreInv, Typed, WorkTyped, ShelfInv
<1>1. UNCHANGED <<stock, resv>> /\ Only(c)
  BY <1>0 DEF Drop, Goes, Refused, lineVars, bookVars, Only, WorkTyped
<1>2. made[c].step # "none" /\ made'[c].plan = made[c].plan
  BY <1>0 DEF Drop, Goes, Refused, At, Staged, CreateStage, CancelStage, StepAt, Undoing, Standing, Claimed, WorkTyped,
     Exchange, Resumes
<1>3. /\ TakenIn(c)' = TakenIn(c) /\ LostIn(c)' = LostIn(c)
      /\ made'[c].out = "applied" => made[c].out = "applied"
      /\ pc'[c].create = "applyIn" => made'[c].in # "none"
  BY <1>0, <1>2 DEF Drop, Goes, Refused, At, TakenIn, LostIn, Fresh, EventRows, WorkTyped, Exchange, Resumes
<1>4. Orderly(c)'
  BY <1>0 DEF Drop, Goes, Refused, At, Staged, CreateStage, CancelStage, StepAt, Undoing, Standing, Claimed,
     EventRows, Orderly, WorkTyped, Exchange, Resumes
<1> QED
  BY <1>1, <1>2, <1>3, <1>4 DEF OffShelf

\* The step of Claim leaves the shelf alone.
LEMMA ClaimOff == ASSUME CoreInv, ShelfInv, NEW c \in Exchanges, Claim(c) PROVE OffShelf(c)
<1>0. Staged(c) /\ EventRows(c) /\ WorkTyped /\ made[c] \in Exchange /\ undo[c] \in Cancellation
  BY DEF CoreInv, Typed, WorkTyped, ShelfInv
<1>1. UNCHANGED <<stock, resv>> /\ Only(c)
  BY <1>0 DEF Claim, Goes, Refused, lineVars, bookVars, Only, WorkTyped
<1>2. made[c].step # "none" /\ made'[c].plan = made[c].plan
  BY <1>0 DEF Claim, Goes, Refused, At, Staged, CreateStage, CancelStage, StepAt, Undoing, Standing, Claimed, WorkTyped,
     Exchange, Resumes
<1>3. /\ TakenIn(c)' = TakenIn(c) /\ LostIn(c)' = LostIn(c)
      /\ made'[c].out = "applied" => made[c].out = "applied"
      /\ pc'[c].create = "applyIn" => made'[c].in # "none"
  BY <1>0, <1>2 DEF Claim, Goes, Refused, At, TakenIn, LostIn, Fresh, EventRows, WorkTyped, Exchange, Resumes
<1>4. Orderly(c)'
  BY <1>0 DEF Claim, Goes, Refused, At, Staged, CreateStage, CancelStage, StepAt, Undoing, Standing, Claimed,
     EventRows, Orderly, WorkTyped, Exchange, Resumes
<1> QED
  BY <1>1, <1>2, <1>3, <1>4 DEF OffShelf

\* The step of SetQty leaves the shelf alone.
LEMMA SetQtyOff == ASSUME CoreInv, ShelfInv, NEW c \in Exchanges, SetQty(c) PROVE OffShelf(c)
<1>0. Staged(c) /\ EventRows(c) /\ WorkTyped /\ made[c] \in Exchange /\ undo[c] \in Cancellation
  BY DEF CoreInv, Typed, WorkTyped, ShelfInv
<1>1. UNCHANGED <<stock, resv>> /\ Only(c)
  BY <1>0 DEF SetQty, Goes, Refused, lineVars, bookVars, Only, WorkTyped
<1>2. made[c].step # "none" /\ made'[c].plan = made[c].plan
  BY <1>0 DEF SetQty, Goes, Refused, At, Staged, CreateStage, CancelStage, StepAt, Undoing, Standing, Claimed, WorkTyped,
     Exchange, Resumes
<1>3. /\ TakenIn(c)' = TakenIn(c) /\ LostIn(c)' = LostIn(c)
      /\ made'[c].out = "applied" => made[c].out = "applied"
      /\ pc'[c].create = "applyIn" => made'[c].in # "none"
  BY <1>0, <1>2 DEF SetQty, Goes, Refused, At, TakenIn, LostIn, Fresh, EventRows, WorkTyped, Exchange, Resumes
<1>4. Orderly(c)'
  BY <1>0 DEF SetQty, Goes, Refused, At, Staged, CreateStage, CancelStage, StepAt, Undoing, Standing, Claimed,
     EventRows, Orderly, WorkTyped, Exchange, Resumes
<1> QED
  BY <1>1, <1>2, <1>3, <1>4 DEF OffShelf

\* The step of OldRow leaves the shelf alone.
LEMMA OldRowOff == ASSUME CoreInv, ShelfInv, NEW c \in Exchanges, OldRow(c) PROVE OffShelf(c)
<1>0. Staged(c) /\ EventRows(c) /\ WorkTyped /\ made[c] \in Exchange /\ undo[c] \in Cancellation
  BY DEF CoreInv, Typed, WorkTyped, ShelfInv
<1>1. UNCHANGED <<stock, resv>> /\ Only(c)
  BY <1>0 DEF OldRow, Goes, Refused, lineVars, bookVars, Only, WorkTyped
<1>2. made[c].step # "none" /\ made'[c].plan = made[c].plan
  BY <1>0 DEF OldRow, Goes, Refused, At, Staged, CreateStage, CancelStage, StepAt, Undoing, Standing, Claimed, WorkTyped,
     Exchange, Resumes
<1>3. /\ TakenIn(c)' = TakenIn(c) /\ LostIn(c)' = LostIn(c)
      /\ made'[c].out = "applied" => made[c].out = "applied"
      /\ pc'[c].create = "applyIn" => made'[c].in # "none"
  BY <1>0, <1>2 DEF OldRow, Goes, Refused, At, TakenIn, LostIn, Fresh, EventRows, WorkTyped, Exchange, Resumes
<1>4. Orderly(c)'
  BY <1>0 DEF OldRow, Goes, Refused, At, Staged, CreateStage, CancelStage, StepAt, Undoing, Standing, Claimed,
     EventRows, Orderly, WorkTyped, Exchange, Resumes
<1> QED
  BY <1>1, <1>2, <1>3, <1>4 DEF OffShelf

\* The step of InsertIn leaves the shelf alone.
LEMMA InsertInOff == ASSUME CoreInv, ShelfInv, NEW c \in Exchanges, InsertIn(c) PROVE OffShelf(c)
<1>0. Staged(c) /\ EventRows(c) /\ WorkTyped /\ made[c] \in Exchange /\ undo[c] \in Cancellation
  BY DEF CoreInv, Typed, WorkTyped, ShelfInv
<1>1. UNCHANGED <<stock, resv>> /\ Only(c)
  BY <1>0 DEF InsertIn, Goes, Refused, lineVars, bookVars, Only, WorkTyped
<1>2. made[c].step # "none" /\ made'[c].plan = made[c].plan
  BY <1>0 DEF InsertIn, Goes, Refused, At, Staged, CreateStage, CancelStage, StepAt, Undoing, Standing, Claimed, WorkTyped,
     Exchange, Resumes
<1>3. /\ TakenIn(c)' = TakenIn(c) /\ LostIn(c)' = LostIn(c)
      /\ made'[c].out = "applied" => made[c].out = "applied"
      /\ pc'[c].create = "applyIn" => made'[c].in # "none"
  BY <1>0, <1>2 DEF InsertIn, Goes, Refused, At, TakenIn, LostIn, Fresh, EventRows, WorkTyped, Exchange, Resumes
<1>4. Orderly(c)'
  BY <1>0 DEF InsertIn, Goes, Refused, At, Staged, CreateStage, CancelStage, StepAt, Undoing, Standing, Claimed,
     EventRows, Orderly, WorkTyped, Exchange, Resumes
<1> QED
  BY <1>1, <1>2, <1>3, <1>4 DEF OffShelf

\* The step of InsertContent leaves the shelf alone.
LEMMA InsertContentOff == ASSUME CoreInv, ShelfInv, NEW c \in Exchanges, InsertContent(c) PROVE OffShelf(c)
<1>0. Staged(c) /\ EventRows(c) /\ WorkTyped /\ made[c] \in Exchange /\ undo[c] \in Cancellation
  BY DEF CoreInv, Typed, WorkTyped, ShelfInv
<1>1. UNCHANGED <<stock, resv>> /\ Only(c)
  BY <1>0 DEF InsertContent, Goes, Refused, lineVars, bookVars, Only, WorkTyped
<1>2. made[c].step # "none" /\ made'[c].plan = made[c].plan
  BY <1>0 DEF InsertContent, Goes, Refused, At, Staged, CreateStage, CancelStage, StepAt, Undoing, Standing, Claimed, WorkTyped,
     Exchange, Resumes
<1>3. /\ TakenIn(c)' = TakenIn(c) /\ LostIn(c)' = LostIn(c)
      /\ made'[c].out = "applied" => made[c].out = "applied"
      /\ pc'[c].create = "applyIn" => made'[c].in # "none"
  BY <1>0, <1>2 DEF InsertContent, Goes, Refused, At, TakenIn, LostIn, Fresh, EventRows, WorkTyped, Exchange, Resumes
<1>4. Orderly(c)'
  BY <1>0 DEF InsertContent, Goes, Refused, At, Staged, CreateStage, CancelStage, StepAt, Undoing, Standing, Claimed,
     EventRows, Orderly, WorkTyped, Exchange, Resumes
<1> QED
  BY <1>1, <1>2, <1>3, <1>4 DEF OffShelf

\* The step of NewRow leaves the shelf alone.
LEMMA NewRowOff == ASSUME CoreInv, ShelfInv, NEW c \in Exchanges, NewRow(c) PROVE OffShelf(c)
<1>0. Staged(c) /\ EventRows(c) /\ WorkTyped /\ made[c] \in Exchange /\ undo[c] \in Cancellation
  BY DEF CoreInv, Typed, WorkTyped, ShelfInv
<1>1. UNCHANGED <<stock, resv>> /\ Only(c)
  BY <1>0 DEF NewRow, Goes, Refused, lineVars, bookVars, Only, WorkTyped
<1>2. made[c].step # "none" /\ made'[c].plan = made[c].plan
  BY <1>0 DEF NewRow, Goes, Refused, At, Staged, CreateStage, CancelStage, StepAt, Undoing, Standing, Claimed, WorkTyped,
     Exchange, Resumes
<1>3. /\ TakenIn(c)' = TakenIn(c) /\ LostIn(c)' = LostIn(c)
      /\ made'[c].out = "applied" => made[c].out = "applied"
      /\ pc'[c].create = "applyIn" => made'[c].in # "none"
  BY <1>0, <1>2 DEF NewRow, Goes, Refused, At, TakenIn, LostIn, Fresh, EventRows, WorkTyped, Exchange, Resumes
<1>4. Orderly(c)'
  BY <1>0 DEF NewRow, Goes, Refused, At, Staged, CreateStage, CancelStage, StepAt, Undoing, Standing, Claimed,
     EventRows, Orderly, WorkTyped, Exchange, Resumes
<1> QED
  BY <1>1, <1>2, <1>3, <1>4 DEF OffShelf

\* The step of InsertOut leaves the shelf alone.
LEMMA InsertOutOff == ASSUME CoreInv, ShelfInv, NEW c \in Exchanges, InsertOut(c) PROVE OffShelf(c)
<1>0. Staged(c) /\ EventRows(c) /\ WorkTyped /\ made[c] \in Exchange /\ undo[c] \in Cancellation
  BY DEF CoreInv, Typed, WorkTyped, ShelfInv
<1>1. UNCHANGED <<stock, resv>> /\ Only(c)
  BY <1>0 DEF InsertOut, Goes, Refused, lineVars, bookVars, Only, WorkTyped
<1>2. made[c].step # "none" /\ made'[c].plan = made[c].plan
  BY <1>0 DEF InsertOut, Goes, Refused, At, Staged, CreateStage, CancelStage, StepAt, Undoing, Standing, Claimed, WorkTyped,
     Exchange, Resumes
<1>3. /\ TakenIn(c)' = TakenIn(c) /\ LostIn(c)' = LostIn(c)
      /\ made'[c].out = "applied" => made[c].out = "applied"
      /\ pc'[c].create = "applyIn" => made'[c].in # "none"
  BY <1>0, <1>2 DEF InsertOut, Goes, Refused, At, TakenIn, LostIn, Fresh, EventRows, WorkTyped, Exchange, Resumes
<1>4. Orderly(c)'
  <2>1. made[c].id # 0
    BY <1>0 DEF InsertOut, At, Staged, CreateStage, StepAt
  <2>2. made'[c] = [made[c] EXCEPT !.out = IF Fresh(@) THEN "pending" ELSE @]
    BY <1>0 DEF InsertOut, WorkTyped
  <2> QED
    BY <1>0, <2>1, <2>2 DEF Fresh, EventRows, Orderly, Exchange
<1> QED
  BY <1>1, <1>2, <1>3, <1>4 DEF OffShelf

\* The step of LinkOut leaves the shelf alone.
LEMMA LinkOutOff == ASSUME CoreInv, ShelfInv, NEW c \in Exchanges, LinkOut(c) PROVE OffShelf(c)
<1>0. Staged(c) /\ EventRows(c) /\ WorkTyped /\ made[c] \in Exchange /\ undo[c] \in Cancellation
  BY DEF CoreInv, Typed, WorkTyped, ShelfInv
<1>1. UNCHANGED <<stock, resv>> /\ Only(c)
  BY <1>0 DEF LinkOut, Goes, Refused, lineVars, bookVars, Only, WorkTyped
<1>2. made[c].step # "none" /\ made'[c].plan = made[c].plan
  BY <1>0 DEF LinkOut, Goes, Refused, At, Staged, CreateStage, CancelStage, StepAt, Undoing, Standing, Claimed, WorkTyped,
     Exchange, Resumes
<1>3. /\ TakenIn(c)' = TakenIn(c) /\ LostIn(c)' = LostIn(c)
      /\ made'[c].out = "applied" => made[c].out = "applied"
      /\ pc'[c].create = "applyIn" => made'[c].in # "none"
  BY <1>0, <1>2 DEF LinkOut, Goes, Refused, At, TakenIn, LostIn, Fresh, EventRows, WorkTyped, Exchange, Resumes
<1>4. Orderly(c)'
  BY <1>0 DEF LinkOut, Goes, Refused, At, Staged, CreateStage, CancelStage, StepAt, Undoing, Standing, Claimed,
     EventRows, Orderly, WorkTyped, Exchange, Resumes
<1> QED
  BY <1>1, <1>2, <1>3, <1>4 DEF OffShelf

\* The step of BookMoney leaves the shelf alone.
LEMMA BookMoneyOff == ASSUME CoreInv, ShelfInv, NEW c \in Exchanges, BookMoney(c) PROVE OffShelf(c)
<1>0. Staged(c) /\ EventRows(c) /\ WorkTyped /\ made[c] \in Exchange /\ undo[c] \in Cancellation
  BY DEF CoreInv, Typed, WorkTyped, ShelfInv
<1>1. UNCHANGED <<stock, resv>> /\ Only(c)
  BY <1>0 DEF BookMoney, Goes, Refused, lineVars, bookVars, Only, WorkTyped
<1>2. made[c].step # "none" /\ made'[c].plan = made[c].plan
  BY <1>0 DEF BookMoney, Goes, Refused, At, Staged, CreateStage, CancelStage, StepAt, Undoing, Standing, Claimed, WorkTyped,
     Exchange, Resumes
<1>3. /\ TakenIn(c)' = TakenIn(c) /\ LostIn(c)' = LostIn(c)
      /\ made'[c].out = "applied" => made[c].out = "applied"
      /\ pc'[c].create = "applyIn" => made'[c].in # "none"
  BY <1>0, <1>2 DEF BookMoney, Goes, Refused, At, TakenIn, LostIn, Fresh, EventRows, WorkTyped, Exchange, Resumes
<1>4. Orderly(c)'
  BY <1>0 DEF BookMoney, Goes, Refused, At, Staged, CreateStage, CancelStage, StepAt, Undoing, Standing, Claimed,
     EventRows, Orderly, WorkTyped, Exchange, Resumes
<1> QED
  BY <1>1, <1>2, <1>3, <1>4 DEF OffShelf

\* The step of SetTotal leaves the shelf alone.
LEMMA SetTotalOff == ASSUME CoreInv, ShelfInv, NEW c \in Exchanges, SetTotal(c) PROVE OffShelf(c)
<1>0. Staged(c) /\ EventRows(c) /\ WorkTyped /\ made[c] \in Exchange /\ undo[c] \in Cancellation
  BY DEF CoreInv, Typed, WorkTyped, ShelfInv
<1>1. UNCHANGED <<stock, resv>> /\ Only(c)
  BY <1>0 DEF SetTotal, Goes, Refused, lineVars, bookVars, Only, WorkTyped
<1>2. made[c].step # "none" /\ made'[c].plan = made[c].plan
  BY <1>0 DEF SetTotal, Goes, Refused, At, Staged, CreateStage, CancelStage, StepAt, Undoing, Standing, Claimed, WorkTyped,
     Exchange, Resumes
<1>3. /\ TakenIn(c)' = TakenIn(c) /\ LostIn(c)' = LostIn(c)
      /\ made'[c].out = "applied" => made[c].out = "applied"
      /\ pc'[c].create = "applyIn" => made'[c].in # "none"
  BY <1>0, <1>2 DEF SetTotal, Goes, Refused, At, TakenIn, LostIn, Fresh, EventRows, WorkTyped, Exchange, Resumes
<1>4. Orderly(c)'
  BY <1>0 DEF SetTotal, Goes, Refused, At, Staged, CreateStage, CancelStage, StepAt, Undoing, Standing, Claimed,
     EventRows, Orderly, WorkTyped, Exchange, Resumes
<1> QED
  BY <1>1, <1>2, <1>3, <1>4 DEF OffShelf

\* The step of Complete leaves the shelf alone.
LEMMA CompleteOff == ASSUME CoreInv, ShelfInv, NEW c \in Exchanges, Complete(c) PROVE OffShelf(c)
<1>0. Staged(c) /\ EventRows(c) /\ WorkTyped /\ made[c] \in Exchange /\ undo[c] \in Cancellation
  BY DEF CoreInv, Typed, WorkTyped, ShelfInv
<1>1. UNCHANGED <<stock, resv>> /\ Only(c)
  BY <1>0 DEF Complete, Goes, Refused, lineVars, bookVars, Only, WorkTyped
<1>2. made[c].step # "none" /\ made'[c].plan = made[c].plan
  BY <1>0 DEF Complete, Goes, Refused, At, Staged, CreateStage, CancelStage, StepAt, Undoing, Standing, Claimed, WorkTyped,
     Exchange, Resumes
<1>3. /\ TakenIn(c)' = TakenIn(c) /\ LostIn(c)' = LostIn(c)
      /\ made'[c].out = "applied" => made[c].out = "applied"
      /\ pc'[c].create = "applyIn" => made'[c].in # "none"
  BY <1>0, <1>2 DEF Complete, Goes, Refused, At, TakenIn, LostIn, Fresh, EventRows, WorkTyped, Exchange, Resumes
<1>4. Orderly(c)'
  BY <1>0 DEF Complete, Goes, Refused, At, Staged, CreateStage, CancelStage, StepAt, Undoing, Standing, Claimed,
     EventRows, Orderly, WorkTyped, Exchange, Resumes
<1> QED
  BY <1>1, <1>2, <1>3, <1>4 DEF OffShelf

\* The step of BeginCancel leaves the shelf alone.
LEMMA BeginCancelOff == ASSUME CoreInv, ShelfInv, NEW c \in Exchanges, BeginCancel(c) PROVE OffShelf(c)
<1>0. Staged(c) /\ EventRows(c) /\ WorkTyped /\ made[c] \in Exchange /\ undo[c] \in Cancellation
  BY DEF CoreInv, Typed, WorkTyped, ShelfInv
<1>1. UNCHANGED <<stock, resv>> /\ Only(c)
  BY <1>0 DEF BeginCancel, Goes, Refused, lineVars, bookVars, Only, WorkTyped
<1>2. made[c].step # "none" /\ made'[c].plan = made[c].plan
  BY <1>0 DEF BeginCancel, Goes, Refused, At, Staged, CreateStage, CancelStage, StepAt, Undoing, Standing, Claimed, WorkTyped,
     Exchange, Resumes
<1>3. /\ TakenIn(c)' = TakenIn(c) /\ LostIn(c)' = LostIn(c)
      /\ made'[c].out = "applied" => made[c].out = "applied"
      /\ pc'[c].create = "applyIn" => made'[c].in # "none"
  BY <1>0, <1>2 DEF BeginCancel, Goes, Refused, At, TakenIn, LostIn, Fresh, EventRows, WorkTyped, Exchange, Resumes
<1>4. Orderly(c)'
  BY <1>0 DEF BeginCancel, Goes, Refused, At, Staged, CreateStage, CancelStage, StepAt, Undoing, Standing, Claimed,
     EventRows, Orderly, WorkTyped, Exchange, Resumes
<1> QED
  BY <1>1, <1>2, <1>3, <1>4 DEF OffShelf

\* The step of Freeze leaves the shelf alone.
LEMMA FreezeOff == ASSUME CoreInv, ShelfInv, NEW c \in Exchanges, Freeze(c) PROVE OffShelf(c)
<1>0. Staged(c) /\ EventRows(c) /\ WorkTyped /\ made[c] \in Exchange /\ undo[c] \in Cancellation
  BY DEF CoreInv, Typed, WorkTyped, ShelfInv
<1>1. UNCHANGED <<stock, resv>> /\ Only(c)
  BY <1>0 DEF Freeze, Goes, Refused, lineVars, bookVars, Only, WorkTyped
<1>2. made[c].step # "none" /\ made'[c].plan = made[c].plan
  BY <1>0 DEF Freeze, Goes, Refused, At, Staged, CreateStage, CancelStage, StepAt, Undoing, Standing, Claimed, WorkTyped,
     Exchange, Resumes
<1>3. /\ TakenIn(c)' = TakenIn(c) /\ LostIn(c)' = LostIn(c)
      /\ made'[c].out = "applied" => made[c].out = "applied"
      /\ pc'[c].create = "applyIn" => made'[c].in # "none"
  BY <1>0, <1>2 DEF Freeze, Goes, Refused, At, TakenIn, LostIn, Fresh, EventRows, WorkTyped, Exchange, Resumes
<1>4. Orderly(c)'
  BY <1>0 DEF Freeze, Goes, Refused, At, Staged, CreateStage, CancelStage, StepAt, Undoing, Standing, Claimed,
     EventRows, Orderly, WorkTyped, Exchange, Resumes
<1> QED
  BY <1>1, <1>2, <1>3, <1>4 DEF OffShelf

\* The step of EmptyNew leaves the shelf alone.
LEMMA EmptyNewOff == ASSUME CoreInv, ShelfInv, NEW c \in Exchanges, EmptyNew(c) PROVE OffShelf(c)
<1>0. Staged(c) /\ EventRows(c) /\ WorkTyped /\ made[c] \in Exchange /\ undo[c] \in Cancellation
  BY DEF CoreInv, Typed, WorkTyped, ShelfInv
<1>1. UNCHANGED <<stock, resv>> /\ Only(c)
  BY <1>0 DEF EmptyNew, Goes, Refused, lineVars, bookVars, Only, WorkTyped
<1>2. made[c].step # "none" /\ made'[c].plan = made[c].plan
  BY <1>0 DEF EmptyNew, Goes, Refused, At, Staged, CreateStage, CancelStage, StepAt, Undoing, Standing, Claimed, WorkTyped,
     Exchange, Resumes
<1>3. /\ TakenIn(c)' = TakenIn(c) /\ LostIn(c)' = LostIn(c)
      /\ made'[c].out = "applied" => made[c].out = "applied"
      /\ pc'[c].create = "applyIn" => made'[c].in # "none"
  BY <1>0, <1>2 DEF EmptyNew, Goes, Refused, At, TakenIn, LostIn, Fresh, EventRows, WorkTyped, Exchange, Resumes
<1>4. Orderly(c)'
  BY <1>0 DEF EmptyNew, Goes, Refused, At, Staged, CreateStage, CancelStage, StepAt, Undoing, Standing, Claimed,
     EventRows, Orderly, WorkTyped, Exchange, Resumes
<1> QED
  BY <1>1, <1>2, <1>3, <1>4 DEF OffShelf

\* The step of RestoreQty leaves the shelf alone.
LEMMA RestoreQtyOff == ASSUME CoreInv, ShelfInv, NEW c \in Exchanges, RestoreQty(c) PROVE OffShelf(c)
<1>0. Staged(c) /\ EventRows(c) /\ WorkTyped /\ made[c] \in Exchange /\ undo[c] \in Cancellation
  BY DEF CoreInv, Typed, WorkTyped, ShelfInv
<1>1. UNCHANGED <<stock, resv>> /\ Only(c)
  BY <1>0 DEF RestoreQty, Restores, Goes, Refused, lineVars, bookVars, Only, WorkTyped
<1>2. made[c].step # "none" /\ made'[c].plan = made[c].plan
  BY <1>0 DEF RestoreQty, Restores, Goes, Refused, At, Staged, CreateStage, CancelStage, StepAt, Undoing, Standing, Claimed, WorkTyped,
     Exchange, Resumes
<1>3. /\ TakenIn(c)' = TakenIn(c) /\ LostIn(c)' = LostIn(c)
      /\ made'[c].out = "applied" => made[c].out = "applied"
      /\ pc'[c].create = "applyIn" => made'[c].in # "none"
  BY <1>0, <1>2 DEF RestoreQty, Restores, Goes, Refused, At, TakenIn, LostIn, Fresh, EventRows, WorkTyped, Exchange, Resumes
<1>4. Orderly(c)'
  BY <1>0 DEF RestoreQty, Restores, Goes, Refused, At, Staged, CreateStage, CancelStage, StepAt, Undoing, Standing, Claimed,
     EventRows, Orderly, WorkTyped, Exchange, Resumes
<1> QED
  BY <1>1, <1>2, <1>3, <1>4 DEF OffShelf

\* The step of MoneyBack leaves the shelf alone.
LEMMA MoneyBackOff == ASSUME CoreInv, ShelfInv, NEW c \in Exchanges, MoneyBack(c) PROVE OffShelf(c)
<1>0. Staged(c) /\ EventRows(c) /\ WorkTyped /\ made[c] \in Exchange /\ undo[c] \in Cancellation
  BY DEF CoreInv, Typed, WorkTyped, ShelfInv
<1>1. UNCHANGED <<stock, resv>> /\ Only(c)
  BY <1>0 DEF MoneyBack, Goes, Refused, lineVars, bookVars, Only, WorkTyped
<1>2. made[c].step # "none" /\ made'[c].plan = made[c].plan
  BY <1>0 DEF MoneyBack, Goes, Refused, At, Staged, CreateStage, CancelStage, StepAt, Undoing, Standing, Claimed, WorkTyped,
     Exchange, Resumes
<1>3. /\ TakenIn(c)' = TakenIn(c) /\ LostIn(c)' = LostIn(c)
      /\ made'[c].out = "applied" => made[c].out = "applied"
      /\ pc'[c].create = "applyIn" => made'[c].in # "none"
  BY <1>0, <1>2 DEF MoneyBack, Goes, Refused, At, TakenIn, LostIn, Fresh, EventRows, WorkTyped, Exchange, Resumes
<1>4. Orderly(c)'
  BY <1>0 DEF MoneyBack, Goes, Refused, At, Staged, CreateStage, CancelStage, StepAt, Undoing, Standing, Claimed,
     EventRows, Orderly, WorkTyped, Exchange, Resumes
<1> QED
  BY <1>1, <1>2, <1>3, <1>4 DEF OffShelf

\* The step of Finish leaves the shelf alone.
LEMMA FinishOff == ASSUME CoreInv, ShelfInv, NEW c \in Exchanges, Finish(c) PROVE OffShelf(c)
<1>0. Staged(c) /\ EventRows(c) /\ WorkTyped /\ made[c] \in Exchange /\ undo[c] \in Cancellation
  BY DEF CoreInv, Typed, WorkTyped, ShelfInv
<1>1. UNCHANGED <<stock, resv>> /\ Only(c)
  BY <1>0 DEF Finish, Goes, Refused, lineVars, bookVars, Only, WorkTyped
<1>2. made[c].step # "none" /\ made'[c].plan = made[c].plan
  BY <1>0 DEF Finish, Goes, Refused, At, Staged, CreateStage, CancelStage, StepAt, Undoing, Standing, Claimed, WorkTyped,
     Exchange, Resumes
<1>3. /\ TakenIn(c)' = TakenIn(c) /\ LostIn(c)' = LostIn(c)
      /\ made'[c].out = "applied" => made[c].out = "applied"
      /\ pc'[c].create = "applyIn" => made'[c].in # "none"
  BY <1>0, <1>2 DEF Finish, Goes, Refused, At, TakenIn, LostIn, Fresh, EventRows, WorkTyped, Exchange, Resumes
<1>4. Orderly(c)'
  BY <1>0 DEF Finish, Goes, Refused, At, Staged, CreateStage, CancelStage, StepAt, Undoing, Standing, Claimed,
     EventRows, Orderly, WorkTyped, Exchange, Resumes
<1> QED
  BY <1>1, <1>2, <1>3, <1>4 DEF OffShelf

\* The step of CompleteCancel leaves the shelf alone.
LEMMA CompleteCancelOff == ASSUME CoreInv, ShelfInv, NEW c \in Exchanges, CompleteCancel(c) PROVE OffShelf(c)
<1>0. Staged(c) /\ EventRows(c) /\ WorkTyped /\ made[c] \in Exchange /\ undo[c] \in Cancellation
  BY DEF CoreInv, Typed, WorkTyped, ShelfInv
<1>1. UNCHANGED <<stock, resv>> /\ Only(c)
  BY <1>0 DEF CompleteCancel, Goes, Refused, lineVars, bookVars, Only, WorkTyped
<1>2. made[c].step # "none" /\ made'[c].plan = made[c].plan
  BY <1>0 DEF CompleteCancel, Goes, Refused, At, Staged, CreateStage, CancelStage, StepAt, Undoing, Standing, Claimed, WorkTyped,
     Exchange, Resumes
<1>3. /\ TakenIn(c)' = TakenIn(c) /\ LostIn(c)' = LostIn(c)
      /\ made'[c].out = "applied" => made[c].out = "applied"
      /\ pc'[c].create = "applyIn" => made'[c].in # "none"
  BY <1>0, <1>2 DEF CompleteCancel, Goes, Refused, At, TakenIn, LostIn, Fresh, EventRows, WorkTyped, Exchange, Resumes
<1>4. Orderly(c)'
  BY <1>0 DEF CompleteCancel, Goes, Refused, At, Staged, CreateStage, CancelStage, StepAt, Undoing, Standing, Claimed,
     EventRows, Orderly, WorkTyped, Exchange, Resumes
<1> QED
  BY <1>1, <1>2, <1>3, <1>4 DEF OffShelf

\* The step that ends the old line leaves the shelf alone.
LEMMA AdvanceOldOff == ASSUME CoreInv, ShelfInv, NEW c \in Exchanges, Advance(c, "oldDone", "old_done", "content") PROVE OffShelf(c)
<1>0. Staged(c) /\ EventRows(c) /\ WorkTyped /\ made[c] \in Exchange /\ undo[c] \in Cancellation
  BY DEF CoreInv, Typed, WorkTyped, ShelfInv
<1>1. UNCHANGED <<stock, resv>> /\ Only(c)
  BY <1>0 DEF Advance, Goes, Refused, lineVars, bookVars, Only, WorkTyped
<1>2. made[c].step # "none" /\ made'[c].plan = made[c].plan
  BY <1>0 DEF Advance, Goes, Refused, At, Staged, CreateStage, CancelStage, StepAt, Undoing, Standing, Claimed, WorkTyped,
     Exchange, Resumes
<1>3. /\ TakenIn(c)' = TakenIn(c) /\ LostIn(c)' = LostIn(c)
      /\ made'[c].out = "applied" => made[c].out = "applied"
      /\ pc'[c].create = "applyIn" => made'[c].in # "none"
  BY <1>0, <1>2 DEF Advance, Goes, Refused, At, TakenIn, LostIn, Fresh, EventRows, WorkTyped, Exchange, Resumes
<1>4. Orderly(c)'
  BY <1>0 DEF Advance, Goes, Refused, At, Staged, CreateStage, CancelStage, StepAt, Undoing, Standing, Claimed,
     EventRows, Orderly, WorkTyped, Exchange, Resumes
<1> QED
  BY <1>1, <1>2, <1>3, <1>4 DEF OffShelf

\* The step that ends the insertion of the content leaves the shelf alone.
LEMMA AdvanceContentOff == ASSUME CoreInv, ShelfInv, NEW c \in Exchanges, Advance(c, "contentDone", "content_inserted", "newRow") PROVE OffShelf(c)
<1>0. Staged(c) /\ EventRows(c) /\ WorkTyped /\ made[c] \in Exchange /\ undo[c] \in Cancellation
  BY DEF CoreInv, Typed, WorkTyped, ShelfInv
<1>1. UNCHANGED <<stock, resv>> /\ Only(c)
  BY <1>0 DEF Advance, Goes, Refused, lineVars, bookVars, Only, WorkTyped
<1>2. made[c].step # "none" /\ made'[c].plan = made[c].plan
  BY <1>0 DEF Advance, Goes, Refused, At, Staged, CreateStage, CancelStage, StepAt, Undoing, Standing, Claimed, WorkTyped,
     Exchange, Resumes
<1>3. /\ TakenIn(c)' = TakenIn(c) /\ LostIn(c)' = LostIn(c)
      /\ made'[c].out = "applied" => made[c].out = "applied"
      /\ pc'[c].create = "applyIn" => made'[c].in # "none"
  BY <1>0, <1>2 DEF Advance, Goes, Refused, At, TakenIn, LostIn, Fresh, EventRows, WorkTyped, Exchange, Resumes
<1>4. Orderly(c)'
  BY <1>0 DEF Advance, Goes, Refused, At, Staged, CreateStage, CancelStage, StepAt, Undoing, Standing, Claimed,
     EventRows, Orderly, WorkTyped, Exchange, Resumes
<1> QED
  BY <1>1, <1>2, <1>3, <1>4 DEF OffShelf

\* The step that ends the new line leaves the shelf alone.
LEMMA AdvanceNewOff == ASSUME CoreInv, ShelfInv, NEW c \in Exchanges, Advance(c, "newDone", "new_done", "money") PROVE OffShelf(c)
<1>0. Staged(c) /\ EventRows(c) /\ WorkTyped /\ made[c] \in Exchange /\ undo[c] \in Cancellation
  BY DEF CoreInv, Typed, WorkTyped, ShelfInv
<1>1. UNCHANGED <<stock, resv>> /\ Only(c)
  BY <1>0 DEF Advance, Goes, Refused, lineVars, bookVars, Only, WorkTyped
<1>2. made[c].step # "none" /\ made'[c].plan = made[c].plan
  BY <1>0 DEF Advance, Goes, Refused, At, Staged, CreateStage, CancelStage, StepAt, Undoing, Standing, Claimed, WorkTyped,
     Exchange, Resumes
<1>3. /\ TakenIn(c)' = TakenIn(c) /\ LostIn(c)' = LostIn(c)
      /\ made'[c].out = "applied" => made[c].out = "applied"
      /\ pc'[c].create = "applyIn" => made'[c].in # "none"
  BY <1>0, <1>2 DEF Advance, Goes, Refused, At, TakenIn, LostIn, Fresh, EventRows, WorkTyped, Exchange, Resumes
<1>4. Orderly(c)'
  BY <1>0 DEF Advance, Goes, Refused, At, Staged, CreateStage, CancelStage, StepAt, Undoing, Standing, Claimed,
     EventRows, Orderly, WorkTyped, Exchange, Resumes
<1> QED
  BY <1>1, <1>2, <1>3, <1>4 DEF OffShelf

\* The step that ends the money leaves the shelf alone.
LEMMA AdvanceMoneyOff == ASSUME CoreInv, ShelfInv, NEW c \in Exchanges, Advance(c, "moneyDone", "finances_done", "complete") PROVE OffShelf(c)
<1>0. Staged(c) /\ EventRows(c) /\ WorkTyped /\ made[c] \in Exchange /\ undo[c] \in Cancellation
  BY DEF CoreInv, Typed, WorkTyped, ShelfInv
<1>1. UNCHANGED <<stock, resv>> /\ Only(c)
  BY <1>0 DEF Advance, Goes, Refused, lineVars, bookVars, Only, WorkTyped
<1>2. made[c].step # "none" /\ made'[c].plan = made[c].plan
  BY <1>0 DEF Advance, Goes, Refused, At, Staged, CreateStage, CancelStage, StepAt, Undoing, Standing, Claimed, WorkTyped,
     Exchange, Resumes
<1>3. /\ TakenIn(c)' = TakenIn(c) /\ LostIn(c)' = LostIn(c)
      /\ made'[c].out = "applied" => made[c].out = "applied"
      /\ pc'[c].create = "applyIn" => made'[c].in # "none"
  BY <1>0, <1>2 DEF Advance, Goes, Refused, At, TakenIn, LostIn, Fresh, EventRows, WorkTyped, Exchange, Resumes
<1>4. Orderly(c)'
  BY <1>0 DEF Advance, Goes, Refused, At, Staged, CreateStage, CancelStage, StepAt, Undoing, Standing, Claimed,
     EventRows, Orderly, WorkTyped, Exchange, Resumes
<1> QED
  BY <1>1, <1>2, <1>3, <1>4 DEF OffShelf

\* A call that dies leaves the shelf alone.
LEMMA CrashOff == ASSUME CoreInv, ShelfInv, NEW c \in Exchanges, NEW op \in {"create", "cancel"}, Crash(c, op) PROVE OffShelf(c)
<1>0. Staged(c) /\ EventRows(c) /\ WorkTyped /\ made[c] \in Exchange /\ undo[c] \in Cancellation
  BY DEF CoreInv, Typed, WorkTyped, ShelfInv
<1>1. UNCHANGED <<stock, resv>> /\ Only(c)
  BY <1>0 DEF Crash, Goes, Refused, lineVars, bookVars, Only, WorkTyped
<1>2. made[c].step # "none" /\ made'[c].plan = made[c].plan
  BY <1>0, AtWork DEF Crash, Goes
<1>3. /\ TakenIn(c)' = TakenIn(c) /\ LostIn(c)' = LostIn(c)
      /\ made'[c].out = "applied" => made[c].out = "applied"
      /\ pc'[c].create = "applyIn" => made'[c].in # "none"
  BY <1>0, <1>2 DEF Crash, Goes, Refused, At, TakenIn, LostIn, Fresh, EventRows, WorkTyped, Exchange, Resumes
<1>4. Orderly(c)'
  BY <1>0 DEF Crash, Goes, Refused, At, Staged, CreateStage, CancelStage, StepAt, Undoing, Standing, Claimed,
     EventRows, Orderly, WorkTyped, Exchange, Resumes
<1> QED
  BY <1>1, <1>2, <1>3, <1>4 DEF OffShelf

\* A request that is refused leaves the shelf alone.
LEMMA RefusedOff == ASSUME CoreInv, ShelfInv, NEW c \in Exchanges, NEW op \in {"create", "cancel"}, Refused(c, op), pc[c][op] # "idle" PROVE OffShelf(c)
<1>0. Staged(c) /\ EventRows(c) /\ WorkTyped /\ made[c] \in Exchange /\ undo[c] \in Cancellation
  BY DEF CoreInv, Typed, WorkTyped, ShelfInv
<1>1. UNCHANGED <<stock, resv>> /\ Only(c)
  BY <1>0 DEF Refused, Goes, lineVars, bookVars, Only, WorkTyped
<1>2. made[c].step # "none" /\ made'[c].plan = made[c].plan
  BY <1>0, AtWork DEF Refused, Goes
<1>3. /\ TakenIn(c)' = TakenIn(c) /\ LostIn(c)' = LostIn(c)
      /\ made'[c].out = "applied" => made[c].out = "applied"
      /\ pc'[c].create = "applyIn" => made'[c].in # "none"
  BY <1>0, <1>2 DEF Refused, Goes, At, TakenIn, LostIn, Fresh, EventRows, WorkTyped, Exchange, Resumes
<1>4. Orderly(c)'
  BY <1>0 DEF Refused, Goes, At, Staged, CreateStage, CancelStage, StepAt, Undoing, Standing, Claimed,
     EventRows, Orderly, WorkTyped, Exchange, Resumes
<1> QED
  BY <1>1, <1>2, <1>3, <1>4 DEF OffShelf

\* One row of the shelf changes, the counts follow it.
LEMMA ShelfRow ==
  ASSUME CoreInv, ShelfInv, CoreInv', NEW c \in Exchanges, Only(c),
         made[c].step # "none", made'[c].plan = made[c].plan, Orderly(c)',
         NEW l \in Lines, \A k \in Lines \ {l} : resv'[k] = resv[k], resv'[l].qty <= Cap(l),
         l # c => resv[l].status # "fulfilled" \/ resv'[l] = resv[l],
         made'[c].out = "applied" => resv'[c] = [status |-> "fulfilled", qty |-> made[c].plan.give],
         pc'[c].create = "applyIn" => made'[c].in # "none",
         stock'.reserved = stock.reserved - Part(resv[l], "active") + Part(resv'[l], "active"),
         stock'.quantity = stock.quantity + Part(resv[l], "fulfilled") - Part(resv'[l], "fulfilled")
                             + (TakenIn(c)' - TakenIn(c)) - (LostIn(c)' - LostIn(c))
  PROVE  ShelfInv'
<1>0. LinesTyped /\ LinesTyped' /\ \A d \in Exchanges : Orderly(d)
  BY DEF CoreInv, Typed, ShelfInv, EventRows
<1>1. /\ Active' = Active - Part(resv[l], "active") + Part(resv'[l], "active")
      /\ Shipped' = Shipped - Part(resv[l], "fulfilled") + Part(resv'[l], "fulfilled")
  BY <1>0, RowChanges
<1>2. /\ TakenBack' = TakenBack - TakenIn(c) + TakenIn(c)' /\ TakenIn(c)' \in Int
      /\ Missing' = Missing - LostIn(c) + LostIn(c)' /\ LostIn(c)' \in Int
  BY <1>0, EventChanges
<1>3. /\ Part(resv[l], "active") \in Int /\ Part(resv'[l], "active") \in Int
      /\ Part(resv[l], "fulfilled") \in Int /\ Part(resv'[l], "fulfilled") \in Int
  BY <1>0 DEF LinesTyped, Part
<1>4. /\ Active \in Nat /\ Shipped \in Nat /\ TakenBack \in Nat /\ TakenIn(c) \in Nat
      /\ Missing \in Nat /\ LostIn(c) \in Nat
  BY <1>0, SumsTyped, TakenNat
<1>5. Counted'
  BY <1>1, <1>2, <1>3, <1>4, ExchangeAssumption DEF ShelfInv, Counted
<1>6. \A k \in Lines : resv'[k].qty <= Cap(k)
  BY DEF ShelfInv, Capped
<1>7. \A d \in Exchanges \ {c} : resv[d].status = "fulfilled" => resv'[d] = resv[d]
  BY DEF Lines
<1> QED
  BY <1>5, <1>6, <1>7, ShelfOthers

\* The line of a plan, and what is known of it.
LEMMA PlannedLine ==
  ASSUME CoreInv, ShelfInv, NEW c \in Exchanges, made[c].step # "none"
  PROVE  LET p == made[c].plan
         IN /\ c \in Lines /\ p.line \in Lines /\ p.line # c
            /\ p.initial \in Nat /\ p.target \in Nat /\ p.take \in Nat \ {0} /\ p.give \in Nat \ {0}
            /\ p.initial = p.target + p.take
            /\ p.snapshot \in [status : {"none", "active"}, qty : Nat]
            /\ p.snapshot.status = "active" => p.snapshot.qty = p.initial /\ p.physical = "not_issued"
            /\ p.snapshot.qty <= Cap(p.line)
            /\ Cap(p.line) \in Nat /\ Cap(c) = p.give
<1>1. made[c].plan \in Plans /\ PlanOK(c) /\ EventRows(c)
  BY PlansOf DEF CoreInv, Staged, ShelfInv
<1>2. c \in Lines /\ c \notin First
  BY ExchangeAssumption DEF Lines
<1>3. \A l \in Lines : Cap(l) \in Nat
  BY CapsFit DEF ShelfInv, EventRows
<1>4. \A p \in Plans : p.take \in Nat \ {0} /\ p.give \in Nat \ {0}
  BY ExchangeAssumption DEF Plans
<1> QED
  BY <1>1, <1>2, <1>3, <1>4 DEF PlanOK, EventRows, Cap, Plans

\* A row of a reservation is its status and its quantity.
LEMMA RowTyped ==
  ASSUME CoreInv, ShelfInv, NEW l \in Lines
  PROVE  /\ resv[l].qty \in Nat /\ resv[l].qty <= Cap(l)
         /\ resv[l] = [status |-> resv[l].status, qty |-> resv[l].qty]
         /\ stock.quantity \in Int /\ stock.reserved \in Nat
         /\ stock = [quantity |-> stock.quantity, reserved |-> stock.reserved]
BY DEF CoreInv, Typed, LinesTyped, BooksTyped, ShelfInv, Capped

\* The step of Reserve moves the shelf with its rows.
LEMMA ReserveShelf == ASSUME CoreInv, ShelfInv, NEW c \in Exchanges, Reserve(c) PROVE ShelfInv'
<1> DEFINE p == made[c].plan
           l == p.line
           reduces == p.physical = "not_issued" /\ p.snapshot.status = "active"
<1>0. /\ Staged(c) /\ EventRows(c) /\ WorkTyped /\ LinesTyped /\ CoreInv'
      /\ made[c].step = "exchange_created" /\ pc[c].create = "reserve"
  BY ReserveCore DEF CoreInv, Typed, ShelfInv, Staged, CreateStage, StepAt, Reserve, At
<1>1. CASE Refused(c, "create")
  BY <1>0, <1>1, RefusedOff, OffShelfKeeps
<1>2. CASE ~Refused(c, "create")
  <2>1. /\ c \in Lines /\ l \in Lines /\ l # c /\ p.initial = p.target + p.take
        /\ p.initial \in Nat /\ p.target \in Nat /\ p.take \in Nat \ {0}
        /\ p.snapshot \in [status : {"none", "active"}, qty : Nat]
        /\ p.snapshot.status = "active" => p.snapshot.qty = p.initial
        /\ p.snapshot.qty <= Cap(l) /\ Cap(l) \in Nat
    BY <1>0, PlannedLine
  <2>2. /\ pc' = [pc EXCEPT ![c].create = "setQty"] /\ UNCHANGED <<made, undo>>
        /\ reduces /\ p.target > 0 => resv[l] \in {p.snapshot, Reduced(p)}
        /\ \/ UNCHANGED <<resv, stock>>
           \/ /\ reduces /\ p.target = 0 /\ Releases(l)
           \/ /\ reduces /\ p.target # 0 /\ resv[l] # Reduced(p)
              /\ resv' = [resv EXCEPT ![l] = Reduced(p)]
              /\ stock' = [stock EXCEPT !.reserved = Floor(@ - p.take)]
           \/ /\ resv[l].status = "active"
              /\ resv' = [resv EXCEPT ![l].status = "fulfilled"]
              /\ stock' = [quantity |-> Floor(stock.quantity - resv[l].qty),
                           reserved |-> Floor(stock.reserved - resv[l].qty)]
    BY <1>2, Zenon DEF Reserve, Goes
  <2>3. Only(c) /\ Orderly(c)' /\ TakenIn(c)' = TakenIn(c) /\ LostIn(c)' = LostIn(c) /\ pc'[c].create = "setQty"
    BY <1>0, <2>2 DEF Only, Orderly, TakenIn, LostIn, WorkTyped, EventRows
  <2>4. /\ resv[l].qty \in Nat /\ resv[l].qty <= Cap(l) /\ stock.quantity \in Int /\ stock.reserved \in Nat
        /\ stock = [quantity |-> stock.quantity, reserved |-> stock.reserved]
        /\ resv[l] = [status |-> resv[l].status, qty |-> resv[l].qty]
    BY <2>1, RowTyped
  <2>5. resv[l].status = "active" => stock.quantity - resv[l].qty >= 0 /\ stock.reserved - resv[l].qty >= 0
    BY <1>0, <2>1, RowOnShelf
  <2>6. TakenIn(c) \in Nat /\ LostIn(c) \in Nat
    BY <1>0, TakenNat DEF EventRows
  <2>7. made[c].out = "applied" => resv[c] = [status |-> "fulfilled", qty |-> p.give]
    BY <1>0 DEF EventRows
  <2> HIDE DEF p, l, reduces
  <2>8. CASE UNCHANGED <<resv, stock>>
    <3>1. OffShelf(c)
      BY <1>0, <2>2, <2>3, <2>8 DEF OffShelf, p
    <3> QED
      BY <1>0, <3>1, OffShelfKeeps
  <2>9. CASE ~ UNCHANGED <<resv, stock>>
    <3>1. resv[l].status = "active" /\ resv' = [resv EXCEPT ![l] = resv'[l]]
          /\ resv'[l].qty <= Cap(l)
          /\ stock'.reserved = stock.reserved - resv[l].qty + Part(resv'[l], "active")
          /\ stock'.quantity = stock.quantity - Part(resv'[l], "fulfilled")
      <4>1. CASE reduces /\ p.target = 0 /\ Releases(l)
        <5>1. /\ resv[l].status = "active" /\ resv' = [resv EXCEPT ![l].status = "released"]
              /\ stock' = [stock EXCEPT !.reserved = Floor(@ - resv[l].qty)]
          BY <2>9, <4>1 DEF Releases
        <5>2. resv'[l] = [resv[l] EXCEPT !.status = "released"]
          BY <1>0, <2>1, <5>1 DEF LinesTyped
        <5>3. resv'[l] = [status |-> "released", qty |-> resv[l].qty]
          BY <2>4, <5>2
        <5>4. resv' = [resv EXCEPT ![l] = resv'[l]]
          BY <1>0, <2>1, <5>1, <5>2 DEF LinesTyped
        <5> QED
          BY <2>4, <2>5, <5>1, <5>3, <5>4, FloorType DEF Part
      <4>2. CASE /\ reduces /\ p.target # 0 /\ resv[l] # Reduced(p)
                 /\ resv' = [resv EXCEPT ![l] = Reduced(p)]
                 /\ stock' = [stock EXCEPT !.reserved = Floor(@ - p.take)]
        <5>1. resv[l] = p.snapshot /\ p.snapshot.status = "active" /\ p.snapshot.qty = p.initial
          BY <2>1, <2>2, <4>2 DEF reduces
        <5>2. Reduced(p) = [status |-> "active", qty |-> p.target]
          BY <2>1, <5>1 DEF Reduced
        <5>3. resv'[l] = [status |-> "active", qty |-> p.target] /\ resv' = [resv EXCEPT ![l] = resv'[l]]
          BY <1>0, <2>1, <4>2, <5>2 DEF LinesTyped
        <5>4. stock.reserved - p.take >= 0 /\ stock.reserved - p.take \in Int
          BY <2>1, <2>4, <2>5, <5>1
        <5>5. stock'.reserved = stock.reserved - p.take /\ stock'.quantity = stock.quantity
          BY <2>4, <4>2, <5>4, FloorType
        <5> QED
          BY <2>1, <2>4, <5>1, <5>3, <5>5 DEF Part
      <4>3. CASE /\ resv[l].status = "active"
                 /\ resv' = [resv EXCEPT ![l].status = "fulfilled"]
                 /\ stock' = [quantity |-> Floor(stock.quantity - resv[l].qty),
                              reserved |-> Floor(stock.reserved - resv[l].qty)]
        <5>2. resv'[l] = [resv[l] EXCEPT !.status = "fulfilled"]
          BY <1>0, <2>1, <4>3 DEF LinesTyped
        <5>3. resv'[l] = [status |-> "fulfilled", qty |-> resv[l].qty]
          BY <2>4, <5>2
        <5>4. resv' = [resv EXCEPT ![l] = resv'[l]]
          BY <1>0, <2>1, <4>3, <5>2 DEF LinesTyped
        <5> QED
          BY <2>4, <2>5, <4>3, <5>3, <5>4, FloorType DEF Part
      <4> QED
        BY <2>2, <2>9, <4>1, <4>2, <4>3
    <3>2. \A k \in Lines \ {l} : resv'[k] = resv[k]
      BY <1>0, <3>1 DEF LinesTyped
    <3>3. Part(resv[l], "active") = resv[l].qty /\ Part(resv[l], "fulfilled") = 0
      BY <3>1 DEF Part
    <3>4. Part(resv'[l], "fulfilled") \in Int
      BY <1>0, <2>1 DEF CoreInv, Typed, LinesTyped, Part
    <3>5. stock'.quantity = stock.quantity + Part(resv[l], "fulfilled") - Part(resv'[l], "fulfilled")
                              + (TakenIn(c)' - TakenIn(c)) - (LostIn(c)' - LostIn(c))
      BY <2>3, <2>4, <2>6, <3>1, <3>3, <3>4
    <3>6. /\ made'[c].out = "applied" => resv'[c] = [status |-> "fulfilled", qty |-> made[c].plan.give]
          /\ made[c].step # "none" /\ made'[c].plan = made[c].plan
      BY <1>0, <2>1, <2>2, <2>7, <3>2 DEF p
    <3> QED
      BY <1>0, <2>1, <2>3, <3>1, <3>2, <3>3, <3>5, <3>6, ShelfRow
  <2> QED
    BY <2>8, <2>9
<1> QED
  BY <1>1, <1>2

\* The step of ApplyIn moves the shelf with its rows.
LEMMA ApplyInShelf == ASSUME CoreInv, ShelfInv, NEW c \in Exchanges, ApplyIn(c) PROVE ShelfInv'
<1>0. /\ Staged(c) /\ EventRows(c) /\ WorkTyped /\ LinesTyped /\ CoreInv' /\ made[c] \in Exchange
      /\ made[c].step # "none" /\ made[c].id # 0 /\ c \in Lines
  <2>1. CoreInv'
    BY ApplyInCore
  <2>2. made[c].id # 0
    BY DEF CoreInv, Staged, CreateStage, CancelStage, StepAt, Undoing, Standing, Claimed, At, ApplyIn
  <2> QED
    BY <2>1, <2>2 DEF CoreInv, Typed, WorkTyped, ShelfInv, Staged, CreateStage, Lines
<1>1. /\ made[c].plan.give \in Nat \ {0} /\ made[c].plan.take \in Nat \ {0} /\ Cap(c) = made[c].plan.give
      /\ made[c].plan.line \in Lines
  BY <1>0, PlannedLine
<1>2. /\ resv[c].qty \in Nat /\ resv[c].qty <= Cap(c) /\ stock.quantity \in Int /\ stock.reserved \in Nat
      /\ stock = [quantity |-> stock.quantity, reserved |-> stock.reserved]
      /\ resv[c] = [status |-> resv[c].status, qty |-> resv[c].qty]
  BY <1>0, RowTyped
<1>3. resv[c].status = "active" => stock.quantity - resv[c].qty >= 0 /\ stock.reserved - resv[c].qty >= 0
  BY <1>0, RowOnShelf
<1>4. TakenIn(c) \in Nat /\ LostIn(c) \in Nat
  BY <1>0, TakenNat DEF EventRows
<1>5. CASE Refused(c, "create")
  BY <1>0, <1>5, RefusedOff, OffShelfKeeps DEF ApplyIn, At
<1>6. CASE ~Refused(c, "create")
  <2>1. /\ stock' = IF made[c].in = "pending" THEN [stock EXCEPT !.quantity = @ + made[c].plan.take] ELSE stock
        /\ made' = [made EXCEPT ![c].in = "applied"] /\ made[c].in # "cancelled" /\ pc[c].create = "applyIn"
        /\ pc' = [pc EXCEPT ![c].create = "oldDone"] /\ UNCHANGED <<resv, undo>>
    BY <1>6, Zenon DEF ApplyIn, Goes, lineVars, At
  <2>2. Only(c) /\ pc'[c].create = "oldDone"
    BY <1>0, <2>1 DEF Only, WorkTyped
  <2>3. /\ made'[c].plan = made[c].plan /\ made'[c].id = made[c].id /\ made'[c].in = "applied"
        /\ made'[c].out = made[c].out /\ made'[c].movement = made[c].movement
    BY <1>0, <2>1 DEF WorkTyped, Exchange
  <2>4. made[c].in \in {"pending", "applied"}
    BY <1>0, <2>1 DEF EventRows, Exchange, Events
  <2>5. TakenIn(c)' = made[c].plan.take /\ LostIn(c)' = LostIn(c) /\ Orderly(c)'
    BY <1>0, <2>3 DEF TakenIn, LostIn, EventRows, Orderly
  <2>6. stock'.reserved = stock.reserved /\ stock'.quantity = stock.quantity + (TakenIn(c)' - TakenIn(c))
    BY <1>1, <1>2, <2>1, <2>4, <2>5 DEF TakenIn
  <2>7. Part(resv[c], "active") \in Nat /\ Part(resv[c], "fulfilled") \in Nat
    BY <1>2 DEF Part
  <2>8. /\ stock'.reserved = stock.reserved - Part(resv[c], "active") + Part(resv'[c], "active")
        /\ stock'.quantity = stock.quantity + Part(resv[c], "fulfilled") - Part(resv'[c], "fulfilled")
                              + (TakenIn(c)' - TakenIn(c)) - (LostIn(c)' - LostIn(c))
    BY <1>1, <1>2, <1>4, <2>1, <2>5, <2>6, <2>7
  <2>9. made'[c].out = "applied" => resv'[c] = [status |-> "fulfilled", qty |-> made[c].plan.give]
    BY <1>0, <2>1, <2>3 DEF EventRows
  <2> QED
    BY <1>0, <1>2, <2>1, <2>2, <2>3, <2>5, <2>8, <2>9, ShelfRow
<1> QED
  BY <1>5, <1>6

\* The step of Promise moves the shelf with its rows.
LEMMA PromiseShelf == ASSUME CoreInv, ShelfInv, NEW c \in Exchanges, Promise(c) PROVE ShelfInv'
<1>0. /\ Staged(c) /\ EventRows(c) /\ WorkTyped /\ LinesTyped /\ CoreInv' /\ made[c] \in Exchange
      /\ made[c].step # "none" /\ made[c].id # 0 /\ c \in Lines
  <2>1. CoreInv'
    BY PromiseCore
  <2>2. made[c].id # 0
    BY DEF CoreInv, Staged, CreateStage, CancelStage, StepAt, Undoing, Standing, Claimed, At, Promise
  <2> QED
    BY <2>1, <2>2 DEF CoreInv, Typed, WorkTyped, ShelfInv, Staged, CreateStage, Lines
<1>1. /\ made[c].plan.give \in Nat \ {0} /\ made[c].plan.take \in Nat \ {0} /\ Cap(c) = made[c].plan.give
      /\ made[c].plan.line \in Lines
  BY <1>0, PlannedLine
<1>2. /\ resv[c].qty \in Nat /\ resv[c].qty <= Cap(c) /\ stock.quantity \in Int /\ stock.reserved \in Nat
      /\ stock = [quantity |-> stock.quantity, reserved |-> stock.reserved]
      /\ resv[c] = [status |-> resv[c].status, qty |-> resv[c].qty]
  BY <1>0, RowTyped
<1>3. resv[c].status = "active" => stock.quantity - resv[c].qty >= 0 /\ stock.reserved - resv[c].qty >= 0
  BY <1>0, RowOnShelf
<1>4. TakenIn(c) \in Nat /\ LostIn(c) \in Nat
  BY <1>0, TakenNat DEF EventRows
<1>5. /\ pc' = [pc EXCEPT ![c].create = "contentDone"] /\ UNCHANGED <<made, undo>>
      /\ \/ UNCHANGED <<resv, stock>>
         \/ /\ resv[c].status = "none" /\ resv' = [resv EXCEPT ![c] = [status |-> "active", qty |-> made[c].plan.give]]
            /\ stock' = [stock EXCEPT !.reserved = @ + made[c].plan.give]
  BY Zenon DEF Promise, Goes
<1>6. Only(c) /\ Orderly(c)' /\ TakenIn(c)' = TakenIn(c) /\ LostIn(c)' = LostIn(c) /\ pc'[c].create = "contentDone"
  BY <1>0, <1>5 DEF Only, Orderly, TakenIn, LostIn, WorkTyped, EventRows
<1>7. CASE UNCHANGED <<resv, stock>>
  <2>1. OffShelf(c)
    BY <1>0, <1>5, <1>6, <1>7 DEF OffShelf
  <2> QED
    BY <1>0, <2>1, OffShelfKeeps
<1>8. CASE ~ UNCHANGED <<resv, stock>>
  <2>1. resv'[c] = [status |-> "active", qty |-> made[c].plan.give] /\ \A k \in Lines \ {c} : resv'[k] = resv[k]
    BY <1>0, <1>5, <1>8 DEF LinesTyped
  <2>2. stock'.reserved = stock.reserved + made[c].plan.give /\ stock'.quantity = stock.quantity
    BY <1>2, <1>5, <1>8
  <2>3. Part(resv[c], "active") = 0 /\ Part(resv[c], "fulfilled") = 0
    BY <1>5, <1>8 DEF Part
  <2>4. Part(resv'[c], "active") = made[c].plan.give /\ Part(resv'[c], "fulfilled") = 0
    BY <2>1 DEF Part
  <2>5. /\ stock'.reserved = stock.reserved - Part(resv[c], "active") + Part(resv'[c], "active")
        /\ stock'.quantity = stock.quantity + Part(resv[c], "fulfilled") - Part(resv'[c], "fulfilled")
                              + (TakenIn(c)' - TakenIn(c)) - (LostIn(c)' - LostIn(c))
    BY <1>1, <1>2, <1>4, <1>6, <2>2, <2>3, <2>4
  <2>6. made'[c].out = "applied" => resv'[c] = [status |-> "fulfilled", qty |-> made[c].plan.give]
    BY <1>0, <1>5, <1>8 DEF EventRows
  <2>7. resv'[c].qty <= Cap(c)
    BY <1>1, <2>1
  <2> QED
    BY <1>0, <1>5, <1>6, <2>1, <2>5, <2>6, <2>7, ShelfRow
<1> QED
  BY <1>7, <1>8

\* The step of ApplyOut moves the shelf with its rows.
LEMMA ApplyOutShelf == ASSUME CoreInv, ShelfInv, NEW c \in Exchanges, ApplyOut(c) PROVE ShelfInv'
<1>0. /\ Staged(c) /\ EventRows(c) /\ WorkTyped /\ LinesTyped /\ CoreInv' /\ made[c] \in Exchange
      /\ made[c].step # "none" /\ made[c].id # 0 /\ c \in Lines
  <2>1. CoreInv'
    BY ApplyOutCore
  <2>2. made[c].id # 0
    BY DEF CoreInv, Staged, CreateStage, CancelStage, StepAt, Undoing, Standing, Claimed, At, ApplyOut
  <2> QED
    BY <2>1, <2>2 DEF CoreInv, Typed, WorkTyped, ShelfInv, Staged, CreateStage, Lines
<1>1. /\ made[c].plan.give \in Nat \ {0} /\ made[c].plan.take \in Nat \ {0} /\ Cap(c) = made[c].plan.give
      /\ made[c].plan.line \in Lines
  BY <1>0, PlannedLine
<1>2. /\ resv[c].qty \in Nat /\ resv[c].qty <= Cap(c) /\ stock.quantity \in Int /\ stock.reserved \in Nat
      /\ stock = [quantity |-> stock.quantity, reserved |-> stock.reserved]
      /\ resv[c] = [status |-> resv[c].status, qty |-> resv[c].qty]
  BY <1>0, RowTyped
<1>3. resv[c].status = "active" => stock.quantity - resv[c].qty >= 0 /\ stock.reserved - resv[c].qty >= 0
  BY <1>0, RowOnShelf
<1>4. TakenIn(c) \in Nat /\ LostIn(c) \in Nat
  BY <1>0, TakenNat DEF EventRows
<1>5. CASE Refused(c, "create")
  BY <1>0, <1>5, RefusedOff, OffShelfKeeps DEF ApplyOut, At
<1>6. CASE /\ made[c].out = "applied" /\ Goes(c, "create", "newDone")
           /\ UNCHANGED <<lineVars, bookVars, made, undo, spent>>
  <2>1. OffShelf(c)
    <3>1. Only(c) /\ pc'[c].create = "newDone" /\ UNCHANGED <<resv, stock, made>>
      BY <1>0, <1>6 DEF Goes, Only, WorkTyped, lineVars, bookVars
    <3> QED
      BY <1>0, <3>1 DEF OffShelf, TakenIn, LostIn, EventRows, Orderly
  <2> QED
    BY <1>0, <2>1, OffShelfKeeps
<1>7. CASE /\ made[c].out = "pending"
           /\ resv[c] = [status |-> "active", qty |-> made[c].plan.give]
           /\ stock' = [quantity |-> stock.quantity - made[c].plan.give,
                        reserved |-> Floor(stock.reserved - made[c].plan.give)]
           /\ resv' = [resv EXCEPT ![c].status = "fulfilled"]
           /\ made' = [made EXCEPT ![c].out = "applied", ![c].movement = "inserted"]
           /\ Goes(c, "create", "linkOut") /\ undo' = undo
  <2>1. Only(c) /\ pc'[c].create = "linkOut"
    BY <1>0, <1>7 DEF Goes, Only, WorkTyped
  <2>2. /\ made'[c].plan = made[c].plan /\ made'[c].id = made[c].id /\ made'[c].in = made[c].in
        /\ made'[c].out = "applied" /\ made'[c].movement = "inserted"
    BY <1>0, <1>7 DEF WorkTyped, Exchange, Events
  <2>3. resv'[c] = [status |-> "fulfilled", qty |-> made[c].plan.give] /\ \A k \in Lines \ {c} : resv'[k] = resv[k]
    <3>1. resv'[c] = [resv[c] EXCEPT !.status = "fulfilled"]
      BY <1>0, <1>7 DEF LinesTyped
    <3> QED
      BY <1>0, <1>7, <3>1 DEF LinesTyped
  <2>4. TakenIn(c)' = TakenIn(c) /\ LostIn(c)' = LostIn(c) /\ Orderly(c)'
    BY <1>0, <1>7, <2>2 DEF TakenIn, LostIn, Orderly
  <2>5. /\ Part(resv[c], "active") = made[c].plan.give /\ Part(resv[c], "fulfilled") = 0
        /\ Part(resv'[c], "active") = 0 /\ Part(resv'[c], "fulfilled") = made[c].plan.give
    BY <1>7, <2>3 DEF Part
  <2>6. stock'.reserved = stock.reserved - made[c].plan.give /\ stock'.quantity = stock.quantity - made[c].plan.give
    BY <1>1, <1>2, <1>3, <1>7, FloorType
  <2>7. /\ stock'.reserved = stock.reserved - Part(resv[c], "active") + Part(resv'[c], "active")
        /\ stock'.quantity = stock.quantity + Part(resv[c], "fulfilled") - Part(resv'[c], "fulfilled")
                              + (TakenIn(c)' - TakenIn(c)) - (LostIn(c)' - LostIn(c))
    BY <1>1, <1>2, <1>4, <2>4, <2>5, <2>6
  <2>8. resv'[c].qty <= Cap(c)
    BY <1>1, <2>3
  <2> QED
    BY <1>0, <2>1, <2>2, <2>3, <2>4, <2>7, <2>8, ShelfRow
<1> QED
  BY <1>5, <1>6, <1>7 DEF ApplyOut

\* The step of CancelIn moves the shelf with its rows.
LEMMA CancelInShelf == ASSUME CoreInv, ShelfInv, NEW c \in Exchanges, CancelIn(c) PROVE ShelfInv'
<1>0. /\ Staged(c) /\ EventRows(c) /\ WorkTyped /\ LinesTyped /\ CoreInv' /\ made[c] \in Exchange
      /\ made[c].step # "none" /\ made[c].id # 0 /\ c \in Lines
  <2>1. CoreInv'
    BY CancelInCore
  <2>2. made[c].id # 0
    BY DEF CoreInv, Staged, CreateStage, CancelStage, StepAt, Undoing, Standing, Claimed, At, CancelIn
  <2> QED
    BY <2>1, <2>2 DEF CoreInv, Typed, WorkTyped, ShelfInv, Staged, CreateStage, Lines
<1>1. /\ made[c].plan.give \in Nat \ {0} /\ made[c].plan.take \in Nat \ {0} /\ Cap(c) = made[c].plan.give
      /\ made[c].plan.line \in Lines
  BY <1>0, PlannedLine
<1>2. /\ resv[c].qty \in Nat /\ resv[c].qty <= Cap(c) /\ stock.quantity \in Int /\ stock.reserved \in Nat
      /\ stock = [quantity |-> stock.quantity, reserved |-> stock.reserved]
      /\ resv[c] = [status |-> resv[c].status, qty |-> resv[c].qty]
  BY <1>0, RowTyped
<1>3. resv[c].status = "active" => stock.quantity - resv[c].qty >= 0 /\ stock.reserved - resv[c].qty >= 0
  BY <1>0, RowOnShelf
<1>4. TakenIn(c) \in Nat /\ LostIn(c) \in Nat
  BY <1>0, TakenNat DEF EventRows
<1>5. /\ stock' = IF made[c].in = "applied" THEN [stock EXCEPT !.quantity = @ - made[c].plan.take] ELSE stock
      /\ made' = [made EXCEPT ![c].in = IF @ = "none" THEN @ ELSE "cancelled"]
      /\ pc' = [pc EXCEPT ![c].cancel = "out"] /\ UNCHANGED <<resv, undo>>
  BY Zenon DEF CancelIn, Goes, lineVars
<1>6. Only(c) /\ pc'[c].create = pc[c].create
  BY <1>0, <1>5 DEF Only, WorkTyped
<1>7. /\ made'[c].plan = made[c].plan /\ made'[c].id = made[c].id /\ made'[c].out = made[c].out
      /\ made'[c].movement = made[c].movement
      /\ made'[c].in = IF made[c].in = "none" THEN "none" ELSE "cancelled"
  BY <1>0, <1>5 DEF WorkTyped, Exchange
<1>8. TakenIn(c)' = 0 /\ LostIn(c)' = LostIn(c) /\ Orderly(c)'
  BY <1>0, <1>7 DEF TakenIn, LostIn, EventRows, Orderly
<1>9. stock'.reserved = stock.reserved /\ stock'.quantity = stock.quantity - TakenIn(c)
  BY <1>1, <1>2, <1>5 DEF TakenIn
<1>10. Part(resv[c], "active") \in Nat /\ Part(resv[c], "fulfilled") \in Nat
  BY <1>2 DEF Part
<1>11. /\ stock'.reserved = stock.reserved - Part(resv[c], "active") + Part(resv'[c], "active")
       /\ stock'.quantity = stock.quantity + Part(resv[c], "fulfilled") - Part(resv'[c], "fulfilled")
                              + (TakenIn(c)' - TakenIn(c)) - (LostIn(c)' - LostIn(c))
  BY <1>2, <1>4, <1>5, <1>8, <1>9, <1>10
<1>12. /\ made'[c].out = "applied" => resv'[c] = [status |-> "fulfilled", qty |-> made[c].plan.give]
       /\ pc'[c].create = "applyIn" => made'[c].in # "none"
  BY <1>0, <1>5, <1>6, <1>7 DEF EventRows
<1> QED
  BY <1>0, <1>2, <1>5, <1>6, <1>7, <1>8, <1>11, <1>12, ShelfRow

\* The step of CancelOut moves the shelf with its rows.
LEMMA CancelOutShelf == ASSUME CoreInv, ShelfInv, NEW c \in Exchanges, CancelOut(c) PROVE ShelfInv'
<1>0. /\ Staged(c) /\ EventRows(c) /\ WorkTyped /\ LinesTyped /\ CoreInv' /\ made[c] \in Exchange
      /\ made[c].step # "none" /\ made[c].id # 0 /\ c \in Lines
  <2>1. CoreInv'
    BY CancelOutCore
  <2>2. made[c].id # 0
    BY DEF CoreInv, Staged, CreateStage, CancelStage, StepAt, Undoing, Standing, Claimed, At, CancelOut
  <2> QED
    BY <2>1, <2>2 DEF CoreInv, Typed, WorkTyped, ShelfInv, Staged, CreateStage, Lines
<1>1. /\ made[c].plan.give \in Nat \ {0} /\ made[c].plan.take \in Nat \ {0} /\ Cap(c) = made[c].plan.give
      /\ made[c].plan.line \in Lines
  BY <1>0, PlannedLine
<1>2. /\ resv[c].qty \in Nat /\ resv[c].qty <= Cap(c) /\ stock.quantity \in Int /\ stock.reserved \in Nat
      /\ stock = [quantity |-> stock.quantity, reserved |-> stock.reserved]
      /\ resv[c] = [status |-> resv[c].status, qty |-> resv[c].qty]
  BY <1>0, RowTyped
<1>3. resv[c].status = "active" => stock.quantity - resv[c].qty >= 0 /\ stock.reserved - resv[c].qty >= 0
  BY <1>0, RowOnShelf
<1>4. TakenIn(c) \in Nat /\ LostIn(c) \in Nat
  BY <1>0, TakenNat DEF EventRows
<1> DEFINE releases == (made[c].out = "applied" /\ resv[c].status = "fulfilled")
                       \/ (made[c].out = "pending" /\ resv[c].status = "active")
<1>5. /\ stock' = IF GivesBack(c) THEN [stock EXCEPT !.quantity = @ + made[c].plan.give]
                  ELSE IF made[c].out = "pending" /\ releases
                       THEN [stock EXCEPT !.reserved = Floor(@ - resv[c].qty)] ELSE stock
      /\ resv' = IF releases THEN [resv EXCEPT ![c].status = "released"] ELSE resv
      /\ made' = [made EXCEPT ![c].out = IF @ = "none" THEN @ ELSE "cancelled"]
      /\ pc' = [pc EXCEPT ![c].cancel = "release"] /\ UNCHANGED undo
  BY Zenon DEF CancelOut, Goes
<1>6. Only(c) /\ pc'[c].create = pc[c].create
  BY <1>0, <1>5 DEF Only, WorkTyped
<1>7. /\ made'[c].plan = made[c].plan /\ made'[c].id = made[c].id /\ made'[c].in = made[c].in
      /\ made'[c].out = (IF made[c].out = "none" THEN "none" ELSE "cancelled")
      /\ made'[c].movement = made[c].movement
  BY <1>0, <1>5 DEF WorkTyped, Exchange
<1>8. TakenIn(c)' = TakenIn(c) /\ Orderly(c)'
  BY <1>0, <1>7 DEF TakenIn, EventRows, Orderly
<1>14. LostIn(c)' - LostIn(c) = IF made[c].out = "applied" /\ ~GivesBack(c) THEN made[c].plan.give ELSE 0
  <2>1. made[c].out \in {"none", "pending", "applied", "cancelled"} /\ made[c].movement \in {"none", "inserted", "linked"}
    BY <1>0 DEF Exchange, Events
  <2>2. LostIn(c)' = IF made'[c].out = "cancelled" /\ made[c].movement = "inserted" THEN made[c].plan.give ELSE 0
    BY <1>7 DEF LostIn
  <2> QED
    BY <1>0, <1>1, <1>7, <2>1, <2>2 DEF LostIn, GivesBack, EventRows, Orderly
<1>9. /\ \A k \in Lines \ {c} : resv'[k] = resv[k]
      /\ resv'[c] = IF releases THEN [status |-> "released", qty |-> resv[c].qty] ELSE resv[c]
  <2>1. CASE releases
    <3>1. resv'[c] = [resv[c] EXCEPT !.status = "released"]
      BY <1>0, <1>5, <2>1 DEF LinesTyped
    <3>2. [resv[c] EXCEPT !.status = "released"] = [status |-> "released", qty |-> resv[c].qty]
      BY <1>2
    <3> QED
      BY <1>0, <1>5, <2>1, <3>1, <3>2 DEF LinesTyped
  <2>2. CASE ~releases
    BY <1>5, <2>2
  <2> QED
    BY <2>1, <2>2
<1>10. made[c].out = "applied" => resv[c] = [status |-> "fulfilled", qty |-> made[c].plan.give]
  BY <1>0 DEF EventRows
<1>11. /\ stock'.reserved = stock.reserved - Part(resv[c], "active") + Part(resv'[c], "active")
       /\ stock'.quantity = stock.quantity + Part(resv[c], "fulfilled") - Part(resv'[c], "fulfilled")
                              - (LostIn(c)' - LostIn(c))
  <2>1. CASE made[c].out = "applied"
    BY <1>1, <1>2, <1>5, <1>9, <1>10, <1>14, <2>1 DEF Part
  <2>2. CASE made[c].out # "applied" /\ releases
    BY <1>1, <1>2, <1>3, <1>5, <1>9, <1>14, <2>2, FloorType DEF Part, GivesBack
  <2>3. CASE made[c].out # "applied" /\ ~releases
    BY <1>1, <1>2, <1>5, <1>9, <1>14, <2>3 DEF Part, GivesBack
  <2> QED
    BY <2>1, <2>2, <2>3
<1>12. stock'.quantity = stock.quantity + Part(resv[c], "fulfilled") - Part(resv'[c], "fulfilled")
                              + (TakenIn(c)' - TakenIn(c)) - (LostIn(c)' - LostIn(c))
  <2>1. Part(resv[c], "fulfilled") \in Int /\ Part(resv'[c], "fulfilled") \in Int
    BY <1>2, <1>9 DEF Part
  <2>2. LostIn(c)' - LostIn(c) \in Int
    BY <1>1, <1>14
  <2> QED
    BY <1>2, <1>4, <1>8, <1>11, <2>1, <2>2
<1>13. resv'[c].qty <= Cap(c) /\ (pc'[c].create = "applyIn" => made'[c].in # "none")
  BY <1>0, <1>2, <1>6, <1>7, <1>9 DEF EventRows
<1> HIDE DEF releases
<1> QED
  BY <1>0, <1>6, <1>7, <1>8, <1>9, <1>11, <1>12, <1>13, ShelfRow

\* The step of ReleaseNew moves the shelf with its rows.
LEMMA ReleaseNewShelf == ASSUME CoreInv, ShelfInv, NEW c \in Exchanges, ReleaseNew(c) PROVE ShelfInv'
<1>0. /\ Staged(c) /\ EventRows(c) /\ WorkTyped /\ LinesTyped /\ CoreInv' /\ made[c] \in Exchange
      /\ made[c].step # "none" /\ made[c].id # 0 /\ c \in Lines
  <2>1. CoreInv'
    BY ReleaseNewCore
  <2>2. made[c].id # 0
    BY DEF CoreInv, Staged, CreateStage, CancelStage, StepAt, Undoing, Standing, Claimed, At, ReleaseNew
  <2> QED
    BY <2>1, <2>2 DEF CoreInv, Typed, WorkTyped, ShelfInv, Staged, CreateStage, Lines
<1>1. /\ made[c].plan.give \in Nat \ {0} /\ made[c].plan.take \in Nat \ {0} /\ Cap(c) = made[c].plan.give
      /\ made[c].plan.line \in Lines
  BY <1>0, PlannedLine
<1>2. /\ resv[c].qty \in Nat /\ resv[c].qty <= Cap(c) /\ stock.quantity \in Int /\ stock.reserved \in Nat
      /\ stock = [quantity |-> stock.quantity, reserved |-> stock.reserved]
      /\ resv[c] = [status |-> resv[c].status, qty |-> resv[c].qty]
  BY <1>0, RowTyped
<1>3. resv[c].status = "active" => stock.quantity - resv[c].qty >= 0 /\ stock.reserved - resv[c].qty >= 0
  BY <1>0, RowOnShelf
<1>4. TakenIn(c) \in Nat /\ LostIn(c) \in Nat
  BY <1>0, TakenNat DEF EventRows
<1>5. /\ pc' = [pc EXCEPT ![c].cancel = "empty"] /\ UNCHANGED <<made, undo>>
      /\ \/ UNCHANGED <<resv, stock>>
         \/ /\ resv[c].status = "active" /\ resv' = [resv EXCEPT ![c].status = "released"]
            /\ stock' = [stock EXCEPT !.reserved = Floor(@ - resv[c].qty)]
  BY Zenon DEF ReleaseNew, Releases, Goes
<1>6. Only(c) /\ Orderly(c)' /\ TakenIn(c)' = TakenIn(c) /\ LostIn(c)' = LostIn(c) /\ pc'[c].create = pc[c].create
  BY <1>0, <1>5 DEF Only, Orderly, TakenIn, LostIn, WorkTyped, EventRows
<1>7. CASE UNCHANGED <<resv, stock>>
  <2>1. OffShelf(c)
    BY <1>0, <1>5, <1>6, <1>7 DEF OffShelf, EventRows
  <2> QED
    BY <1>0, <2>1, OffShelfKeeps
<1>8. CASE ~ UNCHANGED <<resv, stock>>
  <2>1. resv'[c] = [status |-> "released", qty |-> resv[c].qty] /\ \A k \in Lines \ {c} : resv'[k] = resv[k]
    <3>1. resv'[c] = [resv[c] EXCEPT !.status = "released"]
      BY <1>0, <1>5, <1>8 DEF LinesTyped
    <3>2. [resv[c] EXCEPT !.status = "released"] = [status |-> "released", qty |-> resv[c].qty]
      BY <1>2
    <3> QED
      BY <1>0, <1>5, <1>8, <3>1, <3>2 DEF LinesTyped
  <2>2. stock'.reserved = stock.reserved - resv[c].qty /\ stock'.quantity = stock.quantity
    BY <1>2, <1>3, <1>5, <1>8, FloorType
  <2>3. /\ Part(resv[c], "active") = resv[c].qty /\ Part(resv[c], "fulfilled") = 0
        /\ Part(resv'[c], "active") = 0 /\ Part(resv'[c], "fulfilled") = 0
    BY <1>5, <1>8, <2>1 DEF Part
  <2>4. /\ stock'.reserved = stock.reserved - Part(resv[c], "active") + Part(resv'[c], "active")
        /\ stock'.quantity = stock.quantity + Part(resv[c], "fulfilled") - Part(resv'[c], "fulfilled")
                              + (TakenIn(c)' - TakenIn(c)) - (LostIn(c)' - LostIn(c))
    BY <1>2, <1>4, <1>6, <2>2, <2>3
  <2>5. made[c].out # "applied"
    BY <1>0, <1>5, <1>8 DEF EventRows
  <2>6. resv'[c].qty <= Cap(c) /\ (pc'[c].create = "applyIn" => made'[c].in # "none")
    BY <1>0, <1>2, <1>5, <1>6, <2>1 DEF EventRows
  <2> QED
    BY <1>0, <1>5, <1>6, <2>1, <2>4, <2>5, <2>6, ShelfRow
<1> QED
  BY <1>7, <1>8

\* The step of RestoreResv moves the shelf with its rows.
LEMMA RestoreResvShelf == ASSUME CoreInv, ShelfInv, NEW c \in Exchanges, RestoreResv(c) PROVE ShelfInv'
<1> DEFINE p == made[c].plan
           l == p.line
           smaller == p.target > 0 /\ resv[l] = Reduced(p)
<1>0. /\ Staged(c) /\ EventRows(c) /\ WorkTyped /\ LinesTyped /\ CoreInv'
      /\ made[c].step # "none" /\ pc[c].cancel = "oldResv"
  BY RestoreResvCore, AtWork DEF CoreInv, Typed, ShelfInv, RestoreResv, At
<1>1. CASE Refused(c, "cancel")
  BY <1>0, <1>1, RefusedOff, OffShelfKeeps
<1>2. CASE ~Refused(c, "cancel")
  <2>1. /\ c \in Lines /\ l \in Lines /\ l # c /\ p.initial = p.target + p.take
        /\ p.initial \in Nat /\ p.target \in Nat /\ p.take \in Nat \ {0}
        /\ p.snapshot \in [status : {"none", "active"}, qty : Nat]
        /\ p.snapshot.status = "active" => p.snapshot.qty = p.initial
        /\ p.snapshot.qty <= Cap(l) /\ Cap(l) \in Nat
    BY <1>0, PlannedLine
  <2>2. /\ pc' = [pc EXCEPT ![c].cancel = "moneyBack"] /\ UNCHANGED <<made, undo>>
        /\ \/ UNCHANGED <<resv, stock>>
           \/ /\ p.snapshot.status = "active"
              /\ smaller \/ (~smaller /\ resv[l].status = "released")
              /\ resv' = [resv EXCEPT ![l] = IF smaller THEN p.snapshot ELSE [@ EXCEPT !.status = "active"]]
              /\ stock' = [stock EXCEPT !.reserved = @ + IF smaller THEN p.take ELSE resv[l].qty]
    BY <1>2, Zenon DEF RestoreResv, Goes
  <2>3. Only(c) /\ Orderly(c)' /\ TakenIn(c)' = TakenIn(c) /\ LostIn(c)' = LostIn(c) /\ pc'[c].create = pc[c].create
    BY <1>0, <2>2 DEF Only, Orderly, TakenIn, LostIn, WorkTyped, EventRows
  <2>4. /\ resv[l].qty \in Nat /\ resv[l].qty <= Cap(l) /\ stock.quantity \in Int /\ stock.reserved \in Nat
        /\ stock = [quantity |-> stock.quantity, reserved |-> stock.reserved]
        /\ resv[l] = [status |-> resv[l].status, qty |-> resv[l].qty]
    BY <2>1, RowTyped
  <2>6. TakenIn(c) \in Nat /\ LostIn(c) \in Nat
    BY <1>0, TakenNat DEF EventRows
  <2>7. made[c].out = "applied" => resv[c] = [status |-> "fulfilled", qty |-> p.give]
    BY <1>0 DEF EventRows
  <2>8. Reduced(p) = [status |-> p.snapshot.status, qty |-> p.target]
        /\ p.snapshot = [status |-> p.snapshot.status, qty |-> p.snapshot.qty]
    BY <2>1 DEF Reduced
  <2> HIDE DEF p, l
  <2>9. CASE UNCHANGED <<resv, stock>>
    <3>1. OffShelf(c)
      BY <1>0, <2>2, <2>3, <2>9 DEF OffShelf, p, EventRows
    <3> QED
      BY <1>0, <3>1, OffShelfKeeps
  <2>10. CASE ~ UNCHANGED <<resv, stock>>
    <3>1. /\ \A k \in Lines \ {l} : resv'[k] = resv[k]
          /\ resv[l].status # "fulfilled" /\ resv'[l].qty <= Cap(l)
          /\ stock'.reserved = stock.reserved - Part(resv[l], "active") + Part(resv'[l], "active")
          /\ stock'.quantity = stock.quantity
          /\ Part(resv[l], "fulfilled") = 0 /\ Part(resv'[l], "fulfilled") = 0
      <4>1. CASE smaller
        <5>1. /\ resv[l] = [status |-> "active", qty |-> p.target]
              /\ resv'[l] = [status |-> "active", qty |-> p.initial]
              /\ \A k \in Lines \ {l} : resv'[k] = resv[k]
          BY <1>0, <2>1, <2>2, <2>8, <2>10, <4>1 DEF LinesTyped
        <5>2. stock'.reserved = stock.reserved + p.take /\ stock'.quantity = stock.quantity
          BY <2>2, <2>4, <2>10, <4>1
        <5>3. p.initial <= Cap(l)
          BY <2>1, <2>2, <2>10
        <5> HIDE DEF smaller
        <5> QED
          BY <2>1, <2>4, <5>1, <5>2, <5>3 DEF Part
      <4>2. CASE ~smaller
        <5>1. /\ resv[l].status = "released" /\ resv'[l] = [resv[l] EXCEPT !.status = "active"]
              /\ \A k \in Lines \ {l} : resv'[k] = resv[k]
          BY <1>0, <2>1, <2>2, <2>10, <4>2 DEF LinesTyped
        <5>2. resv'[l] = [status |-> "active", qty |-> resv[l].qty]
          BY <2>4, <5>1
        <5>3. stock'.reserved = stock.reserved + resv[l].qty /\ stock'.quantity = stock.quantity
          BY <2>2, <2>4, <2>10, <4>2
        <5> HIDE DEF smaller
        <5> QED
          BY <2>1, <2>4, <5>1, <5>2, <5>3 DEF Part
      <4> QED
        BY <4>1, <4>2
    <3>2. stock'.quantity = stock.quantity + Part(resv[l], "fulfilled") - Part(resv'[l], "fulfilled")
                              + (TakenIn(c)' - TakenIn(c)) - (LostIn(c)' - LostIn(c))
      BY <2>3, <2>4, <2>6, <3>1
    <3>3. /\ made'[c].out = "applied" => resv'[c] = [status |-> "fulfilled", qty |-> made[c].plan.give]
          /\ made[c].step # "none" /\ made'[c].plan = made[c].plan
          /\ pc'[c].create = "applyIn" => made'[c].in # "none"
      BY <1>0, <2>1, <2>2, <2>3, <2>7, <3>1 DEF p, EventRows
    <3> QED
      BY <1>0, <2>1, <2>3, <3>1, <3>2, <3>3, ShelfRow
  <2> QED
    BY <2>9, <2>10
<1> QED
  BY <1>1, <1>2

\* The most a row may reserve is a number.
LEMMA CapNat == ASSUME CoreInv, NEW l \in Lines PROVE Cap(l) \in Nat
<1>1. \A d \in Exchanges : made[d].step # "none" => made[d].plan.give \in Nat
  BY PlansOf, ExchangeAssumption DEF Plans
<1> QED
  BY <1>1, ExchangeAssumption DEF Cap, Lines

\* The step of Plan moves the shelf with its rows.
LEMMA PlanShelf == ASSUME CoreInv, ShelfInv, NEW c \in Exchanges, Plan(c) PROVE ShelfInv'
<1>0. Staged(c) /\ EventRows(c) /\ WorkTyped /\ LinesTyped /\ CoreInv' /\ made[c].step = "none"
  BY PlanCore DEF CoreInv, Typed, ShelfInv, Plan
<1>1. PICK l \in Lines, take \in Takes, give \in Gives, physical \in {"not_issued", "warehouse"},
            shipped \in BOOLEAN, pay \in 0..1 :
           /\ Fits(c, l, take, give, physical, pay)
           /\ Validated(c, PlanOf(c, l, take, give, physical, shipped, pay))
           /\ Floor(qty[l] - take) = qty[l] - take
  BY PlanMakes
<1> DEFINE p == PlanOf(c, l, take, give, physical, shipped, pay)
<1>2. /\ p.line = l /\ p.give = give /\ p.take = take
      /\ p.snapshot = IF physical = "not_issued" THEN resv[l] ELSE Nothing
  BY DEF PlanOf
<1>3. Validated(c, p)
  BY <1>1
<1> HIDE DEF p
<1>4. /\ made'[c].step = "validated" /\ made'[c].plan = p /\ made'[c].id = made[c].id /\ made'[c].in = made[c].in
      /\ made'[c].out = made[c].out /\ made'[c].money = made[c].money /\ made'[c].linked = made[c].linked
      /\ made'[c].oldRow = made[c].oldRow /\ made'[c].movement = made[c].movement
      /\ \A d \in Exchanges \ {c} : made'[d] = made[d]
  BY <1>0, <1>3 DEF Validated, WorkTyped, Exchange
<1>5. /\ UNCHANGED <<qty, mark, resv, returned, stock, undo>> /\ pc' = [pc EXCEPT ![c].create = "claim"]
  BY DEF Plan, Goes, lineVars, bookVars
<1>6. Only(c) /\ pc'[c].create = "claim"
  BY <1>0, <1>4, <1>5 DEF Only, WorkTyped
<1>7. made[c].id = 0 /\ mark[c] = "absent" /\ resv[c] = Nothing /\ qty[c] = 0
  BY <1>0 DEF Staged, CreateStage, NewLineOK, Midway
<1>8. /\ made[c].in = "none" /\ made[c].out = "none" /\ Orderly(c)' /\ TakenIn(c) = 0 /\ TakenIn(c)' = 0
      /\ LostIn(c) = 0 /\ LostIn(c)' = 0
  BY <1>0, <1>4, <1>7 DEF EventRows, Orderly, TakenIn, LostIn
<1>9. TakenBack' = TakenBack /\ Missing' = Missing
  <2>1. /\ TakenBack' = TakenBack - TakenIn(c) + TakenIn(c)'
        /\ Missing' = Missing - LostIn(c) + LostIn(c)'
    BY <1>0, <1>6, <1>8, EventChanges DEF ShelfInv, EventRows
  <2>2. TakenBack \in Nat /\ Missing \in Nat
    BY SumsTyped DEF ShelfInv, EventRows
  <2> QED
    BY <1>8, <2>1, <2>2
<1>10. Counted'
  BY <1>5, <1>9, RowsKept DEF ShelfInv, Counted
<1>11. /\ \A k \in Lines \ {c} : Cap(k)' = Cap(k)
       /\ Cap(c)' = give /\ give \in Nat /\ \A k \in Lines : Cap(k) \in Nat
  <2>1. c \notin First /\ give \in Nat
    BY ExchangeAssumption
  <2> QED
    BY <1>2, <1>4, <2>1, CapNat DEF Cap, Lines
<1>12. Capped'
  BY <1>5, <1>7, <1>11 DEF ShelfInv, Capped, Nothing
<1>13. l # c
  <2>1. qty[l] > 0
    <3>1. take \in Nat \ {0} /\ take + returned[l] <= qty[l] /\ returned[l] \in Nat /\ qty[l] \in Nat
      BY <1>0, <1>1, ExchangeAssumption DEF Fits, Available, LinesTyped
    <3> QED
      BY <3>1
  <2> QED
    BY <1>7, <2>1
<1>14. EventRows(c)'
  <2>1. p.snapshot.qty <= Cap(l)
    BY <1>2, <1>11 DEF ShelfInv, Capped, Nothing
  <2> QED
    BY <1>2, <1>4, <1>6, <1>8, <1>11, <1>13, <2>1 DEF EventRows
<1>15. ASSUME NEW d \in Exchanges \ {c} PROVE EventRows(d)'
  <2>1. EventRows(d) /\ made'[d] = made[d] /\ pc'[d] = pc[d]
    BY <1>6 DEF ShelfInv, Only
  <2>2. Orderly(d)'
    BY <2>1 DEF EventRows, Orderly
  <2>3. made[d].step # "none" => made[d].plan.line \in Lines \ {c}
    BY <1>7, PlansOf DEF Plans, CoreInv, Staged, LineThere
  <2> QED
    BY <1>5, <1>11, <2>1, <2>2, <2>3 DEF EventRows
<1> QED
  BY <1>10, <1>12, <1>14, <1>15 DEF ShelfInv

\* Neither the rows nor the events are touched by a return.
LEMMA ReturnsShelf ==
  ASSUME ShelfInv, UNCHANGED <<resv, stock, made, pc>>
  PROVE  ShelfInv'
<1>1. Active' = Active /\ Shipped' = Shipped /\ TakenBack' = TakenBack /\ Missing' = Missing
  BY DEF Active, Shipped, TakenBack, Missing
<1>2. \A l \in Lines : Cap(l)' = Cap(l)
  BY DEF Cap
<1>3. ASSUME NEW c \in Exchanges PROVE EventRows(c)'
  <2>1. Cap(made[c].plan.line)' = Cap(made[c].plan.line)
    BY DEF Cap
  <2> QED
    BY <2>1 DEF ShelfInv, EventRows, Orderly
<1> QED
  BY <1>1, <1>2, <1>3 DEF ShelfInv, Counted, Capped

\* At first the shelf is what the rows of the order say.
LEMMA ShelfInit == Init => ShelfInv
<1> SUFFICES ASSUME Init PROVE ShelfInv
  OBVIOUS
<1>0. CoreInv /\ LinesTyped /\ First \subseteq Lines /\ First \cap Exchanges = {}
  BY CoreInit, ExchangeAssumption DEF CoreInv, Typed, Lines
<1>1. PICK issued \in SUBSET First :
        /\ resv = [l \in Lines |-> IF l \in First
                     THEN [status |-> IF l \in issued THEN "fulfilled" ELSE "active", qty |-> Ordered[l]]
                     ELSE Nothing]
        /\ stock = [quantity |-> InStock - OrderedUnits(issued), reserved |-> OrderedUnits(First \ issued)]
  BY DEF Init
<1>2. ASSUME NEW st \in {"active", "fulfilled"}, NEW S \in SUBSET First,
             \A l \in First : resv[l].status = st <=> l \in S
      PROVE  Sum(InStatus(resv, st), Lines) = OrderedUnits(S)
  <2> DEFINE f == InStatus(resv, st)
  <2>1. \A l \in Lines : f[l] = IF l \in S THEN Ordered[l] ELSE 0
    BY <1>1, <1>2 DEF InStatus, Part, Nothing
  <2>2. (\A l \in Lines : f[l] \in Int) /\ S \in SUBSET Lines /\ IsFiniteSet(S) /\ (\A l \in S : f[l] = Ordered[l])
    BY <1>0, <2>1, ExchangeAssumption, LinesFinite, FS_Subset
  <2>3. \A l \in Lines \ S : f[l] = 0
    BY <2>1
  <2> HIDE DEF f
  <2>4. Sum(f, Lines) = Sum(f, S)
    BY <2>2, <2>3, LinesFinite, SumSupport
  <2>5. Sum(f, S) = Sum(Ordered, S)
    <3>1. \A l \in S : f[l] \in Int /\ f[l] = Ordered[l]
      BY <2>2
    <3> QED
      BY <2>2, <3>1, SumSame DEF Sum
  <2> QED
    BY <2>4, <2>5, OrderedIs DEF f
<1>3. Active = OrderedUnits(First \ issued) /\ Shipped = OrderedUnits(issued)
  <2>1. \A l \in First : resv[l].status = "active" <=> l \in First \ issued
    BY <1>0, <1>1
  <2>2. \A l \in First : resv[l].status = "fulfilled" <=> l \in issued
    BY <1>0, <1>1
  <2>3. First \ issued \in SUBSET First
    OBVIOUS
  <2> QED
    BY <1>2, <2>1, <2>2, <2>3 DEF Active, Shipped
<1>4. \A c \in Exchanges : /\ made[c].step = "none" /\ made[c].in = "none" /\ made[c].out = "none"
                           /\ made[c].money = FALSE /\ made[c].linked = FALSE /\ made[c].oldRow = FALSE
                           /\ pc[c].create = "idle" /\ made[c].id = 0 /\ made[c].movement = "none"
  BY DEF Init
<1>5. TakenBack = 0 /\ Missing = 0
  <2>1. \A c \in Exchanges : TakenUnits(made)[c] = 0 /\ LostUnits(made)[c] = 0
    BY <1>4 DEF TakenUnits, LostUnits
  <2> QED
    BY <2>1, LinesFinite, SumZero DEF TakenBack, Missing, Sum
<1>6. Counted
  <2>1. OrderedUnits(issued) \in Nat
    BY OrderedNat
  <2> QED
    BY <1>1, <1>3, <1>5, <2>1, ExchangeAssumption DEF Counted
<1>7. Capped
  <2>1. \A l \in Lines : resv[l].qty = IF l \in First THEN Ordered[l] ELSE 0
    BY <1>1 DEF Nothing
  <2>2. \A l \in Lines : Cap(l) = IF l \in First THEN Ordered[l] ELSE 0
    BY <1>4 DEF Cap, Lines
  <2>3. \A l \in First : Ordered[l] \in Nat
    BY ExchangeAssumption
  <2> QED
    BY <2>1, <2>2, <2>3 DEF Capped
<1>8. \A c \in Exchanges : EventRows(c)
  BY <1>4 DEF EventRows, Orderly
<1> QED
  BY <1>6, <1>7, <1>8 DEF ShelfInv

\* Every step moves the shelf with its rows, whoever works beside whom.
LEMMA ShelfStep == ASSUME CoreInv, ShelfInv, [Next]_vars PROVE ShelfInv'
<1>0. CoreInv'
  BY CoreStep
<1>1. ASSUME NEW c \in Exchanges, Creates(c) PROVE ShelfInv'
  <2>1. CASE Reserve(c) \/ ApplyIn(c) \/ Promise(c) \/ ApplyOut(c)
    BY <2>1, ReserveShelf, ApplyInShelf, PromiseShelf, ApplyOutShelf
  <2>2. CASE ~(Reserve(c) \/ ApplyIn(c) \/ Promise(c) \/ ApplyOut(c))
    <3>1. OffShelf(c)
      BY <1>1, <2>2, ClaimOff, SetQtyOff, OldRowOff, InsertInOff, AdvanceOldOff, InsertContentOff,
         AdvanceContentOff, NewRowOff, InsertOutOff, AdvanceNewOff, BookMoneyOff, SetTotalOff, AdvanceMoneyOff,
         CompleteOff, LinkOutOff DEF Creates
    <3> QED
      BY <1>0, <3>1, OffShelfKeeps
  <2> QED
    BY <2>1, <2>2
<1>2. ASSUME NEW c \in Exchanges, Cancels(c) PROVE ShelfInv'
  <2>1. CASE CancelIn(c) \/ CancelOut(c) \/ ReleaseNew(c) \/ RestoreResv(c)
    BY <2>1, CancelInShelf, CancelOutShelf, ReleaseNewShelf, RestoreResvShelf
  <2>2. CASE ~(CancelIn(c) \/ CancelOut(c) \/ ReleaseNew(c) \/ RestoreResv(c))
    <3>1. OffShelf(c)
      BY <1>2, <2>2, FreezeOff, EmptyNewOff, RestoreQtyOff, MoneyBackOff, FinishOff, CompleteCancelOff DEF Cancels
    <3> QED
      BY <1>0, <3>1, OffShelfKeeps
  <2> QED
    BY <2>1, <2>2
<1>3. ASSUME NEW c \in Exchanges, Retry(c) \/ Drop(c) \/ BeginCancel(c) \/ \E op \in {"create", "cancel"} : Crash(c, op)
      PROVE  ShelfInv'
  <2>1. OffShelf(c)
    BY <1>3, RetryOff, DropOff, BeginCancelOff, CrashOff
  <2> QED
    BY <1>0, <2>1, OffShelfKeeps
<1>4. ASSUME NEW l \in Lines, TakeReturn(l) \/ CancelReturn(l) PROVE ShelfInv'
  BY <1>4, ReturnsShelf DEF TakeReturn, CancelReturn, bookVars
<1>5. CASE UNCHANGED vars
  BY <1>5, ReturnsShelf DEF vars, lineVars, bookVars
<1> QED
  BY <1>1, <1>2, <1>3, <1>4, <1>5, PlanShelf DEF Next

\* The account of the shelf is an invariant.
LEMMA ShelfHolds == Spec => []ShelfInv
<1>1. CoreInv /\ ShelfInv /\ [Next]_vars => CoreInv' /\ ShelfInv'
  BY CoreStep, ShelfStep
<1>2. Init => CoreInv /\ ShelfInv
  BY CoreInit, ShelfInit
<1> QED
  BY <1>1, <1>2, PTL DEF Spec

\* The sums of the module are sums of SumLemmas: of quantities of rows ...
UnitsOf(rows, S) == MapThenSumSet(LAMBDA l : rows[l].qty, S)
\* A sum of quantities is the sum of the function of them.
LEMMA UnitsIs ==
  ASSUME NEW rows, NEW S, IsFiniteSet(S), \A l \in S : rows[l].qty \in Int
  PROVE  UnitsOf(rows, S) = Sum([l \in S |-> rows[l].qty], S)
<1> DEFINE f == [l \in S |-> rows[l].qty]
           Rec(g) == g = [s \in SUBSET S |-> IF s = {} THEN 0 ELSE rows[Pick(s)].qty + g[s \ {Pick(s)}]]
<1>1. \A g : Rec(g) <=> IsSum(f, S, g)
  <2> TAKE g
  <2> DEFINE a(s) == IF s = {} THEN 0 ELSE rows[Pick(s)].qty + g[s \ {Pick(s)}]
             b(s) == IF s = {} THEN 0 ELSE f[Pick(s)] + g[s \ {Pick(s)}]
  <2>1. \A s \in SUBSET S : a(s) = b(s)
    BY PickIn
  <2>2. [s \in SUBSET S |-> a(s)] = [s \in SUBSET S |-> b(s)]
    <3> HIDE DEF a, b
    <3> QED BY <2>1
  <2> QED
    BY <2>2 DEF IsSum
<1>2. UnitsOf(rows, S) = (CHOOSE g : Rec(g))[S]
  BY DEF UnitsOf, MapThenSumSet, MapThenFoldSet, Pick
<1>3. \A l \in S : f[l] \in Int
  OBVIOUS
<1> HIDE DEF Rec, f
<1>4. PICK h : IsSum(f, S, h)
  BY <1>3, SumExists DEF Good
<1>5. Rec(CHOOSE g : Rec(g))
  BY <1>1, <1>4, Zenon
<1>6. (CHOOSE g : Rec(g))[S] = Sum(f, S)
  BY <1>1, <1>3, <1>5, SumSolved
<1> QED
  BY <1>2, <1>6 DEF f

\* ... of the units exchanges take.
TakesOf(rows, S) == MapThenSumSet(LAMBDA c : rows[c].plan.take, S)
\* A sum of units taken is the sum of the function of them.
LEMMA TakesAre ==
  ASSUME NEW rows, NEW S, IsFiniteSet(S), \A c \in S : rows[c].plan.take \in Int
  PROVE  TakesOf(rows, S) = Sum([c \in S |-> rows[c].plan.take], S)
<1> DEFINE f == [l \in S |-> rows[l].plan.take]
           Rec(g) == g = [s \in SUBSET S |-> IF s = {} THEN 0 ELSE rows[Pick(s)].plan.take + g[s \ {Pick(s)}]]
<1>1. \A g : Rec(g) <=> IsSum(f, S, g)
  <2> TAKE g
  <2> DEFINE a(s) == IF s = {} THEN 0 ELSE rows[Pick(s)].plan.take + g[s \ {Pick(s)}]
             b(s) == IF s = {} THEN 0 ELSE f[Pick(s)] + g[s \ {Pick(s)}]
  <2>1. \A s \in SUBSET S : a(s) = b(s)
    BY PickIn
  <2>2. [s \in SUBSET S |-> a(s)] = [s \in SUBSET S |-> b(s)]
    <3> HIDE DEF a, b
    <3> QED BY <2>1
  <2> QED
    BY <2>2 DEF IsSum
<1>2. TakesOf(rows, S) = (CHOOSE g : Rec(g))[S]
  BY DEF TakesOf, MapThenSumSet, MapThenFoldSet, Pick
<1>3. \A l \in S : f[l] \in Int
  OBVIOUS
<1> HIDE DEF Rec, f
<1>4. PICK h : IsSum(f, S, h)
  BY <1>3, SumExists DEF Good
<1>5. Rec(CHOOSE g : Rec(g))
  BY <1>1, <1>4, Zenon
<1>6. (CHOOSE g : Rec(g))[S] = Sum(f, S)
  BY <1>1, <1>3, <1>5, SumSolved
<1> QED
  BY <1>2, <1>6 DEF f

\* ... and of the units they give.
GivesOf(rows, S) == MapThenSumSet(LAMBDA c : rows[c].plan.give, S)
\* A sum of units given is the sum of the function of them.
LEMMA GivesAre ==
  ASSUME NEW rows, NEW S, IsFiniteSet(S), \A c \in S : rows[c].plan.give \in Int
  PROVE  GivesOf(rows, S) = Sum([c \in S |-> rows[c].plan.give], S)
<1> DEFINE f == [l \in S |-> rows[l].plan.give]
           Rec(g) == g = [s \in SUBSET S |-> IF s = {} THEN 0 ELSE rows[Pick(s)].plan.give + g[s \ {Pick(s)}]]
<1>1. \A g : Rec(g) <=> IsSum(f, S, g)
  <2> TAKE g
  <2> DEFINE a(s) == IF s = {} THEN 0 ELSE rows[Pick(s)].plan.give + g[s \ {Pick(s)}]
             b(s) == IF s = {} THEN 0 ELSE f[Pick(s)] + g[s \ {Pick(s)}]
  <2>1. \A s \in SUBSET S : a(s) = b(s)
    BY PickIn
  <2>2. [s \in SUBSET S |-> a(s)] = [s \in SUBSET S |-> b(s)]
    <3> HIDE DEF a, b
    <3> QED BY <2>1
  <2> QED
    BY <2>2 DEF IsSum
<1>2. GivesOf(rows, S) = (CHOOSE g : Rec(g))[S]
  BY DEF GivesOf, MapThenSumSet, MapThenFoldSet, Pick
<1>3. \A l \in S : f[l] \in Int
  OBVIOUS
<1> HIDE DEF Rec, f
<1>4. PICK h : IsSum(f, S, h)
  BY <1>3, SumExists DEF Good
<1>5. Rec(CHOOSE g : Rec(g))
  BY <1>1, <1>4, Zenon
<1>6. (CHOOSE g : Rec(g))[S] = Sum(f, S)
  BY <1>1, <1>3, <1>5, SumSolved
<1> QED
  BY <1>2, <1>6 DEF f

\* A sum over the members of a set that count is one over the whole set.
LEMMA SumCounted ==
  ASSUME NEW S, IsFiniteSet(S), NEW T \in SUBSET S, NEW f, NEW g,
         \A x \in S : f[x] \in Int, \A x \in S \ T : f[x] = 0, \A x \in T : g[x] = f[x]
  PROVE  Sum(f, S) = Sum(g, T)
<1>1. Sum(f, S) = Sum(f, T)
  BY SumSupport
<1>2. IsFiniteSet(T) /\ \A x \in T : f[x] \in Int /\ f[x] = g[x]
  BY FS_Subset
<1>3. Sum(f, T) = Sum(g, T)
  BY <1>2, SumSame DEF Sum
<1> QED
  BY <1>1, <1>3

\* The units of the rows in a status are the sum the account keeps.
LEMMA HavingIs ==
  ASSUME LinesTyped, NEW st
  PROVE  Having(st) = Sum(InStatus(resv, st), Lines)
<1> DEFINE T == {l \in Lines : resv[l].status = st}
           f == InStatus(resv, st)
           g == [l \in T |-> resv[l].qty]
<1>1. T \in SUBSET Lines /\ IsFiniteSet(T) /\ \A l \in T : resv[l].qty \in Int
  BY LinesFinite, FS_Subset DEF LinesTyped
<1>2. Having(st) = UnitsOf(resv, T)
  BY DEF Having, UnitsOf
<1>3. UnitsOf(resv, T) = Sum(g, T)
  BY <1>1, UnitsIs
<1>4. (\A l \in Lines : f[l] \in Int) /\ (\A l \in Lines \ T : f[l] = 0) /\ \A l \in T : g[l] = f[l]
  BY <1>1 DEF InStatus, Part
<1> HIDE DEF T, f, g
<1>5. Sum(f, Lines) = Sum(g, T)
  BY <1>1, <1>4, LinesFinite, SumCounted
<1> QED
  BY <1>2, <1>3, <1>5 DEF f

\* The units received back are the sum the account keeps.
LEMMA ReceivedIs ==
  ASSUME CoreInv, \A c \in Exchanges : Orderly(c)
  PROVE  Received = TakenBack
<1> DEFINE T == {c \in Exchanges : made[c].in = "applied"}
           f == TakenUnits(made)
           g == [c \in T |-> made[c].plan.take]
<1>1. \A c \in Exchanges : f[c] = (IF made[c].in = "applied" THEN made[c].plan.take ELSE 0) /\ f[c] \in Int
  BY TakenNat DEF TakenUnits, TakenIn
<1>2. T \in SUBSET Exchanges /\ IsFiniteSet(T) /\ \A c \in T : made[c].plan.take \in Int /\ made[c].plan.take = f[c]
  BY <1>1, LinesFinite, FS_Subset
<1>3. Received = TakesOf(made, T)
  BY DEF Received, TakesOf
<1>4. TakesOf(made, T) = Sum(g, T)
  BY <1>2, TakesAre
<1>5. (\A c \in Exchanges : f[c] \in Int) /\ (\A c \in Exchanges \ T : f[c] = 0) /\ \A c \in T : g[c] = f[c]
  BY <1>1, <1>2
<1> HIDE DEF T, f, g
<1>6. Sum(f, Exchanges) = Sum(g, T)
  BY <1>2, <1>5, LinesFinite, SumCounted
<1> QED
  BY <1>3, <1>4, <1>6 DEF f, TakenBack

\* The units lost are the sum the account keeps.
LEMMA LostIs ==
  ASSUME CoreInv, \A c \in Exchanges : Orderly(c)
  PROVE  Lost = Missing
<1> DEFINE T == {c \in Exchanges : made[c].out = "cancelled" /\ made[c].movement = "inserted"}
           f == LostUnits(made)
           g == [c \in T |-> made[c].plan.give]
<1>1. \A c \in Exchanges : f[c] = (IF made[c].out = "cancelled" /\ made[c].movement = "inserted" THEN made[c].plan.give ELSE 0) /\ f[c] \in Int
  BY TakenNat DEF LostUnits, LostIn
<1>2. T \in SUBSET Exchanges /\ IsFiniteSet(T) /\ \A c \in T : made[c].plan.give \in Int /\ made[c].plan.give = f[c]
  BY <1>1, LinesFinite, FS_Subset
<1>3. Lost = GivesOf(made, T)
  BY DEF Lost, GivesOf
<1>4. GivesOf(made, T) = Sum(g, T)
  BY <1>2, GivesAre
<1>5. (\A c \in Exchanges : f[c] \in Int) /\ (\A c \in Exchanges \ T : f[c] = 0) /\ \A c \in T : g[c] = f[c]
  BY <1>1, <1>2
<1> HIDE DEF T, f, g
<1>6. Sum(f, Exchanges) = Sum(g, T)
  BY <1>2, <1>5, LinesFinite, SumCounted
<1> QED
  BY <1>3, <1>4, <1>6 DEF f, Missing

\* What is promised and what has left the shelf is what the rows of the
\* reservations and of the exchanges say, less what is Lost.
ShelfFollowsRows ==
  /\ stock.reserved = Having("active")
  /\ stock.quantity = InStock - Having("fulfilled") + Received - Lost

\* Whoever works beside whom and whatever calls die, the shelf is at every moment
\* what the rows say, while it holds enough for every exchange (StockAssumption),
\* less the goods of the cancelled exchanges whose movement no event names: a call
\* died before the write that names it, and the cancellation gave nothing back
\* (lifecycle.ts:585-593, 787-790).  For the rest, the batch that writes a
\* reservation or an event writes the stock with it, and a repeated one writes
\* neither again (order-reservations.ts:908-942, lifecycle.ts:399-579).
THEOREM ShelfAddsUp == Spec => []ShelfFollowsRows
<1>1. CoreInv /\ ShelfInv => ShelfFollowsRows
  BY HavingIs, ReceivedIs, LostIs DEF CoreInv, Typed, ShelfInv, Counted, EventRows, Active, Shipped, ShelfFollowsRows
<1> QED
  BY CoreHolds, ShelfHolds, <1>1, PTL

===============================================================================
