----------------------------- MODULE ExchangeSet -----------------------------
(***************************************************************************)
(* Exchanges of goods of one order: the client gives back units of a line  *)
(* (the old line) and takes units of a new one, the order's total and its  *)
(* money follow; an exchange is cancelled as a whole.  Both are operations *)
(* of the journal (CriticalOperation) whose handlers write one thing after *)
(* another, each remembered, so that a call which died is resumed by the   *)
(* client's retry.  Returns of single units go on beside them.             *)
(*                                                                         *)
(* Here an exchange has one old line and one new line, which bears the     *)
(* name of the exchange, of one shelf; every unit costs 1.  A request has  *)
(* one handler at a time: the journal's lease, assumed not to be outlived. *)
(* The read and the batch of one helper are one step; what may come        *)
(* between them is the subject of OrderStock and AdminDeleteSaga.  The     *)
(* shelf holds enough for every exchange and is not counted meanwhile:     *)
(* short shelves are OrderStock's, counts Stocktake's.                     *)
(***************************************************************************)
EXTENDS Integers, FiniteSets, FiniteSetsExt

CONSTANTS First,           \* the order's lines at the start
          Exchanges,       \* requests of exchanges, and the lines they insert
          Ordered,         \* the quantity of the lines at the start
          InStock,         \* bound: units on the shelf at the start, enough for all twice
          Takes,           \* bound: the units an exchange may give back
          Gives,           \* bound: the units an exchange may take
          MaxReturns,      \* bound: returns in a behaviour
          MaxCrashes,      \* bound: calls that die
          ExchangesApart,  \* one exchange of the order is worked on at a time
          ReturnsApart,    \* new goods are not returned while their exchange is cancelled
          LatestFirst,     \* exchanges of one line are cancelled from the latest on
          HandoversStay    \* an exchange that recorded a handover is not cancelled

ASSUME ExchangeAssumption ==
  /\ First \cap Exchanges = {} /\ "none" \notin First \cup Exchanges
  /\ IsFiniteSet(First) /\ IsFiniteSet(Exchanges)
  /\ Ordered \in [First -> Nat \ {0}]
  /\ InStock \in Nat
  /\ Takes \subseteq Nat \ {0} /\ Gives \subseteq Nat \ {0}
  /\ MaxReturns \in Nat /\ MaxCrashes \in Nat
  /\ {ExchangesApart, ReturnsApart, LatestFirst, HandoversStay} \subseteq BOOLEAN

\* What a set of lines was ordered in.  The shelf holds the goods of every exchange,
\* and once more those a cancellation may not give back.
OrderedUnits(S) == MapThenSumSet(LAMBDA l : Ordered[l], S)
ASSUME StockAssumption == \A n \in Gives : OrderedUnits(First) + 2 * (n * Cardinality(Exchanges)) <= InStock

Lines == First \cup Exchanges

VARIABLES
  qty,       \* order_items.quantity
  mark,      \* order_items.stock_writeoff_status
  resv,      \* inventory_reservations by line: status and quantity
  returned,  \* units of standing return_items by line
  total,     \* orders.total_amount
  paid,      \* payments less refunds of the order
  stock,     \* inventory_stock of the shelf: quantity and reserved_quantity
  made,      \* an exchange and the operation that creates it
  undo,      \* the operation that cancels it
  pc,        \* what the handlers of the two operations do next
  spent      \* returns and crashes so far

lineVars == <<qty, mark, resv, returned>>
bookVars == <<total, paid, stock>>
vars == <<lineVars, bookVars, made, undo, pc, spent>>

Nothing == [status |-> "none", qty |-> 0]
Issued(l) == mark[l] = "fulfilled"
LinesWorth == MapThenSumSet(LAMBDA l : qty[l], Lines)
Floor(n) == IF n < 0 THEN 0 ELSE n

Marks == {"absent", "new", "reserved", "reservation_released", "fulfilled", "exchanged", "cancelled"}
Plans == [line : Lines, take : Takes, give : Gives,
          physical : {"not_issued", "warehouse"}, sent : BOOLEAN, handover : BOOLEAN,
          initial : Nat, target : Nat, snapshot : [status : {"none", "active"}, qty : Nat],
          marked : Marks, final : Int, money : Int]
NoPlan == [line |-> "none"]

Init ==
  /\ \E issued \in SUBSET First :
       /\ mark = [l \in Lines |-> IF l \in issued THEN "fulfilled" ELSE IF l \in First THEN "reserved" ELSE "absent"]
       /\ resv = [l \in Lines |-> IF l \in First
                     THEN [status |-> IF l \in issued THEN "fulfilled" ELSE "active", qty |-> Ordered[l]]
                     ELSE Nothing]
       /\ stock = [quantity |-> InStock - OrderedUnits(issued), reserved |-> OrderedUnits(First \ issued)]
  /\ qty = [l \in Lines |-> IF l \in First THEN Ordered[l] ELSE 0]
  /\ returned = [l \in Lines |-> 0]
  /\ total = OrderedUnits(First)
  /\ paid \in {0, total}
  /\ made = [c \in Exchanges |->
       [step |-> "none", plan |-> NoPlan, id |-> 0, status |-> "none", oldRow |-> FALSE, newRow |-> FALSE,
        in |-> "none", out |-> "none", movement |-> "none", money |-> FALSE, linked |-> FALSE]]
  /\ undo = [c \in Exchanges |-> [step |-> "none", baseline |-> 0, target |-> 0, projected |-> 0]]
  /\ pc = [c \in Exchanges |-> [create |-> "idle", cancel |-> "idle"]]
  /\ spent = [returns |-> 0, crashes |-> 0]

-----------------------------------------------------------------------------
(* Requests and handlers *)

Claimed(c) == made[c].id # 0
Standing(c) == made[c].status = "completed"
Under(c, op) ==
  \/ pc[c][op] # "idle"
  \/ op = "create" /\ made[c].step \notin {"none", "dropped", "completed"}
  \/ op = "cancel" /\ undo[c].step = "validated"

\* Nothing else of the order's exchanges is unfinished: assumed of a careful
\* shop when ExchangesApart, and of nobody otherwise.
Alone(c, op) ==
  ExchangesApart => \A d \in Exchanges, o \in {"create", "cancel"} : Under(d, o) => d = c /\ o = op

At(c, op, place) == pc[c][op] = place
Goes(c, op, place) == pc' = [pc EXCEPT ![c][op] = place]
Refused(c, op) == Goes(c, op, "idle") /\ UNCHANGED <<lineVars, bookVars, made, undo, spent>>

\* Where the retry of a request takes it up: the step its row remembers.
Resumes == [validated |-> "claim", exchange_created |-> "reserve", old_done |-> "content",
            content_inserted |-> "newRow", new_done |-> "money", finances_done |-> "complete"]

\* createExchangeSetV2 called again with a plan it has already validated.
Retry(c) ==
  /\ At(c, "create", "idle")
  /\ made[c].step \in DOMAIN Resumes
  /\ Goes(c, "create", Resumes[made[c].step])
  /\ UNCHANGED <<lineVars, bookVars, made, undo, spent>>

\* The client opens the form again instead of repeating a refused request.
Drop(c) ==
  /\ At(c, "create", "idle")
  /\ made[c].step = "validated"
  /\ made' = [made EXCEPT ![c].step = "dropped"]
  /\ UNCHANGED <<lineVars, bookVars, undo, pc, spent>>

Crash(c, op) ==
  /\ pc[c][op] # "idle"
  /\ spent.crashes < MaxCrashes
  /\ Goes(c, op, "idle")
  /\ spent' = [spent EXCEPT !.crashes = @ + 1]
  /\ UNCHANGED <<lineVars, bookVars, made, undo>>

\* The step is written to the row of the request together with what it reached.
Advance(c, from, to, next) ==
  /\ At(c, "create", from)
  /\ made' = [made EXCEPT ![c].step = to]
  /\ Goes(c, "create", next)
  /\ UNCHANGED <<lineVars, bookVars, undo, spent>>

-----------------------------------------------------------------------------
(* An exchange is planned: validated against the order, nothing is changed *)

Settlement(final, pay) == IF final < paid THEN final - paid ELSE pay

\* Mutant of Unclaimed: returns are left to the claim of the return alone.
NotYetClaimed(c) == qty[made[c].plan.line] >= made[c].plan.take
Unclaimed(c) == qty[made[c].plan.line] >= made[c].plan.take + returned[made[c].plan.line]

\* Mutant of Available: any number of units of an active line.
AnyNumber(l, take) == qty[l] > 0
Available(l, take) == take + returned[l] <= qty[l]

Plan(c) ==
  /\ At(c, "create", "idle")
  /\ made[c].step = "none"
  /\ Alone(c, "create")
  /\ total = LinesWorth
  /\ \E l \in Lines, take \in Takes, give \in Gives, physical \in {"not_issued", "warehouse"},
        sent \in BOOLEAN, pay \in 0..1 :
       LET final == total - take + give
       IN /\ Available(l, take)
          /\ physical = "not_issued" =>
               /\ ~Issued(l)
               /\ resv[l].status = "none" \/ (resv[l].status = "active" /\ resv[l].qty = qty[l])
          /\ pay <= Floor(final - paid)
          /\ made' = [made EXCEPT
               ![c].step = "validated",
               ![c].plan = [line |-> l, take |-> take, give |-> give, physical |-> physical, sent |-> sent,
                            handover |-> physical # "not_issued" /\ ~Issued(l),
                            initial |-> qty[l], target |-> Floor(qty[l] - take),
                            snapshot |-> IF physical = "not_issued" THEN resv[l] ELSE Nothing,
                            marked |-> mark[l], final |-> final, money |-> Settlement(final, pay)]]
  /\ Goes(c, "create", "claim")
  /\ UNCHANGED <<lineVars, bookVars, undo, spent>>

-----------------------------------------------------------------------------
(* The units of the old line *)

\* One batch: the units are claimed, the exchange is inserted and the step is
\* remembered, or nothing is.
Claim(c) ==
  LET p == made[c].plan
  IN /\ At(c, "create", "claim")
     /\ IF qty[p.line] = p.initial /\ Unclaimed(c)
        THEN /\ qty' = [qty EXCEPT ![p.line] = p.target]
             /\ mark' = IF p.target = 0 THEN [mark EXCEPT ![p.line] = "exchanged"] ELSE mark
             /\ made' = [made EXCEPT ![c].step = "exchange_created", ![c].status = "completed",
                                     ![c].id = 1 + Cardinality({d \in Exchanges : Claimed(d)})]
             /\ Goes(c, "create", "reserve")
             /\ UNCHANGED <<resv, returned, bookVars, undo, spent>>
        ELSE Refused(c, "create")

\* releaseOrderReservationV2: a row that is not active is left alone.
Releases(l) ==
  IF resv[l].status = "active"
  THEN /\ resv' = [resv EXCEPT ![l].status = "released"]
       /\ mark' = [mark EXCEPT ![l] = "reservation_released"]
       /\ stock' = [stock EXCEPT !.reserved = Floor(@ - resv[l].qty)]
  ELSE UNCHANGED <<resv, mark, stock>>

Reduced(p) == [p.snapshot EXCEPT !.qty = p.target]

\* The reservation of goods the client never had gives up the units; goods
\* the program took for unsold are recorded as handed over first.
Reserve(c) ==
  LET p == made[c].plan
      l == p.line
      reduces == p.physical = "not_issued" /\ p.snapshot.status = "active"
      conflict == \/ reduces /\ p.target = 0 /\ resv[l].status \notin {"active", "released"}
                  \/ reduces /\ p.target > 0 /\ resv[l] \notin {p.snapshot, Reduced(p)}
                  \/ p.handover /\ resv[l].status # "active" /\ ~Issued(l)
  IN /\ At(c, "create", "reserve")
     /\ IF conflict THEN Refused(c, "create")
        ELSE /\ IF reduces /\ p.target = 0 THEN Releases(l)
                ELSE IF reduces /\ resv[l] # Reduced(p)
                THEN /\ resv' = [resv EXCEPT ![l] = Reduced(p)]
                     /\ stock' = [stock EXCEPT !.reserved = Floor(@ - p.take)]
                     /\ UNCHANGED mark
                ELSE IF p.handover /\ resv[l].status = "active"
                THEN /\ resv' = [resv EXCEPT ![l].status = "fulfilled"]
                     /\ mark' = [mark EXCEPT ![l] = "fulfilled"]
                     /\ stock' = [quantity |-> Floor(stock.quantity - resv[l].qty),
                                  reserved |-> Floor(stock.reserved - resv[l].qty)]
                ELSE UNCHANGED <<resv, mark, stock>>
             /\ Goes(c, "create", "setQty")
             /\ UNCHANGED <<qty, returned, total, paid, made, undo, spent>>

\* Exchanges claimed before the claim existed change the quantity here.
SetQty(c) ==
  LET p == made[c].plan
  IN /\ At(c, "create", "setQty")
     /\ IF qty[p.line] \in {p.target, p.initial}
        THEN /\ qty' = [qty EXCEPT ![p.line] = p.target]
             /\ mark' = IF qty[p.line] # p.target /\ p.target = 0
                        THEN [mark EXCEPT ![p.line] = "exchanged"] ELSE mark
             /\ Goes(c, "create", "oldRow")
             /\ UNCHANGED <<resv, returned, bookVars, made, undo, spent>>
        ELSE Refused(c, "create")

OldRow(c) ==
  /\ At(c, "create", "oldRow")
  /\ made' = [made EXCEPT ![c].oldRow = TRUE]
  /\ Goes(c, "create", IF made[c].plan.physical = "warehouse" THEN "in" ELSE "oldDone")
  /\ UNCHANGED <<lineVars, bookVars, undo, spent>>

\* Mutant of Fresh: the key of the event is not looked at.
AlwaysFresh(event) == TRUE
Fresh(event) == event = "none"

InsertIn(c) ==
  /\ At(c, "create", "in")
  /\ made' = [made EXCEPT ![c].in = IF Fresh(@) THEN "pending" ELSE @]
  /\ Goes(c, "create", "applyIn")
  /\ UNCHANGED <<lineVars, bookVars, undo, spent>>

ApplyIn(c) ==
  /\ At(c, "create", "applyIn")
  /\ IF made[c].in = "cancelled"
     THEN Refused(c, "create")
     ELSE /\ stock' = IF made[c].in = "pending"
                      THEN [stock EXCEPT !.quantity = @ + made[c].plan.take] ELSE stock
          /\ made' = [made EXCEPT ![c].in = "applied"]
          /\ Goes(c, "create", "oldDone")
          /\ UNCHANGED <<lineVars, total, paid, undo, spent>>

-----------------------------------------------------------------------------
(* The new line *)

\* insertOrderContent: the line is inserted once, its units are promised once.
InsertContent(c) ==
  /\ At(c, "create", "content")
  /\ IF mark[c] = "absent"
     THEN qty' = [qty EXCEPT ![c] = made[c].plan.give] /\ mark' = [mark EXCEPT ![c] = "new"]
     ELSE UNCHANGED <<qty, mark>>
  /\ Goes(c, "create", "promise")
  /\ UNCHANGED <<resv, returned, bookVars, made, undo, spent>>

Promise(c) ==
  /\ At(c, "create", "promise")
  /\ IF resv[c].status = "none"
     THEN /\ resv' = [resv EXCEPT ![c] = [status |-> "active", qty |-> made[c].plan.give]]
          /\ mark' = [mark EXCEPT ![c] = "reserved"]
          /\ stock' = [stock EXCEPT !.reserved = @ + made[c].plan.give]
     ELSE UNCHANGED <<resv, mark, stock>>
  /\ Goes(c, "create", "contentDone")
  /\ UNCHANGED <<qty, returned, total, paid, made, undo, spent>>

NewRow(c) ==
  /\ At(c, "create", "newRow")
  /\ made' = [made EXCEPT ![c].newRow = TRUE]
  /\ Goes(c, "create", "out")
  /\ UNCHANGED <<lineVars, bookVars, undo, spent>>

InsertOut(c) ==
  /\ At(c, "create", "out")
  /\ made' = [made EXCEPT ![c].out = IF Fresh(@) THEN "pending" ELSE @]
  /\ Goes(c, "create", IF made[c].plan.sent THEN "applyOut" ELSE "newDone")
  /\ UNCHANGED <<lineVars, bookVars, undo, spent>>

\* Goods already sent leave the shelf, their promise is kept and their movement is
\* inserted, in one batch that the retry of a call finds done.
ApplyOut(c) ==
  /\ At(c, "create", "applyOut")
  /\ \/ /\ made[c].out = "applied"
        /\ Goes(c, "create", "newDone")
        /\ UNCHANGED <<lineVars, bookVars, made, undo, spent>>
     \/ /\ made[c].out = "pending"
        /\ resv[c] = [status |-> "active", qty |-> made[c].plan.give]
        /\ stock' = [quantity |-> stock.quantity - made[c].plan.give,
                     reserved |-> Floor(stock.reserved - made[c].plan.give)]
        /\ resv' = [resv EXCEPT ![c].status = "fulfilled"]
        /\ mark' = [mark EXCEPT ![c] = "fulfilled"]
        /\ made' = [made EXCEPT ![c].out = "applied", ![c].movement = "inserted"]
        /\ Goes(c, "create", "linkOut")
        /\ UNCHANGED <<qty, returned, total, paid, undo, spent>>
     \/ /\ \/ made[c].out = "cancelled"
           \/ made[c].out = "pending" /\ resv[c] # [status |-> "active", qty |-> made[c].plan.give]
        /\ Refused(c, "create")

\* A write of its own names the movement in the event.  No retry comes here again.
LinkOut(c) ==
  /\ At(c, "create", "linkOut")
  /\ IF made[c].out # "applied" THEN Refused(c, "create")
     ELSE /\ made' = [made EXCEPT ![c].movement = "linked"]
          /\ Goes(c, "create", "newDone")
          /\ UNCHANGED <<lineVars, bookVars, undo, spent>>

-----------------------------------------------------------------------------
(* The money of the exchange *)

\* Mutant of NotBooked: the mapping of the payment is not looked at.
AnyTime(c) == TRUE
NotBooked(c) == ~made[c].money

BookMoney(c) ==
  /\ At(c, "create", "money")
  /\ IF made[c].plan.money # 0 /\ NotBooked(c)
     THEN paid' = paid + made[c].plan.money /\ made' = [made EXCEPT ![c].money = TRUE]
     ELSE UNCHANGED <<paid, made>>
  /\ Goes(c, "create", "total")
  /\ UNCHANGED <<lineVars, total, stock, undo, spent>>

SetTotal(c) ==
  /\ At(c, "create", "total")
  /\ total' = made[c].plan.final
  /\ made' = [made EXCEPT ![c].linked = made[c].money]
  /\ Goes(c, "create", "moneyDone")
  /\ UNCHANGED <<lineVars, paid, stock, undo, spent>>

Complete(c) ==
  /\ At(c, "create", "complete")
  /\ made' = [made EXCEPT ![c].step = "completed"]
  /\ Goes(c, "create", "idle")
  /\ UNCHANGED <<lineVars, bookVars, undo, spent>>

-----------------------------------------------------------------------------
(* An exchange is cancelled *)

\* Read again by every retry: the exchange is whole, nothing rests on its
\* new line.
Whole(c) == made[c].oldRow /\ made[c].newRow
NothingRestsOn(c) ==
  /\ returned[c] = 0
  /\ \A d \in Exchanges \ {c} : Standing(d) /\ made[d].oldRow => made[d].plan.line # c

BeginCancel(c) ==
  /\ At(c, "cancel", "idle")
  /\ Claimed(c)
  /\ undo[c].step # "completed"
  /\ Standing(c) => Whole(c) /\ NothingRestsOn(c)
  /\ undo[c].step = "none" =>
       /\ Alone(c, "cancel")
       /\ HandoversStay => ~made[c].plan.handover
       /\ LatestFirst => \A d \in Exchanges :
            Standing(d) /\ made[d].id > made[c].id => made[d].plan.line # made[c].plan.line
  /\ Goes(c, "cancel",
       IF ~Standing(c) THEN "complete" ELSE IF undo[c].step = "none" THEN "freeze" ELSE "in")
  /\ UNCHANGED <<lineVars, bookVars, made, undo, spent>>

\* The preflight, written to the row once.
Freeze(c) ==
  LET p == made[c].plan
      projected == total - qty[c] + p.take
      left == paid - p.money
  IN /\ At(c, "cancel", "freeze")
     /\ IF total = LinesWorth /\ qty[c] = p.give /\ projected >= 0 /\ left >= 0 /\ left <= projected
        THEN /\ undo' = [undo EXCEPT ![c] = [step |-> "validated", baseline |-> qty[p.line],
                                             target |-> qty[p.line] + p.take, projected |-> projected]]
             /\ Goes(c, "cancel", "in")
             /\ UNCHANGED <<lineVars, bookVars, made, spent>>
        ELSE Refused(c, "cancel")

\* cancelInventoryLifecycleEvent of the goods taken back ...
CancelIn(c) ==
  /\ At(c, "cancel", "in")
  /\ stock' = IF made[c].in = "applied" THEN [stock EXCEPT !.quantity = @ - made[c].plan.take] ELSE stock
  /\ made' = [made EXCEPT ![c].in = IF @ = "none" THEN @ ELSE "cancelled"]
  /\ Goes(c, "cancel", "out")
  /\ UNCHANGED <<lineVars, total, paid, undo, spent>>

\* Goods given come back to the shelf by the movement their event names.
GivesBack(c) == made[c].out = "applied" /\ made[c].movement = "linked"

\* ... and of the goods given.
CancelOut(c) ==
  LET releases == (made[c].out = "applied" /\ resv[c].status = "fulfilled")
                  \/ (made[c].out = "pending" /\ resv[c].status = "active")
  IN /\ At(c, "cancel", "out")
     /\ stock' = IF GivesBack(c) THEN [stock EXCEPT !.quantity = @ + made[c].plan.give]
                 ELSE IF made[c].out = "pending" /\ releases
                      THEN [stock EXCEPT !.reserved = Floor(@ - resv[c].qty)] ELSE stock
     /\ resv' = IF releases THEN [resv EXCEPT ![c].status = "released"] ELSE resv
     /\ made' = [made EXCEPT ![c].out = IF @ = "none" THEN @ ELSE "cancelled"]
     /\ Goes(c, "cancel", "release")
     /\ UNCHANGED <<qty, mark, returned, total, paid, undo, spent>>

ReleaseNew(c) ==
  /\ At(c, "cancel", "release")
  /\ Releases(c)
  /\ Goes(c, "cancel", "empty")
  /\ UNCHANGED <<qty, returned, total, paid, made, undo, spent>>

EmptyNew(c) ==
  /\ At(c, "cancel", "empty")
  /\ qty' = [qty EXCEPT ![c] = 0]
  /\ mark' = [mark EXCEPT ![c] = "cancelled"]
  /\ Goes(c, "cancel", "oldQty")
  /\ UNCHANGED <<resv, returned, bookVars, made, undo, spent>>

\* Mutant of Restores: a retry gives the units back again.
RestoresAgain(c) == [qty EXCEPT ![made[c].plan.line] = @ + made[c].plan.take]
Restores(c) == [qty EXCEPT ![made[c].plan.line] = undo[c].target]

RestoreQty(c) ==
  LET l == made[c].plan.line
  IN /\ At(c, "cancel", "oldQty")
     /\ IF qty[l] \in {undo[c].target, undo[c].baseline}
        THEN /\ qty' = Restores(c)
             /\ mark' = IF qty[l] # undo[c].target THEN [mark EXCEPT ![l] = made[c].plan.marked] ELSE mark
             /\ Goes(c, "cancel", "oldResv")
             /\ UNCHANGED <<resv, returned, bookVars, made, undo, spent>>
        ELSE Refused(c, "cancel")

\* restoreNotIssuedReservation: a released row is reactivated, a smaller one
\* gets its units back; any other row stops the cancellation.
RestoreResv(c) ==
  LET p == made[c].plan
      l == p.line
      smaller == p.target > 0 /\ resv[l] = Reduced(p)
      dropped == p.target = 0 /\ resv[l].status = "released"
      held == IF p.target = 0 THEN resv[l].status = "active" ELSE resv[l] = p.snapshot
  IN /\ At(c, "cancel", "oldResv")
     /\ IF p.physical # "not_issued" \/ p.snapshot.status = "none" \/ held \/ smaller \/ dropped
        THEN /\ IF p.physical = "not_issued" /\ p.snapshot.status = "active" /\ ~held
                THEN /\ resv' = [resv EXCEPT ![l] = IF smaller THEN p.snapshot ELSE [@ EXCEPT !.status = "active"]]
                     /\ mark' = IF dropped THEN [mark EXCEPT ![l] = "reserved"] ELSE mark
                     /\ stock' = [stock EXCEPT !.reserved = @ + IF smaller THEN p.take ELSE resv[l].qty]
                ELSE UNCHANGED <<resv, mark, stock>>
             /\ Goes(c, "cancel", "moneyBack")
             /\ UNCHANGED <<qty, returned, total, paid, made, undo, spent>>
        ELSE Refused(c, "cancel")

\* The payments of the exchange are removed by their mapping, its refund is
\* cancelled when the exchange is linked to it.
MoneyBack(c) ==
  LET p == made[c].plan
  IN /\ At(c, "cancel", "moneyBack")
     /\ IF made[c].money /\ (p.money < 0 => made[c].linked)
        THEN paid' = paid - p.money /\ made' = [made EXCEPT ![c].money = FALSE]
        ELSE UNCHANGED <<paid, made>>
     /\ Goes(c, "cancel", "finish")
     /\ UNCHANGED <<lineVars, total, stock, undo, spent>>

Finish(c) ==
  /\ At(c, "cancel", "finish")
  /\ IF LinesWorth = undo[c].projected
     THEN /\ total' = undo[c].projected
          /\ made' = [made EXCEPT ![c].status = "cancelled"]
          /\ Goes(c, "cancel", "complete")
          /\ UNCHANGED <<lineVars, paid, stock, undo, spent>>
     ELSE Refused(c, "cancel")

CompleteCancel(c) ==
  /\ At(c, "cancel", "complete")
  /\ undo' = [undo EXCEPT ![c].step = "completed"]
  /\ Goes(c, "cancel", "idle")
  /\ UNCHANGED <<lineVars, bookVars, made, spent>>

-----------------------------------------------------------------------------
(* Returns of single units *)

\* createReturn: the units must be with the client, and are claimed in the
\* batch that inserts the return.
TakeReturn(l) ==
  /\ spent.returns < MaxReturns
  /\ Issued(l) /\ resv[l].status # "active"
  /\ returned[l] + 1 <= qty[l]
  /\ ReturnsApart /\ l \in Exchanges => ~Under(l, "cancel")
  /\ returned' = [returned EXCEPT ![l] = @ + 1]
  /\ spent' = [spent EXCEPT !.returns = @ + 1]
  /\ UNCHANGED <<qty, mark, resv, bookVars, made, undo, pc>>

CancelReturn(l) ==
  /\ returned[l] > 0
  /\ returned' = [returned EXCEPT ![l] = @ - 1]
  /\ UNCHANGED <<qty, mark, resv, bookVars, made, undo, pc, spent>>

-----------------------------------------------------------------------------
Creates(c) ==
  \/ Claim(c) \/ Reserve(c) \/ SetQty(c) \/ OldRow(c) \/ InsertIn(c) \/ ApplyIn(c)
  \/ Advance(c, "oldDone", "old_done", "content")
  \/ InsertContent(c) \/ Promise(c) \/ Advance(c, "contentDone", "content_inserted", "newRow")
  \/ NewRow(c) \/ InsertOut(c) \/ ApplyOut(c) \/ LinkOut(c)
  \/ Advance(c, "newDone", "new_done", "money")
  \/ BookMoney(c) \/ SetTotal(c) \/ Advance(c, "moneyDone", "finances_done", "complete")
  \/ Complete(c)

Cancels(c) ==
  \/ Freeze(c) \/ CancelIn(c) \/ CancelOut(c) \/ ReleaseNew(c) \/ EmptyNew(c)
  \/ RestoreQty(c) \/ RestoreResv(c) \/ MoneyBack(c) \/ Finish(c) \/ CompleteCancel(c)

Next ==
  \/ \E c \in Exchanges :
       \/ Plan(c) \/ Retry(c) \/ Drop(c) \/ Creates(c)
       \/ BeginCancel(c) \/ Cancels(c)
       \/ \E op \in {"create", "cancel"} : Crash(c, op)
  \/ \E l \in Lines : TakeReturn(l) \/ CancelReturn(l)

\* A handler runs to its end unless it dies, and a client repeats a request
\* that has changed the order until it is answered.
Fairness ==
  \A c \in Exchanges :
    /\ WF_vars(Creates(c)) /\ WF_vars(Cancels(c))
    /\ WF_vars(Claimed(c) /\ Retry(c))
    /\ WF_vars(undo[c].step = "validated" /\ BeginCancel(c))

Spec == Init /\ [][Next]_vars /\ Fairness

-----------------------------------------------------------------------------
(* Properties *)

CreatePlaces == {"idle", "claim", "reserve", "setQty", "oldRow", "in", "applyIn", "oldDone", "content", "promise",
                 "contentDone", "newRow", "out", "applyOut", "linkOut", "newDone", "money", "total", "moneyDone", "complete"}
CancelPlaces == {"idle", "freeze", "in", "out", "release", "empty", "oldQty", "oldResv", "moneyBack", "finish",
                 "complete"}
Events == {"none", "pending", "applied", "cancelled"}

\* The variables keep their types; a quantity is never negative, whatever is
\* claimed, given back or restored, and a plan takes no more than there was
\* (returns-exchanges.ts:3772-3777).
ExchangeTypeOK ==
  /\ qty \in [Lines -> Nat] /\ returned \in [Lines -> Nat]
  /\ mark \in [Lines -> Marks]
  /\ resv \in [Lines -> [status : {"none", "active", "fulfilled", "released"}, qty : Nat]]
  /\ total \in Int /\ paid \in Int
  /\ stock \in [quantity : Int, reserved : Nat]
  /\ made \in [Exchanges ->
       [step : {"none", "dropped", "completed"} \cup DOMAIN Resumes, plan : Plans \cup {NoPlan}, id : Nat,
        status : {"none", "completed", "cancelled"}, oldRow : BOOLEAN, newRow : BOOLEAN,
        in : Events, out : Events, movement : {"none", "inserted", "linked"},
        money : BOOLEAN, linked : BOOLEAN]]
  /\ \A c \in Exchanges : made[c].plan # NoPlan => made[c].plan.initial = made[c].plan.target + made[c].plan.take
  /\ undo \in [Exchanges -> [step : {"none", "validated", "completed"}, baseline : Nat, target : Nat,
                             projected : Int]]
  /\ pc \in [Exchanges -> [create : CreatePlaces, cancel : CancelPlaces]]
  /\ spent \in [returns : Nat, crashes : Nat]

\* No unit is given back twice, once by a return and once by an exchange: the
\* units of a line that stand as returned are still units of the line
\* (returns-exchanges.ts:3972-4003 and 534-560).
NoUnitTwice == \A l \in Lines : returned[l] <= qty[l]

\* No operation of an exchange is unfinished.
AtRest == \A c \in Exchanges : ~Under(c, "create") /\ ~Under(c, "cancel")

GivenBack(l) == MapThenSumSet(LAMBDA c : made[c].plan.take, {c \in Exchanges : Standing(c) /\ made[c].plan.line = l})
Received == MapThenSumSet(LAMBDA c : made[c].plan.take, {c \in Exchanges : made[c].in = "applied"})
\* Goods of a cancelled exchange whose movement no event names.
Lost == MapThenSumSet(LAMBDA c : made[c].plan.give,
                      {c \in Exchanges : made[c].out = "cancelled" /\ made[c].movement = "inserted"})
Having(status) == MapThenSumSet(LAMBDA l : resv[l].qty, {l \in Lines : resv[l].status = status})

\* The program's own measure of an exchange that worked, whenever none is
\* unfinished: the total of the order is the worth of its lines, no line has
\* lost a unit or gained one, what is promised and what has left the shelf is
\* what the lines say, and the client has not paid more than the total
\* (returns-exchanges.ts:3731, 4537-4664, 4784-4792).  The shelf misses the goods
\* of each exchange that was cancelled after a call died between the batch that
\* took them and the write that names their movement (lifecycle.ts:579-592,
\* 787-790), and no others.
OrderAddsUp ==
  AtRest =>
    /\ total = LinesWorth
    /\ \A l \in First : qty[l] + GivenBack(l) = Ordered[l]
    /\ \A c \in Exchanges : qty[c] + GivenBack(c) = IF Standing(c) THEN made[c].plan.give ELSE 0
    /\ \A l \in Lines : qty[l] > 0 => /\ Issued(l) <=> resv[l].status = "fulfilled"
                                      /\ resv[l].status = "active" => resv[l].qty = qty[l]
    /\ stock.reserved = Having("active")
    /\ stock.quantity = InStock - Having("fulfilled") + Received - Lost
    /\ 0 <= paid /\ paid <= total

\* An exchange that has claimed units is finished, and a cancellation that has
\* passed its preflight cancels the exchange, whatever call dies on the way:
\* the message of the last check asks the client to repeat
\* (returns-exchanges.ts:4791).
ChangesSettle ==
  \A c \in Exchanges :
    /\ Claimed(c) ~> made[c].step = "completed"
    /\ undo[c].step = "validated" ~> undo[c].step = "completed"
=============================================================================
