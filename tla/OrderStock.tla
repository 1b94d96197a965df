----------------------------- MODULE OrderStock -----------------------------
(***************************************************************************)
(* The stock of an order: its lines are promised units of a shelf (a       *)
(* reservation), wait for units that are missing, and leave the shelf by a *)
(* full shipment, an early handover of one line or a dispatch of selected  *)
(* lines; a mistaken issue is taken back.  The number of promised units of *)
(* a shelf is kept twice, as the active reservations and as the cached     *)
(* inventory_stock.reserved_quantity.                                      *)
(*                                                                         *)
(* A handler reads in several statements and writes in one D1 batch, which *)
(* is a transaction: an action per read and one for the batch, what was    *)
(* read kept in proc[h].  A batch gives up by inserting a duplicate key    *)
(* when its predicates do not hold.  Time is the number of counts of the   *)
(* shelf: code that compares dates asks whether a count is newer.          *)
(***************************************************************************)
EXTENDS Integers, FiniteSets, FiniteSetsExt, Functions

CONSTANTS Orders,        \* the orders
          Lines,         \* ids of their order items, in the order of insertion
          Remainder,     \* the id of the item a split of a line creates, or 0
          OrderOf,       \* the order of a line and of its remainder
          Shelves,       \* inventory_stock rows: a source and a variant
          ShelfOf,       \* the stock row of a line
          Ordered,       \* the quantity a line was ordered in
          InStock,       \* units on each shelf at the start
          Requests,      \* request ids of dispatches
          Handlers,      \* requests that may be served at the same time
          OrdersApart,   \* handlers that trust an earlier read have the order alone
          CountsApart,   \* nobody counts a shelf while an issue is taken back
          MaxOps,        \* bound: operations in a behaviour
          MaxCounts,     \* bound: counts of a shelf
          MaxUnits       \* bound: units an intake or a count may reach

Items == Lines \cup ({Remainder[l] : l \in Lines} \ {0})

ASSUME StockAssumption ==
  /\ Lines \subseteq Nat \ {0} /\ IsFiniteSet(Lines)
  /\ Remainder \in [Lines -> Nat]
  /\ \A l, m \in Lines : Remainder[l] \notin Lines
        /\ (Remainder[l] = Remainder[m] /\ Remainder[l] # 0 => l = m)
  /\ OrderOf \in [Items -> Orders] /\ ShelfOf \in [Items -> Shelves]
  /\ \A l \in Lines : Remainder[l] # 0 =>
        OrderOf[Remainder[l]] = OrderOf[l] /\ ShelfOf[Remainder[l]] = ShelfOf[l]
  /\ Ordered \in [Lines -> Nat \ {0}]
  /\ InStock \in [Shelves -> Nat]
  /\ OrdersApart \in BOOLEAN /\ CountsApart \in BOOLEAN
  /\ MaxOps \in Nat /\ MaxCounts \in Nat /\ MaxUnits \in Nat

VARIABLES
  stock,       \* inventory_stock: quantity and cached reserved_quantity
  ledger,      \* what the inventory_movements of a shelf add up to
  counts,      \* physical counts of a shelf so far
  resv,        \* inventory_reservations by item: status and quantity
  item,        \* order_items: stock_writeoff_status, quantity, the stock before
               \* and after the write-off, and the counts that precede the line
  since,       \* counts that precede the issue of an item (fulfilled_at)
  answered,    \* counts that were answered for an item (inventory_handover_reviews)
  sent,        \* orders.shipping_status = 'sent'
  dispatches,  \* order_dispatch_items
  proc,        \* what each handler is doing and has read
  spent        \* operations begun

database == <<stock, ledger, counts, resv, item, since, answered, sent, dispatches>>
vars == <<database, proc, spent>>

Idle == [op |-> "idle"]
\* Mutant of Floor: MAX(0, ..) left out.
NoFloor(n) == n
Floor(n) == IF n < 0 THEN 0 ELSE n

LinesOf(o) == {l \in Items : OrderOf[l] = o}
Having(status) == {l \in Items : resv[l].status = status}
Open == Having("active") \cup Having("unresolved")

\* What the rows read promise on shelf s, the row l excluded from above.
OnShelf(rows, s) == {l \in DOMAIN rows : ShelfOf[l] = s}
Units(rows, S) == MapThenSumSet(LAMBDA l : rows[l].qty, S)
Required(rows, s) == Units(rows, OnShelf(rows, s))
\* Mutant of ActiveRows: rows that only wait lower the cached sum as well.
AllRows(rows) == rows
ActiveRows(rows) == [l \in {k \in DOMAIN rows : rows[k].status = "active"} |-> rows[l]]
ShelvesOf(rows) == {ShelfOf[l] : l \in DOMAIN rows}
Promised(s) == Units(resv, OnShelf(resv, s) \cap Having("active"))

\* A count is newer than the item and nobody has said where the item was.
ReviewNeeded(l) ==
  resv[l].status = "active" /\ counts[ShelfOf[l]] > item[l].origin /\ counts[ShelfOf[l]] > answered[l]

Listed(o) == {d \in dispatches : OrderOf[d.line] = o}
Undone(l) == {d \in dispatches : d.line = l /\ ~d.cancelled}

Init ==
  \E R \in SUBSET Lines :
    LET first == [l \in R |-> [status |-> "active", qty |-> Ordered[l]]]
    IN /\ \A s \in Shelves : Required(first, s) <= InStock[s]
       /\ stock = [s \in Shelves |-> [quantity |-> InStock[s], reserved |-> Required(first, s)]]
       /\ resv = [l \in Items |-> IF l \in R THEN first[l] ELSE [status |-> "none", qty |-> 0]]
       /\ item = [l \in Items |->
                   [status |-> IF l \in R THEN "reserved" ELSE IF l \in Lines THEN "new" ELSE "absent",
                    qty |-> IF l \in Lines THEN Ordered[l] ELSE 0, before |-> 0, after |-> 0, origin |-> 0]]
       /\ ledger = InStock
       /\ counts = [s \in Shelves |-> 0]
       /\ since = [l \in Items |-> 0]
       /\ answered = [l \in Items |-> 0]
       /\ sent = [o \in Orders |-> FALSE]
       /\ dispatches = {}
       /\ proc = [h \in Handlers |-> Idle]
       /\ spent = 0

-----------------------------------------------------------------------------
(* Handlers *)

\* Handlers whose batch asks again for everything they have read.
Rechecks == {"dispatch", "cancel", "answer"}

\* The order is free for the operation: assumed of the clerks of a careful
\* shop when OrdersApart, and of nobody otherwise.
Free(o, op) ==
  OrdersApart => \A h \in Handlers :
    proc[h] # Idle /\ proc[h].order = o => {op, proc[h].op} \subseteq Rechecks

Begin(h, op, o, rec) ==
  /\ proc[h] = Idle
  /\ spent < MaxOps
  /\ Free(o, op)
  /\ proc' = [proc EXCEPT ![h] = rec]
  /\ spent' = spent + 1
  /\ UNCHANGED database

At(h, op, pc) == proc[h].op = op /\ proc[h].pc = pc

Goes(h, rec) == proc' = [proc EXCEPT ![h] = rec] /\ UNCHANGED <<database, spent>>
Ends(h) == proc' = [proc EXCEPT ![h] = Idle] /\ UNCHANGED spent
GivesUp(h) == Goes(h, Idle)

\* The fields of an item row once its reservation is held, waits or is dropped.
Marked(l, status) == [item[l] EXCEPT !.status = status, !.before = 0, !.after = 0]
SetStatus(S, status) == [l \in Items |-> IF l \in S THEN [resv[l] EXCEPT !.status = status] ELSE resv[l]]
MarkItems(S, status) == [l \in Items |-> IF l \in S THEN Marked(l, status) ELSE item[l]]
ReserveMore(s, n) == [stock EXCEPT ![s].reserved = @ + n]

-----------------------------------------------------------------------------
(* Reserving a line *)

BeginReserve(h, l) ==
  /\ resv[l].status = "none" /\ item[l].status = "new"
  /\ Begin(h, "reserve", OrderOf[l],
           [op |-> "reserve", pc |-> "commit", order |-> OrderOf[l], line |-> l, at |-> counts[ShelfOf[l]]])

\* One batch: the units are claimed where the shelf still has them, and the
\* reservation is active or waits accordingly.  A second insert for the same
\* item fails on its unique key and takes the claim back with it.
CommitReserve(h) ==
  /\ At(h, "reserve", "commit")
  /\ LET l == proc[h].line
         s == ShelfOf[l]
         n == item[l].qty
         enough == stock[s].quantity >= stock[s].reserved + n
     IN IF resv[l].status # "none" THEN GivesUp(h) ELSE
        /\ stock' = IF enough THEN ReserveMore(s, n) ELSE stock
        /\ resv' = [resv EXCEPT ![l] = [status |-> IF enough THEN "active" ELSE "unresolved", qty |-> n]]
        /\ item' = [item EXCEPT ![l] =
             [Marked(l, IF enough THEN "reserved" ELSE "pending_reservation") EXCEPT !.origin = proc[h].at]]
        /\ Ends(h)
        /\ UNCHANGED <<ledger, counts, since, answered, sent, dispatches>>

-----------------------------------------------------------------------------
(* Releasing and resuming *)

BeginRelease(h, l) ==
  /\ l \in Open
  /\ Begin(h, "release", OrderOf[l],
           [op |-> "release", pc |-> "commit", order |-> OrderOf[l], rows |-> Restrict(resv, {l})])

\* The rows were read before: neither statement asks for the status again.
CommitRelease(h) ==
  /\ At(h, "release", "commit")
  /\ LET rows == proc[h].rows
         held == ActiveRows(rows)
     IN /\ stock' = [s \in Shelves |-> [stock[s] EXCEPT !.reserved = Floor(@ - Required(held, s))]]
        /\ resv' = SetStatus(DOMAIN rows, "released")
        /\ item' = MarkItems(DOMAIN rows, "reservation_released")
  /\ Ends(h)
  /\ UNCHANGED <<ledger, counts, since, answered, sent, dispatches>>

BeginReleaseOrder(h, o) ==
  /\ LinesOf(o) \cap Open # {}
  /\ Begin(h, "release_order", o,
           [op |-> "release_order", pc |-> "commit", order |-> o, rows |-> Restrict(resv, LinesOf(o) \cap Open)])

\* The cached sum is lowered by what was read; only open rows are released.
CommitReleaseOrder(h) ==
  /\ At(h, "release_order", "commit")
  /\ LET rows == proc[h].rows
         held == ActiveRows(rows)
     IN /\ stock' = [s \in Shelves |-> [stock[s] EXCEPT !.reserved = Floor(@ - Required(held, s))]]
        /\ resv' = SetStatus(DOMAIN rows \cap Open, "released")
        /\ item' = MarkItems(DOMAIN rows, "reservation_released")
  /\ Ends(h)
  /\ UNCHANGED <<ledger, counts, since, answered, sent, dispatches>>

BeginReactivate(h, l) ==
  /\ resv[l].status = "released"
  /\ Begin(h, "reactivate", OrderOf[l],
           [op |-> "reactivate", pc |-> "commit", order |-> OrderOf[l], rows |-> Restrict(resv, {l})])

\* The units are claimed again only for a row that is still released.
CommitReactivate(h) ==
  /\ At(h, "reactivate", "commit")
  /\ LET rows == proc[h].rows
         back == DOMAIN rows \cap Having("released")
     IN /\ stock' = [s \in Shelves |-> [stock[s] EXCEPT !.reserved = @ + Units(rows, OnShelf(rows, s) \cap back)]]
        /\ resv' = SetStatus(back, "active")
        /\ item' = MarkItems(DOMAIN rows, "reserved")
  /\ Ends(h)
  /\ UNCHANGED <<ledger, counts, since, answered, sent, dispatches>>

-----------------------------------------------------------------------------
(* Full shipment and early handover *)

Pending(o) == {l \in LinesOf(o) : resv[l].status = "unresolved" /\ item[l].status = "pending_reservation"}

\* The shipping route: an order with dispatches of its own or already sent is
\* refused; lines that wait for units are read to be admitted first.
BeginShip(h, o) ==
  /\ Listed(o) = {} /\ ~sent[o]
  /\ Begin(h, "ship", o, [op |-> "ship", pc |-> "recover", order |-> o, wait |-> Pending(o)])

\* One batch per waiting line: it is looked at again with the claim.
RecoverOne(h) ==
  /\ At(h, "ship", "recover") /\ proc[h].wait # {}
  /\ LET l == Min(proc[h].wait)
         s == ShelfOf[l]
         claimed == /\ l \in Pending(proc[h].order) /\ ~sent[proc[h].order]
                    /\ stock[s].quantity >= stock[s].reserved + resv[l].qty
     IN /\ proc' = [proc EXCEPT ![h].wait = @ \ {l}]
        /\ stock' = IF claimed THEN ReserveMore(s, resv[l].qty) ELSE stock
        /\ resv' = IF claimed THEN SetStatus({l}, "active") ELSE resv
        /\ item' = IF claimed THEN MarkItems({l}, "reserved") ELSE item
  /\ UNCHANGED <<ledger, counts, since, answered, sent, dispatches, spent>>

\* Lines to be located, lines without a live promise, and units that are
\* missing and not confirmed stop the shipment.
Blocked(l) == ReviewNeeded(l) \/ (item[l].status \notin {"absent", "fulfilled"} /\ resv[l].status # "active")

CheckShip(h) ==
  /\ At(h, "ship", "recover") /\ proc[h].wait = {}
  /\ LET o == proc[h].order
         rows == Restrict(resv, LinesOf(o) \cap Having("active"))
         short == {s \in ShelvesOf(rows) : stock[s].quantity < Required(rows, s)}
     IN IF \E l \in LinesOf(o) : Blocked(l) THEN GivesUp(h)
        ELSE Goes(h, [op |-> "ship", pc |-> "rows", order |-> o, scope |-> LinesOf(o), at |-> counts,
                      sure |-> [s \in short |-> stock[s].quantity]])

\* The handover route: one line, by the same checks.
BeginHandover(h, l) ==
  /\ Listed(OrderOf[l]) = {} /\ ~sent[OrderOf[l]]
  /\ resv[l].status = "active" /\ ~ReviewNeeded(l)
  /\ LET s == ShelfOf[l]
         short == IF stock[s].quantity < resv[l].qty THEN {s} ELSE {}
     IN Begin(h, "handover", OrderOf[l],
              [op |-> "handover", pc |-> "rows", order |-> OrderOf[l], scope |-> {l}, at |-> counts,
               sure |-> [t \in short |-> stock[t].quantity]])

Issuing(h) == proc[h].op \in {"ship", "handover"}

\* fulfillOrderReservationsV2 reads the reservations ...
ReadRows(h) ==
  /\ Issuing(h) /\ proc[h].pc = "rows"
  /\ LET rows == Restrict(resv, LinesOf(proc[h].order) \cap proc[h].scope \cap Open)
     IN IF \E l \in DOMAIN rows : rows[l].status = "unresolved" THEN GivesUp(h)
        ELSE IF DOMAIN rows = {} /\ proc[h].op = "handover" THEN GivesUp(h)
        ELSE Goes(h, [op |-> proc[h].op, pc |-> "stock", order |-> proc[h].order, rows |-> rows,
                      sure |-> proc[h].sure, at |-> proc[h].at])

\* ... and then the stock, where missing units need the employee's word for
\* exactly these units, given for the quantity on the books.
ReadStock(h) ==
  /\ Issuing(h) /\ proc[h].pc = "stock"
  /\ LET rows == proc[h].rows
         sure == proc[h].sure
         changed == \E s \in ShelvesOf(rows) \cap DOMAIN sure : sure[s] # stock[s].quantity
         missing == \E s \in ShelvesOf(rows) \ DOMAIN sure : stock[s].quantity < Required(rows, s)
     IN IF changed \/ missing THEN GivesUp(h)
        ELSE Goes(h, [op |-> proc[h].op, pc |-> "commit", order |-> proc[h].order, rows |-> rows,
                      at |-> proc[h].at, saw |-> [s \in ShelvesOf(rows) |-> stock[s].quantity]])

\* The stock before and after each line of the rows, in the order of their ids.
Before(rows, saw, l) == Floor(saw[ShelfOf[l]] - Units(rows, {k \in OnShelf(rows, ShelfOf[l]) : k < l}))
After(rows, saw, l) == Floor(Before(rows, saw, l) - rows[l].qty)
Sold(rows, saw, s) == MapThenSumSet(LAMBDA l : Before(rows, saw, l) - After(rows, saw, l), OnShelf(rows, s))

\* The predicates of the batch.  A handover asks for its reservation again, a
\* shipment only for the order and for the quantity of the shelves.
StillHeld(h) == proc[h].op = "handover" => DOMAIN proc[h].rows \subseteq Having("active")
\* Mutant of SameStock: the quantity that was read is not compared.
AnyStock(h) == TRUE
SameStock(h) == \A s \in DOMAIN proc[h].saw : stock[s].quantity = proc[h].saw[s]

CommitIssue(h) ==
  /\ Issuing(h) /\ proc[h].pc = "commit"
  /\ LET o == proc[h].order
         rows == proc[h].rows
         saw == proc[h].saw
     IN IF sent[o] \/ ~StillHeld(h) \/ ~SameStock(h) THEN GivesUp(h) ELSE
        /\ stock' = [s \in Shelves |->
             IF s \in DOMAIN saw
             THEN [quantity |-> Floor(saw[s] - Required(rows, s)), reserved |-> Floor(stock[s].reserved - Required(rows, s))]
             ELSE stock[s]]
        /\ ledger' = [s \in Shelves |-> ledger[s] - Sold(rows, saw, s)]
        /\ item' = [l \in Items |->
             IF l \in DOMAIN rows
             THEN [item[l] EXCEPT !.status = "fulfilled", !.before = Before(rows, saw, l), !.after = After(rows, saw, l)]
             ELSE item[l]]
        /\ resv' = SetStatus(DOMAIN rows \cap Having("active"), "fulfilled")
        /\ since' = [l \in Items |->
             IF l \in DOMAIN rows \cap Having("active") THEN proc[h].at[ShelfOf[l]] ELSE since[l]]
        /\ sent' = IF proc[h].op = "ship" THEN [sent EXCEPT ![o] = TRUE] ELSE sent
        /\ Ends(h)
        /\ UNCHANGED <<counts, answered, dispatches>>

-----------------------------------------------------------------------------
(* Answers to a count: the batch asks again for the count and the row *)

StillHere(l) ==
  /\ ReviewNeeded(l) /\ spent < MaxOps /\ Free(OrderOf[l], "answer")
  /\ answered' = [answered EXCEPT ![l] = counts[ShelfOf[l]]]
  /\ spent' = spent + 1
  /\ UNCHANGED <<stock, ledger, counts, resv, item, since, sent, dispatches, proc>>

\* The count has seen the shelf without the item: only the promise goes.
IssuedBefore(l) ==
  /\ ReviewNeeded(l) /\ spent < MaxOps /\ Free(OrderOf[l], "answer")
  /\ LET s == ShelfOf[l]
         q == stock[s].quantity
     IN /\ resv' = SetStatus({l}, "fulfilled")
        /\ item' = [item EXCEPT ![l] = [@ EXCEPT !.status = "fulfilled", !.before = q, !.after = q]]
        /\ stock' = [stock EXCEPT ![s].reserved = Promised(s) - resv[l].qty]
        /\ answered' = [answered EXCEPT ![l] = counts[s]]
        /\ since' = [since EXCEPT ![l] = counts[s]]
  /\ spent' = spent + 1
  /\ UNCHANGED <<ledger, counts, sent, dispatches, proc>>

-----------------------------------------------------------------------------
(* Dispatch of selected lines *)

\* What may be selected: whole or partial quantities of held lines.  A
\* remainder is split off a line once (bound: one remainder id per line).
\* Mutant of Splits: the rest of a line is dropped.
NeverSplits(l, n) == FALSE
Splits(l, n) == n < resv[l].qty
MaySplit(l) == l \in Lines /\ Remainder[l] # 0 /\ item[Remainder[l]].status = "absent"
Picks(o) ==
  LET ready == {l \in LinesOf(o) : resv[l].status = "active" /\ item[l].status = "reserved" /\ ~ReviewNeeded(l)}
  IN UNION {{p \in [S -> 1 .. Max({resv[l].qty : l \in S})] :
               \A l \in S : p[l] <= resv[l].qty /\ (Splits(l, p[l]) => MaySplit(l))}
            : S \in SUBSET ready \ {{}}}

\* A request id that is already on a dispatch is answered from it.
BeginDispatch(h, o, r, pick) ==
  /\ {d \in dispatches : d.req = r} = {} /\ ~sent[o]
  /\ Begin(h, "dispatch", o,
           [op |-> "dispatch", pc |-> "stock", order |-> o, req |-> r, pick |-> pick,
            rows |-> Restrict(resv, DOMAIN pick)])

Picked(pick, s) == MapThenSumSet(LAMBDA l : pick[l], {l \in DOMAIN pick : ShelfOf[l] = s})

ReadDispatchStock(h) ==
  /\ At(h, "dispatch", "stock")
  /\ LET p == proc[h]
         short == \E s \in ShelvesOf(p.pick) :
                     stock[s].quantity < Picked(p.pick, s) \/ stock[s].reserved < Picked(p.pick, s)
     IN IF short THEN GivesUp(h)
        ELSE Goes(h, [op |-> "dispatch", pc |-> "commit", order |-> p.order, req |-> p.req, pick |-> p.pick,
                      rows |-> p.rows, at |-> counts, saw |-> Restrict(stock, ShelvesOf(p.pick))])

\* Mutant of Unchanged: only the unique request id protects the batch.
NewRequest(h) == {d \in dispatches : d.req = proc[h].req} = {}

\* The predicates of the batch: the request id is new, every row as it was
\* read, the order unsent, quantity and cached promise of the shelves as read.
Unchanged(h) ==
  /\ {d \in dispatches : d.req = proc[h].req} = {}
  /\ ~sent[proc[h].order]
  /\ \A l \in DOMAIN proc[h].rows :
        resv[l] = proc[h].rows[l] /\ item[l].status = "reserved" /\ item[l].qty = resv[l].qty
  /\ \A s \in DOMAIN proc[h].saw : stock[s] = proc[h].saw[s]

\* Mutant of AllGone: only the lines that were issued are looked at.
IssuedAreGone(o, items, entries) ==
  \A l \in LinesOf(o) : items[l].status = "fulfilled" => \E d \in entries : d.line = l /\ ~d.cancelled

\* Nothing of the order is left to be dispatched once the items are these.
AllGone(o, items, entries) ==
  \A l \in LinesOf(o) :
    items[l].status # "absent" =>
      items[l].status = "fulfilled" /\ \E d \in entries : d.line = l /\ ~d.cancelled

CommitDispatch(h) ==
  /\ At(h, "dispatch", "commit")
  /\ LET p == proc[h]
         pick == p.pick
         cut == {l \in DOMAIN pick : Splits(l, pick[l])}
         rest == {Remainder[l] : l \in cut}
         parent(m) == CHOOSE l \in cut : Remainder[l] = m
         picked == [l \in DOMAIN pick |-> [status |-> "active", qty |-> pick[l]]]
         quantities == [s \in DOMAIN p.saw |-> p.saw[s].quantity]
         items == [l \in Items |->
           IF l \in DOMAIN pick
           THEN [item[l] EXCEPT !.status = "fulfilled", !.qty = pick[l],
                   !.before = Before(picked, quantities, l), !.after = After(picked, quantities, l)]
           ELSE IF l \in rest
           THEN [item[parent(l)] EXCEPT !.qty = @ - pick[parent(l)], !.before = 0, !.after = 0]
           ELSE item[l]]
         entries == dispatches \cup
           {[req |-> p.req, line |-> l, qty |-> pick[l], cancelled |-> FALSE, at |-> p.at[ShelfOf[l]]]
            : l \in DOMAIN pick}
     IN IF ~Unchanged(h) THEN GivesUp(h) ELSE
        /\ item' = items
        /\ resv' = [l \in Items |->
             IF l \in DOMAIN pick THEN [status |-> "fulfilled", qty |-> pick[l]]
             ELSE IF l \in rest THEN [status |-> "active", qty |-> items[l].qty]
             ELSE resv[l]]
        /\ since' = [l \in Items |-> IF l \in DOMAIN pick THEN p.at[ShelfOf[l]] ELSE since[l]]
        /\ stock' = [s \in Shelves |->
             [quantity |-> stock[s].quantity - Picked(pick, s), reserved |-> stock[s].reserved - Picked(pick, s)]]
        /\ ledger' = [s \in Shelves |-> ledger[s] - Picked(pick, s)]
        /\ dispatches' = entries
        /\ sent' = [sent EXCEPT ![p.order] = AllGone(p.order, items, entries)]
        /\ Ends(h)
        /\ UNCHANGED <<counts, answered>>

-----------------------------------------------------------------------------
(* Taking an issue back *)

\* One dispatched line: the entry, its reservation and its shelf are read ...
BeginCancel(h, d) ==
  LET l == d.line
      s == ShelfOf[l]
  IN /\ d \in dispatches /\ ~d.cancelled
     /\ item[l].status = "fulfilled" /\ item[l].qty = d.qty
     /\ resv[l] = [status |-> "fulfilled", qty |-> d.qty]
     /\ Begin(h, "cancel", OrderOf[l],
              [op |-> "cancel", pc |-> "recent", order |-> OrderOf[l], entry |-> d, saw |-> stock[s]])

\* Mutant of ReadRecent: a count after the dispatch is not looked for.
ReadNothing(h) ==
  /\ At(h, "cancel", "recent")
  /\ Goes(h, [op |-> "cancel", pc |-> "commit", order |-> proc[h].order, entry |-> proc[h].entry,
              saw |-> proc[h].saw, counted |-> FALSE])

\* ... and then whether the shelf was counted after the dispatch.
ReadRecent(h) ==
  /\ At(h, "cancel", "recent")
  /\ Goes(h, [op |-> "cancel", pc |-> "commit", order |-> proc[h].order, entry |-> proc[h].entry,
              saw |-> proc[h].saw, counted |-> counts[ShelfOf[proc[h].entry.line]] > proc[h].entry.at])

\* A count is trusted: the units do not come back and the line waits.
CommitCancel(h) ==
  /\ At(h, "cancel", "commit")
  /\ LET d == proc[h].entry
         l == d.line
         s == ShelfOf[l]
         back == IF proc[h].counted THEN 0 ELSE d.qty
         same == /\ d \in dispatches
                 /\ item[l].qty = d.qty
                 /\ stock[s] = proc[h].saw
                 /\ resv[l] = [status |-> "fulfilled", qty |-> d.qty]
     IN IF ~same THEN GivesUp(h) ELSE
        /\ stock' = [stock EXCEPT ![s] = [quantity |-> @.quantity + back, reserved |-> @.reserved + back]]
        /\ ledger' = [ledger EXCEPT ![s] = @ + back]
        /\ resv' = SetStatus({l}, IF proc[h].counted THEN "unresolved" ELSE "active")
        /\ item' = IF item[l].status = "fulfilled"
                   THEN MarkItems({l}, IF proc[h].counted THEN "pending_reservation" ELSE "reserved")
                   ELSE item
        /\ dispatches' = (dispatches \ {d}) \cup {[d EXCEPT !.cancelled = TRUE]}
        /\ sent' = [sent EXCEPT ![proc[h].order] = FALSE]
        /\ Ends(h)
        /\ UNCHANGED <<counts, since, answered>>

\* The whole order, where nothing was dispatched by lines: its fulfilled rows
\* with the units they took and the count they follow ...
BeginCorrect(h, o) ==
  /\ Listed(o) = {}
  /\ sent[o] \/ LinesOf(o) \cap Having("fulfilled") # {}
  /\ Begin(h, "correct", o,
           [op |-> "correct", pc |-> "truth", order |-> o,
            took |-> [l \in LinesOf(o) \cap Having("fulfilled") |->
                       [units |-> item[l].before - item[l].after, since |-> since[l]]]])

\* ... then, for each, whether the shelf was counted since ...
ReadTruth(h) ==
  /\ At(h, "correct", "truth")
  /\ LET took == proc[h].took
     IN Goes(h, [op |-> "correct", pc |-> "commit", order |-> proc[h].order,
                 back |-> [l \in DOMAIN took |->
                            IF counts[ShelfOf[l]] > took[l].since THEN 0 ELSE took[l].units]])

\* ... and one batch for the rows that are still fulfilled.  The cached
\* promises of their shelves are added up anew.
CommitCorrect(h) ==
  /\ At(h, "correct", "commit")
  /\ LET back == proc[h].back
         still == DOMAIN back \cap Having("fulfilled")
         units(s) == MapThenSumSet(LAMBDA l : back[l], OnShelf(back, s) \cap still)
         rows == SetStatus(still, "active")
     IN /\ ledger' = [s \in Shelves |-> ledger[s] + units(s)]
        /\ resv' = rows
        /\ item' = MarkItems(still, "reserved")
        /\ stock' = [s \in Shelves |->
             [quantity |-> stock[s].quantity + units(s),
              reserved |-> IF s \in ShelvesOf(back) THEN Required(ActiveRows(rows), s) ELSE stock[s].reserved]]
        /\ sent' = [sent EXCEPT ![proc[h].order] = FALSE]
        /\ Ends(h)
        /\ UNCHANGED <<counts, since, answered, dispatches>>

-----------------------------------------------------------------------------
(* The shelf itself *)

\* An intake books one unit more (bound: MaxUnits on a shelf).
Intake(s) ==
  /\ stock[s].quantity < MaxUnits /\ spent < MaxOps
  /\ stock' = [stock EXCEPT ![s].quantity = @ + 1]
  /\ ledger' = [ledger EXCEPT ![s] = @ + 1]
  /\ spent' = spent + 1
  /\ UNCHANGED <<counts, resv, item, since, answered, sent, dispatches, proc>>

\* A count sets the quantity that was found and books the difference.
Count(s, n) ==
  /\ counts[s] < MaxCounts
  /\ CountsApart => \A h \in Handlers : proc[h].op \notin {"cancel", "correct"}
  /\ stock' = [stock EXCEPT ![s].quantity = n]
  /\ ledger' = [ledger EXCEPT ![s] = @ + (n - stock[s].quantity)]
  /\ counts' = [counts EXCEPT ![s] = @ + 1]
  /\ UNCHANGED <<resv, item, since, answered, sent, dispatches, proc, spent>>

-----------------------------------------------------------------------------
Next ==
  \/ \E h \in Handlers :
       \/ \E l \in Items : BeginReserve(h, l) \/ BeginRelease(h, l) \/ BeginReactivate(h, l) \/ BeginHandover(h, l)
       \/ \E o \in Orders : BeginReleaseOrder(h, o) \/ BeginShip(h, o) \/ BeginCorrect(h, o)
       \/ \E o \in Orders, r \in Requests : \E pick \in Picks(o) : BeginDispatch(h, o, r, pick)
       \/ \E d \in dispatches : BeginCancel(h, d)
       \/ CommitReserve(h) \/ CommitRelease(h) \/ CommitReleaseOrder(h) \/ CommitReactivate(h)
       \/ RecoverOne(h) \/ CheckShip(h) \/ ReadRows(h) \/ ReadStock(h) \/ CommitIssue(h)
       \/ ReadDispatchStock(h) \/ CommitDispatch(h)
       \/ ReadRecent(h) \/ CommitCancel(h)
       \/ ReadTruth(h) \/ CommitCorrect(h)
  \/ \E l \in Items : StillHere(l) \/ IssuedBefore(l)
  \/ \E s \in Shelves : Intake(s) \/ \E n \in 0 .. MaxUnits : Count(s, n)

Spec == Init /\ [][Next]_vars

-----------------------------------------------------------------------------
(* Properties *)

\* Types of the rows.
StockTypeOK ==
  /\ stock \in [Shelves -> [quantity : Nat, reserved : Nat]]
  /\ ledger \in [Shelves -> Int] /\ counts \in [Shelves -> 0 .. MaxCounts]
  /\ resv \in [Items -> [status : {"none", "active", "unresolved", "released", "fulfilled"}, qty : Nat]]
  /\ item \in [Items -> [status : {"absent", "new", "reserved", "pending_reservation", "reservation_released",
                                   "fulfilled"}, qty : Nat, before : Nat, after : Nat, origin : Nat]]
  /\ since \in [Items -> Nat] /\ answered \in [Items -> Nat] /\ sent \in [Orders -> BOOLEAN]
  /\ \A d \in dispatches : d.req \in Requests /\ d.line \in Items /\ d.qty \in Nat \ {0}
  /\ spent \in 0 .. MaxOps

\* The cached reserved_quantity of every shelf is the sum of its active
\* reservations, although most batches only add to it and subtract from it
\* (order-reservations.ts, reservation-admission.ts, order-dispatch.ts).
CacheIsSum == \A s \in Shelves : stock[s].reserved = Promised(s)

\* The quantity of a shelf is what its inventory_movements add up to, although
\* an issue writes an absolute quantity computed from an earlier read.
BooksFollowMovements == \A s \in Shelves : stock[s].quantity = ledger[s]

\* A line is dispatched once: an entry that was not cancelled is for a line
\* that is fulfilled in the entry's quantity, and there is one such entry
\* (order-dispatch.ts:200-275 relies on the predicates of the batch).
DispatchedOnce ==
  \A d \in dispatches : ~d.cancelled =>
    /\ resv[d.line].status = "fulfilled" /\ resv[d.line].qty = d.qty
    /\ item[d.line].status = "fulfilled" /\ item[d.line].qty = d.qty
    /\ Undone(d.line) = {d}

\* Splitting a line for a partial dispatch neither makes nor loses units, and
\* item and reservation agree on the quantity (order-dispatch.ts:295-318).
PartsAddUp ==
  /\ \A l \in Lines : Ordered[l] = item[l].qty + (IF Remainder[l] = 0 THEN 0 ELSE item[Remainder[l]].qty)
  /\ \A l \in Items : resv[l].status # "none" => resv[l].qty = item[l].qty

\* An order becomes sent only when none of its lines is left to be issued, by
\* the shipping route or by the last of its dispatches.
SentLeavesNothing ==
  [][\A o \in Orders : ~sent[o] /\ sent'[o] =>
       \A l \in LinesOf(o) : item'[l].status # "absent" => resv'[l].status = "fulfilled"]_vars

\* A line that is taken back returns to the shelf exactly the units that it
\* took, and none when the shelf was counted after the issue: the count has
\* seen the shelf (order-dispatch-cancel.ts:108-122, order-reservations.ts:2705).
Retaken(s) == {l \in Items : ShelfOf[l] = s /\ resv[l].status = "fulfilled" /\ resv'[l].status \in {"active", "unresolved"}}
GivesBackWhatItTook ==
  [][\A s \in Shelves : Retaken(s) # {} =>
       stock'[s].quantity = stock[s].quantity +
         MapThenSumSet(LAMBDA l : item[l].before - item[l].after, {l \in Retaken(s) : counts[s] = since[l]})]_vars

=============================================================================
