# A verification of the order system

The repository is a Russian-language ERP for a tailoring and retail business
("Система заказов"): orders, payments, stock in a warehouse and a boutique, a
workshop, returns and exchanges, a cash register, reports. A React client
(`src/src`) calls one Cloudflare Worker (`src/worker`), which keeps everything in
one D1 (SQLite) database (`src/migrations`). This directory holds TLA+ models of
the parts where concurrency and failure decide whether the books are right, the
TLC instances that check them, and TLAPS proofs.

## How the program runs, and what that means for a model

Every HTTP request is one asynchronous handler in an isolate that may be evicted
at any time. The database is the only shared state. A single D1 statement is
atomic, and so is a `db.batch([...])`; nothing else is. Between two statements of
a handler any other handler may run. So in every model

* one action is one D1 statement or one batch, together with the pure computation
  that follows it up to the next `await`;
* what a handler has read and still uses is part of the state;
* two actions more exist for every place of a handler: an exception (its catch
  clause runs) and a crash (nothing runs);
* a client, or an administrator, repeats a request that got no answer.

The code's means against this are a journal of operations with leases, unique
keys, predicates in the WHERE clause of a write, and batches that abort on purpose
(a NULL in a NOT NULL column, `json('INVALID')`, a duplicate key). The models keep
each of them as a guard of its own, which a mutant (below) can drop.

## Inventory

| Component (`src/worker/domains`) | State | Operations | What is hard | What makes it correct |
|---|---|---|---|---|
| Operation journal, `critical.ts` | `critical_operations` (status, step, target, lease, response), `critical_operation_entities` | begin, advance, complete, fail, insert a mapped entity, insert a header | takeover of a lease, late handlers, discard, misuse of a request id, crashes | one effect per request; answers name it; the lease holder's view is fresh; retries get through |
| Payments, `money.ts` | `payments`, `financial_events`, cached amounts in `orders` | add a payment, refresh the cache, reverse | overlapping payments, crash between payment and event, cache refresh by other handlers | never more than the debt; payment and event agree; debt derives from payments |
| Deletion saga, `admin-delete-*.ts`, `order-delete-chain-plan.ts` | `admin_order_delete_sagas`, its steps | plan, advance one step, finalise | overlapping calls, leases, crash between cancel and checkpoint, clerks and the warehouse meanwhile | what the cursor passed is cancelled by the saga; order last; recoverable |
| Safe deletion, `order-delete*.ts` | `orders.order_status` | delete with preview fingerprint, undo a false shipment | facts older than the write | no active operation on a deleted order |
| Orders, `orders-write.ts`, `order-core.ts`, `order-pricing.ts` | `orders`, `order_items` | create, edit, delete | partial creation, edit against shipping, returns | one order per request; totals agree with items |
| Returns and exchanges, `returns-exchanges.ts`, `exchange-*.ts` | `returns`, `exchanges`, items and money parts | create, cancel, sets, batches | several statements per operation, one unit claimed twice | a unit is returned or exchanged once; cancel undoes exactly what create did |
| Lifecycle events, `lifecycle.ts`, `pending-reservation.ts`, `stock-resolution.ts` | `inventory_lifecycle_events` | insert, apply, cancel, resolve | apply against cancel | each event moves stock at most once each way |
| Reservations, `order-reservations.ts`, `reservation-admission.ts` | `inventory_reservations`, cached `reserved_quantity` | reserve, release, reactivate, fulfil | status read before the batch | the cache is the sum of active reservations |
| Dispatch, `order-dispatch*.ts`, `order-shipment-plan.ts` | `order_dispatches`, split items | dispatch a part, cancel | competing dispatches | no unit is sent twice, parts add up |
| Stocktake, `inventory-stocktake.ts` | sessions, counts | open, count, complete | movements during completion | only an explicit count sets the absolute quantity; one session per source |
| Movements and transfers, `inventory-movement.ts` | `inventory_movements`, transfer documents | in, out, transfer, reverse | concurrent outflow, reversal after a count | outflow bounded at zero with the shortage recorded; target gains exactly Q |
| Cash, `cash.ts`, `finance-day.ts` | `cash_register_entries` | setup, in, out, reconcile, reset | balance checked in an earlier statement | never below zero; a reconciliation hits the counted amount |
| Workshop, `workshop*.ts` | tasks, settlements | plan, settle | price changed while settling | a task is settled once |
| Authentication and team, `auth.ts`, `team.ts` | sessions, throttle, users | login, logout, edit users | lost updates of counters | attempts are counted; one administrator stays |
| Storage, `storage.ts` | places, stored goods | put, take | overlap | goods are in one place |
| Catalog, `catalog*.ts`, `retired-item-*.ts` | products, variants, undo cases | merge, retire, undo | undo after later use | an undo restores what the merge moved |
| References, `reference*.ts` | dictionaries | edit, merge | - | single guarded batches |
| Clients, activity, read models, reports, router, core helpers, browser client | counters, logs, none | - | - | - |

The handlers call each other directly (the saga calls `cancelReturn` and
`deleteOrderSafely`, which calls `updateOrderCritical`), and interact otherwise
through the tables: all of the operations above that create or cancel something
begin and end on the journal of `critical.ts`. `PROJECT.json` lists every
component with its files and status, and the hazards with the line at which each
of them bites.

## Modules

| Module | Models | Notes |
|---|---|---|
| `IdempotentRequest` | the promise of the journal, abstractly | at most one effect per request id, answers name it |
| `CriticalOperation` | `critical.ts` and the handler shape around it | parameterised by clients, requests, bodies, tokens, lease, faults |
| `OrderPayment` | `createManualOrderPaymentCritical`, `syncOrderFinancialLedger` | EXTENDS `CriticalOperation`: every step of the journal is that module's own action, with the handler's work added |
| `Journal_proofs` | | theorems about `CriticalOperation`, and about `OrderPayment`, whose steps are steps of it |
| `AdminDeleteSaga` | the saga, `cancelReturn`, `createReturn`, lifecycle apply and cancel, deletion | has its own smaller view of the journal |
| `AdminDeleteSaga_proofs` | | theorems about `AdminDeleteSaga` |
| `OrderStock` | `order-reservations.ts`, `reservation-admission.ts`, `order-dispatch*.ts`, `order-shipment-plan.ts`, the shipping and handover routes | an action per read and per batch |
| `OrderStock_proofs` | | theorems about `OrderStock` |
| `Stocktake` | `inventory-stocktake.ts`, `inventory-movement.ts` | the books, and what really stands on the shelf |
| `Stocktake_proofs` | | theorems about `Stocktake` |
| `CashRegister` | `cash.ts`, the triggers of `migrations/0046`, the writers of payments and refunds | the register, and the cash really in the drawer |
| `CashRegister_proofs` | | theorems about `CashRegister` |
| `ExchangeSet` | `createExchangeSetV2`, `cancelExchangeSetV2`, the claim of a return | every write of the handlers is a step a call may die after |
| `ExchangeSet_proofs` | | theorems about `ExchangeSet`: types, units, shelf |
| `ExchangeOrder_proofs` | | EXTENDS it: the order adds up after its exchanges |
| `SumLemmas` | | sums over finite sets, cited by the modules above that add up money or units |
| `MC...` | | small instances: model values and the functions the configurations need |

The modules meet at the tables they share, each seeing what the others do to its own
tables: `Stocktake` decides what a shelf holds, `OrderStock` what of it is promised and
issued (its `Intake` and `Count` stand for everything `Stocktake` does), `ExchangeSet` and
`AdminDeleteSaga` what comes back, `OrderPayment` and `CashRegister` the money
(`CancelDoc` stands for the cancellations of `ExchangeSet` and of the saga).

### Worlds

Where the code relies on something it does not enforce, a BOOLEAN constant says so. TRUE
assumes it, and the passing runs do; FALSE drops it, and then the properties named below
fail. So each constant marks the edge of what the code guarantees by itself, and the
passing runs show that nothing *else* is needed.

| Constant | TRUE assumes | Where the code leaves it open |
|---|---|---|
| `SlowCallers`, `SlowCalls` (FALSE) | no live handler outlives its lease (`journal` and `saga` do without) | `critical.ts:275`, see below |
| `OrdersApart` | handlers that do not ask again for what they read have the order alone; a dispatch, its cancellation and an answer to a count may overlap each other | `order-reservations.ts:908`: two releases of one row both lower the cached sum |
| `CountsApart` | nobody counts a shelf while an issue is taken back | the look for a newer count and the batch are two statements (`order-dispatch-cancel.ts:115`) |
| `CorrectionsApart` (`Stocktake`) | the books of a place are not corrected while it is counted | a manual setting during a session changes the books and not the shelf |
| `CountsAtOnce` | a count reaches the program before its shelf changes | `inventory-stocktake.ts:323-325` compares quantities: a unit that left and came back in between, or an exchange of an arrival for a write-off, goes unnoticed (`CountsAreTrue` fails) |
| `ReversesApart` | a movement is reversed by one request at a time | `inventory-movement.ts:2478`: the batch asks for the stock, not whether the movement stands (`UndoneExactly` fails); the reversal of a transfer asks for both |
| `ClerksApart` | nothing is booked between a clerk's check and entry | `cash.ts:196` (withdrawal) and `cash.ts:261` (reconciliation) use a balance read before |
| `CorrectionsApart` (`CashRegister`) | the order stands still between plan and batch of a money correction | the plan holds what the register is to be told |
| `CorrectionsLast` | a corrected document is not cancelled afterwards | run `cash_correct` drops it |
| `RoutesApart` | a document is corrected through the order editor or through its exchange, not through both | each route asks only for the register's entries of its own kind (`orders-write.ts:1578-1583`, `returns-exchanges.ts:2216-2224`): the second does not see that the first has told the register (`RegisterFollowsDocuments` fails) |
| `ExchangesApart` | one exchange of an order is worked on at a time | `returns-exchanges.ts:4340` writes the planned total over whatever it has become; the total of the first of two overlapping exchanges is lost |
| `ReturnsApart` | new goods are not returned while their exchange is cancelled | between the check of what rests on the new line and its quantity going to zero (about `returns-exchanges.ts:4695`) |
| `HandoversStay` | an exchange that recorded a handover is not cancelled | `returns-exchanges.ts:4067-4077` restores the line's mark `reserved` while its reservation stays fulfilled (`OrderAddsUp` fails) |
| `LatestFirst` | exchanges of one line are cancelled from the latest on | run `exchange_order` drops it |

### CriticalOperation

`row` is the table `critical_operations`, `mapped` the entity table, `created` the
business rows in the order of their AUTOINCREMENT ids. A caller's `pc` says between
which two statements its handler stands; `token`, `nowMs`, `until` and `view` are
the local variables `leaseToken`, `nowMs`, `leaseUntil` and the handle's `row`.
`Begin ... BeginRefresh` are `beginCriticalOperation`, in order; `Advance` is
`advanceCriticalOperation`, used by `Validate`, `RecordEntity` and `Settle`;
`MapRead, MapInsert, MapReread` are `insertCriticalMappedEntity`; `CreateHeader,
HeaderRefresh` are `updateCriticalOperationTargetFromLastInsert`; `Complete,
CompleteCheck, Close` are `completeCriticalOperation`; `Fail` is
`failCriticalOperation`; `Discard` is the DELETE in `createOrder`'s catch clause.

The code has step names per handler; the model has the five they stand for:
started, validated (plan stored), written (`order_created`, `payment_written`),
settled (`content_written`, `ledger_synced`), completed. Request bodies are members
of a set (their fingerprint), the stored response is the id of the row it names. A
time unit is a tick; the lease is `Lease` ticks for 45 seconds. A fresh UUID is any
token that no row holds and no handler remembers, chosen deterministically since no
behaviour depends on which.

An order is inserted with the external id of its operation's context, not with its request
id (`orders-write.ts` 703-710, 821, 1028). `key` in a row and in a handle counts the contexts of a
request: a row that is discarded and inserted again has a new one, since `createOrder`
proposes a fresh external id on each call (a client that sends an `externalId` of its own gets a
stronger guarantee). The UNIQUE column then refuses a second order only if its key is the same
(`Placed`), and `OneOrder`, two orders of one request never, has to follow from what is
discarded when.

`SlowCallers` separates two worlds: FALSE assumes that a handler that is alive never
takes 45 seconds between renewals of its lease; TRUE drops that assumption.

### OrderPayment

`created` are the rows of `payments` and `Amount` of the body what is paid;
`events`, `received`, `debt` are the ledger and the cached columns. `ready` says
whether the handler has done the reading or writing that comes before its next
`advance`. `Fits` is the check of the preflight and, again, the CASE inside the
INSERT. `Syncers` are handlers of returns or exchanges of the same order, which read
the ledger and write it later.

### AdminDeleteSaga

`saga` and `steps` are the journal of the saga, `ret`, `event`, `order` the status
columns it works on, `booked` what the stock movements of a return's event add up
to. Administrators' calls plan (`PlanRead`, `PlanWrite`), advance one step (`Open`
to `Checkpoint`) or finalise (`FinalClaim` to `FinalCheckpoint`). Cancelling a return
(`CancelBegin` to `CancelComplete`) is one set of actions, used by the saga and by
clerks. `createReturn` is `ReturnRead`, `ReturnInsert`, `ReturnEvent`. A lease is
`live` until it runs out; its holder is the call that took it, or a `Ghost`. All
calls of one saga share the derived request ids, so overlapping calls meet in the
operation journal too. An event of a return carries one unit. The retirement of an order's
items, workshop tasks and payments before its row is written (`orders-write.ts`
2166-2200) is behind `FinalDelete`, and the reservations the driver looks at are not
modelled: no goods are handed over during a deletion here.

### OrderStock

`resv` is `inventory_reservations` by order item, `item` the columns of `order_items` that
say how far the item is, `stock` quantity and cached `reserved_quantity` of a shelf.
`ledger`, `counts`, `since` and `answered` are what the code derives from movements and
dates: the sum of the movements, and, in place of times, how many counts precede an
event. A handler is a record in `proc`: `op`, the next statement `pc`, and what it has
read. `BeginX` reads, `CommitX` is the batch; shipping has three reads between
(`CheckShip`, `ReadRows`, `ReadStock`), a dispatch and the two ways of taking an issue back
have one. `Free` is the assumption `OrdersApart`; among `Rechecks`, whose batches ask again
for every row, nothing is assumed. `Picks` are the selections a client may send; a line is split once.

What is left out: shortage decisions and the employee's answer to them beyond `sure`, the
shipping observations, goods issued before tracking began, catalogue identities, workshop lines.

### Stocktake

`stock` and `ledger` are the books; `truth` is the shelf itself, which only people see: an
arrival or a write-off changes both, a correction only the books, and a count reads the
truth. That makes it possible to say what a stocktake is for (`CountsAreTrue`), which no
statement about the tables alone does. `ops` are `inventory_operations` by request id with
what they booked (`effect`), what they really moved (`moved`) and what taking them back
booked (`back`). A transfer or write-off may move more units than the books explain: the
code deducts the explained ones. `Listing`, `Saved`, `MovedSince` are the rules of the rows,
`Consistent` the lock of the completing batch, `MarkConflicts` what follows when it fails.

Left out: the movement kinds sale and delete (they come from orders, `OrderStock`), rows of
found goods without a catalogue identity, reserved quantities, adding a size or a colour
in a session, the workshop.

### CashRegister

`entries` is `cash_register_entries`, each with its source key, `cycle` the number of ledger
resets, `doc` the payment and return rows. The triggers run inside the statement that sets
them off, so `NewRow` (insert), `Reverse` (removal, cancellation) and `DeleteOrder` book in
the same action. `Ask` and `Write` are the two halves of a clerk's request, `AskUndo` and
`WriteUndo` those of taking a manual entry back; a request may be sent again, by another
handler. An edit that rewrites payments is `PlanEdit`, `RetirePayments`, `UpdateOrder`,
`WritePayment`; a money correction is `PlanCorrection`, `ApplyCorrection`. It comes by one of two `Routes`, the
order editor for payments or the correction of an exchange for its payment or refund, and asks
whether the register has been told of the document before (`TrackedBy`): by the entry of the
document, or by an entry of a correction of the same route. A `copy` in the document is what the
exchange remembers of its method, which the second route compares (`Correctable`). `drawer` and
`agreed` are not in the program: `agreed` is whether the register has been told of all
cash since the last count.

Left out: a correction of a payment made while tracking was paused, two corrections
planned at once, an edit that is planned while the order is deleted by another handler
(the edit writes its planned status and the order is alive again, `UpdateOrder`).

### ExchangeSet

`made[c]` is the exchange `c` with the row of the journal that creates it, its plan and its
two lifecycle events; `undo[c]` the operation that cancels it; `pc` the next write of the two
handlers. A call dies (`Crash`) and a retry starts at the step the row remembers
(`Resumes`), so every write must bear being repeated. One is never repeated: after the batch that takes the goods
given off the shelf (`ApplyOut`) a write of its own names the movement in the event
(`LinkOut`); a call that dies before it leaves the event applied, the retry finds it so
(`lifecycle.ts:401`), and a cancellation gives back only what a named movement took
(`GivesBack`). `Lost` counts those goods. `Plan` is the validation, `Claim` the
one batch that takes the units and inserts the exchange, and so on in the order of the
code; a cancellation checks again on every retry (`BeginCancel`), freezes its figures once
(`Freeze`) and undoes the writes one after another. `TakeReturn` is the claim of a return.

Left out: several old and new lines per exchange, the older single exchange
(`createExchange`), prices other than 1 and their corrections. The lease of the journal is
`CriticalOperation`'s subject, here a request has one handler at a time. One more thing is
seen only outside the model's assumptions: a client that lets an exchange lie whose call
died before its payment, cancels it and then repeats the creation books the payment on a
cancelled exchange (the resumption near 4260 does not ask for the exchange's status);
`ExchangesApart` excludes it, since the creation counts as unfinished.

## Runs

Every passing run also has a mutant for each of its properties: an operator next to
the one it replaces (`HeldByStatus` for `Held`, `AnyStock` for `SameStock`, ...), a plausible
slip in that line of code, under which TLC finds the property violated.

| Run | Instance | Shows | Distinct states |
|---|---|---|---|
| `journal` | 2 handlers, one order request, Lease 1, 5 instants, 2 faults, slow handlers, discards | HolderViewFresh, StepsForward, CompletedFinal, OneOrder, AnswersAgree | 669,927 |
| `journal_retry` | 3 clients, one payment request, one with another body, Lease 2, 1 fault | TypeOK, ImplementsPromise, EventuallyAnswered | 220,165 |
| `payment` | 2 payments of 2 on an order of 3, a syncer, 1 fault | NoOverpayment, CompletedIsBooked, BooksBalance, EventuallyPaidOrRefused | 292,734 |
| `saga` | 2 administrators, a clerk, 1 return, intake, slow calls, 1 fault | SagaTypeOK, StockUndoneOnce, PassedIsCancelled, PassedOutOfStock, CompletedProved | 2,015,588 |
| `saga_recovery` | 2 administrators, a creator, 2 returns, 2 faults | PassedIsCancelled, ExistingGone, ChainRecovers | 152,639 |
| `stock` | 2 orders on a shelf of 3 units, 3 lines (one of 2 units, splittable), 2 handlers, 3 operations, 1 count | StockTypeOK, CacheIsSum, BooksFollowMovements, DispatchedOnce, PartsAddUp, SentLeavesNothing, GivesBackWhatItTook | 193,151 |
| `stocktake` | 2 places, 2 variants, books one unit off, 2 handlers, 2 sessions, 4 requests | StocktakeTypeOK, BooksAddUp, CountsAreTrue, TransfersStayOut, UndoneExactly | 272,162 |
| `cash` | 1 order, 2 payments, 1 refund, a clerk with a request, 1 reset, 2 corrections of one document | CashTypeOK, RegisterFollowsDocuments, BalanceIsTheDrawer | 1,997,124 |
| `exchange` | 1 line of 2 units, 2 exchanges, 1 return, 1 crash | ExchangeTypeOK, NoUnitTwice, OrderAddsUp, ChangesSettle | 399,242 |

What one run leaves out another has. `journal` is about a header request (orders),
`journal_retry` about a mapped one (payments). In `journal` a handler loses its lease while it
works, the other discards, inserts again or completes, and the first one still writes and
answers; `journal_retry` follows a request to its end with handlers that keep their lease. `saga`, `stock`, `stocktake` and `cash` use
symmetry in handlers, requests or payments, which differ in nothing but the name; they check
invariants and action properties only. The runs with liveness use none.

### Bounds and why they suffice

* Two handlers of a request are enough for every takeover: the one that lost and
  the one that took over. The third client of `journal_retry` is the one with
  another body.
* `MaxTime` leaves a lease that a fault abandons the time to run out (the guard of
  `Fault` asks for it), so that a bounded clock does not make the last retry
  impossible. In `journal` there is time for four leases in a row.
* Tokens: as many as handlers and the row can hold at once, plus one.
* `MaxFaults` 1 or 2: one crash, and one during its recovery.
* Amounts 2 and 2 on a total of 3 make the second payment fail by one.
* One or two returns: with two, the cursor's order matters; with one, every race of
  the saga with a clerk and the warehouse on one return is covered. Intake is off in
  `saga_recovery` because goods booked in make the driver refuse the deletion
  by design (`admin-delete-real-driver.ts` 108-152), which is no failure to recover.
* `stock`: a race needs two handlers, and a third operation to set the scene (a line issued
  and then taken back while something else is written); the initial state already has any
  part of the lines reserved. Three units for four ordered ones make admission fail; two
  units in a line make a partial dispatch. A count (0 to 4 units) falls anywhere.
* `stocktake`: the longest scenes are a session begun before the first step, a count,
  a movement and its reversal, then the completion: four requests with two of them
  overlapping anywhere. Two sessions make a second start possible, and two places a transfer.
* `cash`: two payments, so that a debt payment stands beside a first one and an edit's new
  payment beside the one it replaces; one refund. `MaxEntries` bounds what has been booked
  before something new begins: three entries and what the last action books are enough for
  booking, correcting, undoing and refunding one document. `MaxFixes` 2 and `MaxCorrected` 1: one
  document is corrected twice, from cash to another method and back or the reverse, by any route.
* `exchange`: the second exchange is of the same line or of the first one's new line;
  `InStock` holds all of it twice, what is given and what a cancellation may fail to give back
  (`StockAssumption`). The crash falls after any write of either
  handler, and the retry may itself be interleaved with the other exchange and a return.

### Fairness

Weak fairness of a handler's next step: an isolate that is not evicted runs on. Weak
fairness of `Begin`: clients repeat a request until it is answered (the browser
keeps its request id until it succeeds), and administrators press the button again.
Strong fairness of `Tick` since time may pass only between the steps of handlers
that are not slow; weak fairness of `Expire` in the saga. In `ExchangeSet`, a client repeats
a request only once it has changed something (`Claimed`, or a validated cancellation): one that
was refused before may be given up. No fairness for faults, for clerks, creators, returns or the
warehouse. `OrderStock`, `Stocktake` and `CashRegister` state no liveness: their handlers are
one or two statements long and wait for nobody; what remains unfinished after a crash is a
request that has written nothing.

## Disagreements met

Three runs check what a comment, a message or a test says and the code does not
keep. Each is described in `PROJECT.json` with its lines.

| Run | Says | Does |
|---|---|---|
| `saga_stuck` | retries are recoverable | a crash between the order row and the end of its operation blocks the saga for ever |
| `cash_correct` | cancelling puts the money back, corrections are reconciled | the trigger books back the amount first booked; what a correction added stays |
| `exchange_order` | exchanges of goods never issued are safely restorable; the client is asked to repeat | of two exchanges of one line the first, cancelled first, stops half way and no retry ends it |

`cash_correct` and `exchange_order` need no overlap of calls: a sequence of ordinary
requests does it.

Eight more were met with the same models, most of them changed in one constant, and are not
kept as runs:

* A claim does not compare the fingerprint again (`critical.ts:162`): after a discard of a
  failed validation it adopts an operation with another body (`BodyAnswered` under two bodies).
* A refresh of the cached amounts (`money.ts:361`, then 362-372) may write amounts older than a
  payment booked in between, although `docs/PROJECT_CONTEXT.md:81` says debt derives from total
  and money received (`DebtDerives`).
* A handler slower than its lease inserts a second payment (`critical.ts:270-277`; the message at
  169 promises that no second copy is created; `OneEffect` with `SlowCallers`).
* A return taken in while its order is deleted outlives it. A return without refund is
  inserted without asking for the order again (`returns-exchanges.ts:594`), and the
  deletion counts the active returns before it stores its plan and never again
  (`orders-write.ts:1995-2366`). The deleted order then has a live return, which the same
  deletion refuses to begin with. What holds with a creator is `ExistingGone`: the returns
  there were when the deletion began are gone.
* The event of a return is inserted after the saga has passed the return, and booked
  (`returns-exchanges.ts:682`; `PassedOutOfStock` with a creator).
* A cancellation of a stocktake that read its session as active writes `cancelled` over the
  completion that was booked meanwhile (`inventory-stocktake.ts:1619` does not ask for the status
  again): the counts are in the books of a cancelled session, and the client says
  "Остатки не изменялись" ("the stock was not changed", `InventorySection.tsx:1327`). The overlap is
  part of the run `stocktake`, where the books stay additive and the counts true all the same.
* A payment of an exchange whose money was corrected from another method to cash through its
  exchange, and then from cash back through the order editor, stays in the register: the editor
  looks for entries under the payment's id (`orders-write.ts:1578-1583`), the first correction was
  booked under the exchange's (`returns-exchanges.ts:2216-2224`). `RegisterFollowsDocuments` with
  `RoutesApart` FALSE.
* A call that dies between the batch that takes exchanged goods off the shelf and the write that
  names their movement (`lifecycle.ts:579`, 585-593) is never repaired, and cancelling the
  exchange then leaves those goods out of the books (764-770, 787-790): stock and promises of
  a cancelled exchange are as before only apart from `Lost`.

So `PassedOutOfStock` holds in `saga` only as long as nobody takes in a return while the
deletion runs (`Creators` is empty there), and `OneEffect` only for handlers faster than
their lease.

A saga whose step is refused for ever, because its return was cancelled by hand, stays
`running`: no code writes the statuses `review_required` and `cancelled` that the
schema foresees. ChainRecovers is stated for a plan with no clerk in it for that reason.

## Proofs

Every theorem is about `Spec` and holds for every value of the constants that the named
assumptions of its module allow: any sets of handlers, requests, orders, lines or shelves, any
bounds. Where a theorem needs a constant of the table of worlds, it says so; where it does not,
the code keeps the promise by its own guards.

### The journal: `Journal_proofs`

| Theorem | States | Assumes besides the module's assumptions |
|---|---|---|
| `TypeCorrect` | `[]TypeOK` | nothing |
| `HolderIsFresh` | `[]HolderViewFresh`: whoever holds the lease decides from the row as it is | nothing |
| `CompletedStays` | `CompletedFinal` | nothing |
| `CursorForward` | `StepsForward` | nothing |
| `OrderOnce` | `[]OneOrder`: one order per request, slow handlers and discards included | nothing |
| `AnswersTrue` | `[]AnswersAgree` | one body per request |
| `EffectOnce` | `[]OneEffect` | no slow handlers |
| `PromiseKept` | `ImplementsPromise`, the refinement of `IdempotentRequest` | no slow handlers, one body per request |

`HolderViewFresh` is not inductive: a handler could be handed the token of another one,
or be handed it back. `JournalInv` adds what excludes this: an idle client has no token
and a client at work has one; no two clients at work have the same; a row that does not
exist stands at its first step; a handler inside the insertion of its
mapped entity has read the step `validated`. With it the proof goes by one lemma for what
a write may do to a row (`RowWrite`), one for what a client's move does to its own
variables (`OwnMove`), and one case per action of `Next`. The two action properties
follow from the invariant: a cursor is moved only by a holder, whose view is the row,
from the step its view shows to the next one. `OneOrder` rests on an invariant of its
own, `KeyInv`, over `CursorInv` (below): a row past its first step is never discarded, so whoever
has read its request past that step has the external id in its context that the row has now,
and so has the order. Only those insert orders, and the UNIQUE column refuses the second one.

`AnswersTrue`, `EffectOnce` and `PromiseKept` rest on four more invariants, each on those before it. `LeaseInv` (fast
handlers): a handler at work holds its row, and the row runs out when the handler thinks it
does, so no two handlers execute one request. `CursorInv`: what a handler has read of the
cursor stays true; a row past its first step is never discarded, and one past its effect keeps
its target. `BodyInv` (one body): target, mapping and what a handler remembers name a row of
this request and this body. `OnceInv` (fast handlers): the only business row of a request is
the one its mapping or its target names, and nobody makes a mapping while a handler is about
to insert. Without the one body `AnswersAgree` is false of order requests, without fast
handlers `OneEffect` is false: both assumptions are needed, not merely convenient.

The refinement maps the business rows to the abstract effects and the answers given to the
abstract answers. By `PromiseInv`, the conjunction of all of the above, the one action that
inserts a business row is the abstract effect (of a request that had none), the actions that
answer are the abstract answer (with the row of the request), and every other step stutters:
there is one lemma for a step that leaves both alone and a case for each of the others.

### Payments: the second part of `Journal_proofs`

`NeverOverpaid`, `PaymentAnswersTrue` and `CompletedAreBooked` assume nothing more;
`BooksBalanced` and `PaymentsKeepPromise` assume fast handlers. A payment has a mapped row and no
header, so what `OneBody` asks (of order requests) is empty here. Every step of a
payment handler, of a syncer or of time is a step that the journal allows its users
(`PaymentMoves`: `AnyStep`); so each invariant above that was proved for `AnyStep` holds here too,
and the refinement with it. `NoOverpayment` is inductive with the types, by what a new row adds to
the sum (`SumLemmas`): the amount is compared in the INSERT itself.
`BookInv` adds for the ledger that a handler is `ready` only while it runs, that ready
after its payment it has recorded the event, and that no row is past that step without its event.

### The deletion saga: `AdminDeleteSaga_proofs`

| Theorem | States | Assumes besides `SagaAssumption` |
|---|---|---|
| `SagaTypes` | `[]SagaTypeOK` | nothing |
| `SagaInvariant` | `[]SagaInv` | nothing |
| `UndoneOnce` | `[]StockUndoneOnce` | nothing |
| `PassedAreCancelled` | `[]PassedIsCancelled` | nothing |
| `CompletedAreProved` | `[]CompletedProved` | nothing |
| `ExistingAreGone` | `[]ExistingGone`: every return that existed when the behaviour began is gone when the order is deleted, whatever is created meanwhile | nothing |
| `PassedAreOutOfStock` | `[]PassedOutOfStock` | nobody creates returns meanwhile |

`SagaInv` says of each caller what it knows at its place in the handler that stays true
whatever the others do: a return it has read as existing exists, an event it has read as
applied is never pending again, the plan it is about to write lists existing returns in
descending order, and a caller past the cancellation of its step works on a cancelled
return. Nothing of this depends on the lease, so it holds for slow callers too; the lease
matters only for liveness.

### The cash register: `CashRegister_proofs`

`CashTypes` (nothing assumed), `DrawerIsBalanced` (`ClerksApart`, `CorrectionsLast`) and
`DocumentsAreFollowed` (`CorrectionsApart`, `CorrectionsLast`, `RoutesApart`), both for any
number of corrections of a document. Neither of the last two needs all of the other's
assumptions: the balance may be right although a correction was planned on old figures, and the
documents may be followed although clerks overlap.
`CoreInv` types the tables and says which source keys an entry can have at all (an amount is
booked under the key of its document, its removal under another, so that the unique key makes
each happen once), and what a document must look like while an edit or a correction is under
way. `DrawerInv` adds that one clerk at most is past the checks, having seen the balance
there is, and that where the register has been told of all cash the balance is the drawer. `FollowInv` says
of each document that its entries add up to what is due of it (`Net`, `Due`) and that a planned
correction fits the document.

### Reservations and dispatch: `OrderStock_proofs`

| Theorem | States | Assumes besides the module's assumptions |
|---|---|---|
| `StockTypes` | `[]StockTypeOK` | nothing |
| `CoreInvariant` | `[]CoreInv` | nothing |
| `BooksFollow` | `[]BooksFollowMovements` | nothing |
| `UnitsAddUp` | `[]PartsAddUp` | nothing |
| `LinesLeaveOnce` | `[]DispatchedOnce` | `OrdersApart` |
| `SentIsComplete` | `SentLeavesNothing` | `OrdersApart` |
| `KnownInvariant` | `[]KnownInv` | `OrdersApart`, `CountsApart` |
| `TakenComesBack` | `GivesBackWhatItTook` | `OrdersApart`, `CountsApart` |

`CoreInv` types the tables and everything a handler has read, by operation and place, and
adds what no operation ever undoes: a row of an item stays, a reservation loses units only to the
one remainder of its line, counts only grow (`Onward`). That is enough for the books, since a
batch that writes an absolute quantity asks for the quantity it was computed from.

The cached sum, the dispatches and the sent orders need to know that what a handler read is still so. Under
`OrdersApart` a handler that does not ask again has its order alone (`Alone`), so what it has read of the
lines of its order stays what the tables say (`Fresh`); every step of another handler leaves
those lines alone (`Untouched`). `IssuedRows` and `EntriesStand` tie the mark of a
line, its reservation and the entry of its dispatch together. `CacheIsSum` is then kept by each
batch because the change of the cached sum is the change of the rows it writes, one or many
(`SumLemmas`). That is a step on the way, not a promise of the code: the overlaps that
`OrdersApart` excludes (`order-reservations.ts:908` and 2031) are the ones that break the cache. Dispatches, their cancellations and answers to a count are never assumed apart: their batches
ask again for every row, and the proof uses those guards.

`KnownInv` is about time: a handler that takes an issue back has seen every count of the shelf after
the issue, as long as nobody counts between its look and its batch.

### Exchanges: `ExchangeSet_proofs` and `ExchangeOrder_proofs`

| Theorem | States | Assumes besides the module's assumptions |
|---|---|---|
| `ExchangeTypes` | `[]ExchangeTypeOK` | nothing |
| `ShelfAddsUp` | `[]ShelfFollowsRows`: the two conjuncts of `OrderAddsUp` about the shelf, at rest or not, with what is `Lost` | nothing |
| `UnitsOnce` | `[]NoUnitTwice` | `ExchangesApart`, `ReturnsApart` |
| `OrdersAddUp` | `[]OrderAddsUp` | `ExchangesApart`, `LatestFirst`, `HandoversStay` |

They hold for any finite sets of lines and exchanges, any quantities, any number of returns
and of calls that die. `OrderAddsUp` speaks of an order at rest; what is true while an exchange
is on its way is the invariant, in six layers, each resting on those before it:

* `CoreInv`: the types, and for each exchange where its two handlers stand (`pc`) beside the step
  its row remembers, so that a retry resumes at a place whose earlier writes are done. No assumption.
* `ShelfInv`: a lifecycle event is booked if and only if its row says so, and a row of a
  reservation and the stock are written by one batch. No assumption either: a batch that is
  repeated, or overtaken, finds in the row what has been done. The shelf holds enough for every
  exchange and for the goods that cancellations may fail to give back: `StockAssumption` counts both.
* `UnitInv`: one operation is unfinished at most, so the quantity that a creation has claimed is still
  the planned one (`ClaimHeld`). Without `ExchangesApart` a second exchange writes its own
  absolute quantity in between.
* `BalanceInv`: for each line, the units it has now and those the standing exchanges have taken are what
  was ordered or given; and each standing exchange took its units from what the one before it left.
  The number of an exchange orders those of a line. Without `LatestFirst` a cancellation puts back a
  quantity that later exchanges have already drawn on.
* `FitInv`: the mark of a line and the status and quantity of its reservation agree, or the exchange
  under way is the one that is changing them. A cancellation puts back the snapshot of its plan;
  without `HandoversStay` the mark and the reservation it puts back contradict each other.
* `MoneyInv`: the total is the worth of the lines when nothing is under way, and the planned or
  frozen total will be that worth once the writes in between are done.

Most of the steps leave most of the layers alone. A predicate says when (`Quiet`, `OffShelf`,
`BalanceQuiet`, `FitQuiet`, `MoneyQuiet`), one lemma shows that such a step keeps the layer, and the
few steps that touch it have a lemma each. A cancellation checks again on each retry and may
be refused: so the invariant says what is true between any two of its writes, and not only
along one run of the handler.

### Sums: `SumLemmas`

A sum over a finite set is one of its members plus the sum of the rest (`SumRemove`), and
does not depend on the names of what is added up (`SumRenamed`). `MapThenSumSet` is a fold
over sequences; the library's induction principles take an operator as parameter, which
the installed provers cannot instantiate. The lemmas are proved instead by a smallest
counterexample: of the sizes of sets for which the fact fails one is the least, and the fact
holds of the set without one of its members.

### Stocktake: `Stocktake_proofs`

`Stocktake_proofs` proves, for any finite set of shelves, any requests, handlers and
number of sessions, any books and any goods really there, from `StocktakeAssumption`
and, where a theorem says so, from the constants of the table of worlds:

| Theorem | States | Besides `StocktakeAssumption` it assumes |
|---|---|---|
| `TypeCorrect` | `Spec => []StocktakeTypeOK` | nothing |
| `BooksStayTrue` | `Spec => []BooksAddUp` | nothing |
| `TransfersKeptOut` | `Spec => TransfersStayOut` | nothing |
| `UndoneOnce` | `Spec => []UndoneExactly` | `ReversesApart` |
| `CountsStayTrue` | `Spec => CountsAreTrue` | `CorrectionsApart`, `CountsAtOnce`, `ReversesApart` (`Careful`) |

So the table shows which of the promises of the code stand by its own guards, and which
need requests to keep apart. None of them is inductive. The invariant `Inv` adds three
things. First, what a handler has read fits what it is going to write (`JobSound`): the
change it books stays within its shelves, the quantities it compares are those of its
shelves, no batch takes a shelf below zero, and a job that needs a quiet place asks for
every place it touches. Second, for each assumption that is made, the invariant that makes it useful
after the look: the movement being taken back stands and nobody else takes it back
(`UndoesAlone`), and where books are corrected no session runs (`CorrectsAlone`). Third, the gap
`truth - stock` of a shelf: a movement that books what it moves keeps it, and every count
saved in a row, every count on its way to a row, and every setting on its way to the books
measures it (`RowsMeasure`, `Measures`). A session completes only when the stock of each
counted row is the quantity the count was made at, so applying the count closes the gap.
The proof has a lemma for a step that only gives a handler something else to do (`JobChange`), one
for a step that writes only rows (`RowsOnly`), one for a step that moves the books
(`BooksMove`), what a successful batch of an operation and of its reversal does
(`Applies`, `Reverses`), and a lemma for each action.

### Only model-checked

The liveness properties (`EventuallyAnswered`, `EventuallyPaidOrRefused`, `ChainRecovers`,
`ChangesSettle`), which are out of the prover's reach: they need induction along fairness and
ENABLED. Every other property of a passing run is stated by a theorem. What the bounded
runs show beyond the theorems is that the assumptions are needed: with one of the constants of
the table of worlds turned, TLC finds a property violated.

### What proving changed in the models

* `RegisterFollowsDocuments` of `CashRegister` was stated by a CASE with overlapping arms, whose
  value is not determined; it is a nested IF now.
* `StockAssumption` of `OrderStock` says that a remainder belongs to its line's order and
  shelf, and that the set of lines is finite: the instance had both, the assumption did not say so.
* `ExchangeAssumption` says that lines and exchanges are finite sets, since the total and the
  promise of an order are sums over them.

## Not modelled, and the plan

Next, in this order:

1. `WorkshopSettlement`: a task follows its order line, a settlement books a batch of tasks
   once, at a price that may be changed meanwhile.
2. Exchange steps in `AdminDeleteSaga` (the cancellation itself is in `ExchangeSet`), and
   the restoration of a falsely shipped order (`order-delete.ts:235`).
3. Several lines per exchange, price corrections; the editing of order items against shipping.
4. Catalogue merges and their undo after later use; the physical outcome of a deletion.
5. `LoginThrottle`: counters read in an earlier statement.

Left out for good: reports and other queries (no state of their own), the activity log
and client counters (nothing decides on them), the router, formatting and parsing, the
browser client beyond its retries (most of the lines of the repository), dictionaries,
hashing of passwords.
