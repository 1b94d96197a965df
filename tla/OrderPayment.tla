---------------------------- MODULE OrderPayment ----------------------------
(***************************************************************************)
(* Manual payments of an order, createManualOrderPaymentCritical of        *)
(* src/worker/domains/money.ts, on the operation journal: every request is *)
(* a payment of one order, its effect the row in payments (created, of     *)
(* CriticalOperation), a ledger event keyed by the request, and the cached *)
(* received and debt amounts of the order.  Returns and exchanges of the   *)
(* same order refresh that cache too (syncOrderFinancialLedger), by a read *)
(* and a later write; Syncers are such handlers.                           *)
(***************************************************************************)
EXTENDS CriticalOperation, Functions

CONSTANTS
    Amount,    \* [Payloads -> Nat]: the amount a request body asks to book
    Total,     \* the order's commercial total
    Syncers    \* return and exchange handlers that refresh the order's cache

ASSUME PaymentAssumption ==
    /\ Amount \in [Payloads -> Nat \ {0}]
    /\ Total \in Nat
    /\ HeaderRequests = {}

VARIABLES
    ready,     \* whether a handler has done the work of its current step
    events,    \* financial_events: requests whose payment event is recorded
    received,  \* orders.received_amount
    debt,      \* orders.debt_amount
    ledger     \* what each syncer has read: [open, received]

order_ == <<events, received, debt>>
payVars == <<vars, ready, order_, ledger>>

\* SELECT SUM(amount) FROM payments WHERE order_id = ?
Paid == SumFunction([i \in 1..Len(created) |-> Amount[created[i].payload]])
DebtOf(sum) == IF sum < Total THEN Total - sum ELSE 0

PayInit ==
    /\ Init
    /\ ready = [c \in Callers |-> FALSE]
    /\ events = {}
    /\ received = 0
    /\ debt = Total
    /\ ledger = [s \in Syncers |-> [open |-> FALSE, received |-> 0]]

\* Mutant of Fits: the balance read before the plan was stored is trusted.
FitsPlan(c) == TRUE

\* The balance check of the preflight, and again inside the INSERT itself.
Fits(c) == Amount[Payload[c]] <= DebtOf(Paid)

\* The handler leaves the step it was ready for.
Leave(c) == ready' = [ready EXCEPT ![c] = FALSE] /\ UNCHANGED <<order_, ledger>>

\* Read the order and its live balance before the plan is frozen.
Preflight(c) ==
    /\ AtStep(c, "started")
    /\ ~ready[c]
    /\ \/ /\ Fits(c)
          /\ ready' = [ready EXCEPT ![c] = TRUE]
          /\ UNCHANGED pc
       \/ /\ ~Fits(c)
          /\ pc' = [pc EXCEPT ![c] = "failing"]
          /\ UNCHANGED ready
    /\ UNCHANGED <<db, now, token, nowMs, until, view, local, answers, faults,
                   order_, ledger>>

FreezePlan(c) == ready[c] /\ Validate(c) /\ Leave(c)

\* The payment and its mapping, or neither: an amount above the balance of this
\* very moment becomes NULL and the batch aborts.
InsertPayment(c) ==
    /\ pc[c] = "map_insert"
    /\ \/ /\ Fits(c)
          /\ MapInsert(c)
       \/ /\ ~Fits(c)
          /\ pc' = [pc EXCEPT ![c] = "failing"]
          /\ UNCHANGED <<db, now, token, nowMs, until, view, local, answers, faults>>
    /\ Leave(c)

\* One batch: the event (INSERT OR IGNORE by key) and the order's cached amounts.
Book(c) ==
    /\ AtStep(c, "written")
    /\ ~ready[c]
    /\ events' = events \cup {Request[c]}
    /\ received' = Paid
    /\ debt' = DebtOf(Paid)
    /\ ready' = [ready EXCEPT ![c] = TRUE]
    /\ UNCHANGED <<vars, ledger>>

\* Mutant of CloseBook: the cursor moves on before the batch is written.
CloseBookEarly(c) == Settle(c) /\ Leave(c)

CloseBook(c) == ready[c] /\ Settle(c) /\ Leave(c)

\* syncOrderFinancialLedger of another handler: read the ledger, ...
SyncRead(s) ==
    /\ ~ledger[s].open
    /\ ledger' = [ledger EXCEPT ![s] = [open |-> TRUE, received |-> Paid]]
    /\ UNCHANGED <<vars, ready, order_>>

\* ... then write what it has read.
SyncWrite(s) ==
    /\ ledger[s].open
    /\ received' = ledger[s].received
    /\ debt' = DebtOf(ledger[s].received)
    /\ ledger' = [ledger EXCEPT ![s] = [open |-> FALSE, received |-> 0]]
    /\ UNCHANGED <<vars, ready, events>>

\* The steps of the journal that have no work of their own.
JournalStep(c) ==
    /\ \/ BeginRead(c) \/ BeginInsert(c) \/ BeginReread(c)
       \/ BeginClaim(c) \/ BeginRefresh(c) \/ Refresh(c)
       \/ MapRead(c) \/ MapReread(c) \/ RecordEntity(c)
       \/ Complete(c) \/ CompleteCheck(c) \/ Close(c)
       \/ StrayedStep(c) \/ Fail(c)
    /\ Leave(c)

PayHandle(c) ==
    \/ JournalStep(c)
    \/ Preflight(c) \/ FreezePlan(c) \/ InsertPayment(c) \/ Book(c) \/ CloseBook(c)

Send(c) == Begin(c) /\ Leave(c)
Disturb(c) == (Throw(c) \/ Crash(c)) /\ Leave(c)
PassTime == Tick /\ UNCHANGED <<ready, order_, ledger>>

PayNext ==
    \/ \E c \in Callers : Send(c) \/ PayHandle(c) \/ Disturb(c)
    \/ \E s \in Syncers : SyncRead(s) \/ SyncWrite(s)
    \/ PassTime

PaySpec == PayInit /\ [][PayNext]_payVars

FairPaySpec ==
    /\ PaySpec
    /\ \A c \in Callers : WF_payVars(Send(c)) /\ WF_payVars(PayHandle(c))
    /\ SF_payVars(PassTime)

-----------------------------------------------------------------------------
(***************************************************************************)
(* Properties.                                                             *)
(***************************************************************************)

\* Several employees pay the same debt at once, from balances they have read
\* earlier: together they never book more than the order costs.
NoOverpayment == Paid <= Total

\* A request that is reported complete has its ledger event.
CompletedIsBooked ==
    \A r \in Requests : row[r].status = "completed" => r \in events

Unfinished(r) == row[r].status = "started" /\ row[r].step # "started"

\* "Debt derives from persisted commercial total and actual received money":
\* once nothing is under way, the cached debt is the one the payments leave.
DebtDerives ==
    /\ \A c \in Callers : pc[c] = "idle"
    /\ \A s \in Syncers : ~ledger[s].open
    /\ \A r \in Requests : ~Unfinished(r)
    => received = Paid /\ debt = DebtOf(Paid)

\* Every payment row has exactly one ledger event once nothing is under way:
\* the payments and the ledger add up to the same money.
BooksBalance ==
    (\A r \in Requests : ~Unfinished(r)) =>
        Paid = SumFunction([r \in events |-> Amount[row[r].payload]])

PaidByOthers(r) ==
    SumFunction([i \in {j \in 1..Len(created) : created[j].request # r} |->
                   Amount[created[i].payload]])

\* A payment that keeps being sent is answered, also when its money was booked by
\* an attempt that died, unless the payments of others leave no room for it (or
\* its id belongs to another body).
EventuallyPaidOrRefused ==
    \A c \in Callers :
        <>(\/ \E a \in answers : a.request = Request[c] /\ a.payload = Payload[c]
           \/ row[Request[c]].status # "none" /\ row[Request[c]].payload # Payload[c]
           \/ PaidByOthers(Request[c]) + Amount[Payload[c]] > Total)
=============================================================================
