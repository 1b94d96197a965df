---------------------------- MODULE CashRegister ----------------------------
(***************************************************************************)
(* The office cash register: worker/domains/cash.ts, the triggers of       *)
(* migrations/0046 that book cash payments and refunds by themselves, and  *)
(* the writers of those documents: order edits, order deletion, exchange   *)
(* cancellation and the two money corrections.                             *)
(*                                                                         *)
(* An entry is identified by its source key, which the table keeps unique; *)
(* its amount is signed ("in" is positive).  A balance is the sum of the   *)
(* entries booked after the last ledger reset: "cycle" counts the resets.  *)
(* The drawer and the flag "agreed" are not in the program: the drawer is  *)
(* the cash that is really there, and the two agree from a count on until  *)
(* cash moves that the register is not told of.                            *)
(***************************************************************************)
EXTENDS Integers, FiniteSets, FiniteSetsExt

CONSTANTS
  Orders, Payments, Returns,  \* the documents that may come to exist
  Kinds,                      \* the payment kinds taken, of AllKinds
  Requests, Clerks,           \* request ids of clerks; handlers at work for them
  Amounts,                    \* bound: amounts of new documents and of requests
  CorrectAmounts,             \* bound: amounts put in by a correction
  MaxCycles,                  \* bound: ledger resets
  MaxFixes,                   \* bound: corrections of one document
  MaxCorrected,               \* bound: documents that are corrected
  MaxDrawer,                  \* bound: cash in the drawer, either way
  MaxEntries,                 \* bound: entries of the register before the last thing begun
  ClerksApart,                \* the register stands still while a clerk's request runs
  CorrectionsApart,           \* the order stands still while a correction runs
  CorrectionsLast,            \* a corrected document is not cancelled afterwards
  RoutesApart                 \* what one route brought into the register, the other leaves alone

AllKinds == {"primary", "debt_close", "extra"}
Routes == {"editor", "exchange"}  \* the order editor, the correction of an exchange
Docs == Payments \cup Returns
Free == [at |-> "idle"]
Nothing == [at |-> "none"]

ASSUME CashAssumption ==
  /\ Kinds \subseteq AllKinds
  /\ Payments \cap Returns = {}
  /\ Amounts \subseteq Nat \ {0} /\ CorrectAmounts \subseteq Nat \ {0}
  /\ MaxCycles \in Nat /\ MaxFixes \in Nat /\ MaxCorrected \in Nat
  /\ MaxDrawer \in Nat /\ MaxEntries \in Nat
  /\ {ClerksApart, CorrectionsApart, CorrectionsLast, RoutesApart} \subseteq BOOLEAN

VARIABLES
  ready, auto, activated,     \* cash_register_settings: its row, the switch, activated_at is set
  cycle, entries,             \* the ledger resets so far; cash_register_entries
  recent,                     \* the orders created at or after activated_at
  order, edit,                \* order_status of each order; the step of its edit
  doc,                        \* the payment and return rows
  fix, fixed,                 \* the correction running on a document; how many it had
  refunded,                   \* payments whose order was deleted while tracking was on
  clerk, asked,               \* what each handler is at; what each request asks for
  drawer, agreed

register == <<ready, auto, activated, cycle>>
papers == <<recent, order, edit, doc, fix, fixed, refunded>>
desk == <<clerk, asked>>
vars == <<register, entries, papers, desk, drawer, agreed>>

-----------------------------------------------------------------------------
(* The books *)

Booked(key) == \E e \in entries : e.key = key
Entry(key) == CHOOSE e \in entries : e.key = key
Balance(es) == MapThenSumSet(LAMBDA e : e.amount, {e \in es : e.cycle = cycle})

\* Mutant of Insert: the source key is fresh with every attempt.
InsertAgain(es, key, amount) == es \cup {[key |-> key, amount |-> amount, cycle |-> cycle]}

\* INSERT OR IGNORE: the unique source key lets a second booking fall through.
Insert(es, key, amount) ==
  IF \E e \in es : e.key = key THEN es
  ELSE es \cup {[key |-> key, amount |-> amount, cycle |-> cycle]}

Room == Cardinality(entries) < MaxEntries

Standing(d) == doc[d].at = "stands"
OfOrder(o) == {d \in Docs : Standing(d) /\ doc[d].order = o}
Plain(o) == \A d \in OfOrder(o) : d \in Payments /\ doc[d].kind # "extra"
Settled == \A o \in Orders : edit[o] \notin {"retired", "updated"}

\* What the row is worth to the register: a refund leaves it.
Worth(d, amount, cash) == IF ~cash THEN 0 ELSE IF d \in Returns THEN -amount ELSE amount

Base(d) == <<IF d \in Returns THEN "return" ELSE "payment", d>>
Undo(d) == <<IF d \in Returns THEN "return-reversal" ELSE "payment-reversal", d>>

\* To a correction a document is tracked once the register has booked it or a
\* correction by the same route: the editor looks its own up by the id of the
\* payment, the exchange correction by the id of the exchange.
TrackedBy(route, d) ==
  Booked(Base(d)) \/ \E n \in 1 .. MaxFixes : Booked(<<"correction", route, d, n>>)

Tracked(d) == \E route \in Routes : TrackedBy(route, d)

Eligible(d, kind, o) ==
  auto /\ (d \in Returns \/ kind \in {"debt_close", "extra"} \/ o \in recent)

Moved(cash, followed) ==
  /\ drawer' = drawer + cash /\ drawer' \in -MaxDrawer .. MaxDrawer
  /\ agreed' = (agreed /\ (cash = 0 \/ followed))

NoClerk == ClerksApart => \A h \in Clerks : clerk[h].at # "checked"
NoFix(o) == CorrectionsApart => \A d \in OfOrder(o) : fix[d] = Nothing

-----------------------------------------------------------------------------
(* Settings *)

Setup ==
  /\ ~ready /\ drawer >= 0
  /\ ready' = TRUE
  /\ entries' = Insert(entries, <<"opening">>, drawer)
  /\ agreed' = Settled
  /\ UNCHANGED <<auto, activated, cycle, papers, desk, drawer>>

\* activated_at is set by the first switching on of a cycle and kept by a pause:
\* from then on the orders that exist already are backlog.
SetAutoTracking ==
  /\ ready
  /\ auto' = ~auto
  /\ activated' = TRUE
  /\ recent' = IF activated THEN recent ELSE {}
  /\ UNCHANGED <<ready, cycle, entries, order, edit, doc, fix, fixed, refunded, desk, drawer, agreed>>

ResetCycle ==
  /\ ready /\ cycle < MaxCycles /\ NoClerk
  /\ auto' = FALSE /\ activated' = FALSE
  /\ cycle' = cycle + 1
  /\ agreed' = FALSE
  /\ UNCHANGED <<ready, entries, papers, desk, drawer>>

-----------------------------------------------------------------------------
(* Clerks: a request may be sent again when its answer was lost *)

\* A withdrawal beyond the balance is refused; a count that agrees changes nothing.
Refused(ask) ==
  \/ ask.op = "out" /\ ask.amount > Balance(entries)
  \/ ask.op = "count" /\ ask.amount = Balance(entries)

Asks == [op : {"in", "out"}, amount : Amounts] \cup [op : {"count"}, amount : {drawer} \cap Nat]

Key(r) == <<IF asked[r].op = "count" THEN "reconcile" ELSE "manual", r>>

\* The handler reads the balance and makes its checks.
Ask(h, r) ==
  /\ ready /\ clerk[h] = Free /\ NoClerk /\ (Room \/ (asked[r] # Nothing /\ Booked(Key(r))))
  /\ \E ask \in IF asked[r] = Nothing THEN Asks ELSE {asked[r]} :
       /\ ~Refused(ask)
       /\ asked' = [asked EXCEPT ![r] = ask]
       /\ clerk' = [clerk EXCEPT ![h] = [at |-> "checked", request |-> r,
                                          seen |-> Balance(entries)]]
  /\ UNCHANGED <<register, entries, papers, drawer, agreed>>

Difference(ask, seen) ==
  CASE ask.op = "in" -> ask.amount
    [] ask.op = "out" -> -ask.amount
    [] ask.op = "count" -> ask.amount - seen

\* It writes its entry, unless its request has one already.  Cash changes hands
\* with a manual entry, and a count moves none.
Write(h) ==
  LET r == clerk[h].request
      change == Difference(asked[r], clerk[h].seen)
  IN  /\ clerk[h].at = "checked"
      /\ entries' = Insert(entries, Key(r), change)
      /\ IF Booked(Key(r)) THEN UNCHANGED <<drawer, agreed>>
         ELSE IF asked[r].op = "count"
           THEN agreed' = (asked[r].amount = drawer /\ Settled) /\ UNCHANGED drawer
           ELSE Moved(change, TRUE)
      /\ clerk' = [clerk EXCEPT ![h] = Free]
      /\ UNCHANGED <<register, papers, asked>>

\* The undoing of a manual entry carries no request id; its source key names the entry.
Undone(r) == Booked(<<"manual-reversal", r>>)

AskUndo(h, r) ==
  /\ clerk[h] = Free /\ Room
  /\ Booked(<<"manual", r>>) /\ ~Undone(r)
  /\ clerk' = [clerk EXCEPT ![h] = [at |-> "undoing", request |-> r]]
  /\ UNCHANGED <<register, entries, papers, asked, drawer, agreed>>

WriteUndo(h) ==
  LET r == clerk[h].request
      change == -Entry(<<"manual", r>>).amount
  IN  /\ clerk[h].at = "undoing" /\ NoClerk
      /\ entries' = Insert(entries, <<"manual-reversal", r>>, change)
      /\ IF Undone(r) THEN UNCHANGED <<drawer, agreed>> ELSE Moved(change, TRUE)
      /\ clerk' = [clerk EXCEPT ![h] = Free]
      /\ UNCHANGED <<register, papers, asked>>

Crash(h) ==
  /\ clerk[h] # Free
  /\ clerk' = [clerk EXCEPT ![h] = Free]
  /\ UNCHANGED <<register, entries, papers, asked, drawer, agreed>>

-----------------------------------------------------------------------------
(* Documents, and the triggers that book them *)

CreateOrder(o) ==
  /\ order[o] = "none"
  /\ order' = [order EXCEPT ![o] = "active"]
  /\ recent' = IF activated THEN recent \cup {o} ELSE recent
  /\ UNCHANGED <<register, entries, edit, doc, fix, fixed, refunded, desk, drawer, agreed>>

\* A new payment or return row, and trg_cash_payment_insert / trg_cash_return_insert.
\* "paid" is the cash that changes hands with it: none when an edit rewrites a row.
NewRow(d, o, kind, paid) ==
  \E amount \in Amounts, cash \in BOOLEAN :
    /\ doc[d].at = "none" /\ Room /\ NoClerk
    /\ doc' = [doc EXCEPT ![d] = [at |-> "stands", order |-> o, kind |-> kind,
                                  amount |-> amount, cash |-> cash, copy |-> cash]]
    /\ entries' = IF cash /\ Eligible(d, kind, o)
                  THEN Insert(entries, Base(d), Worth(d, amount, cash)) ELSE entries
    /\ Moved(IF paid THEN Worth(d, amount, cash) ELSE 0, Eligible(d, kind, o))

AddPayment(d, o, kind) ==
  /\ d \in Payments /\ order[o] = "active" /\ edit[o] = "none" /\ NoFix(o)
  /\ NewRow(d, o, kind, TRUE)
  /\ UNCHANGED <<register, recent, order, edit, fix, fixed, refunded, desk>>

AddReturn(d, o) ==
  /\ d \in Returns /\ order[o] = "active" /\ edit[o] = "none" /\ NoFix(o) /\ Room
  /\ OfOrder(o) # {}
  /\ NewRow(d, o, "refund", TRUE)
  /\ UNCHANGED <<register, recent, order, edit, fix, fixed, refunded, desk>>

\* Mutant of TakesBack: the refund with the order is not asked for.
TakesBackAny(d) == Booked(Base(d))

\* trg_cash_payment_delete and trg_cash_return_cancel: what the register booked for
\* the document is booked back; a payment refunded with its order is left alone.
TakesBack(d) ==
  /\ Booked(Base(d))
  /\ ~Booked(<<"order-cancel", d>>)

Reverse(es, ds) ==
  es \cup {[key |-> Undo(d), amount |-> -Entry(Base(d)).amount, cycle |-> cycle] :
           d \in {d \in ds : TakesBack(d) /\ ~Booked(Undo(d))}}

Gone(ds) == [d \in Docs |-> IF d \in ds THEN [doc[d] EXCEPT !.at = "gone"] ELSE doc[d]]

\* Cancelling an exchange deletes its extra payment, cancelling a refund (of a
\* return or of an exchange) marks it cancelled; the cash goes back.
CancelDoc(d) ==
  /\ Standing(d) /\ (d \in Returns \/ doc[d].kind = "extra")
  /\ order[doc[d].order] = "active" /\ NoFix(doc[d].order) /\ NoClerk
  /\ CorrectionsLast => fixed[d] = 0
  /\ entries' = Reverse(entries, {d})
  /\ doc' = Gone({d})
  /\ Moved(-Worth(d, doc[d].amount, doc[d].cash), Tracked(d))
  /\ UNCHANGED <<register, recent, order, edit, fix, fixed, refunded, desk>>

\* trg_cash_order_deleted: tracked or not, each cash payment of the order goes out.
CashOfOrder(o) == {d \in OfOrder(o) : d \in Payments /\ doc[d].cash}

PaysBack(o) ==
  {d \in CashOfOrder(o) : ~Booked(Undo(d)) /\ ~Booked(<<"order-cancel", d>>)}

\* The order is marked deleted, its payment rows stay.  No return may stand.
DeleteOrder(o) ==
  /\ order[o] = "active" /\ NoFix(o) /\ NoClerk
  /\ Plain(o)
  /\ order' = [order EXCEPT ![o] = "deleted"]
  /\ entries' = IF ~auto THEN entries
                ELSE entries \cup {[key |-> <<"order-cancel", d>>, amount |-> -doc[d].amount,
                                    cycle |-> cycle] : d \in PaysBack(o)}
  /\ refunded' = IF auto THEN refunded \cup CashOfOrder(o) ELSE refunded
  /\ Moved(-MapThenSumSet(LAMBDA d : doc[d].amount, CashOfOrder(o) \ refunded), auto)
  /\ UNCHANGED <<register, recent, edit, doc, fix, fixed, desk>>

-----------------------------------------------------------------------------
(* An order edit that rewrites the payments: four writes of one operation, *)
(* planned while the order is active and not asked again                   *)

PlanEdit(o) ==
  /\ order[o] = "active" /\ edit[o] = "none" /\ NoFix(o) /\ Room
  /\ OfOrder(o) # {} /\ Plain(o)
  /\ edit' = [edit EXCEPT ![o] = "planned"]
  /\ UNCHANGED <<register, entries, recent, order, doc, fix, fixed, refunded, desk, drawer, agreed>>

RetirePayments(o) ==
  LET old == {d \in OfOrder(o) : d \in Payments}
  IN  /\ edit[o] = "planned" /\ NoFix(o) /\ NoClerk
      /\ CorrectionsLast => \A d \in old : fixed[d] = 0
      /\ entries' = Reverse(entries, old)
      /\ doc' = Gone(old)
      /\ edit' = [edit EXCEPT ![o] = "retired"]
      /\ agreed' = FALSE
      /\ UNCHANGED <<register, recent, order, fix, fixed, refunded, desk, drawer>>

\* The planned status is written whatever has become of the order.
UpdateOrder(o) ==
  /\ edit[o] = "retired"
  /\ order' = [order EXCEPT ![o] = "active"]
  /\ edit' = [edit EXCEPT ![o] = "updated"]
  /\ UNCHANGED <<register, entries, recent, doc, fix, fixed, refunded, desk, drawer, agreed>>

WritePayment(o, d, kind) ==
  /\ edit[o] = "updated" /\ d \in Payments /\ kind # "extra"
  /\ NewRow(d, o, kind, FALSE)
  /\ edit' = [edit EXCEPT ![o] = "none"]
  /\ UNCHANGED <<register, recent, order, fix, fixed, refunded, desk>>

-----------------------------------------------------------------------------
(* A correction of a payment, or of the money of an exchange: the plan     *)
(* holds what the register is to be told, the batch writes row and entry   *)

\* The editor corrects any payment, of an exchange's only the method; the other
\* corrects the money of an exchange, whose own copy of the method must be the row's.
Correctable(d, route, amount) ==
  \/ route = "editor" /\ d \in Payments /\ (doc[d].kind = "extra" => amount = doc[d].amount)
  \/ route = "exchange" /\ (d \in Returns \/ doc[d].kind = "extra") /\ doc[d].copy = doc[d].cash

PlanCorrection(d, route, amount, cash) ==
  /\ Room /\ Standing(d) /\ fix[d] = Nothing /\ fixed[d] < MaxFixes
  /\ order[doc[d].order] = "active" /\ edit[doc[d].order] = "none" /\ NoFix(doc[d].order)
  /\ Cardinality({d} \cup {e \in Docs : fixed[e] > 0}) <= MaxCorrected
  /\ Correctable(d, route, amount)
  /\ <<amount, cash>> # <<doc[d].amount, doc[d].cash>>
  /\ RoutesApart /\ Tracked(d) => TrackedBy(route, d)
  /\ LET old == IF TrackedBy(route, d) THEN Worth(d, doc[d].amount, doc[d].cash) ELSE 0
         new == IF TrackedBy(route, d) \/ Eligible(d, doc[d].kind, doc[d].order)
                THEN Worth(d, amount, cash) ELSE 0
     IN  fix' = [fix EXCEPT ![d] = [at |-> "planned", route |-> route, amount |-> amount,
                                    cash |-> cash, change |-> new - old]]
  /\ UNCHANGED <<register, entries, recent, order, edit, doc, fixed, refunded, desk, drawer, agreed>>

ApplyCorrection(d) ==
  LET plan == fix[d]
      paid == Worth(d, plan.amount, plan.cash) - Worth(d, doc[d].amount, doc[d].cash)
  IN  /\ plan.at = "planned" /\ NoClerk
      /\ doc' = IF Standing(d)
                THEN [doc EXCEPT ![d].amount = plan.amount, ![d].cash = plan.cash,
                                 ![d].copy = IF plan.route = "exchange" THEN plan.cash ELSE @]
                ELSE doc
      /\ entries' = IF plan.change = 0 THEN entries
                    ELSE Insert(entries, <<"correction", plan.route, d, fixed[d] + 1>>, plan.change)
      /\ fixed' = [fixed EXCEPT ![d] = @ + 1]
      /\ fix' = [fix EXCEPT ![d] = Nothing]
      /\ drawer' = drawer + paid /\ drawer' \in -MaxDrawer .. MaxDrawer
      /\ agreed' = (agreed /\ plan.change = paid)
      /\ UNCHANGED <<register, recent, order, edit, refunded, desk>>

-----------------------------------------------------------------------------
Init ==
  /\ ready = FALSE /\ auto = FALSE /\ activated = FALSE /\ cycle = 0
  /\ entries = {}
  /\ recent = {} /\ refunded = {}
  /\ order = [o \in Orders |-> "none"] /\ edit = [o \in Orders |-> "none"]
  /\ doc = [d \in Docs |-> Nothing]
  /\ fix = [d \in Docs |-> Nothing] /\ fixed = [d \in Docs |-> 0]
  /\ clerk = [h \in Clerks |-> Free] /\ asked = [r \in Requests |-> Nothing]
  /\ drawer = 0 /\ agreed = FALSE

OrderStep(o) ==
  \/ CreateOrder(o) \/ DeleteOrder(o)
  \/ PlanEdit(o) \/ RetirePayments(o) \/ UpdateOrder(o)
  \/ \E d \in Docs : AddReturn(d, o)
  \/ \E d \in Docs, kind \in Kinds : AddPayment(d, o, kind) \/ WritePayment(o, d, kind)

DocStep(d) ==
  \/ CancelDoc(d) \/ ApplyCorrection(d)
  \/ \E route \in Routes, amount \in CorrectAmounts, cash \in BOOLEAN :
       PlanCorrection(d, route, amount, cash)

ClerkStep(h) ==
  \/ Write(h) \/ WriteUndo(h) \/ Crash(h)
  \/ \E r \in Requests : Ask(h, r) \/ AskUndo(h, r)

Next ==
  \/ Setup \/ SetAutoTracking \/ ResetCycle
  \/ \E o \in Orders : OrderStep(o)
  \/ \E d \in Docs : DocStep(d)
  \/ \E h \in Clerks : ClerkStep(h)

Spec == Init /\ [][Next]_vars

-----------------------------------------------------------------------------
(* Type invariant: every variable keeps its range, and no two entries of   *)
(* the register share a source key (cash_register_entries).                *)
CashTypeOK ==
  /\ {ready, auto, activated, agreed} \subseteq BOOLEAN
  /\ cycle \in 0 .. MaxCycles
  /\ recent \subseteq Orders /\ refunded \subseteq Payments
  /\ \A e, f \in entries : e.key = f.key => e = f
  /\ \A e \in entries : e.amount \in Int /\ e.cycle \in 0 .. cycle
  /\ order \in [Orders -> {"none", "active", "deleted"}]
  /\ edit \in [Orders -> {"none", "planned", "retired", "updated"}]
  /\ \A d \in Docs : doc[d].at \in {"none", "stands", "gone"} /\ fixed[d] \in 0 .. MaxFixes
  /\ auto => ready /\ activated

About(d) ==
  {Base(d), Undo(d), <<"order-cancel", d>>}
    \cup {<<"correction", route, d, n>> : route \in Routes, n \in 1 .. MaxFixes}

Net(d) == MapThenSumSet(LAMBDA e : e.amount, {e \in entries : e.key \in About(d)})

(* What the register holds for a document it tracks is what the row says   *)
(* now: its cash amount while it stands, nothing once it is cancelled,     *)
(* rewritten or refunded with its order, whichever of these comes first    *)
(* and however often tracking is paused or the ledger reset in between.    *)
(* A payment from before tracking is taken out once, with its order.       *)
RegisterFollowsDocuments ==
  \A d \in Docs :
    Net(d) = IF ~Tracked(d) THEN IF d \in refunded THEN -doc[d].amount ELSE 0
             ELSE IF doc[d].at = "gone" \/ d \in refunded THEN 0
             ELSE Worth(d, doc[d].amount, doc[d].cash)

(* Once the drawer has been counted, the balance stays the drawer's        *)
(* through manual entries and their undoing, payments, refunds, order      *)
(* deletions, cancelled exchanges, corrections and requests sent twice,    *)
(* until cash moves while the register is not told                         *)
(* (reconcileCashRegister, addManualCashRegisterMovement, the triggers).   *)
BalanceIsTheDrawer == agreed => Balance(entries) = drawer
=============================================================================
