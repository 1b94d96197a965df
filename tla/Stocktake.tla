------------------------------ MODULE Stocktake ------------------------------
(***************************************************************************)
(* Counting the shelves while the shop works: a stocktake session of a     *)
(* place counts its rows one by one and applies the counts at the end;     *)
(* meanwhile goods arrive, are written off, corrected, counted on the      *)
(* spot, moved to the other place, and operations are taken back.          *)
(*                                                                         *)
(* The books (stock, with the inventory_movements that explain it) are     *)
(* what the program keeps; truth is what really stands on the shelf, which *)
(* the person who counts sees and the program does not.  A handler reads   *)
(* in several statements and writes in one D1 batch, a transaction.        *)
(***************************************************************************)
EXTENDS Integers, FiniteSets

CONSTANTS Places,            \* inventory sources: the warehouse and the boutique
          Variants,          \* catalogue variants
          InStock,           \* booked units of each shelf at the start
          OnShelf,           \* units that really stand there
          Requests,          \* request ids of inventory operations
          Handlers,          \* requests that may be served at the same time
          CorrectionsApart,  \* books are not corrected while their shelf is counted
          CountsAtOnce,      \* a count reaches the program before the shelf changes
          ReversesApart,     \* a movement is taken back by one request at a time
          MaxSessions,       \* bound: sessions in a behaviour
          MaxOps,            \* bound: requests in a behaviour
          MaxMove,           \* bound: units an operation moves
          MaxUnits           \* bound: units of a shelf

Shelves == Places \X Variants
Sessions == 1 .. MaxSessions
Blank == -1                  \* counted_quantity or conflict_quantity IS NULL

ASSUME StocktakeAssumption ==
  /\ IsFiniteSet(Shelves) /\ IsFiniteSet(Requests)
  /\ InStock \in [Shelves -> Nat] /\ OnShelf \in [Shelves -> Nat]
  /\ {CorrectionsApart, CountsAtOnce, ReversesApart} \subseteq BOOLEAN
  /\ {MaxSessions, MaxOps, MaxMove, MaxUnits} \subseteq Nat

VARIABLES
  stock,     \* inventory_stock.quantity
  ledger,    \* what the inventory_movements of a shelf add up to
  truth,     \* what is on the shelf
  session,   \* inventory_stocktake_sessions
  row,       \* inventory_stocktake_items of a session, by variant
  ops,       \* inventory_operations and transfer documents by request id: what
             \* they booked and moved, and what taking them back booked
  proc,      \* what each handler is doing and has read
  spent      \* requests begun

database == <<stock, ledger, truth, session, row, ops>>
vars == <<database, proc, spent>>

Idle == [op |-> "idle"]
NoRow == [status |-> "none", baseline |-> 0, count |-> Blank, conflict |-> Blank]
NoOp == [kind |-> "none", at |-> {}, effect |-> [s \in Shelves |-> 0],
         moved |-> [s \in Shelves |-> 0], back |-> [s \in Shelves |-> 0], undone |-> FALSE]

Nothing == [s \in Shelves |-> 0]
Plus(f, g) == [s \in Shelves |-> f[s] + g[s]]
Minus(f, g) == [s \in Shelves |-> f[s] - g[s]]
ShelvesAt(places) == {s \in Shelves : s[1] \in places}
Least(m, n) == IF m < n THEN m ELSE n

Running(p) == {i \in Sessions : session[i].status = "active" /\ session[i].place = p}
Counted(i) == {v \in Variants : row[i][v].count # Blank}
ShelfIn(i, v) == <<session[i].place, v>>
Changed(i) == {v \in Counted(i) : stock[ShelfIn(i, v)] # row[i][v].baseline}
ToRecount(i) == {v \in Variants : row[i][v].status = "recount_required"}

\* A full session lists every booked shelf of the place; a selective one the
\* shelves of the products chosen, and is refused when none is booked.
Booked(p) == {v \in Variants : stock[<<p, v>>] # 0}
Listing(p, V) == [v \in Variants |->
  IF v \in V \cap Booked(p) THEN [NoRow EXCEPT !.status = "pending", !.baseline = stock[<<p, v>>]] ELSE NoRow]

\* Nothing is counted, or a full stocktake of a place has just begun.
Init ==
  /\ stock = InStock /\ ledger = InStock /\ truth = OnShelf
  /\ \E begun \in SUBSET {1}, p \in Places :
       /\ begun = {} => p = CHOOSE q \in Places : TRUE
       /\ session = [i \in Sessions |-> [place |-> p, status |-> IF i \in begun THEN "active" ELSE "none"]]
       /\ row = [i \in Sessions |-> Listing(p, IF i \in begun THEN Variants ELSE {})]
  /\ ops = [r \in Requests |-> NoOp]
  /\ proc = [h \in Handlers |-> Idle]
  /\ spent = 0

-----------------------------------------------------------------------------
(* Handlers *)

Begin(h, rec) ==
  /\ proc[h] = Idle
  /\ spent < MaxOps
  /\ proc' = [proc EXCEPT ![h] = rec]
  /\ spent' = spent + 1
  /\ UNCHANGED database

At(h, op, pc) == proc[h].op = op /\ proc[h].pc = pc
Goes(h, rec) == proc' = [proc EXCEPT ![h] = rec] /\ UNCHANGED <<database, spent>>
Step(h, pc) == Goes(h, [proc[h] EXCEPT !.pc = pc])
Ends(h) == proc' = [proc EXCEPT ![h] = Idle] /\ UNCHANGED spent
GivesUp(h) == Goes(h, Idle)

\* Requests being served by the others.
Busy(h, op) == {k \in Handlers \ {h} : proc[k].op \in op}

\* The places where an operation corrects the books: it sets them to what was
\* counted, or books something other than the units it moves.
Corrects(kind, at, effect, moved) ==
  {s[1] : s \in {t \in at : kind \in {"set", "count"} \/ effect[t] # moved[t]}}
NoCorrection(h, places) ==
  CorrectionsApart => \A k \in Busy(h, {"apply", "undo"}) : proc[k].corrects \cap places = {}
MayCorrect(h, places) ==
  CorrectionsApart => NoCorrection(h, places) /\ \A p \in places : Running(p) = {}

-----------------------------------------------------------------------------
(* Operations that book stock: manual movements, on-the-spot counts and      *)
(* transfers read the stock, and their batch compares it with what was read. *)

Out(s, n) == [t \in Shelves |-> IF t = s THEN -n ELSE 0]
In(s, n) == [t \in Shelves |-> IF t = s THEN n ELSE 0]

\* quiet are the places where a running stocktake stops the operation.
BeginOperation(h, r, kind, at, effect, moved, quiet) ==
  /\ ops[r].kind = "none"
  /\ \A p \in quiet : Running(p) = {}
  /\ \A s \in at : stock[s] + effect[s] <= MaxUnits /\ truth[s] + moved[s] \in 0 .. MaxUnits
  /\ MayCorrect(h, Corrects(kind, at, effect, moved))
  /\ Begin(h, [op |-> "apply", pc |-> "commit", req |-> r, kind |-> kind, at |-> at, effect |-> effect,
               moved |-> moved, quiet |-> quiet, corrects |-> Corrects(kind, at, effect, moved),
               read |-> [s \in at |-> stock[s]]])

\* Units that arrive, or come back, on a shelf.
BeginArrival(h, r, s, n) == BeginOperation(h, r, "manual", {s}, In(s, n), In(s, n), {})

\* Units the books do not explain leave too, once the clerk confirms to hold
\* them: only the booked ones are deducted.
Explained(s, n) == Least(stock[s], n)
BeginWriteoff(h, r, s, n) == BeginOperation(h, r, "manual", {s}, Out(s, Explained(s, n)), Out(s, n), {})

\* A correction or a count on the spot: the books are set to what is there.
BeginSet(h, r, s) == BeginOperation(h, r, "set", {s}, In(s, truth[s] - stock[s]), Nothing, {})
BeginQuickCount(h, r, s) == BeginOperation(h, r, "count", {s}, In(s, truth[s] - stock[s]), Nothing, {s[1]})

BeginTransfer(h, r, from, to, n) ==
  /\ from[2] = to[2] /\ from # to
  /\ BeginOperation(h, r, "transfer", {from, to}, Plus(Out(from, Explained(from, n)), In(to, n)),
                    Plus(Out(from, n), In(to, n)), {from[1], to[1]})

\* What the guard of a batch asks again.
\* Mutant of SameStock: the batch trusts the quantities read before.
AnyStock(read) == TRUE
SameStock(read) == \A s \in DOMAIN read : stock[s] = read[s]
\* Mutant of StillQuiet: only the check before the batch looks for a stocktake.
CheckedBefore(places) == TRUE
StillQuiet(places) == \A p \in places : Running(p) = {}
\* The units of two requests are not the same ones.
Possible(moved) == \A s \in Shelves : truth[s] + moved[s] >= 0

CommitOperation(h) ==
  /\ At(h, "apply", "commit")
  /\ LET p == proc[h]
     IN IF ops[p.req].kind = "none" /\ SameStock(p.read) /\ StillQuiet(p.quiet) /\ Possible(p.moved)
        THEN /\ stock' = [s \in Shelves |-> IF s \in p.at THEN p.read[s] + p.effect[s] ELSE stock[s]]
             /\ ledger' = Plus(ledger, p.effect)
             /\ truth' = Plus(truth, p.moved)
             /\ ops' = [ops EXCEPT ![p.req] = [NoOp EXCEPT !.kind = p.kind, !.at = p.at,
                                                           !.effect = p.effect, !.moved = p.moved]]
             /\ Ends(h)
             /\ UNCHANGED <<session, row>>
        ELSE GivesUp(h)

-----------------------------------------------------------------------------
(* Taking an operation back *)

Reversible == {"manual", "set", "transfer"}
CorrectedBy(r) == Corrects(ops[r].kind, ops[r].at, ops[r].effect, ops[r].moved)
UndoApart(h, r) == ReversesApart /\ ops[r].kind # "transfer" => \A k \in Busy(h, {"undo"}) : proc[k].req # r

\* The route of a movement; a transfer is taken back as a document.
BeginUndo(h, r) ==
  /\ ops[r].kind \in Reversible /\ ~ops[r].undone
  /\ ops[r].kind = "transfer" => \A s \in ops[r].at : Running(s[1]) = {}
  /\ UndoApart(h, r)
  /\ MayCorrect(h, CorrectedBy(r))
  /\ Begin(h, [op |-> "undo", pc |-> "read", req |-> r, read |-> Nothing, corrects |-> CorrectedBy(r)])

\* An operation is not taken back below zero.
ReadUndo(h) ==
  /\ At(h, "undo", "read")
  /\ LET r == proc[h].req
     IN IF \A s \in ops[r].at : stock[s] - ops[r].effect[s] >= 0
        THEN Goes(h, [proc[h] EXCEPT !.pc = "commit", !.read = [s \in ops[r].at |-> stock[s]]])
        ELSE GivesUp(h)

\* Mutant of StillApplied: a transfer is taken back whatever its status is by now.
WasApplied(r) == TRUE
\* Only the batch of a transfer asks again whether it was taken back already.
StillApplied(r) == ops[r].kind = "transfer" => ~ops[r].undone
QuietFor(r) == IF ops[r].kind = "transfer" THEN {s[1] : s \in ops[r].at} ELSE {}

CommitUndo(h) ==
  /\ At(h, "undo", "commit")
  /\ LET r == proc[h].req
         read == proc[h].read
     IN IF SameStock(read) /\ StillQuiet(QuietFor(r)) /\ StillApplied(r) /\ Possible(Minus(Nothing, ops[r].moved))
        THEN /\ stock' = [s \in Shelves |-> IF s \in ops[r].at THEN read[s] - ops[r].effect[s] ELSE stock[s]]
             /\ ledger' = Minus(ledger, ops[r].effect)
             /\ truth' = Minus(truth, IF ops[r].undone THEN Nothing ELSE ops[r].moved)
             /\ ops' = [ops EXCEPT ![r].undone = TRUE, ![r].back = Plus(@, Minus(stock', stock))]
             /\ Ends(h)
             /\ UNCHANGED <<session, row>>
        ELSE GivesUp(h)

-----------------------------------------------------------------------------
(* A stocktake session *)

BeginStart(h, p, V) ==
  /\ Running(p) = {}
  /\ V = Variants \/ V \cap Booked(p) # {}
  /\ NoCorrection(h, {p})
  /\ Begin(h, [op |-> "start", pc |-> "commit", place |-> p, scope |-> V])

\* One active session per place is an index: the insert of a second one fails.
\* Mutant of Taken: there is no such index.
NoIndex(p) == FALSE
Taken(p) == Running(p) # {}

CommitStart(h) ==
  /\ At(h, "start", "commit")
  /\ LET p == proc[h].place
         new == {i \in Sessions : session[i].status = "none"}
     IN IF Taken(p) \/ new = {} \/ (CorrectionsApart /\ ~NoCorrection(h, {p})) THEN GivesUp(h) ELSE
        \E i \in new :
           /\ \A k \in new : i <= k
           /\ session' = [session EXCEPT ![i] = [status |-> "active", place |-> p]]
           /\ row' = [row EXCEPT ![i] = Listing(p, proc[h].scope)]
           /\ Ends(h)
           /\ UNCHANGED <<stock, ledger, truth, ops>>

\* A variant found on the shelf is added with the quantity read before.
BeginAdd(h, i, v) ==
  /\ session[i].status = "active" /\ row[i][v].status = "none"
  /\ Begin(h, [op |-> "add", pc |-> "commit", session |-> i, variant |-> v, read |-> stock[ShelfIn(i, v)]])

CommitAdd(h) ==
  /\ At(h, "add", "commit")
  /\ LET i == proc[h].session
         v == proc[h].variant
     IN IF row[i][v].status # "none" THEN GivesUp(h) ELSE
        /\ row' = [row EXCEPT ![i][v] = [NoRow EXCEPT !.status = "pending", !.baseline = proc[h].read]]
        /\ Ends(h)
        /\ UNCHANGED <<stock, ledger, truth, session, ops>>

\* The employee counts the shelf, or clears a count, and then sends it.
BeginSave(h, i, v, c) ==
  /\ session[i].status = "active" /\ row[i][v].status # "none"
  /\ Begin(h, [op |-> "save", pc |-> "read", session |-> i, variant |-> v, count |-> c, now |-> 0, write |-> "-"])

\* A count is taken against the quantity it was made at: when the books have
\* moved since, the row is flagged, and the next count is taken only against
\* the quantity it was flagged with.
Saved(it, now, c) ==
  now = it.baseline /\ it.count = c /\ it.status = (IF c = Blank THEN "pending" ELSE "counted")
MovedSince(it, now) == IF it.status = "recount_required" THEN now # it.conflict ELSE now # it.baseline

ReadSave(h) ==
  /\ At(h, "save", "read")
  /\ LET i == proc[h].session
         it == row[i][proc[h].variant]
         s == ShelfIn(i, proc[h].variant)
         now == stock[s]
         c == IF CountsAtOnce /\ proc[h].count # Blank THEN truth[s] ELSE proc[h].count
     IN IF session[i].status # "active" \/ Saved(it, now, c) THEN GivesUp(h)
        ELSE Goes(h, [proc[h] EXCEPT !.pc = "commit", !.now = now, !.count = c,
               !.write = IF c = Blank THEN "clear" ELSE IF MovedSince(it, now) THEN "flag" ELSE "count"])

\* The batch does not ask whether the session is still active.
CommitSave(h) ==
  /\ At(h, "save", "commit")
  /\ LET p == proc[h]
     IN row' = [row EXCEPT ![p.session][p.variant] =
          CASE p.write = "clear" -> [status |-> "pending", baseline |-> p.now, count |-> Blank, conflict |-> Blank]
            [] p.write = "flag"  -> [@ EXCEPT !.status = "recount_required", !.conflict = p.now]
            [] p.write = "count" -> [status |-> "counted", baseline |-> p.now, count |-> p.count, conflict |-> Blank]]
  /\ Ends(h)
  /\ UNCHANGED <<stock, ledger, truth, session, ops>>

BeginComplete(h, i) ==
  /\ session[i].status = "active"
  /\ Begin(h, [op |-> "complete", pc |-> "read", session |-> i])

ReadComplete(h) ==
  /\ At(h, "complete", "read")
  /\ LET i == proc[h].session
     IN IF ToRecount(i) # {} \/ Counted(i) = {} THEN GivesUp(h)
        ELSE Step(h, IF Changed(i) # {} THEN "mark" ELSE "commit")

\* The lock of the batch: the session is active and every row counted still
\* stands at the quantity it was counted at.
\* Mutant of Consistent: the batch relies on the check made before it.
Unlocked(i) == session[i].status = "active"
Consistent(i) == session[i].status = "active" /\ ToRecount(i) = {} /\ Changed(i) = {}

\* A row left blank keeps the books as they are.

CommitComplete(h) ==
  /\ At(h, "complete", "commit")
  /\ LET i == proc[h].session
         p == session[i].place
         final == [v \in Variants |-> IF row[i][v].count = Blank THEN stock[<<p, v>>] ELSE row[i][v].count]
         delta == [s \in Shelves |-> IF s[1] = p THEN final[s[2]] - stock[s] ELSE 0]
     IN IF Consistent(i)
        THEN /\ stock' = [s \in Shelves |-> IF s[1] = p THEN final[s[2]] ELSE stock[s]]
             /\ ledger' = Plus(ledger, delta)
             /\ row' = [row EXCEPT ![i] = [v \in Variants |->
                  IF row[i][v].status = "none" THEN NoRow
                  ELSE [status |-> "applied", count |-> final[v], conflict |-> Blank,
                        baseline |-> IF v \in Counted(i) THEN row[i][v].baseline ELSE stock[<<p, v>>]]]]
             /\ session' = [session EXCEPT ![i].status = "completed"]
             /\ Ends(h)
             /\ UNCHANGED <<truth, ops>>
        ELSE IF session[i].status = "completed" THEN GivesUp(h) ELSE Step(h, "mark")

\* Every counted row the books have moved under is to be counted again.
MarkConflicts(h) ==
  /\ At(h, "complete", "mark")
  /\ LET i == proc[h].session
     IN row' = [row EXCEPT ![i] = [v \in Variants |->
          IF v \in Changed(i)
          THEN [row[i][v] EXCEPT !.status = "recount_required", !.conflict = stock[ShelfIn(i, v)]]
          ELSE row[i][v]]]
  /\ Ends(h)
  /\ UNCHANGED <<stock, ledger, truth, session, ops>>

BeginCancel(h, i) ==
  /\ session[i].status = "active"
  /\ Begin(h, [op |-> "cancel", pc |-> "commit", session |-> i])

\* The status is not asked for again: a session completed since it was read becomes
\* a cancelled one whose counts stay applied.
CommitCancel(h) ==
  /\ At(h, "cancel", "commit")
  /\ session' = [session EXCEPT ![proc[h].session].status = "cancelled"]
  /\ Ends(h)
  /\ UNCHANGED <<stock, ledger, truth, row, ops>>

-----------------------------------------------------------------------------
Books(h) ==
  \E r \in Requests :
    \/ \E s \in Shelves :
         \/ \E n \in 1 .. MaxMove : BeginArrival(h, r, s, n) \/ BeginWriteoff(h, r, s, n)
         \/ BeginSet(h, r, s) \/ BeginQuickCount(h, r, s)
         \/ \E t \in Shelves, n \in 1 .. MaxMove : BeginTransfer(h, r, s, t, n)
    \/ BeginUndo(h, r)

Counts(h) ==
  \/ \E p \in Places, V \in SUBSET Variants : BeginStart(h, p, V)
  \/ \E i \in Sessions :
       \/ BeginComplete(h, i) \/ BeginCancel(h, i)
       \/ \E v \in Variants : \/ BeginAdd(h, i, v)
                              \/ \E c \in {Blank, truth[ShelfIn(i, v)]} : BeginSave(h, i, v, c)

Next ==
  \E h \in Handlers :
    \/ Books(h) \/ CommitOperation(h) \/ ReadUndo(h) \/ CommitUndo(h)
    \/ Counts(h) \/ CommitStart(h) \/ CommitAdd(h) \/ ReadSave(h) \/ CommitSave(h)
    \/ ReadComplete(h) \/ CommitComplete(h) \/ MarkConflicts(h) \/ CommitCancel(h)

Spec == Init /\ [][Next]_vars

-----------------------------------------------------------------------------
(* Properties *)

\* The type of the state; a place has one running session at most
\* (src/migrations/0049: uq_inventory_stocktake_active_source), a row that was
\* counted or applied has a count, and a flagged one the quantity it waits for.
StocktakeTypeOK ==
  /\ stock \in [Shelves -> Nat] /\ ledger \in [Shelves -> Int] /\ truth \in [Shelves -> Nat]
  /\ \A p \in Places : Cardinality(Running(p)) <= 1
  /\ \A i \in Sessions, v \in Variants :
       /\ row[i][v].status \in {"none", "pending", "counted", "recount_required", "applied"}
       /\ row[i][v].status \in {"counted", "applied"} => row[i][v].count \in Nat
       /\ row[i][v].status = "recount_required" => row[i][v].conflict \in Nat

\* The stock of a shelf is what its movements add up to, whichever of the
\* batches of operations, reversals and completions interleave: an absolute
\* quantity computed from an earlier read never overwrites another change.
BooksAddUp == stock = ledger

\* A count that is applied leaves the books at what stands on the shelf: a
\* movement made after the shelf was counted is neither lost nor booked twice
\* (the baseline of a row and the lock of the completing batch).
NewlyDone(i) == session[i].status = "active" /\ session'[i].status # "active"
NewlyBooked(r) == ops[r].kind = "none" /\ ops'[r].kind # "none"
CountsAreTrue ==
  [][/\ \A i \in Sessions :
          NewlyDone(i) /\ session'[i].status = "completed" =>
            \A v \in Counted(i) : stock'[ShelfIn(i, v)] = truth'[ShelfIn(i, v)]
     /\ \A r \in Requests :
          NewlyBooked(r) /\ ops'[r].kind \in {"set", "count"} =>
            \A s \in ops'[r].at : stock'[s] = truth'[s]]_vars

\* A transfer, the reversal of one and a count on the spot do not touch a
\* place while its stocktake runs (the guards of their batches).
TransfersStayOut ==
  [][\A r \in Requests :
       ops'[r].kind \in {"transfer", "count"} /\ ops'[r] # ops[r] =>
         \A s \in ops'[r].at : Running(s[1]) = {}]_vars

\* An operation that was taken back is taken back once and exactly: what its
\* reversal booked on every shelf is the opposite of what it had booked, also
\* for a transfer that moved more units than the books could explain.
UndoneExactly ==
  \A r \in Requests : ops[r].back = (IF ops[r].undone THEN Minus(Nothing, ops[r].effect) ELSE Nothing)
=============================================================================
