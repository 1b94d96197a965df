--------------------------- MODULE AdminDeleteSaga ---------------------------
(***************************************************************************)
(* Voiding an erroneous order together with its returns, as an             *)
(* administrator may ask for (src/worker/domains/admin-delete-*.ts).  The  *)
(* saga journal admin_order_delete_sagas keeps a plan, a cursor and a      *)
(* lease.  Each call of an administrator cancels one return of the plan    *)
(* with the ordinary handler cancelReturn, verifies it and moves the       *)
(* cursor; the call after the last step deletes the order.  Meanwhile      *)
(* employees may cancel the same returns by hand or take in new ones, and  *)
(* the warehouse may book the returned goods in.                           *)
(*                                                                         *)
(* Cancelling and deleting run on the journal of CriticalOperation, of     *)
(* which this module keeps the status, step, target and lease of a row;    *)
(* its begin is one action here, since all handlers of one request id send *)
(* the same body.  A lease remembers the call that took it: a call that    *)
(* dies leaves it to a Ghost.  Exchanges in a plan are not modelled.       *)
(***************************************************************************)
EXTENDS Integers, FiniteSets, Sequences

CONSTANTS
    Admins,     \* calls of administrators that may overlap
    Clerks,     \* calls of employees who cancel a return by hand
    Creators,   \* calls of employees who take in a return
    Returns,    \* ids of the returns of the order
    Existing,   \* those there are before the deletion begins
    Nobody,     \* a lease nobody holds
    Ghost,      \* a lease whose holder is gone
    Saga,       \* the owner of the request ids the saga derives from its own
    Intake,     \* whether the warehouse books returned goods in meanwhile
    SlowCalls,  \* whether a live call may outlive a lease it holds
    MaxFaults   \* bound on exceptions and crashes

ASSUME SagaAssumption ==
    /\ Returns \subseteq Nat \ {0}
    /\ IsFiniteSet(Returns)
    /\ Existing \subseteq Returns
    /\ Admins \cap (Clerks \cup Creators) = {} /\ Clerks \cap Creators = {}
    /\ Saga \notin Clerks
    /\ {Nobody, Ghost} \cap (Admins \cup Clerks) = {}
    /\ Intake \in BOOLEAN /\ SlowCalls \in BOOLEAN /\ MaxFaults \in Nat

VARIABLES
    saga,    \* the row of admin_order_delete_sagas
    steps,   \* admin_order_delete_saga_steps.status, by return
    ret,     \* returns.status
    event,   \* inventory_lifecycle_events.status of the return's goods
    booked,  \* units the movements of that event have added to the stock so far
    order,   \* orders.order_status
    journal, \* critical_operations, by request id
    pc,      \* where each call stands
    at,      \* what it remembers of what it has read
    faults

tables == <<saga, steps, ret, event, booked, order, journal>>
vars == <<tables, pc, at, faults>>

Calls == Admins \cup Clerks \cup Creators

\* requestId:return:id of the saga, the clerks' own ids, and requestId:final:order.
FinalKey == <<0, Saga>>
Keys == (Returns \X (Clerks \cup {Saga})) \cup {FinalKey}

Free == [holder |-> Nobody, live |-> FALSE]
Taken(p) == [holder |-> p, live |-> TRUE]
AbsentOperation == [status |-> "none", step |-> "started", target |-> FALSE, lease |-> Free]
Blank == [op |-> 0, next |-> 0, plan |-> <<>>, step |-> "started", event |-> "none",
          seen |-> <<>>]

Active == {i \in Returns : ret[i] = "active"}
Applied == {i \in Returns : event[i] = "applied"}

\* A stable order: the latest return first.
PlanOf(S) == CHOOSE s \in [1..Cardinality(S) -> S] :
                 \A j, k \in 1..Cardinality(S) : j < k => s[j] > s[k]

Init ==
    /\ saga = [status |-> "none", plan |-> <<>>, next |-> 0, lease |-> Free]
    /\ steps = [i \in Returns |-> "none"]
    /\ ret = [i \in Returns |-> IF i \in Existing THEN "active" ELSE "none"]
    /\ event \in {e \in [Returns -> {"none", "pending", "applied"}] :
                   \A i \in Returns \ Existing : e[i] = "none"}
    /\ booked = [i \in Returns |-> IF event[i] = "applied" THEN 1 ELSE 0]
    /\ order = "active"
    /\ journal = [k \in Keys |-> AbsentOperation]
    /\ pc = [p \in Calls |-> "idle"]
    /\ at = [p \in Calls |-> Blank]
    /\ faults = 0

-----------------------------------------------------------------------------
(***************************************************************************)
(* Moves of a call.                                                        *)
(***************************************************************************)

Goto(p, place) == pc' = [pc EXCEPT ![p] = place] /\ UNCHANGED at

Leave(p) == /\ pc' = [pc EXCEPT ![p] = "idle"]
            /\ at' = [at EXCEPT ![p] = Blank]

\* An exception in a call that holds no lease of the operation journal: the
\* saga's catch clause releases the saga's lease, a clerk sees the error.
Abort(p) == IF p \in Admins THEN Goto(p, "releasing") ELSE Leave(p)

\* The operation of the journal is done: the saga goes on to verify it.
Done(p) == IF p \in Admins THEN Goto(p, "verify") ELSE Leave(p)

\* The request id the call uses in the operation journal.
KeyOf(p) == IF at[p].op = 0 THEN FinalKey
            ELSE <<at[p].op, IF p \in Admins THEN Saga ELSE p>>

Mine(p) == journal[KeyOf(p)].status = "started" /\ journal[KeyOf(p)].lease.holder = p

-----------------------------------------------------------------------------
(***************************************************************************)
(* planAdminDeleteSaga.                                                    *)
(***************************************************************************)

\* The preview: an order with returns, none of them booked into the stock.
PlanRead(a) ==
    /\ pc[a] = "idle"
    /\ saga.status = "none"
    /\ order = "active"
    /\ Active # {}
    /\ Applied = {}
    /\ pc' = [pc EXCEPT ![a] = "plan"]
    /\ at' = [at EXCEPT ![a].plan = PlanOf(Active)]
    /\ UNCHANGED <<tables, faults>>

\* The saga and its steps in one batch; one active saga per order.  A call that
\* comes second goes on with the first one's plan if it brings the same key.
PlanWrite(a) ==
    /\ pc[a] = "plan"
    /\ \/ /\ saga.status = "none"
          /\ saga' = [saga EXCEPT !.status = "planned", !.plan = at[a].plan]
          /\ steps' = [i \in Returns |->
               IF \E j \in DOMAIN at[a].plan : at[a].plan[j] = i THEN "pending" ELSE "none"]
          /\ Goto(a, "opened")
       \/ /\ saga.status # "none"
          /\ Goto(a, "opened") \/ Leave(a)
          /\ UNCHANGED <<saga, steps>>
    /\ UNCHANGED <<ret, event, booked, order, journal, faults>>

-----------------------------------------------------------------------------
(***************************************************************************)
(* advanceAdminDeleteSagaOneStep and the real cancellation driver.         *)
(***************************************************************************)

\* Mutant of NextStep: the steps in the opposite order.
NextStepReversed == saga.plan[Len(saga.plan) - saga.next]

\* The step at the cursor.
NextStep == saga.plan[saga.next + 1]

\* Read the saga: the next step, or the final deletion when all are done.
Open(a) ==
    /\ pc[a] \in {"idle", "opened"}
    /\ \/ /\ saga.status \in {"planned", "running"}
          /\ pc' = [pc EXCEPT ![a] = "claim"]
          /\ at' = [at EXCEPT ![a] = [Blank EXCEPT !.next = saga.next,
                                                   !.op = NextStep]]
       \/ /\ saga.status = "ready_for_final_delete"
          /\ pc' = [pc EXCEPT ![a] = "final_claim"]
          /\ at' = [at EXCEPT ![a] = [Blank EXCEPT !.next = saga.next]]
       \/ /\ saga.status = "completed"
          /\ pc[a] = "opened"
          /\ Leave(a)
    /\ UNCHANGED <<tables, faults>>

\* The claim is bound to the cursor that was read.
Claim(a) ==
    /\ pc[a] = "claim"
    /\ \/ /\ ~saga.lease.live
          /\ saga.next = at[a].next
          /\ saga.status \in {"planned", "running"}
          /\ saga' = [saga EXCEPT !.status = "running", !.lease = Taken(a)]
          /\ Goto(a, "preflight")
       \/ /\ \/ saga.lease.live
             \/ saga.next # at[a].next
             \/ saga.status \notin {"planned", "running"}
          /\ Leave(a)
          /\ UNCHANGED saga
    /\ UNCHANGED <<steps, ret, event, booked, order, journal, faults>>

\* Mutant of MayStart: a step the saga has begun before is refused as well.
MayStartOnce(a) == ret[at[a].op] = "active" /\ order = "active" /\ Applied = {}

\* No step may start on an order that has goods booked in, or on a return that
\* somebody else has cancelled already.
MayStart(a) ==
    /\ ret[at[a].op] = "active" \/ journal[KeyOf(a)].status # "none"
    /\ order = "active"
    /\ Applied = {}

Preflight(a) ==
    /\ pc[a] = "preflight"
    /\ IF MayStart(a) THEN Goto(a, "intent") ELSE Abort(a)
    /\ UNCHANGED <<tables, faults>>

\* The intent is marked before the handler is called.
Intent(a) ==
    /\ pc[a] = "intent"
    /\ steps' = [steps EXCEPT ![at[a].op] =
                    IF @ \in {"pending", "started"} THEN "started" ELSE @]
    /\ Goto(a, "begin")
    /\ UNCHANGED <<saga, ret, event, booked, order, journal, faults>>

\* Mutant of Verified: the journal is not asked who cancelled the return.
VerifiedByStatus(a) == ret[at[a].op] = "cancelled" /\ Applied = {}

\* Mutant of Verified: the events of the stock are not read again.
VerifiedByJournal(a) ==
    /\ ret[at[a].op] = "cancelled"
    /\ journal[KeyOf(a)].status = "completed" /\ journal[KeyOf(a)].target
    /\ order = "active"

\* verifyReconciled: the return, the journal and the stock, read again.
Verified(a) ==
    /\ ret[at[a].op] = "cancelled"
    /\ journal[KeyOf(a)].status = "completed"
    /\ journal[KeyOf(a)].target
    /\ Applied = {}
    /\ order = "active"

Verify(a) ==
    /\ pc[a] = "verify"
    /\ IF Verified(a) THEN Goto(a, "checkpoint") ELSE Abort(a)
    /\ UNCHANGED <<tables, faults>>

\* The stale check that aborts the checkpoint's batch.
OwnsStep(a) == /\ saga.lease.holder = a
               /\ saga.next = at[a].next
               /\ saga.status = "running"
               /\ steps[at[a].op] = "started"

Checkpoint(a) ==
    /\ pc[a] = "checkpoint"
    /\ \/ /\ OwnsStep(a)
          /\ steps' = [steps EXCEPT ![at[a].op] = "completed"]
          /\ saga' = [saga EXCEPT
               !.next = at[a].next + 1,
               !.status = IF at[a].next + 1 = Len(saga.plan)
                            THEN "ready_for_final_delete" ELSE "running",
               !.lease = Free]
          /\ Leave(a)
       \/ /\ ~OwnsStep(a)
          /\ Abort(a)
          /\ UNCHANGED <<saga, steps>>
    /\ UNCHANGED <<ret, event, booked, order, journal, faults>>

\* The catch clause of the saga: release the lease if it is still this call's.
Release(a) ==
    /\ pc[a] = "releasing"
    /\ saga' = IF saga.lease.holder = a THEN [saga EXCEPT !.lease = Free] ELSE saga
    /\ Leave(a)
    /\ UNCHANGED <<steps, ret, event, booked, order, journal, faults>>

-----------------------------------------------------------------------------
(***************************************************************************)
(* The operation journal as its users see it.                              *)
(***************************************************************************)

\* begin: a finished operation answers, a live lease of another call refuses.
BeginOperation(p, place, finished) ==
    LET j == journal[KeyOf(p)] IN
    \/ /\ j.status = "completed"
       /\ finished
       /\ UNCHANGED journal
    \/ /\ j.status # "completed"
       /\ j.lease.live
       /\ Abort(p)
       /\ UNCHANGED journal
    \/ /\ j.status # "completed"
       /\ ~j.lease.live
       /\ journal' = [journal EXCEPT ![KeyOf(p)].status = "started",
                                     ![KeyOf(p)].lease = Taken(p)]
       /\ pc' = [pc EXCEPT ![p] = place]
       /\ at' = [at EXCEPT ![p].step = j.step]

\* advance: the cursor moves for the holder of the lease only.
AdvanceOperation(p, step, place) ==
    \/ /\ Mine(p)
       /\ journal' = [journal EXCEPT ![KeyOf(p)].step = step,
                                     ![KeyOf(p)].target = TRUE]
       /\ pc' = [pc EXCEPT ![p] = place]
       /\ at' = [at EXCEPT ![p].step = step]
    \/ /\ ~Mine(p)
       /\ Goto(p, "failing")
       /\ UNCHANGED journal

\* complete: a call that lost its lease succeeds if another has completed.
CompleteOperation(p, finished) ==
    \/ /\ Mine(p)
       /\ journal' = [journal EXCEPT ![KeyOf(p)].status = "completed",
                                     ![KeyOf(p)].lease = Free]
       /\ finished
    \/ /\ ~Mine(p)
       /\ journal[KeyOf(p)].status = "completed"
       /\ finished
       /\ UNCHANGED journal
    \/ /\ ~Mine(p)
       /\ journal[KeyOf(p)].status # "completed"
       /\ Goto(p, "failing")
       /\ UNCHANGED journal

\* fail: the handler's catch clause hands the lease back and throws on.
FailOperation(p) ==
    /\ pc[p] = "failing"
    /\ journal' = IF Mine(p) THEN [journal EXCEPT ![KeyOf(p)].lease = Free]
                             ELSE journal
    /\ Abort(p)
    /\ UNCHANGED <<saga, steps, ret, event, booked, order, faults>>

-----------------------------------------------------------------------------
(***************************************************************************)
(* cancelReturn.                                                           *)
(***************************************************************************)

\* An employee cancels a return by hand, with a request id of the form's own.
ClerkStart(p, i) ==
    /\ pc[p] = "idle"
    /\ ret[i] # "none"
    /\ pc' = [pc EXCEPT ![p] = "begin"]
    /\ at' = [at EXCEPT ![p].op = i]
    /\ UNCHANGED <<tables, faults>>

CancelBegin(p) ==
    /\ pc[p] = "begin"
    /\ BeginOperation(p, "read", Done(p))
    /\ UNCHANGED <<saga, steps, ret, event, booked, order, faults>>

\* A return that is cancelled already is reported so at once.
CancelRead(p) ==
    /\ pc[p] = "read"
    /\ Goto(p, IF at[p].step # "started" THEN "events"
               ELSE IF ret[at[p].op] = "cancelled" THEN "complete" ELSE "advance")
    /\ UNCHANGED <<tables, faults>>

CancelAdvance(p) ==
    /\ pc[p] = "advance"
    /\ AdvanceOperation(p, "validated", "events")
    /\ UNCHANGED <<saga, steps, ret, event, booked, order, faults>>

\* Mutant of EventRead: goods that have not arrived yet are nothing to undo.
EventReadApplied(p) ==
    /\ pc[p] = "events"
    /\ \/ /\ event[at[p].op] # "applied"
          /\ Goto(p, "mark")
       \/ /\ event[at[p].op] = "applied"
          /\ pc' = [pc EXCEPT ![p] = "event_write"]
          /\ at' = [at EXCEPT ![p].event = "applied"]
    /\ UNCHANGED <<tables, faults>>

\* cancelInventoryLifecycleEvent reads the event, if the return has one ...
EventRead(p) ==
    /\ pc[p] = "events"
    /\ \/ /\ event[at[p].op] \in {"none", "cancelled"}
          /\ Goto(p, "mark")
       \/ /\ event[at[p].op] \in {"pending", "applied"}
          /\ pc' = [pc EXCEPT ![p] = "event_write"]
          /\ at' = [at EXCEPT ![p].event = event[at[p].op]]
    /\ UNCHANGED <<tables, faults>>

\* Mutant of Undoable: the batch does not ask for the status again.
UndoableAsRead(p) == TRUE

\* ... and every statement of its batch asks for the status it has read.
Undoable(p) == event[at[p].op] = at[p].event

\* The goods leave the stock again, unless a later count or a running stocktake
\* is the physical truth; a pending event has not moved any.
EventWrite(p) ==
    /\ pc[p] = "event_write"
    /\ \/ /\ Undoable(p)
          /\ event' = [event EXCEPT ![at[p].op] = "cancelled"]
          /\ \/ /\ at[p].event = "applied"
                /\ booked' = [booked EXCEPT ![at[p].op] = @ - 1]
             \/ UNCHANGED booked
       \/ /\ ~Undoable(p)
          /\ UNCHANGED <<event, booked>>
    /\ Goto(p, "mark")
    /\ UNCHANGED <<saga, steps, ret, order, journal, faults>>

\* The return and the reversal of its refund, keyed by the return, in one batch.
Mark(p) ==
    /\ pc[p] = "mark"
    /\ ret' = [ret EXCEPT ![at[p].op] = "cancelled"]
    /\ Goto(p, "complete")
    /\ UNCHANGED <<saga, steps, event, booked, order, journal, faults>>

CancelComplete(p) ==
    /\ pc[p] = "complete"
    /\ CompleteOperation(p, Done(p))
    /\ UNCHANGED <<saga, steps, ret, event, booked, order, faults>>

-----------------------------------------------------------------------------
(***************************************************************************)
(* finalizeAdminDeleteSaga, deleteOrderSafely and updateOrderCritical.     *)
(***************************************************************************)

FinalClaim(a) ==
    /\ pc[a] = "final_claim"
    /\ \/ /\ ~saga.lease.live
          /\ saga.status = "ready_for_final_delete"
          /\ saga' = [saga EXCEPT !.lease = Taken(a)]
          /\ Goto(a, "facts")
       \/ /\ saga.lease.live \/ saga.status # "ready_for_final_delete"
          /\ Leave(a)
          /\ UNCHANGED saga
    /\ UNCHANGED <<steps, ret, event, booked, order, journal, faults>>

\* What finalFacts and the preview of deleteOrderSafely ask for.
NothingLeft == Active = {} /\ Applied = {}

\* An order that is deleted already is not deleted again.
FinalFacts(a) ==
    /\ pc[a] = "facts"
    /\ \/ order = "deleted" /\ Goto(a, "confirm")
       \/ /\ order = "active" /\ NothingLeft
          /\ pc' = [pc EXCEPT ![a] = "final_begin"]
          /\ at' = [at EXCEPT ![a].seen = <<ret, event>>]
       \/ order = "active" /\ ~NothingLeft /\ Abort(a)
    /\ UNCHANGED <<tables, faults>>

\* deleteOrderSafely asks again, for a fingerprint of what finalFacts has seen.
FinalBegin(a) ==
    /\ pc[a] = "final_begin"
    /\ \/ /\ order = "deleted"
          /\ Goto(a, "confirm")
          /\ UNCHANGED journal
       \/ /\ order = "active"
          /\ at[a].seen # <<ret, event>> \/ ~NothingLeft
          /\ Abort(a)
          /\ UNCHANGED journal
       \/ /\ order = "active" /\ at[a].seen = <<ret, event>> /\ NothingLeft
          /\ BeginOperation(a, "final_plan", Goto(a, "confirm"))
    /\ UNCHANGED <<saga, steps, ret, event, booked, order, faults>>

\* The returns are counted and the plan is frozen in the journal; a retry goes
\* on from the step it finds.
FinalPlan(a) ==
    /\ pc[a] = "final_plan"
    /\ \/ /\ at[a].step = "started"
          /\ Active = {}
          /\ AdvanceOperation(a, "validated", "final_delete")
       \/ /\ at[a].step = "started"
          /\ Active # {}
          /\ Goto(a, "failing")
          /\ UNCHANGED journal
       \/ /\ at[a].step = "validated"
          /\ Goto(a, "final_delete")
          /\ UNCHANGED journal
    /\ UNCHANGED <<saga, steps, ret, event, booked, order, faults>>

\* The order row is written on its own; the cursor follows.
FinalDelete(a) ==
    /\ pc[a] = "final_delete"
    /\ order' = "deleted"
    /\ Goto(a, "final_update")
    /\ UNCHANGED <<saga, steps, ret, event, booked, journal, faults>>

FinalUpdate(a) ==
    /\ pc[a] = "final_update"
    /\ AdvanceOperation(a, "updated", "final_complete")
    /\ UNCHANGED <<saga, steps, ret, event, booked, order, faults>>

FinalComplete(a) ==
    /\ pc[a] = "final_complete"
    /\ CompleteOperation(a, Goto(a, "confirm"))
    /\ UNCHANGED <<saga, steps, ret, event, booked, order, faults>>

\* Mutant of Confirmed: the journal is not asked.
ConfirmedByOrder == order = "deleted"

Confirmed == order = "deleted" /\ journal[FinalKey].status = "completed"

Confirm(a) ==
    /\ pc[a] = "confirm"
    /\ IF Confirmed THEN Goto(a, "final_checkpoint") ELSE Abort(a)
    /\ UNCHANGED <<tables, faults>>

FinalCheckpoint(a) ==
    /\ pc[a] = "final_checkpoint"
    /\ \/ /\ saga.lease.holder = a
          /\ saga.status = "ready_for_final_delete"
          /\ saga' = [saga EXCEPT !.status = "completed", !.lease = Free]
          /\ Leave(a)
       \/ /\ saga.lease.holder # a \/ saga.status # "ready_for_final_delete"
          /\ Abort(a)
          /\ UNCHANGED saga
    /\ UNCHANGED <<steps, ret, event, booked, order, journal, faults>>

-----------------------------------------------------------------------------
(***************************************************************************)
(* The environment.                                                        *)
(***************************************************************************)

\* createReturn: read the order, which must not be deleted, ...
ReturnRead(p, i) ==
    /\ pc[p] = "idle"
    /\ ret[i] = "none"
    /\ \A q \in Creators : at[q].op # i
    /\ order = "active"
    /\ pc' = [pc EXCEPT ![p] = "return_insert"]
    /\ at' = [at EXCEPT ![p].op = i]
    /\ UNCHANGED <<tables, faults>>

\* ... then insert the return.  Only a return that refunds money asks for the
\* order again; a refund for a deleted order aborts the batch.
ReturnInsert(p) ==
    /\ pc[p] = "return_insert"
    /\ \E refund \in BOOLEAN :
         \/ /\ refund => order = "active"
            /\ ret' = [ret EXCEPT ![at[p].op] = "active"]
            /\ Goto(p, "return_event")
         \/ /\ refund /\ order = "deleted"
            /\ Leave(p)
            /\ UNCHANGED ret
    /\ UNCHANGED <<saga, steps, event, booked, order, journal, faults>>

\* ... and, if the goods are to go back into the stock, the event that says so,
\* whatever has become of the return.  What the handler books in at once is one
\* of the ApplyEvent below.
ReturnEvent(p) ==
    /\ pc[p] = "return_event"
    /\ \/ event' = [event EXCEPT ![at[p].op] = "pending"]
       \/ UNCHANGED event
    /\ Leave(p)
    /\ UNCHANGED <<saga, steps, ret, booked, order, journal, faults>>

Bookable(i) == event[i] = "pending"

\* applyInventoryLifecycleEvent: the goods of a return arrive at the warehouse.
ApplyEvent(i) ==
    /\ Intake
    /\ Bookable(i)
    /\ event' = [event EXCEPT ![i] = "applied"]
    /\ booked' = [booked EXCEPT ![i] = @ + 1]
    /\ UNCHANGED <<saga, steps, ret, order, journal, pc, at, faults>>

InOperation == {"read", "advance", "events", "event_write", "mark", "complete",
                "final_plan", "final_delete", "final_update", "final_complete"}
Unclaimed == {"plan", "opened", "claim", "final_claim", "return_insert", "return_event"}

\* Leases of a call that no longer knows them.
Orphaned(lease, p) == IF lease.holder = p THEN [lease EXCEPT !.holder = Ghost] ELSE lease
OrphanSaga(p) == saga' = [saga EXCEPT !.lease = Orphaned(@, p)]
OrphanJournal(p) ==
    journal' = [k \in Keys |-> [journal[k] EXCEPT !.lease = Orphaned(@, p)]]

Fault == faults < MaxFaults /\ faults' = faults + 1

\* A D1 call throws; which catch clause runs depends on where.
Throw(p) ==
    /\ pc[p] # "idle"
    /\ Fault
    /\ \/ pc[p] \in Unclaimed /\ Leave(p) /\ UNCHANGED <<saga, journal>>
       \/ pc[p] \in InOperation /\ Goto(p, "failing") /\ UNCHANGED <<saga, journal>>
       \/ pc[p] = "failing" /\ Abort(p) /\ OrphanJournal(p) /\ UNCHANGED saga
       \/ pc[p] = "releasing" /\ Leave(p) /\ OrphanSaga(p) /\ UNCHANGED journal
       \/ /\ pc[p] \notin Unclaimed \cup InOperation \cup {"failing", "releasing"}
          /\ Abort(p)
          /\ UNCHANGED <<saga, journal>>
    /\ UNCHANGED <<steps, ret, event, booked, order>>

\* The isolate is evicted in the middle of a call.
Crash(p) ==
    /\ pc[p] # "idle"
    /\ Fault
    /\ Leave(p)
    /\ OrphanSaga(p)
    /\ OrphanJournal(p)
    /\ UNCHANGED <<steps, ret, event, booked, order>>

\* 45 seconds are over.  Unless SlowCalls, no live call takes that long.
RunsOut(lease) == lease.live /\ (SlowCalls \/ lease.holder = Ghost)

ExpireSaga ==
    /\ RunsOut(saga.lease)
    /\ saga' = [saga EXCEPT !.lease.live = FALSE]
    /\ UNCHANGED <<steps, ret, event, booked, order, journal, pc, at, faults>>

ExpireOperation(k) ==
    /\ RunsOut(journal[k].lease)
    /\ journal' = [journal EXCEPT ![k].lease.live = FALSE]
    /\ UNCHANGED <<saga, steps, ret, event, booked, order, pc, at, faults>>

Cancel(p) ==
    \/ CancelBegin(p) \/ CancelRead(p) \/ CancelAdvance(p)
    \/ EventRead(p) \/ EventWrite(p) \/ Mark(p) \/ CancelComplete(p)
    \/ FailOperation(p)

Administer(a) ==
    \/ PlanRead(a) \/ PlanWrite(a) \/ Open(a) \/ Claim(a) \/ Preflight(a)
    \/ Intent(a) \/ Verify(a) \/ Checkpoint(a) \/ Release(a)
    \/ FinalClaim(a) \/ FinalFacts(a) \/ FinalBegin(a) \/ FinalPlan(a)
    \/ FinalDelete(a) \/ FinalUpdate(a) \/ FinalComplete(a)
    \/ Confirm(a) \/ FinalCheckpoint(a)

Expire == ExpireSaga \/ \E k \in Keys : ExpireOperation(k)

Next ==
    \/ \E a \in Admins : Administer(a)
    \/ \E p \in Clerks, i \in Returns : ClerkStart(p, i)
    \/ \E p \in Creators, i \in Returns : ReturnRead(p, i)
    \/ \E p \in Creators : ReturnInsert(p) \/ ReturnEvent(p)
    \/ \E p \in Admins \cup Clerks : Cancel(p)
    \/ \E p \in Calls : Throw(p) \/ Crash(p)
    \/ \E i \in Returns : ApplyEvent(i)
    \/ Expire

Spec == Init /\ [][Next]_vars

(***************************************************************************)
(* Fairness: administrators go on with a deletion that is under way, calls *)
(* that are not evicted run on, and abandoned leases run out.              *)
(***************************************************************************)
FairSpec ==
    /\ Spec
    /\ \A a \in Admins : WF_vars(Administer(a) \/ Cancel(a))
    /\ WF_vars(Expire)

-----------------------------------------------------------------------------
(***************************************************************************)
(* Properties.                                                             *)
(***************************************************************************)

Places == {"idle", "begin", "preflight", "intent", "verify", "checkpoint", "releasing",
           "failing", "facts", "final_begin", "confirm", "final_checkpoint"}
          \cup InOperation \cup Unclaimed
ReturnStatus == {"none", "active", "cancelled"}
EventStatus == {"none", "pending", "applied", "cancelled"}
Leases == [holder : Calls \cup {Nobody, Ghost}, live : BOOLEAN]

\* The values the tables and the calls' memory range over.
SagaTypeOK ==
    /\ saga \in [status : {"none", "planned", "running", "ready_for_final_delete", "completed"},
                plan : Seq(Returns), next : Nat, lease : Leases]
    /\ saga.next <= Len(saga.plan)
    /\ steps \in [Returns -> {"none", "pending", "started", "completed"}]
    /\ ret \in [Returns -> ReturnStatus]
    /\ event \in [Returns -> EventStatus]
    /\ booked \in [Returns -> {0, 1}]
    /\ order \in {"active", "deleted"}
    /\ journal \in [Keys -> [status : {"none", "started", "completed"},
                            step : {"started", "validated", "updated"},
                            target : BOOLEAN, lease : Leases]]
    /\ pc \in [Calls -> Places]
    /\ at \in [Calls -> [op : Returns \cup {0}, next : Nat, plan : Seq(Returns),
                         step : {"started", "validated", "updated"},
                         event : {"none", "pending", "applied"},
                         seen : {<<>>} \cup ([Returns -> ReturnStatus] \X [Returns -> EventStatus])]]
    /\ faults \in 0..MaxFaults

\* However many calls cancel one return, by hand and by the saga, its goods are
\* booked out at most once, and never when they had not been booked in.
StockUndoneOnce ==
    \A i \in Returns :
        /\ event[i] = "pending" => booked[i] = 0
        /\ event[i] = "applied" => booked[i] = 1
        /\ booked[i] \in {0, 1}

\* The cursor stands exactly behind the completed steps, and what it has passed
\* is done for good: the return cancelled by the saga's own request, even if the
\* step was retried, raced by a clerk, or finished by a call that had lost the
\* saga's lease.
PassedIsCancelled ==
    \A j \in 1..Len(saga.plan) :
        LET i == saga.plan[j] IN
        /\ j <= saga.next <=> steps[i] = "completed"
        /\ j <= saga.next =>
             /\ ret[i] = "cancelled"
             /\ journal[<<i, Saga>>].status = "completed"
             /\ journal[<<i, Saga>>].target

\* "A cancellation cannot be accepted while its own inventory events remain
\* applied" (admin-delete-real-driver.ts): the goods of a return the saga has
\* passed are not in the stock's books, and stay out of them.
PassedOutOfStock == \A i \in Returns : steps[i] = "completed" => event[i] # "applied"

\* "The order has active operations; cancel the returns first" is what deleting
\* answers otherwise: of the returns there were when the deletion began, none is
\* left active, waiting for its goods or in the stock's books once the order is
\* deleted, whatever returns employees take in meanwhile, between the count of the
\* active returns and the write of the order too.  (It does not hold of the
\* returns taken in meanwhile, see ReturnInsert.)
ExistingGone ==
    order = "deleted" =>
        \A i \in Existing : ret[i] = "cancelled" /\ event[i] \notin {"pending", "applied"}

\* A saga reported complete is proved by the order and by the order journal.
CompletedProved ==
    saga.status = "completed" =>
        order = "deleted" /\ journal[FinalKey].status = "completed"

\* "Worker fails between cancel and checkpoint, the SAME cancelRequestId is
\* reused": a plan nobody interferes with is worked off whatever crashes.
ChainRecovers ==
    saga.status # "none" ~> saga.status \in {"ready_for_final_delete", "completed"}

\* "The persistent saga journal and handler request IDs make retries
\* recoverable" (admin-delete-execute.ts): a deletion whose returns are all
\* cancelled is completed by the calls that repeat it.
DeletionRecovers == saga.status = "ready_for_final_delete" ~> saga.status = "completed"
=============================================================================
