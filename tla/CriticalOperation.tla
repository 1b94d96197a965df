-------------------------- MODULE CriticalOperation --------------------------
(***************************************************************************)
(* The retry-safe operation journal of src/worker/domains/critical.ts: the *)
(* table critical_operations (one row per request id, with a step cursor,  *)
(* a lease and the stored response) and critical_operation_entities (the   *)
(* id of the row an operation created), and the handlers that run on them. *)
(*                                                                         *)
(* A caller is one client with one request id and one payload; it sends    *)
(* its request again after any answer and after a lost connection.  Every  *)
(* action is one D1 statement or one atomic D1 batch, so any other caller  *)
(* may act between two actions of a handler.  The handler is the shape all *)
(* users of the journal share: validate, write the effect (a header row,   *)
(* or an entity remembered in the mapping table), settle, complete.        *)
(*                                                                         *)
(* Tokens stands for crypto.randomUUID(): a token that nobody remembers    *)
(* and no row holds is as good as a fresh one.  Time is counted in ticks;  *)
(* a lease lasts Lease ticks (45 seconds in the code).                     *)
(*                                                                         *)
(* The external id of an order is random too, and kept in the context of   *)
(* the journal row: it is made by the handler that inserts the row, every  *)
(* other handler takes it from there, and a row that is inserted again     *)
(* after a discard has another one.  Here it is the request id with the    *)
(* number of its row (key).                                                *)
(***************************************************************************)
EXTENDS Naturals, Sequences

CONSTANTS
    Callers,       \* concurrent clients, each sending one request repeatedly
    Requests,      \* request ids
    Payloads,      \* fingerprints of the request bodies
    Tokens,        \* lease tokens
    NoToken,       \* SQL NULL in lease_token
    NoPayload,     \* the fingerprint of a row that does not exist
    Request,       \* [Callers -> Requests]: the request id a client sends
    Payload,       \* [Callers -> Payloads]: the body it sends with it
    HeaderRequests,\* requests whose effect is a header row (orders, exchanges);
                   \* the others create a mapped entity (payments)
    OrderRequests, \* those of them whose header is an order: orders.external_id
                   \* is UNIQUE; exchanges have no such key
    Lease,         \* ticks a lease lasts
    MaxTime,       \* bound on the clock
    MaxFaults,     \* bound on exceptions, crashes and lost connections
    SlowCallers    \* whether a live handler may outlive its own lease

ASSUME CallersAssumption ==
    /\ Request \in [Callers -> Requests]
    /\ Payload \in [Callers -> Payloads]
    /\ HeaderRequests \subseteq Requests
    /\ OrderRequests \subseteq HeaderRequests
    /\ NoToken \notin Tokens
    /\ NoPayload \notin Payloads

ASSUME BoundsAssumption ==
    /\ Lease \in Nat \ {0}
    /\ MaxTime \in Nat
    /\ MaxFaults \in Nat
    /\ SlowCallers \in BOOLEAN

VARIABLES
    row,      \* critical_operations, by request id
    mapped,   \* critical_operation_entities: the entity of a request, 0 if none
    created,  \* the business rows inserted so far; the id of a row is its place
    now,      \* Date.now()
    pc,       \* where each caller's handler stands
    token,    \* handle.leaseToken
    nowMs,    \* the clock a caller read when its request began
    until,    \* the lease_until_ms it computed last
    view,     \* handle.row: the row as the caller last read it
    local,    \* the id of the row the handler inserted or found, 0 if none
    answers,  \* successful answers given so far
    faults    \* exceptions, crashes and lost connections so far

db == <<row, mapped, created>>
vars == <<row, mapped, created, now, pc, token, nowMs, until, view, local,
          answers, faults>>

Steps == {"started", "validated", "written", "settled", "completed"}
AbsentRow == [status |-> "none", payload |-> NoPayload, step |-> "started",
              target |-> 0, lease |-> NoToken, until |-> 0, response |-> 0,
              key |-> 0]
Blank == [status |-> "none", step |-> "started", target |-> 0, key |-> 0]

\* The part of a row that a handler bases its decisions on.
Snapshot(r) == [status |-> r.status, step |-> r.step, target |-> r.target,
                key |-> r.key]

\* Places where the handler believes it owns the operation.
Executing == {"refresh", "run", "advanced", "map_insert", "map_reread", "mapped",
              "header_refresh"}
\* Every place but "idle": a request is being served.
Live == Executing \cup {"read", "insert", "reread", "claim", "closing",
                        "complete_check", "failing"}
Places == Live \cup {"idle"}

\* crypto.randomUUID(); which of the fresh tokens it is makes no difference.
FreshTokens == Tokens \ ({token[d] : d \in Callers} \cup {row[r].lease : r \in Requests})
NewToken == CHOOSE t \in FreshTokens : TRUE

Init ==
    /\ row = [r \in Requests |-> AbsentRow]
    /\ mapped = [r \in Requests |-> 0]
    /\ created = <<>>
    /\ now = 0
    /\ pc = [c \in Callers |-> "idle"]
    /\ token = [c \in Callers |-> NoToken]
    /\ nowMs = [c \in Callers |-> 0]
    /\ until = [c \in Callers |-> 0]
    /\ view = [c \in Callers |-> Blank]
    /\ local = [c \in Callers |-> 0]
    /\ answers = {}
    /\ faults = 0

-----------------------------------------------------------------------------
(***************************************************************************)
(* Moves of a handler.                                                     *)
(***************************************************************************)

Goto(c, place) ==
    /\ pc' = [pc EXCEPT ![c] = place]
    /\ UNCHANGED <<token, nowMs, until, local>>

\* The request ends; the isolate forgets everything about it.
Forget(c) ==
    /\ pc' = [pc EXCEPT ![c] = "idle"]
    /\ token' = [token EXCEPT ![c] = NoToken]
    /\ nowMs' = [nowMs EXCEPT ![c] = 0]
    /\ until' = [until EXCEPT ![c] = 0]
    /\ view' = [view EXCEPT ![c] = Blank]
    /\ local' = [local EXCEPT ![c] = 0]

Refuse(c) == Forget(c) /\ UNCHANGED answers

Answer(c, target) ==
    /\ Forget(c)
    /\ answers' = answers \cup
         {[request |-> Request[c], payload |-> Payload[c], target |-> target]}

\* Mutants of Held: a WHERE clause without the token, and without the status.
HeldByStatus(c) == row[Request[c]].status = "started"
HeldByAnyone(c) == row[Request[c]].status # "none"

\* The WHERE clause of every write to a started operation.
Held(c) == /\ row[Request[c]].status = "started"
           /\ row[Request[c]].lease = token[c]

\* A fault, while there is still time for the lease it leaves behind to expire.
Fault == /\ faults < MaxFaults
         /\ now + Lease <= MaxTime
         /\ faults' = faults + 1

-----------------------------------------------------------------------------
(***************************************************************************)
(* beginCriticalOperation                                                  *)
(***************************************************************************)

\* The handler takes a token and reads the clock.
Begin(c) ==
    /\ pc[c] = "idle"
    /\ pc' = [pc EXCEPT ![c] = "read"]
    /\ FreshTokens # {}
    /\ token' = [token EXCEPT ![c] = NewToken]
    /\ nowMs' = [nowMs EXCEPT ![c] = now]
    /\ until' = [until EXCEPT ![c] = now + Lease]
    /\ UNCHANGED <<db, now, view, local, answers, faults>>

BodyMatches(c) == row[Request[c]].payload = Payload[c]

\* What begin decides from the row it reads: another body, a finished
\* operation, somebody else's lease, or its own.
Examine(c) ==
    LET r == row[Request[c]] IN
    /\ r.status # "none"
    /\ \/ /\ ~BodyMatches(c)
          /\ Refuse(c)
       \/ /\ BodyMatches(c)
          /\ r.status = "completed"
          /\ Answer(c, r.response)
       \/ /\ BodyMatches(c)
          /\ r.status = "started"
          /\ r.lease # token[c]
          /\ Goto(c, "claim")
          /\ UNCHANGED <<view, answers>>
       \/ /\ BodyMatches(c)
          /\ r.status = "started"
          /\ r.lease = token[c]
          /\ Goto(c, "run")
          /\ view' = [view EXCEPT ![c] = Snapshot(r)]
          /\ UNCHANGED answers

BeginRead(c) ==
    /\ pc[c] = "read"
    /\ \/ Examine(c)
       \/ /\ row[Request[c]].status = "none"
          /\ Goto(c, "insert")
          /\ UNCHANGED <<view, answers>>
    /\ UNCHANGED <<db, now, faults>>

\* The primary key refuses a second row; the handler swallows that error.  The
\* context of a new row holds the external id that its handler has just made.
BeginInsert(c) ==
    /\ pc[c] = "insert"
    /\ IF row[Request[c]].status = "none"
         THEN row' = [row EXCEPT ![Request[c]] =
                        [AbsentRow EXCEPT !.status = "started",
                                          !.payload = Payload[c],
                                          !.lease = token[c],
                                          !.until = until[c],
                                          !.key = row[Request[c]].key + 1]]
         ELSE UNCHANGED row
    /\ Goto(c, "reread")
    /\ UNCHANGED <<mapped, created, now, view, answers, faults>>

BeginReread(c) ==
    /\ pc[c] = "reread"
    /\ \/ Examine(c)
       \/ /\ row[Request[c]].status = "none"
          /\ Refuse(c)
    /\ UNCHANGED <<db, now, faults>>

\* Mutants of Claimable: no lease check, and a lease that never expires.
ClaimableAlways(c) == row[Request[c]].status = "started"
ClaimableWhenFreed(c) == /\ row[Request[c]].status = "started"
                         /\ row[Request[c]].lease = NoToken

\* The lease is compared with the clock the handler read when it began.
Claimable(c) ==
    LET r == row[Request[c]] IN
    /\ r.status = "started"
    /\ r.lease = NoToken \/ r.until <= nowMs[c]

BeginClaim(c) ==
    /\ pc[c] = "claim"
    /\ \/ /\ Claimable(c)
          /\ row' = [row EXCEPT ![Request[c]].lease = token[c],
                                ![Request[c]].until = until[c]]
          /\ Goto(c, "refresh")
          /\ UNCHANGED <<view, answers>>
       \/ /\ ~Claimable(c)            \* busy: "no second copy will be made"
          /\ Refuse(c)
          /\ UNCHANGED row
    /\ UNCHANGED <<mapped, created, now, faults>>

\* The row is read again after the claim; whoever took the operation over in
\* between has left its own progress there.
BeginRefresh(c) ==
    /\ pc[c] = "refresh"
    /\ \/ /\ row[Request[c]].status = "none"
          /\ Refuse(c)
       \/ /\ row[Request[c]].status = "started"
          /\ view' = [view EXCEPT ![c] = Snapshot(row[Request[c]])]
          /\ Goto(c, "run")
          /\ UNCHANGED answers
       \/ /\ row[Request[c]].status = "completed"
          /\ Request[c] \in HeaderRequests
          /\ Goto(c, "failing")    \* no step of the handler is left
          /\ UNCHANGED <<view, answers>>
       \/ /\ row[Request[c]].status = "completed"
          /\ Request[c] \notin HeaderRequests
          /\ Answer(c, 0)          \* a payment: "ok" without the payment's id
    /\ UNCHANGED <<db, now, faults>>

-----------------------------------------------------------------------------
(***************************************************************************)
(* Writes of a handler that runs.                                          *)
(***************************************************************************)

\* advanceCriticalOperation: move the cursor, keep or set the target, renew the
\* lease; zero changed rows is an exception.
Advance(c, step, target) ==
    /\ \/ /\ Held(c)
          /\ row' = [row EXCEPT ![Request[c]].step = step,
                                ![Request[c]].target = target,
                                ![Request[c]].until = now + Lease]
          /\ pc' = [pc EXCEPT ![c] = "advanced"]
          /\ until' = [until EXCEPT ![c] = now + Lease]
          /\ UNCHANGED <<token, nowMs, local>>
       \/ /\ ~Held(c)
          /\ Goto(c, "failing")
          /\ UNCHANGED row
    /\ UNCHANGED <<mapped, created, now, view, answers, faults>>

\* refreshCriticalOperation after a write.
Refresh(c) ==
    /\ pc[c] = "advanced"
    /\ \/ /\ row[Request[c]].status # "none"
          /\ view' = [view EXCEPT ![c] = Snapshot(row[Request[c]])]
          /\ pc' = [pc EXCEPT ![c] = "run"]
          /\ local' = [local EXCEPT ![c] = 0]
          /\ UNCHANGED <<token, nowMs, until>>
       \/ /\ row[Request[c]].status = "none"
          /\ Goto(c, "failing")
          /\ UNCHANGED view
    /\ UNCHANGED <<db, now, answers, faults>>

AtStep(c, step) == pc[c] = "run" /\ view[c].step = step

\* Preflight checks passed: the plan is stored with the cursor.  It keeps the
\* external id of the context the handler has read, which is the row's own.
Validate(c) ==
    /\ AtStep(c, "started")
    /\ Advance(c, "validated", view[c].target)

\* Mutant of ContextKey: every handler takes the external id it proposed itself.
ProposedKey(c) == Len(created) + 1

\* The external id in the plan of the operation, not the one proposed.
ContextKey(c) == view[c].key

NewEntity(c) == Append(created, [request |-> Request[c], payload |-> Payload[c],
                                 key |-> ContextKey(c)])

\* insertCriticalMappedEntity: look the mapping up, ...
MapRead(c) ==
    /\ AtStep(c, "validated")
    /\ Request[c] \notin HeaderRequests
    /\ \/ /\ mapped[Request[c]] # 0
          /\ pc' = [pc EXCEPT ![c] = "mapped"]
          /\ local' = [local EXCEPT ![c] = mapped[Request[c]]]
          /\ UNCHANGED <<token, nowMs, until>>
       \/ /\ mapped[Request[c]] = 0
          /\ Goto(c, "map_insert")
    /\ UNCHANGED <<db, now, view, answers, faults>>

\* Mutant of MapInsert: the mapping is written before, and without, the entity.
MapAhead(c) ==
    /\ pc[c] = "map_insert"
    /\ mapped' = [mapped EXCEPT ![Request[c]] = Len(created) + 1]
    /\ pc' = [pc EXCEPT ![c] = "map_reread"]
    /\ local' = [local EXCEPT ![c] = Len(created) + 1]
    /\ UNCHANGED <<row, created, now, token, nowMs, until, view, answers, faults>>

\* ... insert the entity and its mapping in one batch (ON CONFLICT DO NOTHING
\* keeps an older mapping, and the entity stays), ...
MapInsert(c) ==
    /\ pc[c] = "map_insert"
    /\ created' = NewEntity(c)
    /\ mapped' = IF mapped[Request[c]] = 0
                   THEN [mapped EXCEPT ![Request[c]] = Len(created) + 1]
                   ELSE mapped
    /\ pc' = [pc EXCEPT ![c] = "map_reread"]
    /\ local' = [local EXCEPT ![c] = Len(created) + 1]
    /\ UNCHANGED <<row, now, token, nowMs, until, view, answers, faults>>

\* ... and read the mapping back.
MapReread(c) ==
    /\ pc[c] = "map_reread"
    /\ pc' = [pc EXCEPT ![c] = "mapped"]
    /\ local' = [local EXCEPT ![c] = IF mapped[Request[c]] # 0
                                       THEN mapped[Request[c]] ELSE @]
    /\ UNCHANGED <<db, now, token, nowMs, until, view, answers, faults>>

RecordEntity(c) ==
    /\ pc[c] = "mapped"
    /\ Advance(c, "written", local[c])

\* orders.external_id is UNIQUE: is this one taken?
Placed(c) == \E i \in 1..Len(created) :
                /\ created[i].request = Request[c]
                /\ created[i].key = ContextKey(c)

\* updateCriticalOperationTargetFromLastInsert: one batch inserts the header and
\* moves the cursor; the header stays when the cursor update matches no row.  A
\* second order with the same external id aborts the batch.
CreateHeader(c) ==
    /\ AtStep(c, "validated")
    /\ Request[c] \in HeaderRequests
    /\ view[c].target = 0
    /\ \/ /\ Request[c] \in OrderRequests
          /\ Placed(c)
          /\ Goto(c, "failing")
          /\ UNCHANGED <<row, created>>
       \/ /\ ~(Request[c] \in OrderRequests /\ Placed(c))
          /\ created' = NewEntity(c)
          /\ row' = IF Held(c)
                      THEN [row EXCEPT ![Request[c]].step = "written",
                                       ![Request[c]].target = Len(created) + 1,
                                       ![Request[c]].until = now + Lease]
                      ELSE row
          /\ until' = [until EXCEPT ![c] = now + Lease]
          /\ pc' = [pc EXCEPT ![c] = "header_refresh"]
          /\ local' = [local EXCEPT ![c] = Len(created) + 1]
          /\ UNCHANGED <<token, nowMs>>
    /\ UNCHANGED <<mapped, now, view, answers, faults>>

\* The handler goes on from the step it reads back; "validated" is unexpected.
HeaderRefresh(c) ==
    /\ pc[c] = "header_refresh"
    /\ LET r == row[Request[c]] IN
       \/ /\ r.status # "none"
          /\ r.step \in {"written", "settled"}
          /\ view' = [view EXCEPT ![c] = Snapshot(r)]
          /\ pc' = [pc EXCEPT ![c] = "run"]
          /\ local' = [local EXCEPT ![c] = 0]
          /\ UNCHANGED <<token, nowMs, until>>
       \/ /\ r.status = "none" \/ r.step \notin {"written", "settled"}
          /\ Goto(c, "failing")
          /\ UNCHANGED view
    /\ UNCHANGED <<db, now, answers, faults>>

\* The rest of the effect is written, each part idempotent by its own key.
Settle(c) ==
    /\ AtStep(c, "written")
    /\ Advance(c, "settled", view[c].target)

\* completeCriticalOperation: store the response and drop the lease.
Complete(c) ==
    /\ AtStep(c, "settled")
    /\ \/ /\ Held(c)
          /\ row' = [row EXCEPT ![Request[c]].status = "completed",
                                ![Request[c]].step = "completed",
                                ![Request[c]].response = view[c].target,
                                ![Request[c]].lease = NoToken,
                                ![Request[c]].until = 0]
          /\ Goto(c, "closing")
       \/ /\ ~Held(c)
          /\ Goto(c, "complete_check")
          /\ UNCHANGED row
    /\ UNCHANGED <<mapped, created, now, view, answers, faults>>

\* Mutant of CompleteCheck: no changed row is taken for somebody else's completion.
CompleteUnchecked(c) ==
    /\ pc[c] = "complete_check"
    /\ Goto(c, "closing")
    /\ UNCHANGED <<db, now, view, answers, faults>>

\* Nothing changed: fine if somebody else completed it, an exception otherwise.
CompleteCheck(c) ==
    /\ pc[c] = "complete_check"
    /\ Goto(c, IF row[Request[c]].status = "completed" THEN "closing" ELSE "failing")
    /\ UNCHANGED <<db, now, view, answers, faults>>

\* The last refresh, then the answer built by this handler.
Close(c) ==
    /\ pc[c] = "closing"
    /\ \/ /\ row[Request[c]].status # "none"
          /\ Answer(c, view[c].target)
       \/ /\ row[Request[c]].status = "none"
          /\ Goto(c, "failing")
          /\ UNCHANGED <<view, answers>>
    /\ UNCHANGED <<db, now, faults>>

\* A handler that reads back a row somebody else has completed has no step left.
StrayedStep(c) ==
    /\ AtStep(c, "completed")
    /\ Goto(c, "failing")
    /\ UNCHANGED <<db, now, view, answers, faults>>

\* No row, but the next one will have another external id.
Dropped(c) == [AbsentRow EXCEPT !.key = row[Request[c]].key]

\* createOrder drops the row of a request that failed validation, so that the
\* corrected form may use the same request id.
Discard(c) ==
    /\ AtStep(c, "started")
    /\ Request[c] \in OrderRequests
    /\ \/ /\ Held(c)
          /\ row[Request[c]].step = "started"
          /\ row[Request[c]].target = 0
          /\ mapped[Request[c]] = 0
          /\ row' = [row EXCEPT ![Request[c]] = Dropped(c)]
          /\ Refuse(c)
       \/ /\ ~(Held(c) /\ row[Request[c]].step = "started")
          /\ Goto(c, "failing")
          /\ UNCHANGED <<row, view, answers>>
    /\ Fault
    /\ UNCHANGED <<mapped, created, now>>

\* failCriticalOperation: hand the lease back, then report the error.
Fail(c) ==
    /\ pc[c] = "failing"
    /\ row' = IF Held(c)
                THEN [row EXCEPT ![Request[c]].lease = NoToken,
                                 ![Request[c]].until = 0]
                ELSE row
    /\ Refuse(c)
    /\ UNCHANGED <<mapped, created, now, faults>>

-----------------------------------------------------------------------------
(***************************************************************************)
(* The environment.                                                        *)
(***************************************************************************)

\* A D1 call of a running handler throws; the handler's catch clause runs.  In
\* begin itself no handle exists yet and the lease is not handed back.
Throw(c) ==
    /\ pc[c] \in Live
    /\ Fault
    /\ \/ /\ pc[c] \in {"read", "reread", "claim", "refresh", "failing"}
          /\ Refuse(c)
       \/ /\ pc[c] \notin {"read", "insert", "reread", "claim", "refresh", "failing"}
          /\ Goto(c, "failing")
          /\ UNCHANGED <<view, answers>>
       \/ /\ pc[c] = "insert"      \* swallowed
          /\ Goto(c, "reread")
          /\ UNCHANGED <<view, answers>>
    /\ UNCHANGED <<db, now>>

\* The isolate is evicted or the connection lost; the client sees no answer.
Crash(c) ==
    /\ pc[c] \in Live
    /\ Fault
    /\ Refuse(c)
    /\ UNCHANGED <<db, now>>

\* Time passes.  Unless SlowCallers, a handler never takes as long as its lease.
Tick ==
    /\ now < MaxTime
    /\ now' = now + 1
    /\ SlowCallers \/ \A c \in Callers : pc[c] \in Live => now + 1 < until[c]
    /\ UNCHANGED <<db, pc, token, nowMs, until, view, local, answers, faults>>

Handle(c) ==
    \/ BeginRead(c) \/ BeginInsert(c) \/ BeginReread(c)
    \/ BeginClaim(c) \/ BeginRefresh(c)
    \/ Validate(c) \/ Refresh(c)
    \/ MapRead(c) \/ MapInsert(c) \/ MapReread(c) \/ RecordEntity(c)
    \/ CreateHeader(c) \/ HeaderRefresh(c)
    \/ Settle(c) \/ Complete(c) \/ CompleteCheck(c) \/ Close(c)
    \/ StrayedStep(c) \/ Fail(c)

Next ==
    \/ \E c \in Callers : Begin(c) \/ Handle(c) \/ Discard(c) \/ Throw(c) \/ Crash(c)
    \/ Tick

Spec == Init /\ [][Next]_vars

(***************************************************************************)
(* Fairness: an isolate that is not evicted runs on, clients send their    *)
(* request again until it is answered, and the clock does not stand still. *)
(***************************************************************************)
FairSpec ==
    /\ Spec
    /\ \A c \in Callers : WF_vars(Begin(c)) /\ WF_vars(Handle(c))
    /\ SF_vars(Tick)

-----------------------------------------------------------------------------
(***************************************************************************)
(* Properties.                                                             *)
(***************************************************************************)

RowType == [status : {"none", "started", "completed"},
            payload : Payloads \cup {NoPayload},
            step : Steps,
            target : Nat,
            lease : Tokens \cup {NoToken},
            until : Nat,
            response : Nat,
            key : Nat]

ViewType == [status : {"none", "started", "completed"}, step : Steps, target : Nat,
             key : Nat]

EntityType == [request : Requests, payload : Payloads, key : Nat]
AnswerType == [request : Requests, payload : Payloads, target : Nat]

\* The shape of the journal, of the handlers' memory and of the answers; a
\* mapping never names an entity that was not inserted with it.
TypeOK ==
    /\ row \in [Requests -> RowType]
    /\ mapped \in [Requests -> 0..Len(created)]
    /\ created \in Seq(EntityType)
    /\ now \in Nat
    /\ pc \in [Callers -> Places]
    /\ token \in [Callers -> Tokens \cup {NoToken}]
    /\ nowMs \in [Callers -> Nat]
    /\ until \in [Callers -> Nat]
    /\ view \in [Callers -> ViewType]
    /\ local \in [Callers -> Nat]
    /\ answers \subseteq AnswerType
    /\ faults \in Nat

Deciding == {"run", "map_insert", "map_reread", "mapped"}

\* A handler that still holds the lease decides from a row nobody has changed
\* since it read it, however late it acts: taking the lease over, completing and
\* discarding all take the token away, so a stale handle can never write.
HolderViewFresh ==
    \A c \in Callers :
        pc[c] \in Deciding /\ Held(c) => view[c] = Snapshot(row[Request[c]])

Rank(step) == CASE step = "started" -> 0 [] step = "validated" -> 1
                [] step = "written" -> 2 [] step = "settled" -> 3
                [] OTHER -> 4

\* The cursor of an operation never moves back, so no part of the effect that
\* was passed is written again, unless the whole row is discarded.
StepsForward ==
    [][\A r \in Requests :
         \/ row'[r].status = "none"
         \/ Rank(row[r].step) <= Rank(row'[r].step)]_vars

\* A completed operation is final: retries, late handlers and late failures
\* leave its row, and the answer stored in it, as they are.
CompletedFinal ==
    [][\A r \in Requests : row[r].status = "completed" => row'[r] = row[r]]_vars

\* Every successful answer, also the one of a handler that lost its lease and
\* found the operation completed by another, names the row that the journal
\* stored, created for the same request and the same body.  (0: the answer of
\* a payment that finds itself completed right after its claim names none.)
AnswersAgree ==
    \A a \in answers :
        LET r == row[a.request] IN
        /\ r.status = "completed"
        /\ r.payload = a.payload
        /\ a.target \in {0, r.response}
        /\ r.response \in 1..Len(created)
        /\ created[r.response].request = a.request
        /\ created[r.response].payload = a.payload

\* "This identifier is already used for another action" (the refusal of begin;
\* "use the normal lease/fingerprint checks below", its comment): a request is
\* answered for the body it carries, never for another body under its id.
BodyAnswered ==
    \A a \in answers :
        row[a.request].status = "completed" => row[a.request].payload = a.payload

Copies(r) == {i \in 1..Len(created) : created[i].request = r}

\* However slow its handlers, a request to create an order creates one order,
\* although the external id that makes it unique is random, and made anew when the
\* row that holds it was discarded: a handler that carries the id of a discarded
\* row never comes to the insertion, and one that does carries the id of the row.
OneOrder ==
    \A r \in OrderRequests : \A i, j \in Copies(r) : i = j

\* "The second copy will not be created" (the busy message of begin): one row
\* per request, whatever is retried.
OneEffect ==
    \A r \in Requests : \A i, j \in Copies(r) : i = j

\* What the journal promises its users, see IdempotentRequest.
Promise == INSTANCE IdempotentRequest WITH
    performed <- {[request |-> created[i].request, payload |-> created[i].payload,
                   target |-> i] : i \in 1..Len(created)},
    answered <- answers

\* Crashes, lost answers and overlapping retries never double or lose an effect,
\* as long as no handler outlives its lease.
ImplementsPromise == Promise!Spec

\* A client that keeps sending its request is answered, whatever its earlier
\* attempts left behind: a held lease expires, a half-done operation resumes.
EventuallyAnswered ==
    \A r \in Requests : <>(\E a \in answers : a.request = r)
=============================================================================
