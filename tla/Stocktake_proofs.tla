-------------------------- MODULE Stocktake_proofs --------------------------
(***************************************************************************)
(* Proofs about stocktakes and movements, for every set of places,         *)
(* variants, requests and handlers and any number of sessions.             *)
(***************************************************************************)
EXTENDS Stocktake, FiniteSetTheorems, TLAPS

-----------------------------------------------------------------------------
(* What a handler may be doing *)

OpKinds == {"manual", "set", "count", "transfer"}
Readings == UNION {[S -> Nat] : S \in SUBSET Shelves}
Changes == [Shelves -> Int]
Number == Nat \cup {Blank}

ApplyJobs == [op : {"apply"}, pc : {"commit"}, req : Requests, kind : OpKinds, at : SUBSET Shelves,
              effect : Changes, moved : Changes, quiet : SUBSET Places, corrects : SUBSET Places,
              read : Readings]
UndoJobs == [op : {"undo"}, pc : {"read", "commit"}, req : Requests, read : Readings,
             corrects : SUBSET Places]
StartJobs == [op : {"start"}, pc : {"commit"}, place : Places, scope : SUBSET Variants]
AddJobs == [op : {"add"}, pc : {"commit"}, session : Sessions, variant : Variants, read : Nat]
SaveJobs == [op : {"save"}, pc : {"read", "commit"}, session : Sessions, variant : Variants,
             count : Number, now : Nat, write : {"-", "clear", "flag", "count"}]
CompleteJobs == [op : {"complete"}, pc : {"read", "mark", "commit"}, session : Sessions]
CancelJobs == [op : {"cancel"}, pc : {"commit"}, session : Sessions]
Jobs == {Idle} \cup ApplyJobs \cup UndoJobs \cup StartJobs \cup AddJobs \cup SaveJobs
        \cup CompleteJobs \cup CancelJobs

RowStates == {"none", "pending", "counted", "recount_required", "applied"}
Rows == [status : RowStates, baseline : Nat, count : Number, conflict : Number]
Operations == [kind : OpKinds \cup {"none"}, at : SUBSET Shelves, effect : Changes, moved : Changes,
               back : Changes, undone : BOOLEAN]

Typed ==
  /\ stock \in [Shelves -> Nat] /\ ledger \in [Shelves -> Int] /\ truth \in [Shelves -> Nat]
  /\ session \in [Sessions -> [place : Places, status : {"none", "active", "completed", "cancelled"}]]
  /\ row \in [Sessions -> [Variants -> Rows]]
  /\ ops \in [Requests -> Operations]
  /\ proc \in [Handlers -> Jobs]

RowsFilled ==
  \A i \in Sessions, v \in Variants :
    /\ row[i][v].status \in {"counted", "applied"} => row[i][v].count # Blank
    /\ row[i][v].status = "recount_required" => row[i][v].conflict # Blank

OneRunning == \A i, j \in Sessions :
  session[i].status = "active" /\ session[j].status = "active" /\ session[i].place = session[j].place => i = j

\* An operation books and moves nothing outside its shelves.
Within(change, at) == \A s \in Shelves \ at : change[s] = 0
OpsWithin == \A r \in Requests : Within(ops[r].effect, ops[r].at) /\ Within(ops[r].moved, ops[r].at)

PlacesOf(at) == {s[1] : s \in at}

\* What a handler has read fits what it is going to write.
ApplySound(j) ==
  j.op = "apply" =>
    /\ Within(j.effect, j.at) /\ Within(j.moved, j.at)
    /\ DOMAIN j.read = j.at
    /\ \A s \in j.at : j.read[s] + j.effect[s] >= 0
    /\ j.kind \in {"transfer", "count"} => j.quiet = PlacesOf(j.at)
    /\ j.kind \in {"set", "count"} => j.moved = Nothing
    /\ j.corrects = Corrects(j.kind, j.at, j.effect, j.moved)
UndoSound(j) ==
  j.op = "undo" =>
    /\ ops[j.req].kind \in Reversible
    /\ j.corrects = CorrectedBy(j.req)
    /\ j.pc = "commit" => /\ DOMAIN j.read = ops[j.req].at
                          /\ \A s \in ops[j.req].at : j.read[s] - ops[j.req].effect[s] >= 0
SaveSound(j) ==
  j.op = "save" => /\ j.write = "count" => j.count # Blank
                   /\ j.pc = "commit" => j.write # "-"
JobSound(j) == ApplySound(j) /\ UndoSound(j) /\ SaveSound(j)

\* A session that is worked on has begun, and does not begin again.  What the
\* assumptions add: a movement that stands is taken back by one handler; whoever
\* corrects the books of a place does it alone, and while no stocktake of the
\* place runs.
Others(h, op) == {k \in Handlers \ {h} : proc[k].op \in op}
UndoesAlone(h, j) ==
  ReversesApart /\ j.op = "undo" /\ ops[j.req].kind # "transfer" =>
    ~ops[j.req].undone /\ \A k \in Others(h, {"undo"}) : proc[k].req # j.req
SessionOps == {"save", "add", "complete", "cancel"}
InSession(j) == j.op \in SessionOps => session[j.session].status # "none"
CorrectsAlone(h, j) ==
  CorrectionsApart /\ j.op \in {"apply", "undo"} => \A p \in j.corrects :
    /\ \A i \in Sessions : session[i].status = "active" => session[i].place # p
    /\ \A k \in Others(h, {"apply", "undo"}) : p \notin proc[k].corrects

\* What the books are short of on a shelf: no movement changes it, and every
\* count taken or on its way measures it.
Careful == CorrectionsApart /\ CountsAtOnce /\ ReversesApart
Gap(s) == truth[s] - stock[s]
Measures(j) ==
  Careful =>
    /\ j.op = "save" /\ j.write = "count" /\ session[j.session].status = "active" =>
         j.count - j.now = Gap(ShelfIn(j.session, j.variant))
    /\ j.op = "apply" /\ j.kind \in {"set", "count"} => \A s \in j.at : j.effect[s] = Gap(s)

JobOK(h, j) ==
  JobSound(j) /\ UndoesAlone(h, j) /\ InSession(j) /\ CorrectsAlone(h, j) /\ Measures(j)
JobsOK == \A h \in Handlers : JobOK(h, proc[h])

RowsMeasure ==
  Careful => \A i \in Sessions, v \in Variants :
    session[i].status = "active" /\ row[i][v].count # Blank =>
      row[i][v].count - row[i][v].baseline = Gap(ShelfIn(i, v))
UndoneRight == ReversesApart => UndoneExactly

RowsOK == RowsFilled /\ RowsMeasure
OpsOK == OpsWithin /\ UndoneRight
Inv == Typed /\ RowsOK /\ OneRunning /\ OpsOK /\ BooksAddUp /\ JobsOK

-----------------------------------------------------------------------------
(* Shelves, changes and jobs *)

LEMMA ShelfPlace ==
  /\ \A s \in Shelves : s[1] \in Places
  /\ \A at \in SUBSET Shelves : PlacesOf(at) \in SUBSET Places
  /\ \A p \in Places, v \in Variants : <<p, v>> \in Shelves /\ <<p, v>>[1] = p /\ <<p, v>>[2] = v
  /\ \A s \in Shelves : s[2] \in Variants /\ s = <<s[1], s[2]>>
BY DEF Shelves, PlacesOf

LEMMA ChangesTyped ==
  ASSUME NEW s \in Shelves, NEW n \in Int
  PROVE  /\ In(s, n) \in Changes /\ Within(In(s, n), {s}) /\ In(s, n)[s] = n
         /\ Out(s, n) \in Changes /\ Within(Out(s, n), {s}) /\ Out(s, n)[s] = -n
BY DEF In, Out, Changes, Within

LEMMA NothingTyped == Nothing \in Changes /\ \A at : Within(Nothing, at)
BY DEF Nothing, Changes, Within

LEMMA JobFields ==
  ASSUME NEW j \in Jobs
  PROVE  /\ j.op = "apply" => j \in ApplyJobs
         /\ j.op = "undo" => j \in UndoJobs
         /\ j.op = "start" => j \in StartJobs
         /\ j.op = "add" => j \in AddJobs
         /\ j.op = "save" => j \in SaveJobs
         /\ j.op = "complete" => j \in CompleteJobs
         /\ j.op = "cancel" => j \in CancelJobs
BY DEF Jobs, Idle, ApplyJobs, UndoJobs, StartJobs, AddJobs, SaveJobs, CompleteJobs, CancelJobs

LEMMA IdleOK == Idle \in Jobs /\ Idle.op = "idle" /\ \A h \in Handlers : JobOK(h, Idle)
BY DEF Idle, Jobs, JobOK, JobSound, ApplySound, UndoSound, SaveSound, UndoesAlone, InSession, CorrectsAlone,
       Measures, SessionOps

\* What is sound stays sound while the operations do not change.
LEMMA SoundStays ==
  ASSUME NEW j, UNCHANGED ops, JobSound(j)
  PROVE  JobSound(j)'
<1>1. \A r : CorrectedBy(r)' = CorrectedBy(r)
  BY DEF CorrectedBy, Corrects
<1> QED
  BY <1>1 DEF JobSound, ApplySound, UndoSound, SaveSound, Corrects

\* A step that only gives a handler something else to do.
LEMMA JobChange ==
  ASSUME Inv, NEW h \in Handlers, NEW j \in Jobs, JobOK(h, j),
         proc' = [proc EXCEPT ![h] = j], UNCHANGED database
  PROVE  Inv'
<1> USE DEF database
<1>1. Typed'
  BY DEF Inv, Typed
<1>2. RowsOK' /\ OneRunning' /\ OpsOK' /\ BooksAddUp'
  BY DEF Inv, RowsOK, RowsFilled, RowsMeasure, ShelfIn, Gap, OneRunning, OpsOK, OpsWithin,
         UndoneRight, UndoneExactly, BooksAddUp
<1>3. JobsOK'
  <2> SUFFICES ASSUME NEW k \in Handlers PROVE JobOK(k, proc[k])'
    BY DEF JobsOK
  <2>1. \A m \in Handlers : proc'[m] = IF m = h THEN j ELSE proc[m]
    BY DEF Inv, Typed
  <2>2. JobOK(k, proc[k])
    BY DEF Inv, JobsOK
  <2>3. JobSound(proc[k])'
    BY <2>1, <2>2, SoundStays DEF JobOK
  <2>4. UndoesAlone(k, proc[k])'
    BY <2>1, <2>2 DEF JobOK, UndoesAlone, Others
  <2>5. InSession(proc[k])'
    BY <2>1, <2>2 DEF JobOK, InSession, Others
  <2>6. CorrectsAlone(k, proc[k])'
    BY <2>1, <2>2 DEF JobOK, CorrectsAlone, Others
  <2>7. Measures(proc[k])'
    BY <2>1, <2>2 DEF JobOK, Measures, Gap, ShelfIn
  <2> QED
    BY <2>3, <2>4, <2>5, <2>6, <2>7 DEF JobOK
<1> QED
  BY <1>1, <1>2, <1>3 DEF Inv

\* A job that ends leaves the others alone.
LEMMA JobEnds ==
  ASSUME Typed, NEW h \in Handlers, Ends(h)
  PROVE  /\ proc' \in [Handlers -> Jobs]
         /\ proc'[h] = Idle /\ \A k \in Handlers \ {h} : proc'[k] = proc[k]
         /\ \A k \in Handlers, op \in SUBSET STRING : "idle" \notin op => Others(k, op)' \subseteq Others(k, op)
BY IdleOK DEF Typed, Ends, Others

LEMMA GivesUpOK == ASSUME Inv, NEW h \in Handlers, GivesUp(h) PROVE Inv'
BY JobChange, IdleOK DEF GivesUp, Goes

-----------------------------------------------------------------------------
(* The movements a clerk may ask for have one shape *)

Fits(kind, at, effect, moved, quiet) ==
  /\ Within(effect, at) /\ Within(moved, at)
  /\ \A s \in at : stock[s] + effect[s] >= 0
  /\ kind \in {"transfer", "count"} => quiet = PlacesOf(at)
  /\ kind \in {"set", "count"} => moved = Nothing /\ \A s \in at : effect[s] = truth[s] - stock[s]

Movement(h, r) ==
  \E kind \in OpKinds, at \in SUBSET Shelves, effect \in Changes, moved \in Changes, quiet \in SUBSET Places :
    Fits(kind, at, effect, moved, quiet) /\ BeginOperation(h, r, kind, at, effect, moved, quiet)

LEMMA ExplainedTyped ==
  ASSUME Typed, NEW s \in Shelves, NEW n \in Nat
  PROVE  Explained(s, n) \in Nat /\ Explained(s, n) <= stock[s]
BY DEF Typed, Explained, Least

LEMMA Movements ==
  ASSUME Typed, NEW h \in Handlers, Books(h)
  PROVE  \E r \in Requests : Movement(h, r) \/ BeginUndo(h, r)
<1> PICK r \in Requests :
      \/ \E s \in Shelves :
           \/ \E n \in 1 .. MaxMove : BeginArrival(h, r, s, n) \/ BeginWriteoff(h, r, s, n)
           \/ BeginSet(h, r, s) \/ BeginQuickCount(h, r, s)
           \/ \E t \in Shelves, n \in 1 .. MaxMove : BeginTransfer(h, r, s, t, n)
      \/ BeginUndo(h, r)
  BY DEF Books
<1> SUFFICES ASSUME ~BeginUndo(h, r) PROVE Movement(h, r)
  OBVIOUS
<1>1. ASSUME NEW s \in Shelves, NEW n \in 1 .. MaxMove, BeginArrival(h, r, s, n) PROVE Movement(h, r)
  <2>1. n \in Nat /\ stock[s] \in Nat
    BY StocktakeAssumption DEF Typed
  <2>2. Fits("manual", {s}, In(s, n), In(s, n), {})
    BY <2>1, ChangesTyped DEF Fits
  <2> QED
    <3>1. BeginOperation(h, r, "manual", {s}, In(s, n), In(s, n), {})
      BY <1>1 DEF BeginArrival
    <3>2. In(s, n) \in Changes
      BY <2>1 DEF In, Changes
    <3>3. {s} \in SUBSET Shelves /\ {} \in SUBSET Places
      OBVIOUS
    <3> QED
      BY <2>2, <3>1, <3>2, <3>3 DEF Movement, OpKinds
<1>2. ASSUME NEW s \in Shelves, NEW n \in 1 .. MaxMove, BeginWriteoff(h, r, s, n) PROVE Movement(h, r)
  <2>1. n \in Nat /\ stock[s] \in Nat /\ Explained(s, n) \in Nat /\ Explained(s, n) <= stock[s]
    BY StocktakeAssumption, ExplainedTyped DEF Typed
  <2>2. Fits("manual", {s}, Out(s, Explained(s, n)), Out(s, n), {})
    BY <2>1, ChangesTyped DEF Fits
  <2> QED
    <3>1. BeginOperation(h, r, "manual", {s}, Out(s, Explained(s, n)), Out(s, n), {})
      BY <1>2 DEF BeginWriteoff
    <3>2. Out(s, Explained(s, n)) \in Changes /\ Out(s, n) \in Changes
      BY <2>1 DEF Out, Changes
    <3>3. {s} \in SUBSET Shelves /\ {} \in SUBSET Places
      OBVIOUS
    <3> QED
      BY <2>2, <3>1, <3>2, <3>3 DEF Movement, OpKinds
<1>3. ASSUME NEW s \in Shelves, BeginSet(h, r, s) PROVE Movement(h, r)
  <2>1. truth[s] - stock[s] \in Int /\ stock[s] \in Nat /\ truth[s] \in Nat
    BY DEF Typed
  <2>2. Fits("set", {s}, In(s, truth[s] - stock[s]), Nothing, {})
    BY <2>1, ChangesTyped, NothingTyped DEF Fits
  <2> QED
    BY <1>3, <2>1, <2>2, ChangesTyped, NothingTyped DEF Movement, BeginSet, OpKinds
<1>4. ASSUME NEW s \in Shelves, BeginQuickCount(h, r, s) PROVE Movement(h, r)
  <2>1. truth[s] - stock[s] \in Int /\ stock[s] \in Nat /\ truth[s] \in Nat
    BY DEF Typed
  <2>2. Fits("count", {s}, In(s, truth[s] - stock[s]), Nothing, {s[1]})
    BY <2>1, ChangesTyped, NothingTyped DEF Fits, PlacesOf
  <2>3. {s[1]} \in SUBSET Places
    BY ShelfPlace
  <2> QED
    BY <1>4, <2>1, <2>2, <2>3, ChangesTyped, NothingTyped DEF Movement, BeginQuickCount, OpKinds
<1>5. ASSUME NEW s \in Shelves, NEW t \in Shelves, NEW n \in 1 .. MaxMove, BeginTransfer(h, r, s, t, n)
      PROVE  Movement(h, r)
  <2> DEFINE effect == Plus(Out(s, Explained(s, n)), In(t, n))
             moved == Plus(Out(s, n), In(t, n))
  <2>1. n \in Nat /\ Explained(s, n) \in Nat /\ Explained(s, n) <= stock[s] /\ s # t
    BY <1>5, StocktakeAssumption, ExplainedTyped DEF BeginTransfer
  <2>2. effect \in Changes /\ moved \in Changes
    BY <2>1 DEF Plus, Out, In, Changes
  <2>3. Within(effect, {s, t}) /\ Within(moved, {s, t})
    BY <2>1 DEF Plus, Out, In, Within
  <2>4. effect[s] = -Explained(s, n) /\ effect[t] = n
    BY <2>1 DEF Plus, Out, In
  <2>5. PlacesOf({s, t}) = {s[1], t[1]}
    BY DEF PlacesOf
  <2>6. Fits("transfer", {s, t}, effect, moved, {s[1], t[1]})
    <3>1. stock[s] \in Nat /\ stock[t] \in Nat
      BY DEF Typed
    <3>2. \A x \in {s, t} : stock[x] + effect[x] >= 0
      BY <2>1, <2>4, <3>1
    <3> HIDE DEF effect, moved
    <3> QED
      BY <2>3, <2>5, <3>2 DEF Fits
  <2>7. {s[1], t[1]} \in SUBSET Places /\ {s, t} \in SUBSET Shelves
    BY ShelfPlace
  <2>8. BeginOperation(h, r, "transfer", {s, t}, effect, moved, {s[1], t[1]})
    BY <1>5 DEF BeginTransfer
  <2> HIDE DEF effect, moved
  <2> QED
    BY <2>2, <2>6, <2>7, <2>8 DEF Movement, OpKinds
<1> QED
  BY <1>1, <1>2, <1>3, <1>4, <1>5

\* What a movement leaves in its handler.
LEMMA MovementBegins ==
  ASSUME Typed, NEW h \in Handlers, NEW r \in Requests, Movement(h, r)
  PROVE  \E j \in ApplyJobs :
           /\ proc[h] = Idle /\ proc' = [proc EXCEPT ![h] = j] /\ UNCHANGED database
           /\ JobSound(j)
           /\ MayCorrect(h, j.corrects)
           /\ j.kind \in {"set", "count"} => \A s \in j.at : j.effect[s] = truth[s] - stock[s]
<1>1. PICK kind \in OpKinds, at \in SUBSET Shelves, effect \in Changes, moved \in Changes,
           quiet \in SUBSET Places :
        Fits(kind, at, effect, moved, quiet) /\ BeginOperation(h, r, kind, at, effect, moved, quiet)
  BY DEF Movement
<1> DEFINE corrects == Corrects(kind, at, effect, moved)
           read == [s \in at |-> stock[s]]
           j == [op |-> "apply", pc |-> "commit", req |-> r, kind |-> kind, at |-> at, effect |-> effect,
                 moved |-> moved, quiet |-> quiet, corrects |-> corrects, read |-> read]
<1>2. corrects \in SUBSET Places
  BY ShelfPlace DEF Corrects
<1>3. read \in [at -> Nat]
  BY DEF Typed
<1>4. read \in Readings
  BY <1>3 DEF Readings
<1>5. j \in ApplyJobs
  BY <1>2, <1>4 DEF ApplyJobs
<1>6. JobSound(j)
  BY <1>1, <1>3 DEF JobSound, ApplySound, UndoSound, SaveSound, Fits
<1>7. /\ proc[h] = Idle /\ proc' = [proc EXCEPT ![h] = j] /\ UNCHANGED database
      /\ MayCorrect(h, corrects)
  BY <1>1 DEF BeginOperation, Begin
<1>8. kind \in {"set", "count"} => \A s \in at : effect[s] = truth[s] - stock[s]
  BY <1>1 DEF Fits
<1>9. j.corrects = corrects /\ j.kind = kind /\ j.at = at /\ j.effect = effect
  OBVIOUS
<1> HIDE DEF j, corrects, read
<1> QED
  BY <1>5, <1>6, <1>7, <1>8, <1>9

-----------------------------------------------------------------------------
(* The first state *)

LEMMA ListingTyped ==
  ASSUME stock \in [Shelves -> Nat], NEW p \in Places, NEW V \in SUBSET Variants
  PROVE  /\ Listing(p, V) \in [Variants -> Rows]
         /\ \A v \in Variants : /\ Listing(p, V)[v].status \in {"none", "pending"}
                                /\ Listing(p, V)[v].count = Blank
<1>1. \A v \in Variants : stock[<<p, v>>] \in Nat
  BY ShelfPlace
<1>2. NoRow \in Rows /\ NoRow.status = "none" /\ NoRow.count = Blank
  BY DEF NoRow, Rows, RowStates, Number, Blank
<1>3. \A v \in Variants : [NoRow EXCEPT !.status = "pending", !.baseline = stock[<<p, v>>]] \in Rows
  BY <1>1 DEF NoRow, Rows, RowStates, Number, Blank
<1>4. \A v \in Variants : LET it == [NoRow EXCEPT !.status = "pending", !.baseline = stock[<<p, v>>]]
                          IN it.status = "pending" /\ it.count = Blank
  BY DEF NoRow
<1> QED
  BY <1>2, <1>3, <1>4 DEF Listing

LEMMA InitOK == Init => Inv
<1> SUFFICES ASSUME Init PROVE Inv
  OBVIOUS
<1> PICK begun \in SUBSET {1}, p \in Places :
       /\ session = [i \in Sessions |-> [place |-> p, status |-> IF i \in begun THEN "active" ELSE "none"]]
       /\ row = [i \in Sessions |-> Listing(p, IF i \in begun THEN Variants ELSE {})]
  BY DEF Init
<1>1. stock \in [Shelves -> Nat] /\ ledger \in [Shelves -> Int] /\ truth \in [Shelves -> Nat] /\ stock = ledger
  BY StocktakeAssumption DEF Init
<1>2. \A V \in SUBSET Variants :
        /\ Listing(p, V) \in [Variants -> Rows]
        /\ \A v \in Variants : Listing(p, V)[v].status \in {"none", "pending"} /\ Listing(p, V)[v].count = Blank
  BY <1>1, ListingTyped
<1>3. \A i \in Sessions : /\ row[i] \in [Variants -> Rows]
                          /\ \A v \in Variants : row[i][v].status \in {"none", "pending"} /\ row[i][v].count = Blank
  BY <1>2
<1>4. NoOp \in Operations /\ NoOp.effect = Nothing /\ NoOp.moved = Nothing /\ NoOp.back = Nothing /\ ~NoOp.undone
  BY DEF NoOp, Operations, Changes, Nothing
<1>5. Typed
  <2>1. session \in [Sessions -> [place : Places, status : {"none", "active", "completed", "cancelled"}]]
    OBVIOUS
  <2>2. row \in [Sessions -> [Variants -> Rows]]
    BY <1>3
  <2>3. ops \in [Requests -> Operations] /\ proc \in [Handlers -> Jobs]
    BY <1>4, IdleOK DEF Init
  <2> QED
    BY <1>1, <2>1, <2>2, <2>3 DEF Typed
<1>6. RowsOK
  BY <1>3 DEF RowsOK, RowsFilled, RowsMeasure
<1>7. OneRunning
  <2>1. \A i \in Sessions : session[i].status = "active" => i = 1
    OBVIOUS
  <2> QED
    BY <2>1 DEF OneRunning
<1>8. OpsOK
  <2>1. \A r \in Requests : ops[r] = NoOp
    BY DEF Init
  <2> QED
    BY <2>1, <1>4, NothingTyped DEF OpsOK, OpsWithin, UndoneRight, UndoneExactly
<1>9. JobsOK
  BY IdleOK DEF Init, JobsOK
<1> QED
  BY <1>1, <1>5, <1>6, <1>7, <1>8, <1>9 DEF Inv, BooksAddUp

-----------------------------------------------------------------------------
(* Steps that change only what a handler does *)

LEMMA BeginMovementOK ==
  ASSUME Inv, NEW h \in Handlers, NEW r \in Requests, Movement(h, r)
  PROVE  Inv'
<1>1. PICK j \in ApplyJobs :
        /\ proc[h] = Idle /\ proc' = [proc EXCEPT ![h] = j] /\ UNCHANGED database
        /\ JobSound(j)
        /\ MayCorrect(h, j.corrects)
        /\ j.kind \in {"set", "count"} => \A s \in j.at : j.effect[s] = truth[s] - stock[s]
  BY MovementBegins DEF Inv
<1>2. j.op = "apply" /\ j.corrects \in SUBSET Places
  BY DEF ApplyJobs
<1>3. CorrectsAlone(h, j)
  BY <1>1, <1>2 DEF CorrectsAlone, MayCorrect, NoCorrection, Running, Busy, Others, Inv, Typed
<1>4. UndoesAlone(h, j) /\ InSession(j) /\ Measures(j)
  BY <1>1, <1>2 DEF UndoesAlone, InSession, Measures, SessionOps, Gap
<1> QED
  BY <1>1, <1>3, <1>4, JobChange DEF JobOK, Jobs

LEMMA BeginUndoOK ==
  ASSUME Inv, NEW h \in Handlers, NEW r \in Requests, BeginUndo(h, r)
  PROVE  Inv'
<1> DEFINE j == [op |-> "undo", pc |-> "read", req |-> r, read |-> Nothing, corrects |-> CorrectedBy(r)]
<1>1. j \in UndoJobs
  <2>1. ops[r].at \in SUBSET Shelves
    BY DEF Inv, Typed, Operations
  <2>2. CorrectedBy(r) \in SUBSET Places
    BY <2>1, ShelfPlace DEF CorrectedBy, Corrects
  <2>3. Nothing \in Readings
    BY DEF Nothing, Readings
  <2> QED
    BY <2>2, <2>3 DEF UndoJobs
<1>2. JobSound(j)
  BY DEF JobSound, ApplySound, UndoSound, SaveSound, BeginUndo
<1>3. UndoesAlone(h, j)
  BY DEF UndoesAlone, BeginUndo, UndoApart, Busy, Others
<1>4. CorrectsAlone(h, j)
  BY <1>1 DEF CorrectsAlone, BeginUndo, MayCorrect, NoCorrection, Running, Busy, Others, Inv, Typed, UndoJobs
<1>5. InSession(j) /\ Measures(j)
  BY DEF InSession, Measures, SessionOps
<1>6. proc' = [proc EXCEPT ![h] = j] /\ UNCHANGED database
  BY DEF BeginUndo, Begin
<1> HIDE DEF j
<1> QED
  BY <1>1, <1>2, <1>3, <1>4, <1>5, <1>6, JobChange DEF JobOK, Jobs

\* A job that is not about a movement satisfies what is asked of those.
LEMMA SessionJobOK ==
  ASSUME NEW h \in Handlers, NEW j, j.op \in {"start"} \cup SessionOps,
         InSession(j), SaveSound(j), Measures(j)
  PROVE  JobOK(h, j)
BY DEF JobOK, JobSound, ApplySound, UndoSound, UndoesAlone, CorrectsAlone, SessionOps

LEMMA ReadUndoOK == ASSUME Inv, NEW h \in Handlers, ReadUndo(h) PROVE Inv'
<1> DEFINE r == proc[h].req
           j == [proc[h] EXCEPT !.pc = "commit", !.read = [s \in ops[r].at |-> stock[s]]]
<1>1. proc[h] \in UndoJobs /\ JobOK(h, proc[h]) /\ r \in Requests
  BY JobFields DEF Inv, Typed, JobsOK, ReadUndo, At, UndoJobs
<1>2. ops[r].at \in SUBSET Shelves
  BY <1>1 DEF Inv, Typed, Operations
<1>3. [s \in ops[r].at |-> stock[s]] \in Readings
  BY <1>2 DEF Inv, Typed, Readings
<1>4. j \in UndoJobs
  BY <1>1, <1>3 DEF UndoJobs
<1>5. j.op = "undo" /\ j.req = r /\ j.corrects = proc[h].corrects /\ j.read = [s \in ops[r].at |-> stock[s]]
  BY <1>1 DEF UndoJobs
<1> SUFFICES ASSUME ~GivesUp(h) PROVE Inv'
  BY GivesUpOK
<1>6. (\A s \in ops[r].at : stock[s] - ops[r].effect[s] >= 0) /\ Goes(h, j)
  BY DEF ReadUndo
<1> HIDE DEF j
<1>7. JobSound(j)
  BY <1>1, <1>5, <1>6 DEF JobOK, JobSound, ApplySound, UndoSound, SaveSound, UndoJobs
<1>8. UndoesAlone(h, j) /\ CorrectsAlone(h, j) /\ InSession(j) /\ Measures(j)
  BY <1>1, <1>5 DEF JobOK, UndoesAlone, CorrectsAlone, InSession, Measures, SessionOps, UndoJobs
<1> QED
  BY <1>4, <1>6, <1>7, <1>8, JobChange DEF JobOK, Jobs, Goes

LEMMA BeginStartOK ==
  ASSUME Inv, NEW h \in Handlers, NEW p \in Places, NEW V \in SUBSET Variants, BeginStart(h, p, V)
  PROVE  Inv'
<1> DEFINE j == [op |-> "start", pc |-> "commit", place |-> p, scope |-> V]
<1>1. j \in StartJobs /\ JobOK(h, j)
  BY SessionJobOK DEF StartJobs, InSession, SaveSound, Measures, SessionOps
<1> QED
  BY <1>1, JobChange DEF BeginStart, Begin, Jobs

LEMMA BeginAddOK ==
  ASSUME Inv, NEW h \in Handlers, NEW i \in Sessions, NEW v \in Variants, BeginAdd(h, i, v)
  PROVE  Inv'
<1> DEFINE j == [op |-> "add", pc |-> "commit", session |-> i, variant |-> v, read |-> stock[ShelfIn(i, v)]]
<1>1. ShelfIn(i, v) \in Shelves
  BY ShelfPlace DEF ShelfIn, Inv, Typed
<1>2. j \in AddJobs
  BY <1>1 DEF AddJobs, Inv, Typed
<1>3. InSession(j)
  BY DEF BeginAdd, InSession, Others
<1>4. JobOK(h, j)
  BY <1>3, SessionJobOK DEF SaveSound, Measures, SessionOps
<1> QED
  BY <1>2, <1>4, JobChange DEF BeginAdd, Begin, Jobs

LEMMA BeginSaveOK ==
  ASSUME Inv, NEW h \in Handlers, NEW i \in Sessions, NEW v \in Variants,
         NEW c \in {Blank, truth[ShelfIn(i, v)]}, BeginSave(h, i, v, c)
  PROVE  Inv'
<1> DEFINE j == [op |-> "save", pc |-> "read", session |-> i, variant |-> v, count |-> c, now |-> 0, write |-> "-"]
<1>1. ShelfIn(i, v) \in Shelves
  BY ShelfPlace DEF ShelfIn, Inv, Typed
<1>2. c \in Number
  BY <1>1 DEF Number, Inv, Typed
<1>3. j \in SaveJobs
  BY <1>2 DEF SaveJobs
<1>4. InSession(j)
  BY DEF BeginSave, InSession, Others
<1>5. JobOK(h, j)
  BY <1>4, SessionJobOK DEF SaveSound, Measures, SessionOps
<1> QED
  BY <1>3, <1>5, JobChange DEF BeginSave, Begin, Jobs

LEMMA ReadSaveOK == ASSUME Inv, NEW h \in Handlers, ReadSave(h) PROVE Inv'
<1> DEFINE i == proc[h].session
           v == proc[h].variant
           s == ShelfIn(i, v)
           c == IF CountsAtOnce /\ proc[h].count # Blank THEN truth[s] ELSE proc[h].count
           write == IF c = Blank THEN "clear" ELSE IF MovedSince(row[i][v], stock[s]) THEN "flag" ELSE "count"
           j == [proc[h] EXCEPT !.pc = "commit", !.now = stock[s], !.count = c, !.write = write]
<1>1. proc[h] \in SaveJobs /\ JobOK(h, proc[h]) /\ i \in Sessions /\ v \in Variants /\ proc[h].op = "save"
  BY JobFields DEF Inv, Typed, JobsOK, ReadSave, At, SaveJobs
<1>2. s \in Shelves
  BY <1>1, ShelfPlace DEF ShelfIn, Inv, Typed
<1>3. c \in Number /\ stock[s] \in Nat /\ truth[s] \in Nat
  BY <1>1, <1>2 DEF Number, Inv, Typed, SaveJobs
<1>4. write # "-" /\ (write = "count" => c # Blank)
  OBVIOUS
<1>5. Careful /\ write = "count" => c - stock[s] = Gap(s)
  BY <1>4 DEF Careful, Gap
<1>6. write \in {"-", "clear", "flag", "count"}
  OBVIOUS
<1> SUFFICES ASSUME ~GivesUp(h) PROVE Inv'
  BY GivesUpOK
<1>7. Goes(h, j)
  BY DEF ReadSave
<1> HIDE DEF write, c
<1>8. j \in SaveJobs
  BY <1>1, <1>3, <1>6 DEF SaveJobs
<1>9. j.op = "save" /\ j.session = i /\ j.variant = v /\ j.count = c /\ j.now = stock[s] /\ j.write = write
  BY <1>1 DEF SaveJobs
<1> HIDE DEF j
<1>10. InSession(j)
  BY <1>1, <1>9 DEF JobOK, InSession
<1>11. JobOK(h, j)
  BY <1>4, <1>5, <1>9, <1>10, SessionJobOK DEF SaveSound, Measures, SessionOps
<1> QED
  BY <1>7, <1>8, <1>11, JobChange DEF Goes, Jobs

LEMMA BeginCompleteOK ==
  ASSUME Inv, NEW h \in Handlers, NEW i \in Sessions, BeginComplete(h, i)
  PROVE  Inv'
<1> DEFINE j == [op |-> "complete", pc |-> "read", session |-> i]
<1>1. InSession(j)
  BY DEF BeginComplete, InSession, Others
<1>2. JobOK(h, j) /\ j \in CompleteJobs
  BY <1>1, SessionJobOK DEF SaveSound, Measures, SessionOps, CompleteJobs
<1> QED
  BY <1>2, JobChange DEF BeginComplete, Begin, Jobs

\* A completion goes on in the same job.
LEMMA CompleteGoesOn ==
  ASSUME Inv, NEW h \in Handlers, proc[h].op = "complete", NEW pc \in {"mark", "commit"}, Step(h, pc)
  PROVE  Inv'
<1> DEFINE j == [proc[h] EXCEPT !.pc = pc]
<1>1. proc[h] \in CompleteJobs /\ JobOK(h, proc[h])
  BY JobFields DEF Inv, Typed, JobsOK
<1>2. j \in CompleteJobs /\ j.op = "complete" /\ j.session = proc[h].session
  BY <1>1 DEF CompleteJobs
<1> HIDE DEF j
<1>3. JobOK(h, j)
  BY <1>1, <1>2, SessionJobOK DEF JobOK, InSession, SaveSound, Measures, SessionOps
<1> QED
  BY <1>2, <1>3, JobChange DEF Step, Goes, Jobs, j

LEMMA ReadCompleteOK == ASSUME Inv, NEW h \in Handlers, ReadComplete(h) PROVE Inv'
<1>1. CASE GivesUp(h)
  BY <1>1, GivesUpOK
<1>2. CASE Step(h, "mark") \/ Step(h, "commit")
  BY <1>2, CompleteGoesOn DEF ReadComplete, At
<1> QED
  BY <1>1, <1>2 DEF ReadComplete

LEMMA BeginCancelOK ==
  ASSUME Inv, NEW h \in Handlers, NEW i \in Sessions, BeginCancel(h, i)
  PROVE  Inv'
<1> DEFINE j == [op |-> "cancel", pc |-> "commit", session |-> i]
<1>1. InSession(j)
  BY DEF BeginCancel, InSession, Others
<1>2. JobOK(h, j) /\ j \in CancelJobs
  BY <1>1, SessionJobOK DEF SaveSound, Measures, SessionOps, CancelJobs
<1> QED
  BY <1>2, JobChange DEF BeginCancel, Begin, Jobs

-----------------------------------------------------------------------------
(* Steps that change only the rows of a session *)

\* The jobs of the others when a handler ends and neither the stock, the
\* shelves, the sessions nor the operations change.
LEMMA RowsOnly ==
  ASSUME Inv, NEW h \in Handlers, Ends(h), UNCHANGED <<stock, ledger, truth, session, ops>>,
         row' \in [Sessions -> [Variants -> Rows]], RowsOK'
  PROVE  Inv'
<1>1. Typed'
  BY JobEnds DEF Inv, Typed
<1>2. OneRunning' /\ OpsOK' /\ BooksAddUp'
  BY DEF Inv, OneRunning, OpsOK, OpsWithin, UndoneRight, UndoneExactly, BooksAddUp
<1>3. JobsOK'
  <2> SUFFICES ASSUME NEW k \in Handlers PROVE JobOK(k, proc[k])'
    BY DEF JobsOK
  <2>1. \A m \in Handlers : proc'[m] = IF m = h THEN Idle ELSE proc[m]
    BY JobEnds DEF Inv
  <2>2. JobOK(k, proc'[k])
    BY <2>1, IdleOK DEF Inv, JobsOK
  <2>3. JobSound(proc[k])'
    BY <2>2, SoundStays DEF JobOK
  <2>4. UndoesAlone(k, proc[k])'
    BY <2>1, <2>2, IdleOK DEF JobOK, UndoesAlone, Others
  <2>5. InSession(proc[k])'
    BY <2>1, <2>2, IdleOK DEF JobOK, InSession, Others, SessionOps
  <2>6. CorrectsAlone(k, proc[k])'
    BY <2>1, <2>2, IdleOK DEF JobOK, CorrectsAlone, Others
  <2>7. Measures(proc[k])'
    BY <2>1, <2>2 DEF JobOK, Measures, Gap, ShelfIn
  <2> QED
    BY <2>3, <2>4, <2>5, <2>6, <2>7 DEF JobOK
<1> QED
  BY <1>1, <1>2, <1>3 DEF Inv

\* One row of one session is written: what is asked of the new row.
RowOK(i, v, it) ==
  /\ it \in Rows
  /\ it.status \in {"counted", "applied"} => it.count # Blank
  /\ it.status = "recount_required" => it.conflict # Blank
  /\ Careful /\ session[i].status = "active" /\ it.count # Blank => it.count - it.baseline = Gap(ShelfIn(i, v))

LEMMA RowWritten ==
  ASSUME Inv, NEW i \in Sessions,
         UNCHANGED <<stock, truth, session>>,
         row' \in [Sessions -> [Variants -> Rows]],
         \A k \in Sessions, v \in Variants : row'[k][v] = row[k][v] \/ (k = i /\ RowOK(i, v, row'[k][v]))
  PROVE  RowsOK'
<1>1. \A k \in Sessions, v \in Variants : ShelfIn(k, v)' = ShelfIn(k, v) /\ Gap(ShelfIn(k, v))' = Gap(ShelfIn(k, v))
  BY DEF ShelfIn, Gap
<1>2. RowsFilled'
  BY DEF Inv, RowsOK, RowsFilled, RowOK
<1>3. RowsMeasure'
  BY <1>1 DEF Inv, RowsOK, RowsMeasure, RowOK
<1> QED
  BY <1>2, <1>3 DEF RowsOK

LEMMA CommitAddOK == ASSUME Inv, NEW h \in Handlers, CommitAdd(h) PROVE Inv'
<1> DEFINE i == proc[h].session
           v == proc[h].variant
           it == [NoRow EXCEPT !.status = "pending", !.baseline = proc[h].read]
<1> SUFFICES ASSUME ~GivesUp(h) PROVE Inv'
  BY GivesUpOK
<1>1. proc[h] \in AddJobs
  BY JobFields DEF Inv, Typed, CommitAdd, At
<1>2. i \in Sessions /\ v \in Variants /\ proc[h].read \in Nat
  BY <1>1 DEF AddJobs
<1>3. it \in Rows /\ it.status = "pending" /\ it.count = Blank
  BY <1>2 DEF NoRow, Rows, RowStates, Number, Blank
<1>4. RowOK(i, v, it)
  BY <1>3 DEF RowOK
<1>5. row' = [row EXCEPT ![i][v] = it] /\ Ends(h) /\ UNCHANGED <<stock, ledger, truth, session, ops>>
  BY DEF CommitAdd
<1> HIDE DEF it, i, v
<1>6. row' \in [Sessions -> [Variants -> Rows]]
  BY <1>2, <1>3, <1>5 DEF Inv, Typed
<1>7. \A k \in Sessions, w \in Variants : row'[k][w] = row[k][w] \/ (k = i /\ RowOK(i, w, row'[k][w]))
  BY <1>2, <1>4, <1>5 DEF Inv, Typed
<1> QED
  BY <1>2, <1>5, <1>6, <1>7, RowWritten, RowsOnly

LEMMA CommitSaveOK == ASSUME Inv, NEW h \in Handlers, CommitSave(h) PROVE Inv'
<1> DEFINE p == proc[h]
           i == p.session
           v == p.variant
           it == row'[i][v]
<1>1. p \in SaveJobs /\ JobOK(h, p) /\ p.op = "save" /\ p.pc = "commit"
  BY JobFields DEF Inv, Typed, JobsOK, CommitSave, At
<1>2. i \in Sessions /\ v \in Variants /\ p.now \in Nat /\ p.count \in Number
  BY <1>1 DEF SaveJobs
<1>3. row[i][v] \in Rows
  BY <1>2 DEF Inv, Typed
<1>4. CASE p.write = "clear"
  <2>1. row' = [row EXCEPT ![i][v] = [status |-> "pending", baseline |-> p.now, count |-> Blank, conflict |-> Blank]]
    BY <1>4 DEF CommitSave
  <2>2. [status |-> "pending", baseline |-> p.now, count |-> Blank, conflict |-> Blank] \in Rows
    BY <1>2 DEF Rows, RowStates, Number
  <2>3. RowOK(i, v, [status |-> "pending", baseline |-> p.now, count |-> Blank, conflict |-> Blank])
    BY <2>2 DEF RowOK
  <2>4. row' \in [Sessions -> [Variants -> Rows]]
    BY <1>2, <2>1, <2>2 DEF Inv, Typed
  <2>5. \A k \in Sessions, w \in Variants : row'[k][w] = row[k][w] \/ (k = i /\ RowOK(i, w, row'[k][w]))
    BY <1>2, <2>1, <2>3 DEF Inv, Typed
  <2> QED
    BY <1>2, <2>4, <2>5, RowWritten, RowsOnly DEF CommitSave
<1>5. CASE p.write = "flag"
  <2> DEFINE new == [row[i][v] EXCEPT !.status = "recount_required", !.conflict = p.now]
  <2>1. row' = [row EXCEPT ![i][v] = new]
    BY <1>5, <1>2, <1>3 DEF CommitSave, Inv, Typed
  <2>2. new \in Rows
    BY <1>2, <1>3 DEF Rows, RowStates, Number
  <2>3. new.status = "recount_required" /\ new.conflict = p.now /\ new.count = row[i][v].count
        /\ new.baseline = row[i][v].baseline
    BY <1>3 DEF Rows
  <2>4. p.now # Blank
    BY <1>2 DEF Blank
  <2> HIDE DEF new
  <2>5. RowOK(i, v, new)
    BY <1>2, <2>2, <2>3, <2>4 DEF RowOK, Inv, RowsOK, RowsMeasure
  <2>6. row' \in [Sessions -> [Variants -> Rows]]
    BY <1>2, <2>1, <2>2 DEF Inv, Typed
  <2>7. \A k \in Sessions, w \in Variants : row'[k][w] = row[k][w] \/ (k = i /\ RowOK(i, w, row'[k][w]))
    BY <1>2, <2>1, <2>5 DEF Inv, Typed
  <2> QED
    BY <1>2, <2>6, <2>7, RowWritten, RowsOnly DEF CommitSave
<1>6. CASE p.write = "count"
  <2> DEFINE new == [status |-> "counted", baseline |-> p.now, count |-> p.count, conflict |-> Blank]
  <2>1. row' = [row EXCEPT ![i][v] = new]
    BY <1>6 DEF CommitSave
  <2>2. new \in Rows
    BY <1>2 DEF Rows, RowStates, Number
  <2>3. new.status = "counted" /\ new.count = p.count /\ new.baseline = p.now
    OBVIOUS
  <2> HIDE DEF new
  <2>4. p.count # Blank
    BY <1>1, <1>6 DEF JobOK, JobSound, SaveSound
  <2>5. Careful /\ session[i].status = "active" => p.count - p.now = Gap(ShelfIn(i, v))
    BY <1>1, <1>6 DEF JobOK, Measures
  <2>6. RowOK(i, v, new)
    BY <2>2, <2>3, <2>4, <2>5 DEF RowOK
  <2>7. row' \in [Sessions -> [Variants -> Rows]]
    BY <1>2, <2>1, <2>2 DEF Inv, Typed
  <2>8. \A k \in Sessions, w \in Variants : row'[k][w] = row[k][w] \/ (k = i /\ RowOK(i, w, row'[k][w]))
    BY <1>2, <2>1, <2>6 DEF Inv, Typed
  <2> QED
    BY <1>2, <2>7, <2>8, RowWritten, RowsOnly DEF CommitSave
<1>7. p.write # "-"
  BY <1>1 DEF JobOK, JobSound, SaveSound
<1> QED
  BY <1>1, <1>4, <1>5, <1>6, <1>7 DEF SaveJobs

LEMMA MarkConflictsOK == ASSUME Inv, NEW h \in Handlers, MarkConflicts(h) PROVE Inv'
<1> DEFINE i == proc[h].session
           new(v) == [row[i][v] EXCEPT !.status = "recount_required", !.conflict = stock[ShelfIn(i, v)]]
<1>1. proc[h] \in CompleteJobs
  BY JobFields DEF Inv, Typed, MarkConflicts, At
<1>2. i \in Sessions
  BY <1>1 DEF CompleteJobs
<1>3. row' = [row EXCEPT ![i] = [v \in Variants |-> IF v \in Changed(i) THEN new(v) ELSE row[i][v]]]
  BY DEF MarkConflicts
<1>4. ASSUME NEW v \in Variants PROVE new(v) \in Rows /\ RowOK(i, v, new(v))
  <2>1. row[i][v] \in Rows /\ stock[ShelfIn(i, v)] \in Nat
    BY <1>2, ShelfPlace DEF ShelfIn, Inv, Typed
  <2>2. new(v) \in Rows
    BY <2>1 DEF Rows, RowStates, Number
  <2>3. new(v).status = "recount_required" /\ new(v).conflict = stock[ShelfIn(i, v)]
        /\ new(v).count = row[i][v].count /\ new(v).baseline = row[i][v].baseline
    BY <2>1 DEF Rows
  <2>4. stock[ShelfIn(i, v)] # Blank
    BY <2>1 DEF Blank
  <2> HIDE DEF new
  <2> QED
    BY <1>2, <2>2, <2>3, <2>4 DEF RowOK, Inv, RowsOK, RowsMeasure
<1> HIDE DEF new
<1>5. row' \in [Sessions -> [Variants -> Rows]]
  BY <1>2, <1>3, <1>4 DEF Inv, Typed
<1>6. \A k \in Sessions, w \in Variants : row'[k][w] = row[k][w] \/ (k = i /\ RowOK(i, w, row'[k][w]))
  BY <1>2, <1>3, <1>4 DEF Inv, Typed
<1> QED
  BY <1>2, <1>5, <1>6, RowWritten, RowsOnly DEF MarkConflicts

-----------------------------------------------------------------------------
(* Steps that change a session *)

\* The jobs of the others when a handler ends and no operation changes.
LEMMA OthersOK ==
  ASSUME Inv, NEW h \in Handlers, Ends(h), UNCHANGED ops, NEW k \in Handlers,
         InSession(proc[k])', CorrectsAlone(k, proc[k])', Measures(proc[k])'
  PROVE  JobOK(k, proc[k])'
<1>1. \A m \in Handlers : proc'[m] = IF m = h THEN Idle ELSE proc[m]
  BY JobEnds DEF Inv
<1>2. JobOK(k, proc'[k])
  BY <1>1, IdleOK DEF Inv, JobsOK
<1>3. JobSound(proc[k])'
  BY <1>2, SoundStays DEF JobOK
<1>4. UndoesAlone(k, proc[k])'
  BY <1>1, <1>2, IdleOK DEF JobOK, UndoesAlone, Others
<1> QED
  BY <1>3, <1>4 DEF JobOK

LEMMA CommitStartOK == ASSUME Inv, NEW h \in Handlers, CommitStart(h) PROVE Inv'
<1> DEFINE p == proc[h].place
<1> SUFFICES ASSUME ~GivesUp(h) PROVE Inv'
  BY GivesUpOK
<1>1. proc[h] \in StartJobs
  BY JobFields DEF Inv, Typed, CommitStart, At
<1>2. p \in Places /\ proc[h].scope \in SUBSET Variants
  BY <1>1 DEF StartJobs
<1>3. PICK i \in Sessions :
        /\ session[i].status = "none"
        /\ session' = [session EXCEPT ![i] = [status |-> "active", place |-> p]]
        /\ row' = [row EXCEPT ![i] = Listing(p, proc[h].scope)]
  BY DEF CommitStart
<1>4. ~Taken(p) /\ (CorrectionsApart => NoCorrection(h, {p})) /\ Ends(h) /\ UNCHANGED <<stock, ledger, truth, ops>>
  BY DEF CommitStart
<1>5. \A k \in Sessions : session[k].status = "active" => session[k].place # p
  BY <1>4 DEF Taken, Running
<1>6. \A k \in Sessions : session'[k] = IF k = i THEN [status |-> "active", place |-> p] ELSE session[k]
  BY <1>3 DEF Inv, Typed
<1>7. \A k \in Sessions : row'[k] = IF k = i THEN Listing(p, proc[h].scope) ELSE row[k]
  BY <1>3 DEF Inv, Typed
<1>8. /\ Listing(p, proc[h].scope) \in [Variants -> Rows]
      /\ \A v \in Variants : /\ Listing(p, proc[h].scope)[v].status \in {"none", "pending"}
                             /\ Listing(p, proc[h].scope)[v].count = Blank
  BY <1>2, ListingTyped DEF Inv, Typed
<1>9. Typed'
  <2>1. session' \in [Sessions -> [place : Places, status : {"none", "active", "completed", "cancelled"}]]
    BY <1>2, <1>3 DEF Inv, Typed
  <2>2. row' \in [Sessions -> [Variants -> Rows]]
    BY <1>3, <1>8 DEF Inv, Typed
  <2> QED
    BY <1>4, <2>1, <2>2, JobEnds DEF Inv, Typed
<1>10. RowsOK'
  <2>1. \A k \in Sessions \ {i} : session'[k] = session[k] /\ row'[k] = row[k]
    BY <1>6, <1>7
  <2>2. \A k \in Sessions \ {i}, v \in Variants : ShelfIn(k, v)' = ShelfIn(k, v) /\ Gap(ShelfIn(k, v))' = Gap(ShelfIn(k, v))
    BY <2>1, <1>4 DEF ShelfIn, Gap
  <2>3. RowsFilled'
    BY <1>7, <1>8 DEF Inv, RowsOK, RowsFilled
  <2>4. RowsMeasure'
    BY <2>1, <2>2, <1>7, <1>8 DEF Inv, RowsOK, RowsMeasure
  <2> QED
    BY <2>3, <2>4 DEF RowsOK
<1>11. OneRunning'
  BY <1>5, <1>6 DEF Inv, OneRunning
<1>12. OpsOK' /\ BooksAddUp'
  BY <1>4 DEF Inv, OpsOK, OpsWithin, UndoneRight, UndoneExactly, BooksAddUp
<1>13. JobsOK'
  <2> SUFFICES ASSUME NEW k \in Handlers PROVE JobOK(k, proc[k])'
    BY DEF JobsOK
  <2>1. \A m \in Handlers : proc'[m] = IF m = h THEN Idle ELSE proc[m]
    BY <1>4, JobEnds DEF Inv
  <2>2. JobOK(k, proc'[k])
    BY <2>1, IdleOK DEF Inv, JobsOK
  <2>3. InSession(proc[k])'
    <3>1. proc'[k].op \in SessionOps => proc'[k].session \in Sessions /\ proc'[k].session # i
      <4>1. proc'[k] \in Jobs
        BY <1>9 DEF Typed
      <4>2. proc'[k].op \in SessionOps => proc'[k].session \in Sessions
        BY <4>1, JobFields DEF SessionOps, AddJobs, SaveJobs, CompleteJobs, CancelJobs
      <4> QED
        BY <2>2, <4>2, <1>3 DEF JobOK, InSession
    <3> QED
      BY <2>1, <2>2, <3>1, <1>6, IdleOK DEF JobOK, InSession
  <2>4. CorrectsAlone(k, proc[k])'
    <3>1. CorrectionsApart /\ proc'[k].op \in {"apply", "undo"} => p \notin proc'[k].corrects
      BY <1>4, <2>1, IdleOK DEF NoCorrection, Busy
    <3>2. ASSUME CorrectionsApart, proc'[k].op \in {"apply", "undo"}, NEW q \in proc'[k].corrects
          PROVE  \A j \in Sessions : session'[j].status = "active" => session'[j].place # q
      BY <2>2, <3>1, <3>2, <1>6 DEF JobOK, CorrectsAlone
    <3> QED
      BY <2>1, <2>2, <3>2, IdleOK DEF JobOK, CorrectsAlone, Others
  <2>5. Measures(proc[k])'
    <3>1. proc'[k].op = "save" => session'[proc'[k].session] = session[proc'[k].session]
      <4>1. proc'[k] \in Jobs
        BY <1>9 DEF Typed
      <4>2. proc'[k].op = "save" => proc'[k].session \in Sessions
        BY <4>1, JobFields DEF SaveJobs
      <4>3. proc'[k].op = "save" => proc'[k].session # i
        BY <2>2, <1>3 DEF JobOK, InSession, SessionOps
      <4> QED
        BY <4>2, <4>3, <1>6
    <3> QED
      BY <2>2, <3>1, <1>4 DEF JobOK, Measures, Gap, ShelfIn
  <2> QED
    BY <1>4, <2>3, <2>4, <2>5, OthersOK
<1> QED
  BY <1>9, <1>10, <1>11, <1>12, <1>13 DEF Inv

LEMMA CommitCancelOK == ASSUME Inv, NEW h \in Handlers, CommitCancel(h) PROVE Inv'
<1> DEFINE i == proc[h].session
<1>1. proc[h] \in CancelJobs /\ JobOK(h, proc[h]) /\ proc[h].op = "cancel"
  BY JobFields DEF Inv, Typed, JobsOK, CommitCancel, At
<1>2. i \in Sessions
  BY <1>1 DEF CancelJobs
<1>3. session' = [session EXCEPT ![i].status = "cancelled"] /\ Ends(h) /\ UNCHANGED <<stock, ledger, truth, row, ops>>
  BY DEF CommitCancel
<1>4. /\ \A k \in Sessions : session'[k].place = session[k].place
      /\ \A k \in Sessions \ {i} : session'[k] = session[k]
      /\ session'[i].status = "cancelled"
      /\ session' \in [Sessions -> [place : Places, status : {"none", "active", "completed", "cancelled"}]]
  BY <1>2, <1>3 DEF Inv, Typed
<1> HIDE DEF i
<1>5. Typed'
  BY <1>3, <1>4, JobEnds DEF Inv, Typed
<1>6. RowsOK'
  <2>1. \A k \in Sessions, v \in Variants : ShelfIn(k, v)' = ShelfIn(k, v) /\ Gap(ShelfIn(k, v))' = Gap(ShelfIn(k, v))
    BY <1>3, <1>4 DEF ShelfIn, Gap
  <2>2. RowsFilled'
    BY <1>3 DEF Inv, RowsOK, RowsFilled
  <2>3. RowsMeasure'
    BY <2>1, <1>3, <1>4 DEF Inv, RowsOK, RowsMeasure
  <2> QED
    BY <2>2, <2>3 DEF RowsOK
<1>7. OneRunning' /\ OpsOK' /\ BooksAddUp'
  <2>1. OneRunning'
    BY <1>4 DEF Inv, OneRunning
  <2> QED
    BY <2>1, <1>3 DEF Inv, OpsOK, OpsWithin, UndoneRight, UndoneExactly, BooksAddUp
<1>8. JobsOK'
  <2> SUFFICES ASSUME NEW k \in Handlers PROVE JobOK(k, proc[k])'
    BY DEF JobsOK
  <2>1. \A m \in Handlers : proc'[m] = IF m = h THEN Idle ELSE proc[m]
    BY <1>3, JobEnds DEF Inv
  <2>2. JobOK(k, proc'[k])
    BY <2>1, IdleOK DEF Inv, JobsOK
  <2>3. proc'[k] \in Jobs
    BY <1>5 DEF Typed
  <2>4. proc'[k].op \in SessionOps => proc'[k].session \in Sessions
    BY <2>3, JobFields DEF SessionOps, AddJobs, SaveJobs, CompleteJobs, CancelJobs
  <2>5. InSession(proc[k])'
    BY <2>2, <2>4, <1>4 DEF JobOK, InSession
  <2>6. CorrectsAlone(k, proc[k])'
    BY <2>1, <2>2, <1>4, IdleOK DEF JobOK, CorrectsAlone, Others
  <2>7. Measures(proc[k])'
    <3>1. proc'[k].op = "save" =>
            /\ session'[proc'[k].session].place = session[proc'[k].session].place
            /\ session'[proc'[k].session].status = "active" => session[proc'[k].session].status = "active"
      BY <2>4, <1>4 DEF SessionOps
    <3> QED
      BY <2>2, <3>1, <1>3 DEF JobOK, Measures, Gap, ShelfIn
  <2> QED
    BY <1>3, <2>5, <2>6, <2>7, OthersOK
<1> QED
  BY <1>5, <1>6, <1>7, <1>8 DEF Inv

LEMMA CommitCompleteOK == ASSUME Inv, NEW h \in Handlers, CommitComplete(h) PROVE Inv'
<1> DEFINE i == proc[h].session
           p == session[i].place
           final == [v \in Variants |-> IF row[i][v].count = Blank THEN stock[<<p, v>>] ELSE row[i][v].count]
           delta == [s \in Shelves |-> IF s[1] = p THEN final[s[2]] - stock[s] ELSE 0]
           applied == [v \in Variants |->
             IF row[i][v].status = "none" THEN NoRow
             ELSE [status |-> "applied", count |-> final[v], conflict |-> Blank,
                   baseline |-> IF v \in Counted(i) THEN row[i][v].baseline ELSE stock[<<p, v>>]]]
<1>1. proc[h] \in CompleteJobs /\ JobOK(h, proc[h]) /\ proc[h].op = "complete"
  BY JobFields DEF Inv, Typed, JobsOK, CommitComplete, At
<1>2. i \in Sessions /\ p \in Places
  BY <1>1 DEF CompleteJobs, Inv, Typed
<1> SUFFICES ASSUME Consistent(i) PROVE Inv'
  BY <1>1, GivesUpOK, CompleteGoesOn DEF CommitComplete
<1>3. session[i].status = "active"
  BY DEF Consistent
<1>4. /\ stock' = [s \in Shelves |-> IF s[1] = p THEN final[s[2]] ELSE stock[s]]
      /\ ledger' = Plus(ledger, delta)
      /\ row' = [row EXCEPT ![i] = applied]
      /\ session' = [session EXCEPT ![i].status = "completed"]
      /\ Ends(h) /\ UNCHANGED <<truth, ops>>
  BY DEF CommitComplete
<1>5. \A v \in Variants : row[i][v] \in Rows /\ stock[<<p, v>>] \in Nat
  BY <1>2, ShelfPlace DEF Inv, Typed
<1>6. final \in [Variants -> Nat]
  BY <1>5 DEF Rows, Number
<1>7. \A s \in Shelves : stock'[s] = IF s[1] = p THEN final[s[2]] ELSE stock[s]
  BY <1>4
<1>8. stock' \in [Shelves -> Nat] /\ delta \in [Shelves -> Int]
  <2>1. \A s \in Shelves : stock[s] \in Nat /\ final[s[2]] \in Nat
    BY <1>6, ShelfPlace DEF Inv, Typed
  <2> HIDE DEF final
  <2> QED
    BY <1>4, <2>1, SMTT(30)
<1>9. ledger' \in [Shelves -> Int] /\ BooksAddUp'
  <2>1. \A s \in Shelves : stock[s] \in Nat /\ ledger[s] = stock[s] /\ (s[1] = p => final[s[2]] \in Nat)
    BY <1>6, ShelfPlace DEF Inv, Typed, BooksAddUp
  <2>2. \A s \in Shelves : delta[s] = IF s[1] = p THEN final[s[2]] - stock[s] ELSE 0
    OBVIOUS
  <2> HIDE DEF delta, final
  <2>3. ledger' = [s \in Shelves |-> ledger[s] + delta[s]]
    BY <1>4 DEF Plus
  <2>4. \A s \in Shelves : ledger'[s] = stock'[s]
    BY <2>1, <2>2, <2>3, <1>7
  <2> QED
    BY <1>8, <2>3, <2>4, <1>4 DEF BooksAddUp
<1>10. applied \in [Variants -> Rows] /\ \A v \in Variants :
          applied[v].status \in {"none", "applied"} /\ (applied[v].status = "applied" => applied[v].count # Blank)
  <2> SUFFICES ASSUME NEW v \in Variants
               PROVE  /\ applied[v] \in Rows /\ applied[v].status \in {"none", "applied"}
                      /\ applied[v].status = "applied" => applied[v].count # Blank
    OBVIOUS
  <2>1. NoRow \in Rows /\ NoRow.status = "none"
    BY DEF NoRow, Rows, RowStates, Number, Blank
  <2>2. final[v] \in Nat /\ row[i][v].baseline \in Nat
    BY <1>5, <1>6 DEF Rows
  <2> QED
    BY <1>5, <2>1, <2>2, SMTT(30) DEF Rows, RowStates, Number, Blank
<1> HIDE DEF applied, delta
<1>11. /\ \A k \in Sessions : session'[k].place = session[k].place
       /\ \A k \in Sessions \ {i} : session'[k] = session[k]
       /\ session'[i].status = "completed"
       /\ session' \in [Sessions -> [place : Places, status : {"none", "active", "completed", "cancelled"}]]
  BY <1>2, <1>4 DEF Inv, Typed
<1>12. \A k \in Sessions : row'[k] = IF k = i THEN applied ELSE row[k]
  BY <1>4 DEF Inv, Typed
<1>13. Typed'
  <2>1. row' \in [Sessions -> [Variants -> Rows]]
    BY <1>2, <1>4, <1>10 DEF Inv, Typed
  <2> QED
    BY <1>4, <1>8, <1>9, <1>11, <2>1, JobEnds DEF Inv, Typed
\* The books of no other place change, and no other session of the place runs.
<1>14. \A s \in Shelves : s[1] # p => stock'[s] = stock[s] /\ truth'[s] = truth[s]
  BY <1>4, <1>7
<1>15. \A k \in Sessions \ {i} : session[k].status = "active" => session[k].place # p
  BY <1>2, <1>3 DEF Inv, OneRunning
<1>16. RowsOK'
  <2>1. RowsFilled'
    BY <1>10, <1>12 DEF Inv, RowsOK, RowsFilled
  <2>2. RowsMeasure'
    <3> SUFFICES ASSUME Careful, NEW k \in Sessions, NEW v \in Variants,
                        session'[k].status = "active", row'[k][v].count # Blank
                 PROVE  row'[k][v].count - row'[k][v].baseline = Gap(ShelfIn(k, v))'
      BY DEF RowsMeasure, Careful
    <3>1. k # i /\ session[k].status = "active" /\ row'[k] = row[k] /\ session[k].place # p
      BY <1>11, <1>12, <1>15
    <3>2. ShelfIn(k, v) \in Shelves /\ ShelfIn(k, v)[1] # p /\ ShelfIn(k, v)' = ShelfIn(k, v)
      BY <3>1, <1>11, ShelfPlace DEF ShelfIn, Inv, Typed
    <3>3. row[k][v].count - row[k][v].baseline = Gap(ShelfIn(k, v))
      BY <3>1 DEF Inv, RowsOK, RowsMeasure
    <3> QED
      BY <3>1, <3>2, <3>3, <1>14 DEF Gap
  <2> QED
    BY <2>1, <2>2 DEF RowsOK
<1>17. OneRunning' /\ OpsOK'
  <2>1. OneRunning'
    BY <1>11 DEF Inv, OneRunning
  <2> QED
    BY <2>1, <1>4 DEF Inv, OpsOK, OpsWithin, UndoneRight, UndoneExactly
<1>18. JobsOK'
  <2> SUFFICES ASSUME NEW k \in Handlers PROVE JobOK(k, proc[k])'
    BY DEF JobsOK
  <2>1. \A m \in Handlers : proc'[m] = IF m = h THEN Idle ELSE proc[m]
    BY <1>4, JobEnds DEF Inv
  <2>2. JobOK(k, proc'[k]) /\ proc'[k] \in Jobs
    BY <2>1, <1>13, IdleOK DEF Inv, JobsOK, Typed
  <2>3. proc'[k].op \in SessionOps => proc'[k].session \in Sessions
    BY <2>2, JobFields DEF SessionOps, AddJobs, SaveJobs, CompleteJobs, CancelJobs
  <2>4. InSession(proc[k])'
    BY <2>2, <2>3, <1>11 DEF JobOK, InSession
  <2>5. CorrectsAlone(k, proc[k])'
    BY <2>1, <2>2, <1>11, IdleOK DEF JobOK, CorrectsAlone, Others
  <2>6. Measures(proc[k])'
    <3>1. ASSUME Careful, proc'[k].op = "save", proc'[k].write = "count",
                 session'[proc'[k].session].status = "active"
          PROVE  proc'[k].count - proc'[k].now = Gap(ShelfIn(proc[k].session, proc[k].variant))'
      <4> DEFINE j == proc'[k]
                 s == ShelfIn(j.session, j.variant)
      <4>1. j.session \in Sessions \ {i} /\ session[j.session].status = "active" /\ j.variant \in Variants
        BY <3>1, <2>2, <2>3, <1>11, JobFields DEF SessionOps, SaveJobs
      <4>2. s \in Shelves /\ s[1] # p /\ session'[j.session].place = session[j.session].place
        BY <4>1, <1>11, <1>15, ShelfPlace DEF ShelfIn, Inv, Typed
      <4>3. j.count - j.now = truth[s] - stock[s]
        BY <3>1, <4>1, <2>2 DEF JobOK, Measures, Gap
      <4> QED
        BY <4>2, <4>3, <1>14 DEF Gap, ShelfIn
    <3>2. ASSUME Careful, proc'[k].op = "apply", proc'[k].kind \in {"set", "count"}, NEW s \in proc'[k].at
          PROVE  proc'[k].effect[s] = Gap(s)'
      <4>1. proc'[k] \in ApplyJobs
        BY <3>2, <2>2, JobFields
      <4>2. s \in Shelves /\ s[1] \in proc'[k].corrects
        BY <3>2, <4>1, <2>2 DEF ApplyJobs, JobOK, JobSound, ApplySound, Corrects
      <4>3. s[1] # p
        BY <3>2, <4>2, <2>2, <1>2, <1>3 DEF JobOK, CorrectsAlone, Careful
      <4> QED
        BY <3>2, <2>2, <4>2, <4>3, <1>14 DEF JobOK, Measures, Gap
    <3> QED
      BY <3>1, <3>2 DEF Measures, Careful
  <2> QED
    BY <1>4, <2>4, <2>5, <2>6, OthersOK
<1> QED
  BY <1>9, <1>13, <1>16, <1>17, <1>18 DEF Inv

-----------------------------------------------------------------------------
(* Steps that change the books and the operations *)

\* Books and shelves move together where the books are not corrected, so
\* every count still measures its shelf.
LEMMA BooksMove ==
  ASSUME Inv, NEW h \in Handlers, Ends(h), UNCHANGED <<session, row>>,
         proc[h].op \in {"apply", "undo"},
         Careful => \A s \in Shelves : s[1] \notin proc[h].corrects => truth'[s] - stock'[s] = truth[s] - stock[s]
  PROVE  /\ RowsOK' /\ OneRunning'
         /\ \A k \in Handlers : InSession(proc[k])' /\ CorrectsAlone(k, proc[k])' /\ Measures(proc[k])'
<1>1. \A m \in Handlers : proc'[m] = IF m = h THEN Idle ELSE proc[m]
  BY JobEnds DEF Inv
<1>2. \A m \in Handlers : JobOK(m, proc'[m]) /\ proc'[m] \in Jobs
  BY <1>1, IdleOK DEF Inv, JobsOK, Typed
<1>3. Careful => \A k \in Sessions : session[k].status = "active" => session[k].place \notin proc[h].corrects
  BY DEF Inv, JobsOK, JobOK, CorrectsAlone, Careful
<1>4. RowsOK' /\ OneRunning'
  <2>1. RowsFilled' /\ OneRunning'
    BY DEF Inv, RowsOK, RowsFilled, OneRunning
  <2>2. RowsMeasure'
    <3> SUFFICES ASSUME Careful, NEW k \in Sessions, NEW v \in Variants,
                        session[k].status = "active", row[k][v].count # Blank
                 PROVE  row[k][v].count - row[k][v].baseline = Gap(ShelfIn(k, v))'
      BY DEF RowsMeasure, Careful
    <3>1. ShelfIn(k, v) \in Shelves /\ ShelfIn(k, v)[1] \notin proc[h].corrects /\ ShelfIn(k, v)' = ShelfIn(k, v)
      BY <1>3, ShelfPlace DEF ShelfIn, Inv, Typed
    <3> QED
      BY <3>1 DEF Gap, Inv, RowsOK, RowsMeasure
  <2> QED
    BY <2>1, <2>2 DEF RowsOK
<1>5. ASSUME NEW k \in Handlers PROVE InSession(proc[k])'
  BY <1>2 DEF JobOK, InSession
<1>6. ASSUME NEW k \in Handlers PROVE CorrectsAlone(k, proc[k])'
  BY <1>1, <1>2, IdleOK DEF JobOK, CorrectsAlone, Others
<1>7. ASSUME NEW k \in Handlers PROVE Measures(proc[k])'
  <2>1. ASSUME Careful, proc'[k].op = "save", proc'[k].write = "count",
               session[proc'[k].session].status = "active"
        PROVE  proc'[k].count - proc'[k].now = Gap(ShelfIn(proc[k].session, proc[k].variant))'
    <3> DEFINE j == proc'[k]
               s == ShelfIn(j.session, j.variant)
    <3>1. j.session \in Sessions /\ session[j.session].status = "active" /\ j.variant \in Variants
      BY <2>1, <1>2, JobFields DEF SaveJobs
    <3>2. s \in Shelves /\ s[1] \notin proc[h].corrects
      BY <2>1, <3>1, <1>3, ShelfPlace DEF ShelfIn, Inv, Typed
    <3>3. j.count - j.now = truth[s] - stock[s]
      BY <2>1, <1>2 DEF JobOK, Measures, Gap
    <3> QED
      BY <2>1, <3>2, <3>3 DEF Gap, ShelfIn
  <2>2. ASSUME Careful, proc'[k].op = "apply", proc'[k].kind \in {"set", "count"}, NEW s \in proc'[k].at
        PROVE  proc'[k].effect[s] = Gap(s)'
    <3>1. proc'[k] \in ApplyJobs /\ k # h /\ proc'[k] = proc[k]
      BY <2>2, <1>1, <1>2, JobFields, IdleOK
    <3>2. s \in Shelves /\ s[1] \in proc[k].corrects
      BY <2>2, <3>1, <1>2 DEF ApplyJobs, JobOK, JobSound, ApplySound, Corrects
    <3>3. s[1] \notin proc[h].corrects
      BY <2>2, <3>1, <3>2 DEF Inv, JobsOK, JobOK, CorrectsAlone, Careful, Others
    <3> QED
      BY <2>2, <3>1, <3>2, <3>3, <1>2 DEF JobOK, Measures, Gap
  <2> QED
    BY <2>1, <2>2 DEF Measures, Careful
<1> QED
  BY <1>4, <1>5, <1>6, <1>7

\* What an operation that is applied does to the books and to the shelves.
LEMMA Applies ==
  ASSUME Inv, NEW h \in Handlers, CommitOperation(h), ~GivesUp(h)
  PROVE  LET p == proc[h]
         IN /\ p \in ApplyJobs /\ JobOK(h, p) /\ ops[p.req].kind = "none" /\ StillQuiet(p.quiet)
            /\ \A s \in Shelves : stock'[s] = stock[s] + p.effect[s] /\ truth'[s] = truth[s] + p.moved[s]
            /\ stock' \in [Shelves -> Nat] /\ truth' \in [Shelves -> Nat]
            /\ ledger' = Plus(ledger, p.effect) /\ ledger' \in [Shelves -> Int] /\ BooksAddUp'
            /\ ops' = [ops EXCEPT ![p.req] = [NoOp EXCEPT !.kind = p.kind, !.at = p.at,
                                                          !.effect = p.effect, !.moved = p.moved]]
            /\ Ends(h) /\ UNCHANGED <<session, row>>
<1> DEFINE p == proc[h]
<1>1. p \in ApplyJobs /\ JobOK(h, p)
  BY JobFields DEF Inv, Typed, JobsOK, CommitOperation, At
<1>2. p.at \in SUBSET Shelves /\ p.effect \in [Shelves -> Int] /\ p.moved \in [Shelves -> Int] /\ p.op = "apply"
  BY <1>1 DEF ApplyJobs, Changes
<1>3. /\ SameStock(p.read) /\ Possible(p.moved) /\ ops[p.req].kind = "none" /\ StillQuiet(p.quiet)
      /\ stock' = [s \in Shelves |-> IF s \in p.at THEN p.read[s] + p.effect[s] ELSE stock[s]]
      /\ ledger' = Plus(ledger, p.effect)
      /\ truth' = Plus(truth, p.moved)
      /\ ops' = [ops EXCEPT ![p.req] = [NoOp EXCEPT !.kind = p.kind, !.at = p.at,
                                                    !.effect = p.effect, !.moved = p.moved]]
      /\ Ends(h) /\ UNCHANGED <<session, row>>
  BY DEF CommitOperation
<1>4. /\ Within(p.effect, p.at) /\ DOMAIN p.read = p.at
      /\ \A s \in p.at : p.read[s] + p.effect[s] >= 0
  BY <1>1, <1>2 DEF JobOK, JobSound, ApplySound
<1> HIDE DEF p
<1>5. \A s \in Shelves : stock[s] \in Nat /\ truth[s] \in Nat /\ ledger[s] = stock[s]
  BY DEF Inv, Typed, BooksAddUp
<1>6. \A s \in Shelves : stock'[s] = stock[s] + p.effect[s] /\ stock'[s] >= 0
  <2> SUFFICES ASSUME NEW s \in Shelves PROVE stock'[s] = stock[s] + p.effect[s] /\ stock'[s] >= 0
    OBVIOUS
  <2>1. CASE s \in p.at
    BY <2>1, <1>3, <1>4, <1>5 DEF SameStock
  <2>2. CASE s \notin p.at
    BY <2>2, <1>2, <1>3, <1>4, <1>5 DEF Within
  <2> QED
    BY <2>1, <2>2
<1>7. \A s \in Shelves : truth'[s] = truth[s] + p.moved[s] /\ truth'[s] >= 0
  BY <1>3 DEF Plus, Possible
<1>8. stock' \in [Shelves -> Nat] /\ truth' \in [Shelves -> Nat]
  <2>1. stock' \in [Shelves -> Int] /\ truth' \in [Shelves -> Int]
    <3>1. \A s \in Shelves : stock[s] + p.effect[s] \in Int /\ truth[s] + p.moved[s] \in Int
      BY <1>2, <1>5
    <3> QED
      BY <1>3, <1>6, <3>1 DEF Plus
  <2> QED
    BY <2>1, <1>3, <1>6, <1>7 DEF Plus
<1>9. ledger' \in [Shelves -> Int] /\ BooksAddUp'
  <2>1. ledger' = [s \in Shelves |-> stock[s] + p.effect[s]]
    BY <1>3, <1>5 DEF Plus
  <2>2. \A s \in Shelves : ledger'[s] = stock'[s]
    BY <2>1, <1>6
  <2> QED
    BY <2>1, <2>2, <1>3, <1>8 DEF BooksAddUp
<1> QED
  BY <1>1, <1>3, <1>6, <1>7, <1>8, <1>9 DEF p

LEMMA CommitOperationOK == ASSUME Inv, NEW h \in Handlers, CommitOperation(h) PROVE Inv'
<1> SUFFICES ASSUME ~GivesUp(h) PROVE Inv'
  BY GivesUpOK
<1> DEFINE p == proc[h]
           new == [NoOp EXCEPT !.kind = p.kind, !.at = p.at, !.effect = p.effect, !.moved = p.moved]
<1>1. /\ p \in ApplyJobs /\ JobOK(h, p) /\ ops[p.req].kind = "none"
      /\ \A s \in Shelves : stock'[s] = stock[s] + p.effect[s] /\ truth'[s] = truth[s] + p.moved[s]
      /\ stock' \in [Shelves -> Nat] /\ truth' \in [Shelves -> Nat] /\ ledger' \in [Shelves -> Int] /\ BooksAddUp'
      /\ ops' = [ops EXCEPT ![p.req] = new]
      /\ Ends(h) /\ UNCHANGED <<session, row>>
  BY Applies
<1>2. p.req \in Requests /\ p.at \in SUBSET Shelves /\ p.effect \in Changes /\ p.moved \in Changes
      /\ p.kind \in OpKinds /\ p.op = "apply"
  BY <1>1 DEF ApplyJobs
<1>3. /\ Within(p.effect, p.at) /\ Within(p.moved, p.at)
      /\ p.corrects = Corrects(p.kind, p.at, p.effect, p.moved)
  BY <1>1, <1>2 DEF JobOK, JobSound, ApplySound
<1>4. /\ new \in Operations /\ new.kind = p.kind /\ new.at = p.at /\ new.effect = p.effect /\ new.moved = p.moved
      /\ new.back = Nothing /\ ~new.undone
  BY <1>2, NothingTyped DEF NoOp, Operations, Nothing, Changes
<1> HIDE DEF new, p
<1>5. \A r \in Requests : ops'[r] = IF r = p.req THEN new ELSE ops[r]
  BY <1>1 DEF Inv, Typed
<1>6. Typed'
  <2>1. ops' \in [Requests -> Operations]
    BY <1>1, <1>4 DEF Inv, Typed
  <2> QED
    BY <1>1, <2>1, JobEnds DEF Inv, Typed
<1>7. OpsOK'
  <2>1. OpsWithin'
    BY <1>3, <1>4, <1>5 DEF Inv, OpsOK, OpsWithin
  <2>2. UndoneRight'
    BY <1>4, <1>5 DEF Inv, OpsOK, UndoneRight, UndoneExactly
  <2> QED
    BY <2>1, <2>2 DEF OpsOK
<1>8. \A s \in Shelves : s[1] \notin p.corrects => truth'[s] - stock'[s] = truth[s] - stock[s]
  <2> SUFFICES ASSUME NEW s \in Shelves, s[1] \notin p.corrects PROVE p.effect[s] = p.moved[s]
    BY <1>1, <1>2 DEF Inv, Typed, Changes
  <2> QED
    BY <1>3 DEF Corrects, Within
<1>9. /\ RowsOK' /\ OneRunning'
      /\ \A k \in Handlers : InSession(proc[k])' /\ CorrectsAlone(k, proc[k])' /\ Measures(proc[k])'
  BY <1>1, <1>2, <1>8, BooksMove DEF p
<1>10. JobsOK'
  <2> SUFFICES ASSUME NEW k \in Handlers PROVE JobSound(proc[k])' /\ UndoesAlone(k, proc[k])'
    BY <1>9 DEF JobsOK, JobOK
  <2>1. \A m \in Handlers : proc'[m] = IF m = h THEN Idle ELSE proc[m]
    BY <1>1, JobEnds DEF Inv
  <2>2. \A m \in Handlers : JobOK(m, proc'[m]) /\ proc'[m] \in Jobs
    BY <2>1, IdleOK DEF Inv, JobsOK, Typed
  <2>3. ASSUME NEW m \in Handlers, proc'[m].op = "undo"
        PROVE  proc'[m].req \in Requests /\ ops'[proc'[m].req] = ops[proc'[m].req]
    <3>1. proc'[m].req \in Requests /\ ops[proc'[m].req].kind \in Reversible
      BY <2>2, <2>3, JobFields DEF UndoJobs, JobOK, JobSound, UndoSound
    <3>2. proc'[m].req # p.req
      BY <3>1, <1>1 DEF Reversible, p
    <3> QED
      BY <3>1, <3>2, <1>5
  <2>4. JobSound(proc[k])'
    BY <2>2, <2>3 DEF JobOK, JobSound, ApplySound, UndoSound, SaveSound, CorrectedBy, Corrects
  <2>5. UndoesAlone(k, proc[k])'
    BY <2>1, <2>2, <2>3, IdleOK DEF JobOK, UndoesAlone, Others
  <2> QED
    BY <2>4, <2>5
<1> QED
  BY <1>1, <1>6, <1>7, <1>9, <1>10 DEF Inv

\* What taking an operation back does to the books and to the shelves.
LEMMA Reverses ==
  ASSUME Inv, NEW h \in Handlers, CommitUndo(h), ~GivesUp(h)
  PROVE  LET r == proc[h].req
         IN /\ proc[h] \in UndoJobs /\ JobOK(h, proc[h]) /\ r \in Requests /\ ops[r].kind \in Reversible
            /\ StillQuiet(QuietFor(r)) /\ (ReversesApart => ~ops[r].undone)
            /\ \A s \in Shelves : /\ stock'[s] = stock[s] - ops[r].effect[s]
                                  /\ truth'[s] = truth[s] - (IF ops[r].undone THEN 0 ELSE ops[r].moved[s])
            /\ stock' \in [Shelves -> Nat] /\ truth' \in [Shelves -> Nat]
            /\ ledger' \in [Shelves -> Int] /\ BooksAddUp'
            /\ ops' = [ops EXCEPT ![r].undone = TRUE, ![r].back = Plus(@, Minus(stock', stock))]
            /\ Ends(h) /\ UNCHANGED <<session, row>>
<1> DEFINE r == proc[h].req
           read == proc[h].read
           back == IF ops[r].undone THEN Nothing ELSE ops[r].moved
<1>1. proc[h] \in UndoJobs /\ JobOK(h, proc[h]) /\ r \in Requests /\ proc[h].op = "undo" /\ proc[h].pc = "commit"
  BY JobFields DEF Inv, Typed, JobsOK, CommitUndo, At, UndoJobs
<1>2. /\ ops[r].kind \in Reversible /\ DOMAIN read = ops[r].at
      /\ \A s \in ops[r].at : read[s] - ops[r].effect[s] >= 0
  BY <1>1 DEF JobOK, JobSound, UndoSound
<1>3. /\ SameStock(read) /\ StillQuiet(QuietFor(r)) /\ StillApplied(r) /\ Possible(Minus(Nothing, ops[r].moved))
      /\ stock' = [s \in Shelves |-> IF s \in ops[r].at THEN read[s] - ops[r].effect[s] ELSE stock[s]]
      /\ ledger' = Minus(ledger, ops[r].effect)
      /\ truth' = Minus(truth, back)
      /\ ops' = [ops EXCEPT ![r].undone = TRUE, ![r].back = Plus(@, Minus(stock', stock))]
      /\ Ends(h) /\ UNCHANGED <<session, row>>
  BY DEF CommitUndo
<1>4. ReversesApart => ~ops[r].undone
  BY <1>1, <1>3 DEF JobOK, UndoesAlone, StillApplied
<1> HIDE DEF read, r
<1>5. /\ ops[r].at \in SUBSET Shelves /\ ops[r].effect \in [Shelves -> Int] /\ ops[r].moved \in [Shelves -> Int]
      /\ Within(ops[r].effect, ops[r].at)
  BY <1>1 DEF Inv, Typed, OpsOK, OpsWithin, Operations, Changes
<1>6. \A s \in Shelves : stock[s] \in Nat /\ truth[s] \in Nat /\ ledger[s] = stock[s]
  BY DEF Inv, Typed, BooksAddUp
<1>7. ASSUME NEW s \in Shelves PROVE stock'[s] = stock[s] - ops[r].effect[s] /\ stock'[s] >= 0
  <2>1. CASE s \in ops[r].at
    BY <2>1, <1>2, <1>3, <1>6 DEF SameStock
  <2>2. CASE s \notin ops[r].at
    BY <2>2, <1>3, <1>5, <1>6 DEF Within
  <2> QED
    BY <2>1, <2>2
<1>8. ASSUME NEW s \in Shelves
      PROVE  truth'[s] = truth[s] - (IF ops[r].undone THEN 0 ELSE ops[r].moved[s]) /\ truth'[s] >= 0
  <2>1. truth[s] + (0 - ops[r].moved[s]) >= 0
    BY <1>3 DEF Possible, Minus, Nothing
  <2>2. truth'[s] = truth[s] - back[s]
    BY <1>3 DEF Minus
  <2> QED
    BY <2>1, <2>2, <1>5, <1>6 DEF Nothing
<1>9. stock' \in [Shelves -> Nat] /\ truth' \in [Shelves -> Nat]
  <2>1. \A s \in Shelves : stock'[s] \in Nat /\ truth'[s] \in Nat
    BY <1>5, <1>6, <1>7, <1>8
  <2>2. stock' = [s \in Shelves |-> stock'[s]] /\ truth' = [s \in Shelves |-> truth'[s]]
    BY <1>3 DEF Minus
  <2> QED
    BY <2>1, <2>2
<1>10. ledger' \in [Shelves -> Int] /\ BooksAddUp'
  <2>1. ledger' = [s \in Shelves |-> stock[s] - ops[r].effect[s]]
    BY <1>3, <1>6 DEF Minus
  <2>2. \A s \in Shelves : ledger'[s] = stock'[s]
    BY <2>1, <1>7
  <2> QED
    BY <2>1, <2>2, <1>9 DEF BooksAddUp
<1> QED
  BY <1>1, <1>2, <1>3, <1>4, <1>7, <1>8, <1>9, <1>10 DEF r

LEMMA CommitUndoOK == ASSUME Inv, NEW h \in Handlers, CommitUndo(h) PROVE Inv'
<1> SUFFICES ASSUME ~GivesUp(h) PROVE Inv'
  BY GivesUpOK
<1> DEFINE r == proc[h].req
           new == [ops[r] EXCEPT !.undone = TRUE, !.back = Plus(@, Minus(stock', stock))]
<1>1. /\ proc[h] \in UndoJobs /\ JobOK(h, proc[h]) /\ r \in Requests /\ ops[r].kind \in Reversible
      /\ ReversesApart => ~ops[r].undone
      /\ \A s \in Shelves : /\ stock'[s] = stock[s] - ops[r].effect[s]
                            /\ truth'[s] = truth[s] - (IF ops[r].undone THEN 0 ELSE ops[r].moved[s])
      /\ stock' \in [Shelves -> Nat] /\ truth' \in [Shelves -> Nat]
      /\ ledger' \in [Shelves -> Int] /\ BooksAddUp'
      /\ ops' = [ops EXCEPT ![r].undone = TRUE, ![r].back = Plus(@, Minus(stock', stock))]
      /\ Ends(h) /\ UNCHANGED <<session, row>>
  BY Reverses
<1>2. ops[r] \in Operations
  BY <1>1 DEF Inv, Typed
<1>3. Plus(ops[r].back, Minus(stock', stock)) \in Changes
  BY <1>1, <1>2 DEF Plus, Minus, Changes, Operations, Inv, Typed
<1>4. new \in Operations
  BY <1>2, <1>3 DEF Operations
<1>5. /\ new.kind = ops[r].kind /\ new.at = ops[r].at /\ new.effect = ops[r].effect /\ new.moved = ops[r].moved
      /\ new.undone /\ new.back = Plus(ops[r].back, Minus(stock', stock))
  BY <1>2 DEF Operations
<1>6. \A q \in Requests : ops'[q] = IF q = r THEN new ELSE ops[q]
  BY <1>1, <1>2 DEF Inv, Typed, Operations
<1>7. proc[h].op = "undo" /\ proc[h].corrects = CorrectedBy(r)
  BY <1>1 DEF UndoJobs, JobOK, JobSound, UndoSound
<1>8. ops' \in [Requests -> Operations]
  <2>1. ops' = [q \in Requests |-> ops'[q]]
    BY <1>1 DEF Inv, Typed
  <2> HIDE DEF new
  <2> QED
    BY <2>1, <1>4, <1>6 DEF Inv, Typed
<1> HIDE DEF new, r
<1>9. Typed'
  BY <1>1, <1>8, JobEnds DEF Inv, Typed
<1>10. OpsOK'
  <2>1. OpsWithin'
    BY <1>5, <1>6 DEF Inv, OpsOK, OpsWithin
  <2>2. UndoneRight'
    <3> SUFFICES ASSUME ReversesApart, NEW q \in Requests
                 PROVE  ops'[q].back = (IF ops'[q].undone THEN Minus(Nothing, ops'[q].effect) ELSE Nothing)
      BY DEF UndoneRight, UndoneExactly, Minus, Nothing
    <3>1. \A o \in Requests : ops[o].back = (IF ops[o].undone THEN Minus(Nothing, ops[o].effect) ELSE Nothing)
      BY DEF Inv, OpsOK, UndoneRight, UndoneExactly
    <3>2. CASE q # r
      BY <3>1, <3>2, <1>6
    <3>3. CASE q = r
      <4>1. ops[r].back = Nothing
        BY <3>1, <1>1
      <4>2. \A s \in Shelves : stock[s] \in Nat /\ ops[r].effect[s] \in Int
        BY <1>2 DEF Inv, Typed, Operations, Changes
      <4>3. Plus(Nothing, Minus(stock', stock)) = Minus(Nothing, ops[r].effect)
        BY <4>2, <1>1 DEF Plus, Minus, Nothing
      <4> QED
        BY <3>3, <4>1, <4>3, <1>1, <1>5, <1>6, ZenonT(40)
    <3> QED
      BY <3>2, <3>3
  <2> QED
    BY <2>1, <2>2 DEF OpsOK
<1>11. Careful => \A s \in Shelves : s[1] \notin proc[h].corrects => truth'[s] - stock'[s] = truth[s] - stock[s]
  <2> SUFFICES ASSUME Careful, NEW s \in Shelves, s[1] \notin proc[h].corrects
               PROVE  truth'[s] - stock'[s] = truth[s] - stock[s]
    OBVIOUS
  <2>1. Within(ops[r].effect, ops[r].at) /\ Within(ops[r].moved, ops[r].at)
    BY <1>1 DEF Inv, OpsOK, OpsWithin
  <2>2. ops[r].effect[s] = ops[r].moved[s]
    BY <2>1, <1>7 DEF CorrectedBy, Corrects, Within
  <2>3. stock[s] \in Nat /\ truth[s] \in Nat /\ ops[r].effect[s] \in Int
    BY <1>2 DEF Inv, Typed, Operations, Changes
  <2> QED
    BY <2>2, <2>3, <1>1 DEF Careful
<1>12. /\ RowsOK' /\ OneRunning'
       /\ \A k \in Handlers : InSession(proc[k])' /\ CorrectsAlone(k, proc[k])' /\ Measures(proc[k])'
  BY <1>1, <1>7, <1>11, BooksMove
<1>13. JobsOK'
  <2> SUFFICES ASSUME NEW k \in Handlers PROVE JobSound(proc[k])' /\ UndoesAlone(k, proc[k])'
    BY <1>12 DEF JobsOK, JobOK
  <2>1. \A m \in Handlers : proc'[m] = IF m = h THEN Idle ELSE proc[m]
    BY <1>1, JobEnds DEF Inv
  <2>2. \A m \in Handlers : JobOK(m, proc'[m]) /\ proc'[m] \in Jobs
    BY <2>1, IdleOK DEF Inv, JobsOK, Typed
  <2>3. \A m \in Handlers : proc'[m].op = "undo" => proc'[m].req \in Requests
    BY <2>2, JobFields DEF UndoJobs
  <2>4. \A q \in Requests : /\ ops'[q].kind = ops[q].kind /\ ops'[q].at = ops[q].at
                            /\ ops'[q].effect = ops[q].effect /\ ops'[q].moved = ops[q].moved
    BY <1>5, <1>6
  <2>5. JobSound(proc[k])'
    <3>1. ApplySound(proc[k])' /\ SaveSound(proc[k])'
      BY <2>2 DEF JobOK, JobSound, ApplySound, SaveSound, Corrects
    <3>2. UndoSound(proc[k])'
      BY <2>2, <2>3, <2>4, SMTT(30) DEF JobOK, JobSound, UndoSound, CorrectedBy, Corrects
    <3> QED
      BY <3>1, <3>2 DEF JobSound
  <2>6. UndoesAlone(k, proc[k])'
    <3>1. ASSUME ReversesApart, proc'[k].op = "undo", ops[proc'[k].req].kind # "transfer"
          PROVE  proc'[k].req # r
      BY <3>1, <2>1, <2>2, <1>7, IdleOK DEF JobOK, UndoesAlone, Others, r
    <3> QED
      BY <3>1, <2>1, <2>2, <2>3, <2>4, <1>6, IdleOK DEF JobOK, UndoesAlone, Others
  <2> QED
    BY <2>5, <2>6
<1> QED
  BY <1>1, <1>9, <1>10, <1>12, <1>13 DEF Inv

-----------------------------------------------------------------------------
(* The invariant, and what follows from it *)

LEMMA NextOK == ASSUME Inv, [Next]_vars PROVE Inv'
<1>1. CASE UNCHANGED vars
  <2> USE <1>1 DEF vars, database
  <2>1. Typed' /\ RowsOK' /\ OneRunning' /\ OpsOK' /\ BooksAddUp'
    BY DEF Inv, Typed, RowsOK, RowsFilled, RowsMeasure, ShelfIn, Gap, OneRunning, OpsOK,
           OpsWithin, UndoneRight, UndoneExactly, BooksAddUp
  <2>2. ASSUME NEW h \in Handlers PROVE JobOK(h, proc[h])'
    <3>1. JobOK(h, proc'[h])
      BY DEF Inv, JobsOK
    <3>2. JobSound(proc[h])'
      BY <3>1, SoundStays DEF JobOK
    <3> QED
      BY <3>1, <3>2 DEF JobOK, UndoesAlone, InSession, CorrectsAlone, Others, Measures, Gap, ShelfIn
  <2> QED
    BY <2>1, <2>2 DEF Inv, JobsOK
<1>2. CASE Next
  <2> PICK h \in Handlers :
        \/ Books(h) \/ CommitOperation(h) \/ ReadUndo(h) \/ CommitUndo(h)
        \/ Counts(h) \/ CommitStart(h) \/ CommitAdd(h) \/ ReadSave(h) \/ CommitSave(h)
        \/ ReadComplete(h) \/ CommitComplete(h) \/ MarkConflicts(h) \/ CommitCancel(h)
    BY <1>2 DEF Next
  <2>1. CASE Books(h)
    BY <2>1, Movements, BeginMovementOK, BeginUndoOK DEF Inv
  <2>2. CASE Counts(h)
    <3>1. CASE \E p \in Places, V \in SUBSET Variants : BeginStart(h, p, V)
      BY <3>1, BeginStartOK
    <3>2. CASE \E i \in Sessions : BeginComplete(h, i) \/ BeginCancel(h, i)
      BY <3>2, BeginCompleteOK, BeginCancelOK
    <3>3. CASE \E i \in Sessions, v \in Variants : BeginAdd(h, i, v)
      BY <3>3, BeginAddOK
    <3>4. CASE \E i \in Sessions, v \in Variants : \E c \in {Blank, truth[ShelfIn(i, v)]} : BeginSave(h, i, v, c)
      BY <3>4, BeginSaveOK
    <3> QED
      BY <2>2, <3>1, <3>2, <3>3, <3>4 DEF Counts
  <2>3. CASE CommitOperation(h) \/ ReadUndo(h) \/ CommitUndo(h)
    BY <2>3, CommitOperationOK, ReadUndoOK, CommitUndoOK
  <2>4. CASE CommitStart(h) \/ CommitAdd(h) \/ ReadSave(h) \/ CommitSave(h)
    BY <2>4, CommitStartOK, CommitAddOK, ReadSaveOK, CommitSaveOK
  <2>5. CASE ReadComplete(h) \/ CommitComplete(h) \/ MarkConflicts(h) \/ CommitCancel(h)
    BY <2>5, ReadCompleteOK, CommitCompleteOK, MarkConflictsOK, CommitCancelOK
  <2> QED
    BY <2>1, <2>2, <2>3, <2>4, <2>5
<1> QED
  BY <1>1, <1>2

LEMMA Invariant == Spec => []Inv
BY InitOK, NextOK, PTL DEF Spec

LEMMA BeginsKeep ==
  ASSUME NEW h \in Handlers, Books(h) \/ Counts(h)
  PROVE  UNCHANGED database
<1>1. CASE Books(h)
  <2> PICK r \in Requests :
        \/ \E s \in Shelves :
             \/ \E n \in 1 .. MaxMove : BeginArrival(h, r, s, n) \/ BeginWriteoff(h, r, s, n)
             \/ BeginSet(h, r, s) \/ BeginQuickCount(h, r, s)
             \/ \E t \in Shelves, n \in 1 .. MaxMove : BeginTransfer(h, r, s, t, n)
        \/ BeginUndo(h, r)
    BY <1>1 DEF Books
  <2>1. ASSUME NEW kind, NEW at, NEW effect, NEW moved, NEW quiet,
               BeginOperation(h, r, kind, at, effect, moved, quiet)
        PROVE  UNCHANGED database
    BY <2>1 DEF BeginOperation, Begin
  <2>2. ASSUME NEW s \in Shelves, NEW n \in 1 .. MaxMove, BeginArrival(h, r, s, n) \/ BeginWriteoff(h, r, s, n)
        PROVE  UNCHANGED database
    BY <2>1, <2>2 DEF BeginArrival, BeginWriteoff
  <2>3. ASSUME NEW s \in Shelves, BeginSet(h, r, s) \/ BeginQuickCount(h, r, s)
        PROVE  UNCHANGED database
    BY <2>1, <2>3 DEF BeginSet, BeginQuickCount
  <2>4. ASSUME NEW s \in Shelves, NEW t \in Shelves, NEW n \in 1 .. MaxMove, BeginTransfer(h, r, s, t, n)
        PROVE  UNCHANGED database
    BY <2>1, <2>4 DEF BeginTransfer
  <2>5. CASE BeginUndo(h, r)
    BY <2>5 DEF BeginUndo, Begin
  <2> QED
    BY <2>2, <2>3, <2>4, <2>5
<1>2. CASE Counts(h)
  <2>1. CASE \E p \in Places, V \in SUBSET Variants : BeginStart(h, p, V)
    BY <2>1 DEF BeginStart, Begin
  <2>2. CASE \E i \in Sessions : BeginComplete(h, i) \/ BeginCancel(h, i)
    BY <2>2 DEF BeginComplete, BeginCancel, Begin
  <2>3. CASE \E i \in Sessions, v \in Variants : BeginAdd(h, i, v)
    BY <2>3 DEF BeginAdd, Begin
  <2>4. CASE \E i \in Sessions, v \in Variants : \E c \in {Blank, truth[ShelfIn(i, v)]} : BeginSave(h, i, v, c)
    BY <2>4 DEF BeginSave, Begin
  <2> QED
    BY <1>2, <2>1, <2>2, <2>3, <2>4 DEF Counts
<1> QED
  BY <1>1, <1>2

LEMMA ReadsKeep ==
  ASSUME NEW h \in Handlers, ReadUndo(h) \/ ReadSave(h) \/ ReadComplete(h) \/ GivesUp(h)
  PROVE  UNCHANGED database
<1>1. CASE ReadUndo(h)
  BY <1>1 DEF ReadUndo, Goes, GivesUp
<1>2. CASE ReadSave(h)
  BY <1>2 DEF ReadSave, Goes, GivesUp
<1>3. CASE ReadComplete(h)
  BY <1>3 DEF ReadComplete, Step, Goes, GivesUp
<1>4. CASE GivesUp(h)
  BY <1>4 DEF GivesUp, Goes
<1> QED
  BY <1>1, <1>2, <1>3, <1>4

\* Only the batches of an operation and of its reversal change the operations,
\* and only the batch of a completion closes a session as completed.
LEMMA WhoWrites ==
  ASSUME Inv, [Next]_vars
  PROVE  /\ \/ UNCHANGED ops
            \/ \E h \in Handlers : (CommitOperation(h) \/ CommitUndo(h)) /\ ~GivesUp(h)
         /\ \/ \A i \in Sessions : session'[i].status = "completed" => session[i].status = "completed"
            \/ \E h \in Handlers : CommitComplete(h) /\ Consistent(proc[h].session)
<1>1. CASE UNCHANGED database
  BY <1>1 DEF database
<1>2. CASE Next
  <2> PICK h \in Handlers :
        \/ Books(h) \/ CommitOperation(h) \/ ReadUndo(h) \/ CommitUndo(h)
        \/ Counts(h) \/ CommitStart(h) \/ CommitAdd(h) \/ ReadSave(h) \/ CommitSave(h)
        \/ ReadComplete(h) \/ CommitComplete(h) \/ MarkConflicts(h) \/ CommitCancel(h)
    BY <1>2 DEF Next
  <2> SUFFICES ASSUME ~(UNCHANGED database), ~GivesUp(h)
               PROVE  \/ CommitOperation(h) \/ CommitUndo(h)
                      \/ /\ UNCHANGED ops
                         /\ \/ \A i \in Sessions : session'[i].status = "completed" => session[i].status = "completed"
                            \/ CommitComplete(h) /\ Consistent(proc[h].session)
    <3>1. CommitOperation(h) /\ ~GivesUp(h) => UNCHANGED session
      BY Applies
    <3>2. CommitUndo(h) /\ ~GivesUp(h) => UNCHANGED session
      BY Reverses
    <3> QED
      BY <1>1, <3>1, <3>2, ReadsKeep
  <2>1. CASE Books(h) \/ Counts(h) \/ ReadUndo(h) \/ ReadSave(h) \/ ReadComplete(h)
    BY <2>1, BeginsKeep, ReadsKeep
  <2>2. CASE CommitStart(h)
    <3>1. \E i \in Sessions : session' = [session EXCEPT ![i] = [status |-> "active", place |-> proc[h].place]]
      BY <2>2 DEF CommitStart
    <3>2. UNCHANGED ops
      BY <2>2 DEF CommitStart
    <3> QED
      BY <3>1, <3>2 DEF Inv, Typed
  <2>3. CASE CommitAdd(h) \/ CommitSave(h) \/ MarkConflicts(h)
    BY <2>3 DEF CommitAdd, CommitSave, MarkConflicts
  <2>4. CASE CommitCancel(h)
    BY <2>4 DEF CommitCancel, Inv, Typed
  <2>5. CASE CommitComplete(h)
    <3>1. CASE Consistent(proc[h].session)
      BY <2>5, <3>1 DEF CommitComplete
    <3>2. CASE ~Consistent(proc[h].session)
      BY <2>5, <3>2 DEF CommitComplete, Step, Goes
    <3> QED
      BY <3>1, <3>2
  <2> QED
    BY <2>1, <2>2, <2>3, <2>4, <2>5
<1> QED
  BY <1>1, <1>2 DEF vars

\* The type of the state, with one running session of a place at most, whatever
\* requests overlap.
THEOREM TypeCorrect == Spec => []StocktakeTypeOK
<1>1. Inv => StocktakeTypeOK
  <2> SUFFICES ASSUME Inv PROVE StocktakeTypeOK
    OBVIOUS
  <2>1. ASSUME NEW p \in Places PROVE Cardinality(Running(p)) <= 1
    <3>1. CASE Running(p) = {}
      BY <3>1, FS_EmptySet
    <3>2. CASE Running(p) # {}
      <4>1. PICK i : Running(p) = {i}
        BY <3>2 DEF Running, Inv, OneRunning
      <4>2. Cardinality({i}) = 1
        BY FS_Singleton
      <4>3. Cardinality(Running(p)) = 1
        BY <4>1, <4>2
      <4> QED
        BY <4>3
    <3> QED
      BY <3>1, <3>2
  <2>2. \A i \in Sessions, v \in Variants :
          /\ row[i][v].status \in RowStates
          /\ row[i][v].count # Blank => row[i][v].count \in Nat
          /\ row[i][v].conflict # Blank => row[i][v].conflict \in Nat
    BY DEF Inv, Typed, Rows, Number
  <2> QED
    BY <2>1, <2>2 DEF StocktakeTypeOK, Inv, Typed, RowsOK, RowsFilled, RowStates
<1> QED
  BY <1>1, Invariant, PTL

\* The books are what their movements add up to, whatever requests overlap: no
\* batch overwrites a change it has not read.
THEOREM BooksStayTrue == Spec => []BooksAddUp
<1>1. Inv => BooksAddUp
  BY DEF Inv
<1> QED
  BY <1>1, Invariant, PTL

\* Transfers, their reversal and counts on the spot stay out of a place whose
\* stocktake runs, whatever requests overlap.
THEOREM TransfersKeptOut == Spec => TransfersStayOut
<1> DEFINE KeptOut == \A r \in Requests :
       ops'[r].kind \in {"transfer", "count"} /\ ops'[r] # ops[r] =>
         \A s \in ops'[r].at : Running(s[1]) = {}
<1>1. ASSUME Inv, [Next]_vars PROVE KeptOut
  <2>1. CASE UNCHANGED ops
    BY <2>1
  <2>2. ASSUME NEW h \in Handlers, CommitOperation(h), ~GivesUp(h) PROVE KeptOut
    <3> DEFINE p == proc[h]
               new == [NoOp EXCEPT !.kind = p.kind, !.at = p.at, !.effect = p.effect, !.moved = p.moved]
    <3>1. /\ p \in ApplyJobs /\ JobOK(h, p) /\ StillQuiet(p.quiet)
          /\ ops' = [ops EXCEPT ![p.req] = new]
      BY <1>1, <2>2, Applies
    <3>2. new.kind = p.kind /\ new.at = p.at
      BY DEF NoOp
    <3>3. p.kind \in {"transfer", "count"} => p.quiet = PlacesOf(p.at)
      BY <3>1 DEF JobOK, JobSound, ApplySound, ApplyJobs
    <3>4. \A r \in Requests : ops'[r] # ops[r] => ops'[r] = new
      BY <1>1, <3>1 DEF Inv, Typed
    <3> HIDE DEF new
    <3> QED
      BY <3>1, <3>2, <3>3, <3>4 DEF StillQuiet, PlacesOf
  <2>3. ASSUME NEW h \in Handlers, CommitUndo(h), ~GivesUp(h) PROVE KeptOut
    <3> DEFINE r == proc[h].req
    <3>1. /\ r \in Requests /\ ops[r].kind \in Reversible /\ StillQuiet(QuietFor(r))
          /\ ops' = [ops EXCEPT ![r].undone = TRUE, ![r].back = Plus(@, Minus(stock', stock))]
      BY <1>1, <2>3, Reverses
    <3>2. ops'[r].kind = ops[r].kind /\ ops'[r].at = ops[r].at /\ \A q \in Requests \ {r} : ops'[q] = ops[q]
      BY <1>1, <3>1 DEF Inv, Typed, Operations
    <3>3. ops[r].kind = "transfer" => \A s \in ops[r].at : Running(s[1]) = {}
      BY <3>1 DEF StillQuiet, QuietFor
    <3>4. ops[r].kind # "count"
      BY <3>1 DEF Reversible
    <3> QED
      BY <3>2, <3>3, <3>4
  <2>4. UNCHANGED ops \/ \E h \in Handlers : (CommitOperation(h) \/ CommitUndo(h)) /\ ~GivesUp(h)
    BY <1>1, WhoWrites
  <2> QED
    BY <2>1, <2>2, <2>3, <2>4
<1> QED
  BY <1>1, Invariant, PTL DEF Spec, TransfersStayOut

\* An operation is taken back once and exactly, when no two requests take the
\* same movement back at once; a transfer needs no such care.
THEOREM UndoneOnce == ASSUME ReversesApart PROVE Spec => []UndoneExactly
<1>1. Inv => UndoneExactly
  BY DEF Inv, OpsOK, UndoneRight
<1> QED
  BY <1>1, Invariant, PTL

\* A count that is applied, by a completed session or on the spot, leaves the
\* books at what stands on the shelf, when requests keep apart and a count
\* reaches the program before its shelf changes.
THEOREM CountsStayTrue == ASSUME Careful PROVE Spec => CountsAreTrue
<1> DEFINE Completed == \A i \in Sessions :
             NewlyDone(i) /\ session'[i].status = "completed" =>
               \A v \in Counted(i) : stock'[ShelfIn(i, v)] = truth'[ShelfIn(i, v)]
           Set == \A r \in Requests :
             NewlyBooked(r) /\ ops'[r].kind \in {"set", "count"} =>
               \A s \in ops'[r].at : stock'[s] = truth'[s]
<1>1. ASSUME Inv, [Next]_vars PROVE Completed
  <2>1. CASE \A i \in Sessions : session'[i].status = "completed" => session[i].status = "completed"
    BY <2>1 DEF NewlyDone
  <2>2. ASSUME NEW h \in Handlers, CommitComplete(h), Consistent(proc[h].session) PROVE Completed
    <3>1. PICK i \in Sessions : i = proc[h].session /\ session[i].status = "active"
      <4>1. proc[h] \in CompleteJobs
        BY <1>1, <2>2, JobFields DEF Inv, Typed, CommitComplete, At
      <4> QED
        BY <2>2, <4>1 DEF CompleteJobs, Consistent
    <3>2. /\ stock' = [s \in Shelves |-> IF s[1] # session[i].place THEN stock[s]
                       ELSE IF row[i][s[2]].count = Blank THEN stock[<<session[i].place, s[2]>>] ELSE row[i][s[2]].count]
          /\ truth' = truth
          /\ session' = [session EXCEPT ![i].status = "completed"]
      <4>1. \A s \in Shelves : s[2] \in Variants
        BY ShelfPlace
      <4> QED
        BY <2>2, <3>1, <4>1 DEF CommitComplete
    <3>3. \A k \in Sessions \ {i} : session'[k] = session[k]
      BY <1>1, <3>1, <3>2 DEF Inv, Typed
    <3>4. ASSUME NEW v \in Counted(i) PROVE stock'[ShelfIn(i, v)] = truth'[ShelfIn(i, v)]
      <4> DEFINE s == ShelfIn(i, v)
      <4>1. v \in Variants /\ row[i][v].count # Blank /\ stock[s] = row[i][v].baseline
        BY <2>2, <3>1 DEF Counted, Consistent, Changed
      <4>2. row[i][v].count - row[i][v].baseline = truth[s] - stock[s]
        BY <1>1, <3>1, <4>1 DEF Inv, RowsOK, RowsMeasure, Gap
      <4>3. s \in Shelves /\ s[1] = session[i].place /\ s[2] = v
        BY <1>1, <3>1, <4>1, ShelfPlace DEF ShelfIn, Inv, Typed
      <4>4. stock'[s] = row[i][v].count
        BY <3>2, <4>1, <4>3
      <4>5. stock[s] \in Nat /\ truth[s] \in Nat /\ row[i][v].count \in Nat
        BY <1>1, <3>1, <4>1, <4>3 DEF Inv, Typed, Rows, Number
      <4> HIDE DEF s
      <4>6. stock'[s] = truth'[s]
        BY <4>1, <4>2, <4>4, <4>5, <3>2
      <4> QED
        BY <4>6 DEF s
    <3> QED
      BY <3>3, <3>4 DEF NewlyDone
  <2> QED
    BY <1>1, <2>1, <2>2, WhoWrites
<1>2. ASSUME Inv, [Next]_vars PROVE Set
  <2>1. CASE UNCHANGED ops
    BY <2>1 DEF NewlyBooked
  <2>2. ASSUME NEW h \in Handlers, CommitOperation(h), ~GivesUp(h) PROVE Set
    <3> DEFINE p == proc[h]
               new == [NoOp EXCEPT !.kind = p.kind, !.at = p.at, !.effect = p.effect, !.moved = p.moved]
    <3>1. /\ p \in ApplyJobs /\ JobOK(h, p)
          /\ \A s \in Shelves : stock'[s] = stock[s] + p.effect[s] /\ truth'[s] = truth[s] + p.moved[s]
          /\ ops' = [ops EXCEPT ![p.req] = new]
      BY <1>2, <2>2, Applies
    <3>2. new.kind = p.kind /\ new.at = p.at
      BY DEF NoOp
    <3>3. \A r \in Requests : ops'[r] # ops[r] => ops'[r] = new
      BY <1>2, <3>1 DEF Inv, Typed
    <3>4. ASSUME p.kind \in {"set", "count"}, NEW s \in p.at PROVE stock'[s] = truth'[s]
      <4>1. p.op = "apply" /\ s \in Shelves
        BY <3>1 DEF ApplyJobs
      <4>2. p.moved[s] = 0 /\ p.effect[s] = truth[s] - stock[s]
        BY <3>1, <3>4, <4>1 DEF JobOK, JobSound, ApplySound, Nothing, Measures, Gap
      <4>3. stock[s] \in Nat /\ truth[s] \in Nat
        BY <1>2, <4>1 DEF Inv, Typed
      <4> QED
        BY <3>1, <4>1, <4>2, <4>3
    <3> HIDE DEF new, p
    <3> QED
      BY <3>2, <3>3, <3>4 DEF NewlyBooked
  <2>3. ASSUME NEW h \in Handlers, CommitUndo(h), ~GivesUp(h) PROVE Set
    <3> DEFINE r == proc[h].req
    <3>1. r \in Requests /\ ops' = [ops EXCEPT ![r].undone = TRUE, ![r].back = Plus(@, Minus(stock', stock))]
      BY <1>2, <2>3, Reverses
    <3>2. \A q \in Requests : ops'[q].kind = ops[q].kind
      BY <1>2, <3>1 DEF Inv, Typed, Operations
    <3> QED
      BY <3>2 DEF NewlyBooked
  <2> QED
    BY <1>2, <2>1, <2>2, <2>3, WhoWrites
<1>3. Inv /\ [Next]_vars => Completed /\ Set
  BY <1>1, <1>2
<1> QED
  BY <1>3, Invariant, PTL DEF Spec, CountsAreTrue
=============================================================================
