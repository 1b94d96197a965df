---------------------------- MODULE Journal_proofs ----------------------------
(***************************************************************************)
(* Proofs about the operation journal and about the payments that use it,  *)
(* for every set of callers, requests, bodies, tokens and amounts, every   *)
(* total of the order and every bound.                                     *)
(*                                                                         *)
(* The first part is about CriticalOperation alone.  Most invariants of it *)
(* are proved for AnyStep, the steps the journal allows its users.  A step *)
(* of the payments is such a step, so in the second part whatever was      *)
(* proved of the journal holds of OrderPayment; there the money is added.  *)
(***************************************************************************)
EXTENDS OrderPayment, FiniteSets, SumLemmas

-----------------------------------------------------------------------------
(* The journal *)

\* Every lease names a token of Tokens, and NULL is none of them.
LEMMA FreshTokenIsNew ==
    ASSUME FreshTokens # {}
    PROVE  /\ NewToken \in Tokens
           /\ \A d \in Callers : NewToken # token[d]
           /\ \A r \in Requests : NewToken # row[r].lease
<1>1. NewToken \in FreshTokens
  BY DEF NewToken
<1> QED
  BY <1>1 DEF FreshTokens

\* The business row that a handler inserts.
Row(c) == [request |-> Request[c], payload |-> Payload[c], key |-> view[c].key]

LEMMA RowTyped ==
    ASSUME TypeOK, NEW c \in Callers
    PROVE  /\ Row(c) \in EntityType
           /\ NewEntity(c) = Append(created, Row(c))
           /\ Row(c).request = Request[c] /\ Row(c).payload = Payload[c]
           /\ Row(c).key = view[c].key
<1>1. view[c] \in ViewType /\ Request[c] \in Requests /\ Payload[c] \in Payloads
  BY CallersAssumption DEF TypeOK
<1>2. view[c].key \in Nat
  BY <1>1 DEF ViewType
<1> QED
  BY <1>1, <1>2 DEF Row, EntityType, NewEntity, ContextKey

\* What a handler writes to its own memory keeps the memory well-formed.
LEMMA SnapshotType ==
    ASSUME NEW r \in RowType
    PROVE  Snapshot(r) \in ViewType
BY DEF RowType, ViewType, Snapshot

\* The places a handler can stand at, one by one.
LEMMA PlacesAre ==
    /\ "idle" \in Places /\ "read" \in Places /\ "insert" \in Places
    /\ "reread" \in Places /\ "claim" \in Places /\ "refresh" \in Places
    /\ "run" \in Places /\ "advanced" \in Places /\ "map_insert" \in Places
    /\ "map_reread" \in Places /\ "mapped" \in Places
    /\ "header_refresh" \in Places /\ "closing" \in Places
    /\ "complete_check" \in Places /\ "failing" \in Places
BY DEF Places, Live, Executing

LEMMA StepsAre ==
    /\ "started" \in Steps /\ "validated" \in Steps /\ "written" \in Steps
    /\ "settled" \in Steps /\ "completed" \in Steps
BY DEF Steps

LEMMA BlanksTyped == AbsentRow \in RowType /\ Blank \in ViewType
BY DEF AbsentRow, RowType, Blank, ViewType, Steps

\* A discarded row is an absent one but for its number.
LEMMA DroppedTyped ==
    ASSUME NEW c \in Callers, row[Request[c]] \in RowType
    PROVE  /\ Dropped(c) \in RowType
           /\ Dropped(c).status = "none" /\ Dropped(c).step = "started"
           /\ Dropped(c).lease = NoToken
BY DEF Dropped, AbsentRow, RowType, Steps

\* A new row.
LEMMA InsertedTyped ==
    ASSUME TypeOK, NEW c \in Callers, NEW n,
           n = [AbsentRow EXCEPT !.status = "started", !.payload = Payload[c],
                                 !.lease = token[c], !.until = until[c],
                                 !.key = row[Request[c]].key + 1]
    PROVE  n \in RowType /\ n.status = "started" /\ n.step = "started"
           /\ n.lease = token[c] /\ n.payload = Payload[c]
<1>1. /\ Payload[c] \in Payloads /\ token[c] \in Tokens \cup {NoToken}
      /\ until[c] \in Nat /\ row[Request[c]] \in RowType
  BY CallersAssumption DEF TypeOK
<1>2. row[Request[c]].key + 1 \in Nat
  BY <1>1 DEF RowType
<1> QED
  BY <1>1, <1>2 DEF AbsentRow, RowType, Steps

\* The memory of the handlers, apart from the rows they have read.
HandlersTyped ==
    /\ pc \in [Callers -> Places]
    /\ token \in [Callers -> Tokens \cup {NoToken}]
    /\ nowMs \in [Callers -> Nat]
    /\ until \in [Callers -> Nat]
    /\ local \in [Callers -> Nat]

LEMMA GotoTyped ==
    ASSUME TypeOK, NEW c \in Callers, NEW p \in Places, Goto(c, p)
    PROVE  HandlersTyped'
BY DEF TypeOK, HandlersTyped, Goto

LEMMA ForgetTyped ==
    ASSUME TypeOK, NEW c \in Callers, Forget(c)
    PROVE  HandlersTyped' /\ view' \in [Callers -> ViewType]
BY PlacesAre, BlanksTyped DEF TypeOK, HandlersTyped, Forget

LEMMA AnswerTyped ==
    ASSUME TypeOK, NEW c \in Callers, NEW t \in Nat, Answer(c, t)
    PROVE  HandlersTyped' /\ view' \in [Callers -> ViewType] /\ answers' \subseteq AnswerType
<1>1. HandlersTyped' /\ view' \in [Callers -> ViewType]
  BY ForgetTyped DEF Answer
<1>2. [request |-> Request[c], payload |-> Payload[c], target |-> t] \in AnswerType
  BY CallersAssumption DEF AnswerType
<1> QED
  BY <1>1, <1>2 DEF Answer, TypeOK

LEMMA RefuseTyped ==
    ASSUME TypeOK, NEW c \in Callers, Refuse(c)
    PROVE  HandlersTyped' /\ view' \in [Callers -> ViewType] /\ answers' \subseteq AnswerType
BY ForgetTyped DEF Refuse, TypeOK

\* A caller's request id and the row stored under it.
LEMMA OwnRow ==
    ASSUME TypeOK, NEW c \in Callers
    PROVE  /\ Request[c] \in Requests
           /\ Payload[c] \in Payloads
           /\ row[Request[c]] \in RowType
           /\ Snapshot(row[Request[c]]) \in ViewType
           /\ row[Request[c]].response \in Nat
           /\ mapped[Request[c]] \in Nat
           /\ view[c] \in ViewType
           /\ view[c].target \in Nat
<1>1. Request[c] \in Requests /\ Payload[c] \in Payloads
  BY CallersAssumption
<1>2. row[Request[c]] \in RowType /\ view[c] \in ViewType /\ mapped[Request[c]] \in Nat
  BY <1>1 DEF TypeOK
<1>3. row[Request[c]].response \in Nat
  BY <1>2 DEF RowType
<1>4. view[c].target \in Nat
  BY <1>2 DEF ViewType
<1> QED
  BY <1>1, <1>2, <1>3, <1>4, SnapshotType

LEMMA ExamineTyped ==
    ASSUME TypeOK, NEW c \in Callers, Examine(c)
    PROVE  HandlersTyped' /\ view' \in [Callers -> ViewType] /\ answers' \subseteq AnswerType
<1>1. CASE Refuse(c)
  BY <1>1, RefuseTyped
<1>2. CASE Answer(c, row[Request[c]].response)
  BY <1>2, AnswerTyped, OwnRow
<1>3. CASE Goto(c, "claim") /\ UNCHANGED <<view, answers>>
  BY <1>3, GotoTyped, PlacesAre DEF TypeOK
<1>4. CASE /\ Goto(c, "run")
           /\ view' = [view EXCEPT ![c] = Snapshot(row[Request[c]])]
           /\ UNCHANGED answers
  <2>1. HandlersTyped'
    BY <1>4, GotoTyped, PlacesAre
  <2>2. view' \in [Callers -> ViewType]
    BY <1>4, OwnRow DEF TypeOK
  <2> QED
    BY <1>4, <2>1, <2>2 DEF TypeOK
<1> QED
  BY <1>1, <1>2, <1>3, <1>4 DEF Examine

\* A row whose cursor moves.
LEMMA ProgressTyped ==
    ASSUME TypeOK, NEW r \in Requests, NEW s \in Steps, NEW t \in Nat, NEW u \in Nat
    PROVE  [row EXCEPT ![r].step = s, ![r].target = t, ![r].until = u]
             \in [Requests -> RowType]
<1> DEFINE next == [row[r] EXCEPT !.step = s, !.target = t, !.until = u]
<1>1. row[r] \in RowType /\ row \in [Requests -> RowType]
  BY DEF TypeOK
<1>2. next \in RowType
  BY <1>1 DEF RowType
<1>3. [row EXCEPT ![r].step = s, ![r].target = t, ![r].until = u] = [row EXCEPT ![r] = next]
  BY <1>1
<1> QED
  BY <1>1, <1>2, <1>3

LEMMA AdvanceTyped ==
    ASSUME TypeOK, NEW c \in Callers, NEW s \in Steps, NEW t \in Nat, Advance(c, s, t)
    PROVE  TypeOK'
<1>1. CASE Held(c)
  <2>1. now + Lease \in Nat
    BY BoundsAssumption DEF TypeOK
  <2>2. /\ row' = [row EXCEPT ![Request[c]].step = s, ![Request[c]].target = t,
                              ![Request[c]].until = now + Lease]
        /\ pc' = [pc EXCEPT ![c] = "advanced"]
        /\ until' = [until EXCEPT ![c] = now + Lease]
        /\ UNCHANGED <<token, nowMs, local, mapped, created, now, view, answers, faults>>
    BY <1>1 DEF Advance
  <2>3. row' \in [Requests -> RowType]
    BY <2>1, <2>2, ProgressTyped, OwnRow
  <2>4. HandlersTyped'
    BY <2>1, <2>2, PlacesAre DEF TypeOK, HandlersTyped
  <2> QED
    BY <2>2, <2>3, <2>4 DEF TypeOK, HandlersTyped
<1>2. CASE ~Held(c)
  BY <1>2, GotoTyped, PlacesAre DEF Advance, TypeOK, HandlersTyped
<1> QED
  BY <1>1, <1>2

LEMMA TypeInit == Init => TypeOK
<1> SUFFICES ASSUME Init PROVE TypeOK
  OBVIOUS
<1>1. row \in [Requests -> RowType] /\ view \in [Callers -> ViewType]
  BY BlanksTyped DEF Init
<1>2. pc \in [Callers -> Places]
  BY PlacesAre DEF Init
<1> QED
  BY <1>1, <1>2 DEF Init, TypeOK

LEMMA TypeStep == TypeOK /\ [Next]_vars => TypeOK'
<1> SUFFICES ASSUME TypeOK, [Next]_vars
             PROVE  TypeOK'
  OBVIOUS
<1> USE DEF HandlersTyped
<1>1. ASSUME NEW c \in Callers, Begin(c)
      PROVE  TypeOK'
  <2>1. NewToken \in Tokens
    BY <1>1, FreshTokenIsNew DEF Begin
  <2> QED
    BY <1>1, <2>1, PlacesAre, BoundsAssumption DEF TypeOK, Begin, db
<1>2. ASSUME NEW c \in Callers, Handle(c)
      PROVE  TypeOK'
  <2> USE PlacesAre, StepsAre, OwnRow
  <2>1. CASE BeginRead(c)
    BY <2>1, ExamineTyped, GotoTyped DEF BeginRead, TypeOK, db
  <2>2. CASE BeginInsert(c)
    <3>1. [AbsentRow EXCEPT !.status = "started", !.payload = Payload[c],
                            !.lease = token[c], !.until = until[c],
                            !.key = row[Request[c]].key + 1] \in RowType
      BY InsertedTyped
    <3>2. row' \in [Requests -> RowType]
      BY <2>2, <3>1 DEF BeginInsert, TypeOK
    <3> QED
      BY <2>2, <3>2, GotoTyped DEF BeginInsert, TypeOK
  <2>3. CASE BeginReread(c)
    BY <2>3, ExamineTyped, RefuseTyped DEF BeginReread, TypeOK, db
  <2>4. CASE BeginClaim(c)
    <3>1. [row EXCEPT ![Request[c]].lease = token[c],
                      ![Request[c]].until = until[c]] \in [Requests -> RowType]
      BY ZenonT(40) DEF TypeOK, RowType
    <3>2. row' \in [Requests -> RowType]
      BY <2>4, <3>1 DEF BeginClaim, TypeOK
    <3> QED
      BY <2>4, <3>2, GotoTyped, RefuseTyped DEF BeginClaim, TypeOK
  <2>5. CASE BeginRefresh(c)
    BY <2>5, GotoTyped, RefuseTyped, AnswerTyped DEF BeginRefresh, TypeOK, db
  <2>6. CASE Validate(c)
    BY <2>6, AdvanceTyped DEF Validate
  <2>7. CASE Refresh(c)
    <3>1. HandlersTyped' /\ view' \in [Callers -> ViewType]
      <4>1. CASE row[Request[c]].status # "none"
        <5>1. /\ view' = [view EXCEPT ![c] = Snapshot(row[Request[c]])]
              /\ pc' = [pc EXCEPT ![c] = "run"]
              /\ local' = [local EXCEPT ![c] = 0]
              /\ UNCHANGED <<token, nowMs, until>>
          BY <2>7, <4>1 DEF Refresh
        <5> QED
          BY <5>1 DEF TypeOK
      <4>2. CASE row[Request[c]].status = "none"
        BY <2>7, <4>2, GotoTyped DEF Refresh, TypeOK
      <4> QED
        BY <4>1, <4>2
    <3> QED
      BY <2>7, <3>1 DEF Refresh, TypeOK, db
  <2>8. CASE MapRead(c)
    <3>1. CASE Goto(c, "map_insert")
      <4>1. HandlersTyped'
        BY <3>1, GotoTyped
      <4> QED
        BY <2>8, <4>1 DEF MapRead, TypeOK, db
    <3>2. CASE /\ pc' = [pc EXCEPT ![c] = "mapped"]
               /\ local' = [local EXCEPT ![c] = mapped[Request[c]]]
               /\ UNCHANGED <<token, nowMs, until>>
      BY <2>8, <3>2 DEF MapRead, TypeOK, db
    <3> QED
      BY <2>8, <3>1, <3>2 DEF MapRead
  <2>9. CASE MapInsert(c)
    <3>1. Row(c) \in EntityType /\ NewEntity(c) = Append(created, Row(c))
      BY RowTyped
    <3>2. /\ created' \in Seq(EntityType) /\ Len(created') = Len(created) + 1
          /\ Len(created) \in Nat
      BY <2>9, <3>1 DEF MapInsert, TypeOK
    <3>3. mapped' \in [Requests -> 0..Len(created')]
      BY <2>9, <3>2 DEF MapInsert, TypeOK
    <3> QED
      BY <2>9, <3>2, <3>3 DEF MapInsert, TypeOK
  <2>10. CASE MapReread(c)
    BY <2>10 DEF MapReread, TypeOK, db
  <2>11. CASE RecordEntity(c)
    BY <2>11, AdvanceTyped DEF RecordEntity, TypeOK
  <2>12. CASE CreateHeader(c)
    <3>1. Row(c) \in EntityType /\ NewEntity(c) = Append(created, Row(c))
      BY RowTyped
    <3>2. Append(created, Row(c)) \in Seq(EntityType)
      BY <3>1 DEF TypeOK
    <3>3. Len(created) + 1 \in Nat /\ now + Lease \in Nat
      BY BoundsAssumption DEF TypeOK
    <3>4. row' \in [Requests -> RowType]
      <4>1. [row EXCEPT ![Request[c]].step = "written",
                        ![Request[c]].target = Len(created) + 1,
                        ![Request[c]].until = now + Lease] \in [Requests -> RowType]
        BY <3>3, ProgressTyped, ZenonT(40)
      <4> QED
        BY <2>12, <4>1 DEF CreateHeader, TypeOK
    <3>5. created' \in Seq(EntityType) /\ mapped' \in [Requests -> 0..Len(created')]
      <4>1. CASE created' = NewEntity(c)
        BY <2>12, <3>1, <3>2, <3>3, <4>1 DEF CreateHeader, TypeOK
      <4>2. CASE UNCHANGED created
        BY <2>12, <4>2 DEF CreateHeader, TypeOK
      <4> QED
        BY <2>12, <4>1, <4>2 DEF CreateHeader
    <3>6. HandlersTyped'
      <4>1. CASE Goto(c, "failing")
        BY <4>1, GotoTyped
      <4>2. CASE /\ until' = [until EXCEPT ![c] = now + Lease]
                 /\ pc' = [pc EXCEPT ![c] = "header_refresh"]
                 /\ local' = [local EXCEPT ![c] = Len(created) + 1]
                 /\ UNCHANGED <<token, nowMs>>
        BY <3>3, <4>2 DEF TypeOK
      <4> QED
        BY <2>12, <4>1, <4>2 DEF CreateHeader
    <3> QED
      BY <2>12, <3>4, <3>5, <3>6 DEF CreateHeader, TypeOK
  <2>13. CASE HeaderRefresh(c)
    <3>1. HandlersTyped' /\ view' \in [Callers -> ViewType]
      <4>1. CASE /\ view' = [view EXCEPT ![c] = Snapshot(row[Request[c]])]
                 /\ pc' = [pc EXCEPT ![c] = "run"]
                 /\ local' = [local EXCEPT ![c] = 0]
                 /\ UNCHANGED <<token, nowMs, until>>
        BY <4>1 DEF TypeOK
      <4>2. CASE Goto(c, "failing") /\ UNCHANGED view
        BY <4>2, GotoTyped DEF TypeOK
      <4> QED
        BY <2>13, <4>1, <4>2 DEF HeaderRefresh
    <3> QED
      BY <2>13, <3>1 DEF HeaderRefresh, TypeOK, db
  <2>14. CASE Settle(c)
    BY <2>14, AdvanceTyped DEF Settle
  <2>15. CASE Complete(c)
    <3> DEFINE done == [row[Request[c]] EXCEPT !.status = "completed",
                                               !.step = "completed",
                                               !.response = view[c].target,
                                               !.lease = NoToken,
                                               !.until = 0]
    <3>0. done \in RowType
      BY DEF RowType
    <3>1. [row EXCEPT ![Request[c]].status = "completed",
                      ![Request[c]].step = "completed",
                      ![Request[c]].response = view[c].target,
                      ![Request[c]].lease = NoToken,
                      ![Request[c]].until = 0] \in [Requests -> RowType]
      BY <3>0 DEF TypeOK
    <3>2. row' \in [Requests -> RowType]
      BY <2>15, <3>1 DEF Complete, TypeOK
    <3> QED
      BY <2>15, <3>2, GotoTyped DEF Complete, TypeOK
  <2>16. CASE CompleteCheck(c)
    BY <2>16, GotoTyped DEF CompleteCheck, TypeOK, db
  <2>17. CASE Close(c)
    BY <2>17, GotoTyped, AnswerTyped DEF Close, TypeOK, db
  <2>18. CASE StrayedStep(c)
    BY <2>18, GotoTyped DEF StrayedStep, TypeOK, db
  <2>19. CASE Fail(c)
    <3>1. [row EXCEPT ![Request[c]].lease = NoToken,
                      ![Request[c]].until = 0] \in [Requests -> RowType]
      BY ZenonT(40) DEF TypeOK, RowType
    <3>2. row' \in [Requests -> RowType]
      BY <2>19, <3>1 DEF Fail, TypeOK
    <3> QED
      BY <2>19, <3>2, RefuseTyped DEF Fail, TypeOK
  <2> QED
    BY <1>2, <2>1, <2>2, <2>3, <2>4, <2>5, <2>6, <2>7, <2>8, <2>9, <2>10, <2>11,
       <2>12, <2>13, <2>14, <2>15, <2>16, <2>17, <2>18, <2>19 DEF Handle
<1>3. ASSUME NEW c \in Callers, Discard(c) \/ Throw(c) \/ Crash(c)
      PROVE  TypeOK'
  <2>1. CASE Discard(c)
    <3>1. [row EXCEPT ![Request[c]] = Dropped(c)] \in [Requests -> RowType]
      BY DroppedTyped DEF TypeOK
    <3>2. row' \in [Requests -> RowType]
      BY <2>1, <3>1 DEF Discard, TypeOK
    <3>3. HandlersTyped' /\ view' \in [Callers -> ViewType] /\ answers' \subseteq AnswerType
      <4>1. CASE Refuse(c)
        BY <4>1, RefuseTyped
      <4>2. CASE Goto(c, "failing") /\ UNCHANGED <<view, answers>>
        BY <4>2, GotoTyped, PlacesAre DEF TypeOK
      <4> QED
        BY <2>1, <4>1, <4>2 DEF Discard
    <3> QED
      BY <2>1, <3>2, <3>3 DEF Discard, Fault, TypeOK
  <2>2. CASE Throw(c)
    <3>1. HandlersTyped' /\ view' \in [Callers -> ViewType] /\ answers' \subseteq AnswerType
      <4>1. CASE Refuse(c)
        BY <4>1, RefuseTyped
      <4>2. CASE Goto(c, "failing") /\ UNCHANGED <<view, answers>>
        BY <4>2, GotoTyped, PlacesAre DEF TypeOK
      <4>3. CASE Goto(c, "reread") /\ UNCHANGED <<view, answers>>
        BY <4>3, GotoTyped, PlacesAre DEF TypeOK
      <4> QED
        BY <2>2, <4>1, <4>2, <4>3 DEF Throw
    <3> QED
      BY <2>2, <3>1 DEF Throw, Fault, TypeOK, db
  <2>3. CASE Crash(c)
    <3>1. HandlersTyped' /\ view' \in [Callers -> ViewType] /\ answers' \subseteq AnswerType
      BY <2>3, RefuseTyped DEF Crash
    <3> QED
      BY <2>3, <3>1 DEF Crash, Fault, TypeOK, db
  <2> QED
    BY <1>3, <2>1, <2>2, <2>3
<1>4. CASE Tick
  BY <1>4 DEF TypeOK, Tick, db
<1>5. CASE UNCHANGED vars
  BY <1>5 DEF TypeOK, vars
<1> QED
  BY <1>1, <1>2, <1>3, <1>4, <1>5 DEF Next

\* The journal, the handlers' memory and the answers stay well-formed.
THEOREM TypeCorrect == Spec => []TypeOK
BY TypeInit, TypeStep, PTL DEF Spec

-----------------------------------------------------------------------------
(***************************************************************************)
(* Who may write a row, and what a handler that holds it knows.            *)
(***************************************************************************)

\* HolderViewFresh is not inductive: it rests on every live handler having a
\* token of its own.  The cursor argument also needs that an absent row starts
\* from the first step, and that the mapping is only used after validation.
JournalInv ==
    /\ \A c \in Callers : pc[c] = "idle" <=> token[c] = NoToken
    /\ \A c, d \in Callers : c # d /\ token[c] = token[d] => token[c] = NoToken
    /\ \A r \in Requests : row[r].status = "none" => row[r].step = "started"
    /\ \A c \in Callers : pc[c] \in {"map_insert", "map_reread", "mapped"}
                             => view[c].step = "validated"
    /\ HolderViewFresh

\* A write of caller c that leaves row n under its request id.
RowWrite(c, n) ==
    /\ row' = [row EXCEPT ![Request[c]] = n]
    /\ row[Request[c]].status # "completed"
    /\ Rank(row[Request[c]].step) <= Rank(n.step) \/ n.status = "none"
    /\ n.status = "none" => n.step = "started"
    /\ n.lease \in {token[c], NoToken}
    /\ pc[c] # "idle"
    /\ pc'[c] \notin Deciding

\* What a step of caller c does to the memory of the handlers.
OwnMove(c) ==
    /\ \A d \in Callers \ {c} : pc'[d] = pc[d] /\ token'[d] = token[d] /\ view'[d] = view[d]
    /\ \/ pc[c] = "idle" /\ pc'[c] = "read" /\ token'[c] = NewToken /\ FreshTokens # {}
       \/ pc[c] # "idle" /\ pc'[c] = "idle" /\ token'[c] = NoToken
       \/ pc[c] # "idle" /\ pc'[c] # "idle" /\ token'[c] = token[c]
    /\ pc'[c] \in Deciding =>
         \/ pc'[c] = "run" /\ view'[c] = Snapshot(row[Request[c]])
         \/ /\ pc[c] \in Deciding /\ view'[c] = view[c]
            /\ pc'[c] # "run" /\ view[c].step = "validated"

LEMMA RankIs ==
    /\ Rank("started") = 0 /\ Rank("validated") = 1 /\ Rank("written") = 2
    /\ Rank("settled") = 3 /\ Rank("completed") = 4
    /\ \A s \in Steps : Rank(s) \in 0..4
BY DEF Rank, Steps

LEMMA RefuseMoves ==
    ASSUME TypeOK, NEW c \in Callers, Forget(c), pc[c] # "idle"
    PROVE  OwnMove(c) /\ pc'[c] = "idle"
BY DEF TypeOK, Forget, OwnMove, Deciding

LEMMA GotoMoves ==
    ASSUME TypeOK, NEW c \in Callers, NEW p, Goto(c, p), p \notin Deciding \cup {"idle"},
           pc[c] # "idle", UNCHANGED view
    PROVE  OwnMove(c) /\ pc'[c] = p
BY DEF TypeOK, Goto, OwnMove

LEMMA ExamineMoves ==
    ASSUME TypeOK, NEW c \in Callers, Examine(c), pc[c] # "idle"
    PROVE  OwnMove(c)
<1>1. CASE Forget(c)
  BY <1>1, RefuseMoves
<1>2. CASE Goto(c, "claim") /\ UNCHANGED view
  BY <1>2, GotoMoves DEF Deciding
<1>3. CASE Goto(c, "run") /\ view' = [view EXCEPT ![c] = Snapshot(row[Request[c]])]
  BY <1>3 DEF TypeOK, Goto, OwnMove, Deciding
<1> QED
  BY <1>1, <1>2, <1>3 DEF Examine, Refuse, Answer

\* advanceCriticalOperation writes only for the holder, and from its last step.
LEMMA AdvanceWrites ==
    ASSUME TypeOK, NEW c \in Callers, NEW s \in Steps, NEW t \in Nat, Advance(c, s, t),
           pc[c] # "idle", Held(c) => Rank(row[Request[c]].step) <= Rank(s)
    PROVE  /\ OwnMove(c)
           /\ UNCHANGED row \/ \E n \in RowType : RowWrite(c, n)
<1>1. CASE Held(c)
  <2>1. /\ row' = [row EXCEPT ![Request[c]].step = s, ![Request[c]].target = t,
                              ![Request[c]].until = now + Lease]
        /\ pc' = [pc EXCEPT ![c] = "advanced"]
        /\ UNCHANGED <<token, view>>
    BY <1>1 DEF Advance
  <2> DEFINE n == [row[Request[c]] EXCEPT !.step = s, !.target = t, !.until = now + Lease]
  <2>2. row[Request[c]] \in RowType /\ row \in [Requests -> RowType] /\ now + Lease \in Nat
    BY OwnRow, BoundsAssumption DEF TypeOK
  <2>3. /\ n \in RowType /\ n.step = s /\ n.status = row[Request[c]].status
        /\ n.lease = token[c]
    BY <1>1, <2>2 DEF RowType, Held
  <2>4. row' = [row EXCEPT ![Request[c]] = n]
    BY <2>1, <2>2
  <2>5. pc'[c] = "advanced" /\ OwnMove(c)
    BY <2>1 DEF TypeOK, OwnMove, Deciding
  <2>6. row[Request[c]].status = "started"
    BY <1>1 DEF Held
  <2>7. RowWrite(c, n)
    BY <1>1, <2>3, <2>4, <2>5, <2>6 DEF RowWrite, Deciding
  <2> QED
    BY <2>3, <2>5, <2>7
<1>2. CASE ~Held(c)
  BY <1>2, GotoMoves DEF Advance, Deciding
<1> QED
  BY <1>1, <1>2

LEMMA HolderStep ==
    ASSUME TypeOK, JournalInv, NEW c \in Callers, NEW s, Held(c),
           AtStep(c, s) \/ (pc[c] \in Deciding /\ view[c].step = s)
    PROVE  row[Request[c]].step = s /\ row[Request[c]].status = "started"
<1>1. pc[c] \in Deciding /\ view[c].step = s
  BY DEF AtStep, Deciding
<1>2. view[c] = Snapshot(row[Request[c]])
  BY <1>1 DEF JournalInv, HolderViewFresh
<1> QED
  BY <1>1, <1>2 DEF Snapshot, Held

\* Every step of a handler is of the two kinds above.
LEMMA HandleMoves ==
    ASSUME TypeOK, JournalInv, NEW c \in Callers,
           Handle(c) \/ Discard(c) \/ Throw(c) \/ Crash(c)
    PROVE  /\ OwnMove(c)
           /\ UNCHANGED row \/ \E n \in RowType : RowWrite(c, n)
<1> USE StepsAre, OwnRow
<1> DEFINE r == row[Request[c]]
<1>1. CASE BeginRead(c)
  BY <1>1, ExamineMoves, GotoMoves DEF BeginRead, db, Deciding
<1>2. CASE BeginInsert(c)
  <2>1. OwnMove(c) /\ pc'[c] = "reread" /\ pc[c] = "insert"
    BY <1>2, GotoMoves DEF BeginInsert, Deciding
  <2>2. CASE r.status = "none"
    <3> DEFINE n == [AbsentRow EXCEPT !.status = "started", !.payload = Payload[c],
                                      !.lease = token[c], !.until = until[c],
                                      !.key = row[Request[c]].key + 1]
    <3>1. n \in RowType /\ n.step = "started" /\ n.status = "started" /\ n.lease = token[c]
      BY InsertedTyped
    <3>2. r.step = "started"
      BY <2>2 DEF JournalInv
    <3>3. row' = [row EXCEPT ![Request[c]] = n]
      BY <1>2, <2>2 DEF BeginInsert
    <3>4. RowWrite(c, n)
      BY <2>1, <2>2, <3>1, <3>2, <3>3, RankIs DEF RowWrite, Deciding
    <3> QED
      BY <2>1, <3>1, <3>4
  <2>3. CASE r.status # "none"
    BY <1>2, <2>1, <2>3 DEF BeginInsert
  <2> QED
    BY <2>2, <2>3
<1>3. CASE BeginReread(c)
  BY <1>3, ExamineMoves, RefuseMoves DEF BeginReread, db, Refuse
<1>4. CASE BeginClaim(c)
  <2>1. CASE Claimable(c)
    <3> DEFINE n == [r EXCEPT !.lease = token[c], !.until = until[c]]
    <3>1. row' = [row EXCEPT ![Request[c]].lease = token[c], ![Request[c]].until = until[c]]
          /\ Goto(c, "refresh") /\ UNCHANGED view
      BY <1>4, <2>1 DEF BeginClaim
    <3>2. r \in RowType /\ row \in [Requests -> RowType]
      BY DEF TypeOK
    <3>3. until[c] \in Nat /\ token[c] \in Tokens \cup {NoToken}
      BY DEF TypeOK
    <3>4. n \in RowType /\ n.step = r.step /\ n.status = r.status /\ n.lease = token[c]
      BY <3>2, <3>3 DEF RowType
    <3>5. row' = [row EXCEPT ![Request[c]] = n]
      BY <3>1, <3>2
    <3>6. OwnMove(c) /\ pc'[c] = "refresh" /\ pc[c] = "claim"
      BY <1>4, <3>1, GotoMoves DEF BeginClaim, Deciding
    <3>7. r.status = "started" /\ r.step \in Steps
      BY <2>1, <3>2 DEF Claimable, RowType
    <3>8. RowWrite(c, n)
      BY <3>4, <3>5, <3>6, <3>7, RankIs DEF RowWrite, Deciding
    <3> QED
      BY <3>4, <3>6, <3>8
  <2>2. CASE ~Claimable(c)
    BY <1>4, <2>2, RefuseMoves DEF BeginClaim, Refuse
  <2> QED
    BY <2>1, <2>2
<1>5. CASE BeginRefresh(c)
  <2>1. pc[c] = "refresh" /\ UNCHANGED row
    BY <1>5 DEF BeginRefresh, db
  <2>2. CASE Forget(c)
    BY <2>1, <2>2, RefuseMoves
  <2>3. CASE Goto(c, "run") /\ view' = [view EXCEPT ![c] = Snapshot(r)]
    BY <2>1, <2>3 DEF TypeOK, Goto, OwnMove, Deciding
  <2>4. CASE Goto(c, "failing") /\ UNCHANGED view
    BY <2>1, <2>4, GotoMoves DEF Deciding
  <2> QED
    BY <1>5, <2>1, <2>2, <2>3, <2>4 DEF BeginRefresh, Refuse, Answer
<1>6. CASE Validate(c)
  <2>1. Held(c) => r.step = "started"
    BY <1>6, HolderStep DEF Validate
  <2> QED
    BY <1>6, <2>1, AdvanceWrites, RankIs DEF Validate, AtStep
<1>7. CASE Refresh(c)
  <2>1. pc[c] = "advanced" /\ UNCHANGED row
    BY <1>7 DEF Refresh, db
  <2>2. CASE r.status # "none"
    <3>1. /\ view' = [view EXCEPT ![c] = Snapshot(r)]
          /\ pc' = [pc EXCEPT ![c] = "run"]
          /\ UNCHANGED token
      BY <1>7, <2>2 DEF Refresh
    <3> QED
      BY <2>1, <3>1 DEF TypeOK, OwnMove, Deciding
  <2>3. CASE r.status = "none"
    BY <1>7, <2>1, <2>3, GotoMoves DEF Refresh, Deciding
  <2> QED
    BY <2>2, <2>3
<1>8. CASE MapRead(c)
  <2>1. pc[c] = "run" /\ view[c].step = "validated" /\ UNCHANGED <<row, view, token>>
    BY <1>8 DEF MapRead, AtStep, Goto, db
  <2>2. pc' = [pc EXCEPT ![c] = "mapped"] \/ pc' = [pc EXCEPT ![c] = "map_insert"]
    BY <1>8 DEF MapRead, Goto
  <2> QED
    BY <2>1, <2>2 DEF TypeOK, OwnMove, Deciding
<1>9. CASE MapInsert(c)
  <2>1. /\ pc[c] = "map_insert" /\ UNCHANGED <<row, view, token>>
        /\ pc' = [pc EXCEPT ![c] = "map_reread"]
    BY <1>9 DEF MapInsert
  <2>2. view[c].step = "validated"
    BY <2>1 DEF JournalInv
  <2> QED
    BY <2>1, <2>2 DEF TypeOK, OwnMove, Deciding
<1>10. CASE MapReread(c)
  <2>1. /\ pc[c] = "map_reread" /\ UNCHANGED <<row, view, token>>
        /\ pc' = [pc EXCEPT ![c] = "mapped"]
    BY <1>10 DEF MapReread, db
  <2>2. view[c].step = "validated"
    BY <2>1 DEF JournalInv
  <2> QED
    BY <2>1, <2>2 DEF TypeOK, OwnMove, Deciding
<1>11. CASE RecordEntity(c)
  <2>1. pc[c] = "mapped" /\ view[c].step = "validated" /\ local[c] \in Nat
    BY <1>11 DEF RecordEntity, JournalInv, TypeOK
  <2>2. Held(c) => r.step = "validated"
    BY <2>1, HolderStep DEF Deciding
  <2> QED
    BY <1>11, <2>1, <2>2, AdvanceWrites, RankIs DEF RecordEntity
<1>12. CASE CreateHeader(c)
  <2>1. pc[c] = "run" /\ UNCHANGED view
    BY <1>12 DEF CreateHeader, AtStep
  <2>2. CASE Goto(c, "failing") /\ UNCHANGED row
    BY <2>1, <2>2, GotoMoves DEF Deciding
  <2>3. CASE /\ row' = IF Held(c)
                         THEN [row EXCEPT ![Request[c]].step = "written",
                                          ![Request[c]].target = Len(created) + 1,
                                          ![Request[c]].until = now + Lease]
                         ELSE row
             /\ pc' = [pc EXCEPT ![c] = "header_refresh"]
             /\ UNCHANGED token
    <3>1. OwnMove(c) /\ pc'[c] = "header_refresh"
      BY <2>1, <2>3 DEF TypeOK, OwnMove, Deciding
    <3>2. CASE Held(c)
      <4> DEFINE n == [r EXCEPT !.step = "written", !.target = Len(created) + 1,
                                !.until = now + Lease]
      <4>1. r \in RowType /\ row \in [Requests -> RowType]
        BY DEF TypeOK
      <4>2. Len(created) + 1 \in Nat /\ now + Lease \in Nat
        BY BoundsAssumption DEF TypeOK
      <4>3. r.step = "validated" /\ r.status = "started"
        BY <1>12, <3>2, HolderStep DEF CreateHeader
      <4>4. n \in RowType /\ n.step = "written" /\ n.status = "started" /\ n.lease = token[c]
        BY <3>2, <4>1, <4>2, <4>3 DEF RowType, Held
      <4>5. row' = [row EXCEPT ![Request[c]] = n]
        BY <2>3, <3>2, <4>1
      <4>6. RowWrite(c, n)
        BY <2>1, <3>1, <3>2, <4>3, <4>4, <4>5, RankIs DEF RowWrite, Deciding
      <4> QED
        BY <3>1, <4>4, <4>6
    <3>3. CASE ~Held(c)
      BY <2>3, <3>1, <3>3
    <3> QED
      BY <3>2, <3>3
  <2> QED
    BY <1>12, <2>2, <2>3 DEF CreateHeader
<1>13. CASE HeaderRefresh(c)
  <2>1. pc[c] = "header_refresh" /\ UNCHANGED row
    BY <1>13 DEF HeaderRefresh, db
  <2>2. CASE /\ view' = [view EXCEPT ![c] = Snapshot(r)]
             /\ pc' = [pc EXCEPT ![c] = "run"]
             /\ UNCHANGED token
    BY <2>1, <2>2 DEF TypeOK, OwnMove, Deciding
  <2>3. CASE Goto(c, "failing") /\ UNCHANGED view
    BY <2>1, <2>3, GotoMoves DEF Deciding
  <2> QED
    BY <1>13, <2>1, <2>2, <2>3 DEF HeaderRefresh
<1>14. CASE Settle(c)
  <2>1. Held(c) => r.step = "written"
    BY <1>14, HolderStep DEF Settle
  <2> QED
    BY <1>14, <2>1, AdvanceWrites, RankIs DEF Settle, AtStep
<1>15. CASE Complete(c)
  <2>1. pc[c] = "run" /\ UNCHANGED view
    BY <1>15 DEF Complete, AtStep
  <2>2. CASE Held(c)
    <3> DEFINE n == [r EXCEPT !.status = "completed", !.step = "completed",
                              !.response = view[c].target, !.lease = NoToken, !.until = 0]
    <3>1. r \in RowType /\ row \in [Requests -> RowType]
      BY DEF TypeOK
    <3>2. n \in RowType /\ n.step = "completed" /\ n.status = "completed" /\ n.lease = NoToken
      BY <3>1 DEF RowType
    <3>3. /\ row' = [row EXCEPT ![Request[c]].status = "completed",
                               ![Request[c]].step = "completed",
                               ![Request[c]].response = view[c].target,
                               ![Request[c]].lease = NoToken,
                               ![Request[c]].until = 0]
          /\ Goto(c, "closing")
      BY <1>15, <2>2 DEF Complete
    <3>4. row' = [row EXCEPT ![Request[c]] = n]
      BY <3>1, <3>3
    <3>5. OwnMove(c) /\ pc'[c] = "closing"
      BY <2>1, <3>3, GotoMoves DEF Deciding
    <3>6. r.step = "settled" /\ r.status = "started"
      BY <1>15, <2>2, HolderStep DEF Complete
    <3>7. RowWrite(c, n)
      BY <2>1, <2>2, <3>2, <3>4, <3>5, <3>6, RankIs DEF RowWrite, Deciding
    <3> QED
      BY <3>2, <3>5, <3>7
  <2>3. CASE ~Held(c)
    BY <1>15, <2>1, <2>3, GotoMoves DEF Complete, Deciding
  <2> QED
    BY <2>2, <2>3
<1>16. CASE CompleteCheck(c)
  BY <1>16, GotoMoves DEF CompleteCheck, db, Deciding
<1>17. CASE Close(c)
  BY <1>17, GotoMoves, RefuseMoves DEF Close, db, Deciding, Answer
<1>18. CASE StrayedStep(c)
  BY <1>18, GotoMoves DEF StrayedStep, AtStep, db, Deciding
<1>19. CASE Fail(c)
  <2>1. pc[c] = "failing" /\ OwnMove(c) /\ pc'[c] = "idle"
    BY <1>19, RefuseMoves DEF Fail, Refuse
  <2>2. CASE Held(c)
    <3> DEFINE n == [r EXCEPT !.lease = NoToken, !.until = 0]
    <3>1. r \in RowType /\ row \in [Requests -> RowType]
      BY DEF TypeOK
    <3>2. /\ n \in RowType /\ n.step = r.step /\ n.status = r.status /\ r.step \in Steps
          /\ n.lease = NoToken
      BY <3>1 DEF RowType
    <3>3. row' = [row EXCEPT ![Request[c]].lease = NoToken, ![Request[c]].until = 0]
      BY <1>19, <2>2 DEF Fail
    <3>4. row' = [row EXCEPT ![Request[c]] = n]
      BY <3>1, <3>3
    <3>5. r.status = "started"
      BY <2>2 DEF Held
    <3>6. RowWrite(c, n)
      BY <2>1, <2>2, <3>2, <3>4, <3>5, RankIs DEF RowWrite, Deciding
    <3> QED
      BY <2>1, <3>2, <3>6
  <2>3. CASE ~Held(c)
    BY <1>19, <2>1, <2>3 DEF Fail
  <2> QED
    BY <2>2, <2>3
<1>20. CASE Discard(c)
  <2>1. pc[c] = "run"
    BY <1>20 DEF Discard, AtStep
  <2>2. CASE /\ Held(c)
             /\ row' = [row EXCEPT ![Request[c]] = Dropped(c)]
             /\ Refuse(c)
    <3>1. OwnMove(c) /\ pc'[c] = "idle"
      BY <2>1, <2>2, RefuseMoves DEF Refuse
    <3>2. RowWrite(c, Dropped(c))
      BY <2>1, <2>2, <3>1, DroppedTyped, OwnRow DEF RowWrite, Held, Deciding
    <3> QED
      BY <3>1, <3>2, DroppedTyped, OwnRow
  <2>3. CASE Goto(c, "failing") /\ UNCHANGED <<row, view>>
    BY <2>1, <2>3, GotoMoves DEF Deciding
  <2> QED
    BY <1>20, <2>2, <2>3 DEF Discard
<1>21. CASE Throw(c)
  <2>1. pc[c] # "idle" /\ UNCHANGED row
    BY <1>21 DEF Throw, Live, Executing, db
  <2>2. CASE Refuse(c)
    BY <2>1, <2>2, RefuseMoves DEF Refuse
  <2>3. CASE Goto(c, "failing") /\ UNCHANGED view
    BY <2>1, <2>3, GotoMoves DEF Deciding
  <2>4. CASE Goto(c, "reread") /\ UNCHANGED view
    BY <2>1, <2>4, GotoMoves DEF Deciding
  <2> QED
    BY <1>21, <2>1, <2>2, <2>3, <2>4 DEF Throw
<1>22. CASE Crash(c)
  <2>1. pc[c] # "idle" /\ UNCHANGED row
    BY <1>22 DEF Crash, Live, Executing, db
  <2> QED
    BY <1>22, <2>1, RefuseMoves DEF Crash, Refuse
<1> QED
  BY <1>1, <1>2, <1>3, <1>4, <1>5, <1>6, <1>7, <1>8, <1>9, <1>10, <1>11, <1>12,
     <1>13, <1>14, <1>15, <1>16, <1>17, <1>18, <1>19, <1>20, <1>21, <1>22 DEF Handle

LEMMA BeginMoves ==
    ASSUME TypeOK, NEW c \in Callers, Begin(c)
    PROVE  OwnMove(c) /\ UNCHANGED row
BY DEF Begin, TypeOK, OwnMove, Deciding, db

LEMMA JournalInit == Init => JournalInv
BY DEF Init, JournalInv, HolderViewFresh, Deciding, AbsentRow, Blank

\* A move of one caller, with the row it writes or with none, keeps JournalInv.
LEMMA MoveKeepsInv ==
    ASSUME TypeOK, JournalInv, NEW c \in Callers, OwnMove(c),
           UNCHANGED row \/ \E n \in RowType : RowWrite(c, n)
    PROVE  JournalInv'
<1>0. FreshTokens # {} => NewToken # NoToken /\ \A d \in Callers : NewToken # token[d]
  BY FreshTokenIsNew, CallersAssumption
<1>1. \A d \in Callers : pc'[d] = "idle" <=> token'[d] = NoToken
  BY <1>0 DEF OwnMove, JournalInv
<1>2. \A x, d \in Callers : x # d /\ token'[x] = token'[d] => token'[x] = NoToken
  BY <1>0 DEF OwnMove, JournalInv
<1>3. ASSUME NEW r \in Requests, row'[r].status = "none"
      PROVE  row'[r].step = "started"
  <2>1. CASE row'[r] = row[r]
    BY <1>3, <2>1 DEF JournalInv
  <2>2. CASE row'[r] # row[r]
    <3>1. PICK n \in RowType : RowWrite(c, n)
      BY <2>2
    <3>2. row'[r] = n
      BY <2>2, <3>1 DEF RowWrite, TypeOK
    <3> QED
      BY <1>3, <3>1, <3>2 DEF RowWrite
  <2> QED
    BY <2>1, <2>2
<1>4. ASSUME NEW d \in Callers, pc'[d] \in {"map_insert", "map_reread", "mapped"}
      PROVE  view'[d].step = "validated"
  <2>1. CASE d = c
    BY <1>4, <2>1 DEF OwnMove, Deciding
  <2>2. CASE d # c
    BY <1>4, <2>2 DEF OwnMove, JournalInv
  <2> QED
    BY <2>1, <2>2
<1>5. ASSUME NEW d \in Callers, pc'[d] \in Deciding, Held(d)'
      PROVE  view'[d] = Snapshot(row'[Request[d]])
  <2>0. Request[d] \in Requests /\ Request[c] \in Requests /\ token'[d] # NoToken
    BY <1>1, <1>5, CallersAssumption DEF Deciding
  <2>1. row'[Request[d]] = row[Request[d]]
    <3>1. CASE UNCHANGED row
      BY <3>1
    <3>2. ASSUME NEW n \in RowType, RowWrite(c, n), Request[d] = Request[c]
          PROVE  FALSE
      <4>1. row'[Request[d]] = n /\ d # c
        BY <1>5, <2>0, <3>2 DEF RowWrite, TypeOK
      <4>2. n.lease = token[d] /\ token'[d] = token[d]
        BY <1>5, <4>1 DEF Held, OwnMove
      <4>3. token[c] = token[d] /\ token[c] # NoToken
        BY <2>0, <3>2, <4>2 DEF RowWrite
      <4> QED
        BY <4>1, <4>3 DEF JournalInv
    <3>3. ASSUME NEW n \in RowType, RowWrite(c, n), Request[d] # Request[c]
          PROVE  row'[Request[d]] = row[Request[d]]
      BY <2>0, <3>3 DEF RowWrite, TypeOK
    <3> QED
      BY <3>1, <3>2, <3>3
  <2>2. CASE d = c
    <3>1. Held(c)' = Held(c)
      <4>1. token'[c] = token[c]
        BY <1>5, <2>0, <2>2 DEF OwnMove, Deciding
      <4> QED
        BY <2>1, <2>2, <4>1 DEF Held
    <3> QED
      BY <1>5, <2>1, <2>2, <3>1 DEF OwnMove, JournalInv, HolderViewFresh
  <2>3. CASE d # c
    <3>1. pc'[d] = pc[d] /\ token'[d] = token[d] /\ view'[d] = view[d]
      BY <2>3 DEF OwnMove
    <3>2. Held(d)
      BY <1>5, <2>1, <3>1 DEF Held
    <3> QED
      BY <1>5, <2>1, <3>1, <3>2 DEF JournalInv, HolderViewFresh
  <2> QED
    BY <2>2, <2>3
<1> QED
  BY <1>1, <1>2, <1>3, <1>4, <1>5 DEF JournalInv, HolderViewFresh

\* What Next can change, by who does it.
LEMMA NextMoves ==
    ASSUME TypeOK, JournalInv, [Next]_vars
    PROVE  \/ UNCHANGED <<row, pc, token, view>>
           \/ \E c \in Callers :
                /\ OwnMove(c)
                /\ UNCHANGED row \/ \E n \in RowType : RowWrite(c, n)
<1>1. CASE \E c \in Callers : Begin(c) \/ Handle(c) \/ Discard(c) \/ Throw(c) \/ Crash(c)
  BY <1>1, BeginMoves, HandleMoves
<1>2. CASE Tick
  BY <1>2 DEF Tick, db
<1>3. CASE UNCHANGED vars
  BY <1>3 DEF vars
<1> QED
  BY <1>1, <1>2, <1>3 DEF Next

LEMMA JournalKeeps == TypeOK /\ JournalInv /\ [Next]_vars => JournalInv'
<1> SUFFICES ASSUME TypeOK, JournalInv, [Next]_vars
             PROVE  JournalInv'
  OBVIOUS
<1>1. CASE UNCHANGED <<row, pc, token, view>>
  BY <1>1 DEF JournalInv, HolderViewFresh, Held
<1>2. CASE \E c \in Callers : /\ OwnMove(c)
                              /\ UNCHANGED row \/ \E n \in RowType : RowWrite(c, n)
  BY <1>2, MoveKeepsInv
<1> QED
  BY <1>1, <1>2, NextMoves

LEMMA JournalInvariant == Spec => [](TypeOK /\ JournalInv)
BY TypeInit, TypeStep, JournalInit, JournalKeeps, PTL DEF Spec

\* A handler that holds the lease decides from the row as it is, for any number
\* of overlapping, crashing and late handlers.
THEOREM HolderIsFresh == Spec => []HolderViewFresh
<1>1. TypeOK /\ JournalInv => HolderViewFresh
  BY DEF JournalInv
<1> QED
  BY <1>1, JournalInvariant, PTL

\* The row of a request after one step: what the two action properties compare.
LEMMA RowStep ==
    ASSUME TypeOK, JournalInv, [Next]_vars, NEW r \in Requests
    PROVE  \/ row'[r] = row[r]
           \/ /\ row[r].status # "completed"
              /\ row'[r].status = "none" \/ Rank(row[r].step) <= Rank(row'[r].step)
<1>1. CASE UNCHANGED row
  BY <1>1
<1>2. ASSUME NEW c \in Callers, NEW n \in RowType, RowWrite(c, n)
      PROVE  \/ row'[r] = row[r]
             \/ row' = [row EXCEPT ![r] = n] /\ r = Request[c]
  BY <1>2, CallersAssumption DEF RowWrite, TypeOK
<1> QED
  BY <1>1, <1>2, NextMoves DEF RowWrite, TypeOK

\* No retry, late handler or late failure ever changes a completed operation.
THEOREM CompletedStays == Spec => CompletedFinal
<1>1. ASSUME TypeOK, JournalInv, [Next]_vars
      PROVE  \A r \in Requests : row[r].status = "completed" => row'[r] = row[r]
  BY <1>1, RowStep
<1>2. TypeOK /\ JournalInv /\ [Next]_vars
        => [\A r \in Requests : row[r].status = "completed" => row'[r] = row[r]]_vars
  BY <1>1
<1> QED
  BY <1>2, JournalInvariant, PTL DEF Spec, CompletedFinal

\* The cursor never moves back while its row exists.
THEOREM CursorForward == Spec => StepsForward
<1>1. ASSUME TypeOK, JournalInv, [Next]_vars
      PROVE  \A r \in Requests : \/ row'[r].status = "none"
                                 \/ Rank(row[r].step) <= Rank(row'[r].step)
  <2>1. \A r \in Requests : row[r].step \in Steps
    BY <1>1 DEF TypeOK, RowType
  <2>2. \A r \in Requests : Rank(row[r].step) <= Rank(row[r].step)
    BY <2>1, RankIs
  <2> QED
    BY <1>1, <2>2, RowStep
<1>2. TypeOK /\ JournalInv /\ [Next]_vars
        => [\A r \in Requests : \/ row'[r].status = "none"
                                \/ Rank(row[r].step) <= Rank(row'[r].step)]_vars
  BY <1>1
<1> QED
  BY <1>2, JournalInvariant, PTL DEF Spec, StepsForward
-----------------------------------------------------------------------------
(***************************************************************************)
(* What one step does to the rows and to the memory of the handlers.       *)
(***************************************************************************)

\* A user of the journal may also turn its own operation down between two steps
\* (a payment that is above the balance): its handler then fails.
Decline(c) ==
    /\ pc[c] \in {"run", "map_insert"}
    /\ Goto(c, "failing")
    /\ UNCHANGED <<db, now, view, answers, faults>>

Act(c) == Begin(c) \/ Handle(c) \/ Discard(c) \/ Throw(c) \/ Crash(c) \/ Decline(c)

\* The steps of the journal, alone or under a user of it.
AnyStep == (\E c \in Callers : Act(c)) \/ Tick \/ UNCHANGED vars

LEMMA NextIsAnyStep == [Next]_vars => AnyStep
BY DEF Next, AnyStep, Act

LEMMA TypeKept == TypeOK /\ AnyStep => TypeOK'
<1>1. ASSUME TypeOK, NEW c \in Callers, Decline(c)
      PROVE  TypeOK'
  BY <1>1, GotoTyped, PlacesAre DEF Decline, TypeOK, HandlersTyped, db
<1>2. AnyStep => [Next]_vars \/ \E c \in Callers : Decline(c)
  BY DEF AnyStep, Act, Next
<1> QED
  BY <1>1, <1>2, TypeStep

LEMMA JournalKept == TypeOK /\ JournalInv /\ AnyStep => JournalInv'
<1>1. ASSUME TypeOK, JournalInv, NEW c \in Callers, Decline(c)
      PROVE  JournalInv'
  <2>1. OwnMove(c) /\ UNCHANGED row
    BY <1>1, GotoMoves DEF Decline, Deciding, db
  <2> QED
    BY <1>1, <2>1, MoveKeepsInv
<1>2. AnyStep => [Next]_vars \/ \E c \in Callers : Decline(c)
  BY DEF AnyStep, Act, Next
<1> QED
  BY <1>1, <1>2, JournalKeeps

\* Nobody but c, and no row but its own, is touched by a step of c.
Frame(c) ==
    /\ \A d \in Callers \ {c} :
         /\ pc'[d] = pc[d] /\ token'[d] = token[d] /\ nowMs'[d] = nowMs[d]
         /\ until'[d] = until[d] /\ view'[d] = view[d] /\ local'[d] = local[d]
    /\ \A q \in Requests \ {Request[c]} : row'[q] = row[q] /\ mapped'[q] = mapped[q]
    /\ now' = now
    /\ UNCHANGED created \/ created' = NewEntity(c)

LEMMA MovesInFrame ==
    ASSUME TypeOK, NEW c \in Callers, Act(c)
    PROVE  Frame(c)
<1> DEFINE Others == \A d \in Callers \ {c} :
             /\ pc'[d] = pc[d] /\ token'[d] = token[d] /\ nowMs'[d] = nowMs[d]
             /\ until'[d] = until[d] /\ view'[d] = view[d] /\ local'[d] = local[d]
           Rows == \A q \in Requests \ {Request[c]} : row'[q] = row[q]
<1>1. ASSUME NEW p, Goto(c, p), UNCHANGED view
      PROVE  Others
  BY <1>1 DEF TypeOK, Goto
<1>2. ASSUME Forget(c)
      PROVE  Others
  BY <1>2 DEF TypeOK, Forget
<1>3. ASSUME Examine(c)
      PROVE  Others
  <2>1. CASE Goto(c, "run") /\ view' = [view EXCEPT ![c] = Snapshot(row[Request[c]])]
    BY <2>1 DEF TypeOK, Goto
  <2> QED
    BY <1>1, <1>2, <1>3, <2>1 DEF Examine, Refuse, Answer
<1>4. ASSUME NEW s, NEW t, Advance(c, s, t)
      PROVE  Others /\ Rows /\ UNCHANGED <<mapped, created, now>>
  <2>1. Others
    <3>1. CASE Held(c)
      BY <1>4, <3>1 DEF Advance, TypeOK
    <3>2. CASE ~Held(c)
      BY <1>1, <1>4, <3>2 DEF Advance
    <3> QED
      BY <3>1, <3>2
  <2> QED
    BY <1>4, <2>1 DEF Advance, TypeOK
<1>5. CASE Begin(c)
  BY <1>5 DEF Begin, Frame, TypeOK, db
<1>6. CASE BeginRead(c) \/ BeginReread(c) \/ CompleteCheck(c) \/ Close(c)
           \/ StrayedStep(c)
  BY <1>1, <1>2, <1>3, <1>6
     DEF BeginRead, BeginReread, CompleteCheck, Close, StrayedStep, Frame, db, Refuse,
         Answer
<1>7. CASE BeginRefresh(c)
  <2>1. CASE Goto(c, "run") /\ view' = [view EXCEPT ![c] = Snapshot(row[Request[c]])]
    BY <1>7, <2>1 DEF TypeOK, Goto, BeginRefresh, Frame, db
  <2> QED
    BY <1>1, <1>2, <1>7, <2>1 DEF BeginRefresh, Frame, Refuse, Answer, db
<1>8. CASE BeginInsert(c) \/ BeginClaim(c) \/ Complete(c) \/ Fail(c)
  <2>1. Others
    BY <1>1, <1>2, <1>8 DEF BeginInsert, BeginClaim, Complete, Fail, Refuse
  <2>2. Rows
    BY <1>8 DEF BeginInsert, BeginClaim, Complete, Fail, TypeOK
  <2> QED
    BY <1>8, <2>1, <2>2 DEF BeginInsert, BeginClaim, Complete, Fail, Frame
<1>9. CASE Validate(c) \/ RecordEntity(c) \/ Settle(c)
  BY <1>4, <1>9 DEF Validate, RecordEntity, Settle, Frame
<1>10. CASE Refresh(c) \/ HeaderRefresh(c)
  <2>1. CASE Goto(c, "failing") /\ UNCHANGED view
    BY <1>1, <1>10, <2>1 DEF Refresh, HeaderRefresh, Frame, db
  <2>2. CASE /\ view' = [view EXCEPT ![c] = Snapshot(row[Request[c]])]
             /\ pc' = [pc EXCEPT ![c] = "run"]
             /\ local' = [local EXCEPT ![c] = 0]
             /\ UNCHANGED <<token, nowMs, until>>
    BY <1>10, <2>2 DEF Refresh, HeaderRefresh, Frame, TypeOK, db
  <2> QED
    BY <1>10, <2>1, <2>2 DEF Refresh, HeaderRefresh
<1>11. CASE MapRead(c) \/ MapReread(c)
  <2>1. UNCHANGED <<db, now, view, token, nowMs, until>>
    BY <1>11 DEF MapRead, MapReread, Goto
  <2>2. PICK p, l : /\ pc' = [pc EXCEPT ![c] = p]
                    /\ local' = local \/ local' = [local EXCEPT ![c] = l]
    BY <1>11 DEF MapRead, MapReread, Goto
  <2>3. Others
    BY <2>1, <2>2 DEF TypeOK
  <2> QED
    BY <2>1, <2>3 DEF Frame, db
<1>12. CASE MapInsert(c)
  BY <1>12 DEF MapInsert, Frame, TypeOK
<1>13. CASE CreateHeader(c)
  <2>1. Others
    <3>1. CASE Goto(c, "failing")
      BY <1>1, <1>13, <3>1 DEF CreateHeader
    <3>2. CASE /\ until' = [until EXCEPT ![c] = now + Lease]
               /\ pc' = [pc EXCEPT ![c] = "header_refresh"]
               /\ local' = [local EXCEPT ![c] = Len(created) + 1]
               /\ UNCHANGED <<token, nowMs>>
      BY <1>13, <3>2 DEF CreateHeader, TypeOK
    <3> QED
      BY <1>13, <3>1, <3>2 DEF CreateHeader
  <2>2. Rows
    BY <1>13 DEF CreateHeader, TypeOK
  <2> QED
    BY <1>13, <2>1, <2>2 DEF CreateHeader, Frame
<1>14. CASE Discard(c)
  <2>1. Others
    BY <1>1, <1>2, <1>14 DEF Discard, Refuse
  <2>2. Rows
    BY <1>14 DEF Discard, TypeOK
  <2> QED
    BY <1>14, <2>1, <2>2 DEF Discard, Frame
<1>15. CASE Throw(c) \/ Crash(c) \/ Decline(c)
  BY <1>1, <1>2, <1>15 DEF Throw, Crash, Decline, Frame, Refuse, db
<1> QED
  BY <1>5, <1>6, <1>7, <1>8, <1>9, <1>10, <1>11, <1>12, <1>13, <1>14, <1>15
     DEF Act, Handle

\* What a step of c does to the row of its own request.
RowMove(c) ==
    LET r == row[Request[c]]
        n == row'[Request[c]]
    IN \/ n = r
       \/ /\ pc[c] = "insert" /\ pc'[c] = "reread"
          /\ r.status = "none"
          /\ n = [AbsentRow EXCEPT !.status = "started", !.payload = Payload[c],
                                   !.lease = token[c], !.until = until[c],
                                   !.key = row[Request[c]].key + 1]
       \/ /\ pc[c] = "claim" /\ pc'[c] = "refresh"
          /\ Claimable(c)
          /\ n = [r EXCEPT !.lease = token[c], !.until = until[c]]
       \/ /\ Held(c) /\ pc[c] = "run" /\ pc'[c] = "advanced"
          /\ r.step = "started"
          /\ n = [r EXCEPT !.step = "validated", !.until = now + Lease]
       \/ /\ Held(c) /\ pc[c] = "mapped" /\ pc'[c] = "advanced"
          /\ r.step = "validated"
          /\ n = [r EXCEPT !.step = "written", !.target = local[c], !.until = now + Lease]
       \/ /\ Held(c) /\ pc[c] = "run" /\ pc'[c] = "header_refresh"
          /\ r.step = "validated"
          /\ Request[c] \in HeaderRequests
          /\ created' = NewEntity(c)
          /\ n = [r EXCEPT !.step = "written", !.target = Len(created) + 1,
                           !.until = now + Lease]
       \/ /\ Held(c) /\ pc[c] = "run" /\ pc'[c] = "advanced"
          /\ r.step = "written"
          /\ view[c].step = "written"
          /\ n = [r EXCEPT !.step = "settled", !.until = now + Lease]
       \/ /\ Held(c) /\ pc[c] = "run" /\ pc'[c] = "closing"
          /\ r.step = "settled"
          /\ n = [r EXCEPT !.status = "completed", !.step = "completed",
                           !.response = r.target, !.lease = NoToken, !.until = 0]
       \/ /\ Held(c) /\ pc[c] = "run" /\ pc'[c] = "idle"
          /\ r.step = "started"
          /\ Request[c] \in OrderRequests
          /\ mapped[Request[c]] = 0
          /\ n = Dropped(c)
       \/ /\ Held(c) /\ pc[c] = "failing" /\ pc'[c] = "idle"
          /\ n = [r EXCEPT !.lease = NoToken, !.until = 0]

\* A holder writes from the step, and with the target, that its row shows.
LEMMA HolderReads ==
    ASSUME TypeOK, JournalInv, NEW c \in Callers, Held(c), pc[c] \in Deciding
    PROVE  /\ view[c].step = row[Request[c]].step
           /\ view[c].target = row[Request[c]].target
           /\ row[Request[c]].status = "started"
<1>1. view[c] = Snapshot(row[Request[c]])
  BY DEF JournalInv, HolderViewFresh
<1> QED
  BY <1>1 DEF Snapshot, Held

\* A row that advanceCriticalOperation has moved on.
Moved(r, step, target, time) ==
    [r EXCEPT !.step = step, !.target = target, !.until = time]

LEMMA AdvanceRow ==
    ASSUME TypeOK, NEW c \in Callers, NEW s \in Steps, NEW t \in Nat, Advance(c, s, t)
    PROVE  \/ row'[Request[c]] = row[Request[c]]
           \/ /\ Held(c) /\ pc'[c] = "advanced"
              /\ row'[Request[c]] = Moved(row[Request[c]], s, t, now + Lease)
BY OwnRow DEF Advance, TypeOK, Moved

LEMMA RowMoves ==
    ASSUME TypeOK, JournalInv, NEW c \in Callers, Act(c)
    PROVE  RowMove(c)
<1> DEFINE r == row[Request[c]]
           n == row'[Request[c]]
<1> USE StepsAre, OwnRow
<1>0. row \in [Requests -> RowType] /\ r \in RowType /\ pc \in [Callers -> Places]
  BY DEF TypeOK
<1>1. CASE UNCHANGED row
  BY <1>1 DEF RowMove
<1>2. CASE BeginInsert(c)
  BY <1>0, <1>2 DEF BeginInsert, RowMove, Goto
<1>3. CASE BeginClaim(c)
  <2>1. CASE Claimable(c)
    <3>1. /\ row' = [row EXCEPT ![Request[c]].lease = token[c],
                                ![Request[c]].until = until[c]]
          /\ pc[c] = "claim" /\ pc'[c] = "refresh"
      BY <1>0, <1>3, <2>1 DEF BeginClaim, Goto
    <3>2. n = [r EXCEPT !.lease = token[c], !.until = until[c]]
      BY <1>0, <3>1
    <3> QED
      BY <2>1, <3>1, <3>2 DEF RowMove
  <2>2. CASE UNCHANGED row
    BY <2>2 DEF RowMove
  <2> QED
    BY <1>3, <2>1, <2>2 DEF BeginClaim
<1>4. CASE Validate(c)
  <2>1. pc[c] = "run" /\ view[c].step = "started"
    BY <1>4 DEF Validate, AtStep
  <2>4. \/ n = r
        \/ /\ Held(c) /\ pc'[c] = "advanced"
           /\ n = Moved(r, "validated", view[c].target, now + Lease)
    <3>1. Advance(c, "validated", view[c].target)
      BY <1>4 DEF Validate
    <3> QED
      BY <3>1, <2>1, AdvanceRow
  <2>2. CASE n = r
    BY <2>2 DEF RowMove
  <2>3. CASE /\ Held(c) /\ pc'[c] = "advanced"
             /\ n = [r EXCEPT !.step = "validated", !.target = view[c].target,
                              !.until = now + Lease]
    <3>1. view[c].step = r.step /\ view[c].target = r.target
      BY <2>1, <2>3, HolderReads DEF Deciding
    <3>2. n = [r EXCEPT !.step = "validated", !.until = now + Lease]
      BY <1>0, <2>3, <3>1 DEF RowType
    <3> QED
      BY <2>1, <2>3, <3>1, <3>2 DEF RowMove
  <2> QED
    BY <2>2, <2>3, <2>4 DEF Moved
<1>5. CASE RecordEntity(c)
  <2>1. pc[c] = "mapped" /\ view[c].step = "validated" /\ local[c] \in Nat
    BY <1>5 DEF RecordEntity, JournalInv, TypeOK
  <2>4. \/ n = r
        \/ /\ Held(c) /\ pc'[c] = "advanced"
           /\ n = Moved(r, "written", local[c], now + Lease)
    <3>1. Advance(c, "written", local[c])
      BY <1>5 DEF RecordEntity
    <3> QED
      BY <3>1, <2>1, AdvanceRow
  <2>2. CASE n = r
    BY <2>2 DEF RowMove
  <2>3. CASE /\ Held(c) /\ pc'[c] = "advanced"
             /\ n = [r EXCEPT !.step = "written", !.target = local[c],
                              !.until = now + Lease]
    BY <2>1, <2>3, HolderReads DEF Deciding, RowMove
  <2> QED
    BY <2>2, <2>3, <2>4 DEF Moved
<1>6. CASE CreateHeader(c)
  <2>1. pc[c] = "run" /\ view[c].step = "validated" /\ Request[c] \in HeaderRequests
    BY <1>6 DEF CreateHeader, AtStep
  <2>2. CASE UNCHANGED row
    BY <2>2 DEF RowMove
  <2>3. CASE /\ created' = NewEntity(c)
             /\ row' = IF Held(c)
                         THEN [row EXCEPT ![Request[c]].step = "written",
                                          ![Request[c]].target = Len(created) + 1,
                                          ![Request[c]].until = now + Lease]
                         ELSE row
             /\ pc' = [pc EXCEPT ![c] = "header_refresh"]
    <3>1. CASE ~Held(c)
      BY <2>3, <3>1 DEF RowMove
    <3>2. CASE Held(c)
      <4>1. n = [r EXCEPT !.step = "written", !.target = Len(created) + 1,
                          !.until = now + Lease]
        BY <1>0, <2>3, <3>2
      <4>2. r.step = "validated" /\ pc'[c] = "header_refresh"
        BY <1>0, <2>1, <2>3, <3>2, HolderReads DEF Deciding
      <4> QED
        BY <2>1, <2>3, <3>2, <4>1, <4>2 DEF RowMove
    <3> QED
      BY <3>1, <3>2
  <2> QED
    BY <1>6, <2>2, <2>3 DEF CreateHeader
<1>7. CASE Settle(c)
  <2>1. pc[c] = "run" /\ view[c].step = "written"
    BY <1>7 DEF Settle, AtStep
  <2>4. \/ n = r
        \/ /\ Held(c) /\ pc'[c] = "advanced"
           /\ n = Moved(r, "settled", view[c].target, now + Lease)
    <3>1. Advance(c, "settled", view[c].target)
      BY <1>7 DEF Settle
    <3> QED
      BY <3>1, <2>1, AdvanceRow
  <2>2. CASE n = r
    BY <2>2 DEF RowMove
  <2>3. CASE /\ Held(c) /\ pc'[c] = "advanced"
             /\ n = [r EXCEPT !.step = "settled", !.target = view[c].target,
                              !.until = now + Lease]
    <3>1. view[c].step = r.step /\ view[c].target = r.target
      BY <2>1, <2>3, HolderReads DEF Deciding
    <3>2. n = [r EXCEPT !.step = "settled", !.until = now + Lease]
      BY <1>0, <2>3, <3>1 DEF RowType
    <3> QED
      BY <2>1, <2>3, <3>1, <3>2 DEF RowMove
  <2> QED
    BY <2>2, <2>3, <2>4 DEF Moved
<1>8. CASE Complete(c)
  <2>1. pc[c] = "run" /\ view[c].step = "settled"
    BY <1>8 DEF Complete, AtStep
  <2>2. CASE Held(c)
    <3>1. /\ row' = [row EXCEPT ![Request[c]].status = "completed",
                               ![Request[c]].step = "completed",
                               ![Request[c]].response = view[c].target,
                               ![Request[c]].lease = NoToken,
                               ![Request[c]].until = 0]
          /\ pc'[c] = "closing"
      BY <1>0, <1>8, <2>2 DEF Complete, Goto
    <3>2. view[c].step = r.step /\ view[c].target = r.target
      BY <2>1, <2>2, HolderReads DEF Deciding
    <3>3. n = [r EXCEPT !.status = "completed", !.step = "completed",
                        !.response = r.target, !.lease = NoToken, !.until = 0]
      BY <1>0, <3>1, <3>2
    <3> QED
      BY <2>1, <2>2, <3>1, <3>2, <3>3 DEF RowMove
  <2>3. CASE ~Held(c)
    BY <1>8, <2>3 DEF Complete, RowMove
  <2> QED
    BY <2>2, <2>3
<1>9. CASE Fail(c)
  <2>1. pc[c] = "failing" /\ pc'[c] = "idle"
    BY <1>0, <1>9 DEF Fail, Refuse, Forget
  <2>2. CASE Held(c)
    <3>1. row' = [row EXCEPT ![Request[c]].lease = NoToken, ![Request[c]].until = 0]
      BY <1>9, <2>2 DEF Fail
    <3>2. n = [r EXCEPT !.lease = NoToken, !.until = 0]
      BY <1>0, <3>1
    <3> QED
      BY <2>1, <2>2, <3>2 DEF RowMove
  <2>3. CASE ~Held(c)
    BY <1>9, <2>3 DEF Fail, RowMove
  <2> QED
    BY <2>2, <2>3
<1>10. CASE Discard(c)
  <2>1. pc[c] = "run" /\ Request[c] \in OrderRequests
    BY <1>10 DEF Discard, AtStep
  <2>2. CASE /\ Held(c)
             /\ r.step = "started"
             /\ mapped[Request[c]] = 0
             /\ row' = [row EXCEPT ![Request[c]] = Dropped(c)]
             /\ Refuse(c)
    <3>1. n = Dropped(c) /\ pc'[c] = "idle"
      BY <1>0, <2>2 DEF Refuse, Forget
    <3> QED
      BY <2>1, <2>2, <3>1 DEF RowMove
  <2>3. CASE UNCHANGED row
    BY <2>3 DEF RowMove
  <2> QED
    BY <1>10, <2>2, <2>3 DEF Discard
<1>11. CASE \/ Begin(c) \/ BeginRead(c) \/ BeginReread(c) \/ BeginRefresh(c) \/ Refresh(c)
            \/ MapRead(c) \/ MapInsert(c) \/ MapReread(c) \/ HeaderRefresh(c)
            \/ CompleteCheck(c) \/ Close(c) \/ StrayedStep(c) \/ Throw(c) \/ Crash(c)
            \/ Decline(c)
  BY <1>1, <1>11 DEF Begin, BeginRead, BeginReread, BeginRefresh, Refresh, MapRead,
       MapInsert, MapReread, HeaderRefresh, CompleteCheck, Close, StrayedStep, Throw,
       Crash, Decline, db
<1> QED
  BY <1>2, <1>3, <1>4, <1>5, <1>6, <1>7, <1>8, <1>9, <1>10, <1>11 DEF Act, Handle

-----------------------------------------------------------------------------
(***************************************************************************)
(* Handlers that do not outlive their lease.                               *)
(***************************************************************************)

\* A handler at work has time left on its lease, and began no later than now.  If
\* it holds its row, the row says until when.  A handler that believes it owns
\* the operation does hold the row, so it never finds it completed by another.
LeaseOf(c) ==
    /\ pc[c] # "idle" => now < until[c] /\ nowMs[c] <= now
    /\ pc[c] # "idle" /\ Held(c) => row[Request[c]].until = until[c]
    /\ pc[c] \in Executing => Held(c)
    /\ pc[c] # "complete_check"

LeaseInv == \A c \in Callers : LeaseOf(c)

LEMMA LeaseInit == Init => LeaseInv
BY DEF Init, LeaseInv, LeaseOf, Executing

LEMMA LeaseForgotten ==
    ASSUME TypeOK, NEW c \in Callers, Forget(c)
    PROVE  LeaseOf(c)'
<1>1. pc'[c] = "idle"
  BY DEF TypeOK, Forget
<1> QED
  BY <1>1 DEF LeaseOf, Executing

\* A step that goes on with the lease as it is.
LEMMA LeaseGoesOn ==
    ASSUME TypeOK, NEW c \in Callers, LeaseOf(c), pc[c] # "idle",
           token'[c] = token[c], nowMs'[c] = nowMs[c], until'[c] = until[c], now' = now,
           row'[Request[c]] = row[Request[c]],
           pc'[c] \in Executing => pc[c] \in Executing \/ Held(c),
           pc'[c] # "complete_check"
    PROVE  LeaseOf(c)'
BY DEF LeaseOf, Held

LEMMA LeaseExamined ==
    ASSUME TypeOK, NEW c \in Callers, LeaseOf(c), pc[c] # "idle", Examine(c), now' = now,
           UNCHANGED row
    PROVE  LeaseOf(c)'
<1>1. CASE Forget(c)
  BY <1>1, LeaseForgotten
<1>2. CASE Goto(c, "claim") \/ (Goto(c, "run") /\ Held(c))
  <2>1. /\ token'[c] = token[c] /\ nowMs'[c] = nowMs[c] /\ until'[c] = until[c]
        /\ pc'[c] = "claim" \/ (pc'[c] = "run" /\ Held(c))
    BY <1>2 DEF Goto, TypeOK
  <2> QED
    BY <2>1, LeaseGoesOn DEF Executing
<1> QED
  BY <1>1, <1>2 DEF Examine, Refuse, Answer, Held

LEMMA LeaseAdvanced ==
    ASSUME TypeOK, NEW c \in Callers, LeaseOf(c), pc[c] \in Executing, NEW s \in Steps,
           NEW t \in Nat, Advance(c, s, t)
    PROVE  LeaseOf(c)'
<1>1. Held(c) /\ now \in Nat /\ Request[c] \in Requests /\ row \in [Requests -> RowType]
  BY OwnRow DEF LeaseOf, TypeOK
<1>2. /\ token' = token /\ nowMs' = nowMs /\ now' = now /\ pc[c] # "idle"
      /\ until' = [until EXCEPT ![c] = now + Lease]
      /\ pc' = [pc EXCEPT ![c] = "advanced"]
  BY <1>1 DEF Advance, Executing
<1>3. /\ row'[Request[c]].status = "started" /\ row'[Request[c]].lease = token[c]
      /\ row'[Request[c]].until = now + Lease
  BY <1>1 DEF Advance, Held, RowType
<1>4. until'[c] = now + Lease /\ pc'[c] = "advanced" /\ now < now + Lease
  BY <1>1, <1>2, BoundsAssumption DEF TypeOK
<1> QED
  BY <1>2, <1>3, <1>4 DEF LeaseOf, Held

\* What its own step leaves a handler with.
LEMMA LeaseOwn ==
    ASSUME TypeOK, JournalInv, NEW c \in Callers, LeaseOf(c), Act(c)
    PROVE  LeaseOf(c)'
<1> USE OwnRow, StepsAre
<1>0. /\ pc \in [Callers -> Places] /\ token \in [Callers -> Tokens \cup {NoToken}]
      /\ nowMs \in [Callers -> Nat] /\ until \in [Callers -> Nat] /\ now \in Nat
      /\ row \in [Requests -> RowType] /\ local \in [Callers -> Nat]
      /\ now' = now
  BY MovesInFrame DEF TypeOK, Frame
<1>1. ASSUME NEW p \in {"insert", "claim", "failing", "closing", "reread"}, Goto(c, p),
             row'[Request[c]] = row[Request[c]], pc[c] # "idle"
      PROVE  LeaseOf(c)'
  <2>1. /\ token'[c] = token[c] /\ nowMs'[c] = nowMs[c] /\ until'[c] = until[c]
        /\ pc'[c] = p
    BY <1>0, <1>1 DEF Goto
  <2> QED
    BY <1>0, <1>1, <2>1, LeaseGoesOn DEF Executing
<1>2. ASSUME NEW p \in Executing, pc' = [pc EXCEPT ![c] = p],
             UNCHANGED <<token, nowMs, until, row>>, pc[c] \in Executing
      PROVE  LeaseOf(c)'
  <2>1. pc'[c] = p
    BY <1>0, <1>2
  <2> QED
    BY <1>0, <1>2, <2>1, LeaseGoesOn DEF Executing
<1>3. CASE Begin(c)
  <2>1. /\ NewToken \in Tokens /\ \A r \in Requests : NewToken # row[r].lease
    BY <1>3, FreshTokenIsNew DEF Begin
  <2>2. /\ token'[c] = NewToken /\ nowMs'[c] = now /\ until'[c] = now + Lease
        /\ pc'[c] = "read" /\ row' = row
    BY <1>0, <1>3 DEF Begin, db
  <2>3. now < now + Lease
    BY <1>0, BoundsAssumption
  <2>4. ~Held(c)'
    BY <2>1, <2>2 DEF Held
  <2> QED
    BY <1>0, <2>2, <2>3, <2>4 DEF LeaseOf, Executing
<1>4. CASE BeginRead(c) \/ BeginReread(c)
  <2>1. UNCHANGED row /\ pc[c] # "idle"
    BY <1>4 DEF BeginRead, BeginReread, db
  <2> QED
    BY <1>0, <1>1, <1>4, <2>1, LeaseExamined, LeaseForgotten
       DEF BeginRead, BeginReread, Refuse
<1>5. CASE BeginInsert(c)
  <2>1. CASE row[Request[c]].status # "none"
    BY <1>1, <1>5, <2>1 DEF BeginInsert
  <2>2. CASE row[Request[c]].status = "none"
    <3>1. row'[Request[c]].until = until[c]
      BY <1>0, <1>5, <2>2, ZenonT(40) DEF BeginInsert, AbsentRow
    <3>2. /\ token'[c] = token[c] /\ nowMs'[c] = nowMs[c] /\ until'[c] = until[c]
          /\ pc'[c] = "reread" /\ pc[c] = "insert"
      BY <1>0, <1>5 DEF BeginInsert, Goto
    <3> QED
      BY <1>0, <3>1, <3>2 DEF LeaseOf, Executing
  <2> QED
    BY <2>1, <2>2
<1>6. CASE BeginClaim(c)
  <2>1. CASE Claimable(c) /\ Goto(c, "refresh")
             /\ row' = [row EXCEPT ![Request[c]].lease = token[c],
                                   ![Request[c]].until = until[c]]
    <3>1. /\ row'[Request[c]].until = until[c] /\ row'[Request[c]].lease = token[c]
          /\ row'[Request[c]].status = "started"
      BY <1>0, <2>1 DEF Claimable, RowType
    <3>2. /\ token'[c] = token[c] /\ nowMs'[c] = nowMs[c] /\ until'[c] = until[c]
          /\ pc'[c] = "refresh" /\ pc[c] = "claim"
      BY <1>0, <1>6, <2>1 DEF BeginClaim, Goto
    <3> QED
      BY <1>0, <3>1, <3>2 DEF LeaseOf, Held
  <2> QED
    BY <1>6, <2>1, LeaseForgotten DEF BeginClaim, Refuse
<1>7. CASE BeginRefresh(c)
  <2>1. UNCHANGED row /\ pc[c] = "refresh"
    BY <1>7 DEF BeginRefresh, db
  <2>2. CASE Goto(c, "run")
    BY <1>2, <2>1, <2>2 DEF Goto, Executing
  <2>3. CASE Goto(c, "failing")
    BY <1>1, <2>1, <2>3
  <2> QED
    BY <1>7, <2>2, <2>3, LeaseForgotten DEF BeginRefresh, Refuse, Answer
<1>8. CASE Validate(c) \/ RecordEntity(c) \/ Settle(c)
  <2>1. pc[c] \in Executing /\ local[c] \in Nat
    BY <1>0, <1>8 DEF Validate, RecordEntity, Settle, AtStep, Executing
  <2>2. CASE Validate(c)
    BY <2>1, <2>2, LeaseAdvanced DEF Validate
  <2>3. CASE RecordEntity(c)
    BY <2>1, <2>3, LeaseAdvanced DEF RecordEntity
  <2>4. CASE Settle(c)
    BY <2>1, <2>4, LeaseAdvanced DEF Settle
  <2> QED
    BY <1>8, <2>2, <2>3, <2>4
<1>9. CASE Refresh(c) \/ HeaderRefresh(c)
  <2>1. UNCHANGED row /\ pc[c] \in Executing /\ pc[c] # "idle"
    BY <1>9 DEF Refresh, HeaderRefresh, Executing, db
  <2>2. CASE Goto(c, "failing")
    BY <1>1, <2>1, <2>2
  <2>3. CASE pc' = [pc EXCEPT ![c] = "run"] /\ UNCHANGED <<token, nowMs, until>>
    BY <1>2, <2>1, <2>3 DEF Executing
  <2> QED
    BY <1>9, <2>2, <2>3 DEF Refresh, HeaderRefresh
<1>10. CASE MapRead(c) \/ MapInsert(c) \/ MapReread(c)
  <2>1. UNCHANGED <<token, nowMs, until, row>> /\ pc[c] \in Executing
    BY <1>10 DEF MapRead, MapInsert, MapReread, AtStep, Goto, Executing, db
  <2>2. \E p \in {"mapped", "map_insert", "map_reread"} : pc' = [pc EXCEPT ![c] = p]
    BY <1>10 DEF MapRead, MapInsert, MapReread, Goto
  <2> QED
    BY <1>2, <2>1, <2>2 DEF Executing
<1>11. CASE CreateHeader(c)
  <2>1. Held(c) /\ pc[c] = "run"
    BY <1>11 DEF CreateHeader, AtStep, LeaseOf, Executing
  <2>2. CASE Goto(c, "failing") /\ UNCHANGED row
    BY <1>1, <2>1, <2>2
  <2>3. CASE /\ row' = [row EXCEPT ![Request[c]].step = "written",
                                   ![Request[c]].target = Len(created) + 1,
                                   ![Request[c]].until = now + Lease]
             /\ until' = [until EXCEPT ![c] = now + Lease]
             /\ pc' = [pc EXCEPT ![c] = "header_refresh"]
             /\ UNCHANGED <<token, nowMs>>
    <3>1. /\ row'[Request[c]].until = now + Lease
          /\ row'[Request[c]].lease = row[Request[c]].lease
          /\ row'[Request[c]].status = row[Request[c]].status
      BY <1>0, <2>3 DEF RowType
    <3>2. until'[c] = now + Lease /\ pc'[c] = "header_refresh" /\ now < now + Lease
      BY <1>0, <2>3, BoundsAssumption
    <3>3. pc[c] # "idle" /\ nowMs[c] <= now
      BY <2>1 DEF LeaseOf
    <3> QED
      BY <1>0, <2>1, <2>3, <3>1, <3>2, <3>3 DEF LeaseOf, Held
  <2> QED
    BY <1>11, <2>1, <2>2, <2>3 DEF CreateHeader
<1>12. CASE Complete(c)
  <2>1. Held(c) /\ pc[c] = "run"
    BY <1>12 DEF Complete, AtStep, LeaseOf, Executing
  <2>2. /\ row'[Request[c]].status = "completed"
        /\ Goto(c, "closing")
    <3> DEFINE r == row[Request[c]]
               n == [r EXCEPT !.status = "completed", !.step = "completed",
                              !.response = view[c].target, !.lease = NoToken, !.until = 0]
    <3>1. /\ row' = [row EXCEPT ![Request[c]].status = "completed",
                               ![Request[c]].step = "completed",
                               ![Request[c]].response = view[c].target,
                               ![Request[c]].lease = NoToken,
                               ![Request[c]].until = 0]
          /\ Goto(c, "closing")
      BY <1>12, <2>1 DEF Complete
    <3>2. row' = [row EXCEPT ![Request[c]] = n]
      BY <1>0, <3>1
    <3>3. n.status = "completed"
      BY <1>0 DEF RowType
    <3> HIDE DEF n
    <3> QED
      BY <1>0, <3>1, <3>2, <3>3
  <2>3. /\ token'[c] = token[c] /\ nowMs'[c] = nowMs[c] /\ until'[c] = until[c]
        /\ pc'[c] = "closing"
    BY <1>0, <2>2 DEF Goto
  <2> QED
    BY <1>0, <2>1, <2>2, <2>3 DEF LeaseOf, Held, Executing
<1>13. CASE CompleteCheck(c)
  BY <1>13 DEF CompleteCheck, LeaseOf
<1>14. CASE Close(c) \/ StrayedStep(c)
  BY <1>1, <1>14, LeaseForgotten DEF Close, StrayedStep, AtStep, Answer, db
<1>15. CASE Fail(c) \/ Crash(c)
  BY <1>15, LeaseForgotten DEF Fail, Crash, Refuse
<1>16. CASE Discard(c)
  BY <1>1, <1>16, LeaseForgotten DEF Discard, AtStep, Refuse
<1>17. CASE Throw(c)
  <2>1. UNCHANGED row /\ pc[c] # "idle"
    BY <1>17 DEF Throw, Live, Executing, db
  <2> QED
    BY <1>1, <1>17, <2>1, LeaseForgotten DEF Throw, Refuse
<1>18. CASE Decline(c)
  BY <1>1, <1>18 DEF Decline, db
<1> QED
  BY <1>3, <1>4, <1>5, <1>6, <1>7, <1>8, <1>9, <1>10, <1>11, <1>12, <1>13, <1>14,
     <1>15, <1>16, <1>17, <1>18 DEF Act, Handle

\* A step of c leaves nobody else's token in a row that it writes.
LEMMA MoveLeases ==
    ASSUME NEW c \in Callers, row[Request[c]] \in RowType, RowMove(c)
    PROVE  \/ row'[Request[c]] = row[Request[c]]
           \/ row'[Request[c]].lease \in {token[c], NoToken}
<1> DEFINE r == row[Request[c]]
           n == row'[Request[c]]
           t == local[c]
           k == Len(created) + 1
           u == now + Lease
<1>1. CASE n = [AbsentRow EXCEPT !.status = "started", !.payload = Payload[c],
                                 !.lease = token[c], !.until = until[c],
                                 !.key = row[Request[c]].key + 1]
  BY <1>1 DEF AbsentRow
<1>2. CASE n = [r EXCEPT !.lease = token[c], !.until = until[c]]
  BY <1>2 DEF RowType
<1>3. CASE n = [r EXCEPT !.step = "validated", !.until = u] /\ Held(c)
  BY <1>3 DEF RowType, Held
<1>4. CASE n = [r EXCEPT !.step = "written", !.target = t, !.until = u] /\ Held(c)
  BY <1>4 DEF RowType, Held
<1>5. CASE n = [r EXCEPT !.step = "written", !.target = k, !.until = u] /\ Held(c)
  BY <1>5 DEF RowType, Held
<1>6. CASE n = [r EXCEPT !.step = "settled", !.until = u] /\ Held(c)
  BY <1>6 DEF RowType, Held
<1>7. CASE n = [r EXCEPT !.status = "completed", !.step = "completed",
                         !.response = r.target, !.lease = NoToken, !.until = 0]
  BY <1>7 DEF RowType
<1>8. CASE n = [r EXCEPT !.lease = NoToken, !.until = 0]
  BY <1>8 DEF RowType
<1>9. CASE n = Dropped(c)
  BY <1>9 DEF Dropped, AbsentRow
<1> QED
  BY <1>1, <1>2, <1>3, <1>4, <1>5, <1>6, <1>7, <1>8, <1>9 DEF RowMove

\* A row that a handler at work holds is written by this handler alone: nobody
\* can claim it before its time, and no two handlers have one token.
LEMMA HolderAlone ==
    ASSUME TypeOK, JournalInv, LeaseInv, NEW c \in Callers, Act(c),
           NEW d \in Callers \ {c}, pc[d] # "idle", Held(d)
    PROVE  row'[Request[d]] = row[Request[d]]
<1>0. Request[c] \in Requests /\ Request[d] \in Requests
  BY CallersAssumption
<1>1. CASE Request[c] # Request[d]
  BY <1>0, <1>1, MovesInFrame DEF Frame
<1>2. CASE Request[c] = Request[d]
  <2>1. token[d] # NoToken /\ token[c] # token[d]
    BY DEF JournalInv
  <2>2. ~Held(c) /\ row[Request[c]].status = "started"
    BY <1>2, <2>1 DEF Held
  <2>3. pc[c] = "claim" => ~Claimable(c)
    <3>1. ASSUME pc[c] = "claim"
          PROVE  nowMs[c] <= now /\ now < until[d] /\ row[Request[d]].until = until[d]
      BY <3>1 DEF LeaseInv, LeaseOf
    <3>2. nowMs[c] \in Nat /\ now \in Nat /\ until[d] \in Nat
      BY DEF TypeOK
    <3> QED
      BY <1>2, <2>1, <3>1, <3>2 DEF Claimable, Held
  <2> QED
    BY <1>2, <2>2, <2>3, RowMoves DEF RowMove
<1> QED
  BY <1>1, <1>2

LEMMA LeaseKept ==
    ASSUME ~SlowCallers
    PROVE  TypeOK /\ JournalInv /\ LeaseInv /\ AnyStep => LeaseInv'
<1> SUFFICES ASSUME TypeOK, JournalInv, LeaseInv, AnyStep, NEW d \in Callers
             PROVE  LeaseOf(d)'
  BY DEF LeaseInv
<1>1. ASSUME NEW c \in Callers, Act(c)
      PROVE  LeaseOf(d)'
  <2>1. CASE d = c
    BY <1>1, <2>1, LeaseOwn DEF LeaseInv
  <2>2. CASE d # c
    <3>1. /\ pc'[d] = pc[d] /\ token'[d] = token[d] /\ nowMs'[d] = nowMs[d]
          /\ until'[d] = until[d] /\ now' = now
      BY <1>1, <2>2, MovesInFrame DEF Frame
    <3>2. ASSUME pc[d] # "idle", Held(d)
          PROVE  row'[Request[d]] = row[Request[d]]
      BY <1>1, <2>2, <3>2, HolderAlone
    <3>3. ASSUME pc[d] # "idle", Held(d)'
          PROVE  Held(d)
      <4>1. token[d] # NoToken /\ token[c] # token[d]
        BY <2>2, <3>3 DEF JournalInv
      <4>2. row'[Request[d]].status = "started" /\ row'[Request[d]].lease = token[d]
        BY <3>1, <3>3 DEF Held
      <4>3. CASE Request[c] # Request[d]
        BY <1>1, <4>2, <4>3, MovesInFrame, CallersAssumption DEF Frame, Held
      <4>4. CASE Request[c] = Request[d]
        <5>1. row[Request[c]] \in RowType /\ RowMove(c)
          BY <1>1, OwnRow, RowMoves
        <5>2. row'[Request[c]] = row[Request[c]] \/ row'[Request[c]].lease \in {token[c], NoToken}
          BY <5>1, MoveLeases
        <5> QED
          BY <4>1, <4>2, <4>4, <5>2 DEF Held
      <4> QED
        BY <4>3, <4>4
    <3>4. pc[d] # "idle" => now < until[d] /\ nowMs[d] <= now
      BY DEF LeaseInv, LeaseOf
    <3>5. pc[d] # "idle" /\ Held(d) => row[Request[d]].until = until[d]
      BY DEF LeaseInv, LeaseOf
    <3>6. pc[d] \in Executing => Held(d) /\ pc[d] # "idle"
      BY DEF LeaseInv, LeaseOf, Executing
    <3>7. pc[d] # "complete_check"
      BY DEF LeaseInv, LeaseOf
    <3>8. ASSUME pc[d] # "idle", Held(d)
          PROVE  Held(d)'
      BY <3>1, <3>2, <3>8 DEF Held
    <3> QED
      BY <3>1, <3>2, <3>3, <3>4, <3>5, <3>6, <3>7, <3>8 DEF LeaseOf
  <2> QED
    BY <2>1, <2>2
<1>2. CASE Tick
  <2>1. /\ UNCHANGED <<pc, token, until, nowMs, row>> /\ now' = now + 1 /\ now \in Nat
        /\ pc[d] \in Live => now + 1 < until[d]
        /\ until[d] \in Nat /\ nowMs[d] \in Nat /\ pc[d] \in Places
    BY <1>2 DEF Tick, TypeOK, db
  <2>2. pc[d] # "idle" => pc[d] \in Live
    BY <2>1 DEF Places
  <2>3. LeaseOf(d)
    BY DEF LeaseInv
  <2>4. pc'[d] = pc[d] /\ until'[d] = until[d] /\ nowMs'[d] = nowMs[d] /\ Held(d)' = Held(d)
    BY <2>1 DEF Held
  <2>5. pc[d] # "idle" => now + 1 < until[d] /\ nowMs[d] <= now + 1
    BY <2>1, <2>2, <2>3 DEF LeaseOf
  <2> QED
    BY <2>1, <2>3, <2>4, <2>5 DEF LeaseOf
<1>3. CASE UNCHANGED vars
  <2>1. UNCHANGED <<pc, token, until, nowMs, row, now>> /\ LeaseOf(d)
    BY <1>3 DEF vars, LeaseInv
  <2> QED
    BY <2>1 DEF LeaseOf, Held
<1> QED
  BY <1>1, <1>2, <1>3 DEF AnyStep

-----------------------------------------------------------------------------
(***************************************************************************)
(* What a handler remembers, what it creates and what it answers.          *)
(***************************************************************************)

\* Steps at which the effect exists, and steps at which it may.
Written == {"written", "settled", "completed"}
Begun == Written \cup {"validated"}

\* Places of a handler whose body has been compared with the row's.
Serving == Executing \cup {"claim", "closing", "complete_check"}

\* What a step of c does to the memory of its handler.
Remembers(c) ==
    LET r == row[Request[c]] IN
    /\ pc'[c] \in Serving =>
         pc[c] \in Serving \/ (UNCHANGED row /\ r.status # "none" /\ BodyMatches(c))
    /\ \/ view'[c] \in {view[c], Blank}
       \/ UNCHANGED <<row, created>> /\ view'[c] = Snapshot(r)
    /\ pc'[c] = "map_insert" =>
         /\ pc[c] = "run" /\ UNCHANGED db
         /\ Request[c] \notin HeaderRequests /\ mapped[Request[c]] = 0
    /\ pc'[c] = "map_reread" => MapInsert(c)
    /\ pc'[c] = "mapped" =>
         /\ UNCHANGED db
         /\ \/ /\ pc[c] = "run" /\ Request[c] \notin HeaderRequests
               /\ mapped[Request[c]] # 0 /\ local'[c] = mapped[Request[c]]
            \/ /\ pc[c] = "map_reread"
               /\ local'[c] \in {mapped[Request[c]], local[c]}
               /\ mapped[Request[c]] = 0 => local'[c] = local[c]
    /\ pc'[c] = "closing" =>
         /\ view'[c] = view[c]
         /\ row'[Request[c]].status = "completed"
         /\ view[c].step = "settled" \/ pc[c] = "complete_check"
    /\ pc'[c] = "complete_check" => view'[c] = view[c] /\ view[c].step = "settled"

\* What a step of c adds to the business rows and to the mapping.
Creates(c) ==
    \/ UNCHANGED <<mapped, created>>
    \/ MapInsert(c)
    \/ /\ Request[c] \in HeaderRequests /\ AtStep(c, "validated")
       /\ Request[c] \in OrderRequests => ~Placed(c)
       /\ created' = NewEntity(c) /\ UNCHANGED <<mapped, view, answers>>
       /\ Held(c) => /\ row'[Request[c]].step = "written"
                     /\ row'[Request[c]].target = Len(created) + 1

\* What a step of c answers.
Answers(c) ==
    LET r == row[Request[c]] IN
    \/ UNCHANGED answers
    \/ /\ UNCHANGED db
       /\ \E t \in Nat :
            /\ answers' = answers \cup
                 {[request |-> Request[c], payload |-> Payload[c], target |-> t]}
            /\ \/ r.status = "completed" /\ BodyMatches(c) /\ t = r.response
               \/ r.status = "completed" /\ pc[c] = "refresh" /\ t = 0
               \/ pc[c] = "closing" /\ t = view[c].target

LEMMA ForgetRemembers ==
    ASSUME TypeOK, NEW c \in Callers, Forget(c)
    PROVE  Remembers(c)
<1>1. pc'[c] = "idle" /\ view'[c] = Blank
  BY DEF TypeOK, Forget
<1> QED
  BY <1>1 DEF Remembers, Serving, Executing

LEMMA GotoRemembers ==
    ASSUME TypeOK, NEW c \in Callers, NEW p, Goto(c, p), UNCHANGED view,
           p \notin {"map_insert", "map_reread", "mapped", "closing", "complete_check"},
           p \in Serving => pc[c] \in Serving
    PROVE  Remembers(c)
<1>1. pc'[c] = p /\ view'[c] = view[c]
  BY DEF TypeOK, Goto
<1> QED
  BY <1>1 DEF Remembers

LEMMA ExamineRemembers ==
    ASSUME TypeOK, NEW c \in Callers, Examine(c), UNCHANGED <<row, created>>
    PROVE  Remembers(c)
<1>1. CASE Forget(c)
  BY <1>1, ForgetRemembers
<1>2. CASE /\ BodyMatches(c) /\ row[Request[c]].status # "none"
           /\ \/ Goto(c, "claim") /\ UNCHANGED view
              \/ Goto(c, "run") /\ view' = [view EXCEPT ![c] = Snapshot(row[Request[c]])]
  <2>1. pc'[c] \in {"claim", "run"} /\ view'[c] \in {view[c], Snapshot(row[Request[c]])}
    BY <1>2 DEF TypeOK, Goto
  <2> QED
    BY <1>2, <2>1 DEF Remembers
<1> QED
  BY <1>1, <1>2 DEF Examine, Refuse, Answer

LEMMA AdvanceRemembers ==
    ASSUME TypeOK, NEW c \in Callers, NEW s, NEW t, Advance(c, s, t), pc[c] \in Serving
    PROVE  Remembers(c)
<1>1. pc'[c] \in {"advanced", "failing"} /\ view'[c] = view[c]
  BY DEF TypeOK, Advance, Goto
<1> QED
  BY <1>1 DEF Remembers

LEMMA OwnMemory ==
    ASSUME TypeOK, JournalInv, NEW c \in Callers, Act(c)
    PROVE  Remembers(c)
<1>0. /\ pc \in [Callers -> Places] /\ view \in [Callers -> ViewType]
      /\ local \in [Callers -> Nat]
  BY DEF TypeOK
<1>1. CASE Begin(c)
  <2>1. pc'[c] = "read" /\ view'[c] = view[c]
    BY <1>0, <1>1 DEF Begin
  <2> QED
    BY <2>1 DEF Remembers, Serving, Executing
<1>2. CASE BeginRead(c) \/ BeginReread(c)
  <2>1. UNCHANGED <<row, created>>
    BY <1>2 DEF BeginRead, BeginReread, db
  <2>2. CASE Goto(c, "insert") /\ UNCHANGED view
    BY <2>2, GotoRemembers DEF Serving, Executing
  <2> QED
    BY <1>2, <2>1, <2>2, ExamineRemembers, ForgetRemembers
       DEF BeginRead, BeginReread, Refuse
<1>3. CASE BeginInsert(c)
  BY <1>3, GotoRemembers DEF BeginInsert, Serving, Executing
<1>4. CASE BeginClaim(c)
  BY <1>4, GotoRemembers, ForgetRemembers DEF BeginClaim, Serving, Executing, Refuse
<1>5. CASE BeginRefresh(c)
  <2>1. UNCHANGED <<row, created>> /\ pc[c] \in Serving
    BY <1>5 DEF BeginRefresh, db, Serving, Executing
  <2>2. CASE Goto(c, "run") /\ view' = [view EXCEPT ![c] = Snapshot(row[Request[c]])]
    BY <1>0, <2>1, <2>2 DEF Goto, Remembers
  <2>3. CASE Goto(c, "failing") /\ UNCHANGED view
    BY <2>1, <2>3, GotoRemembers
  <2> QED
    BY <1>5, <2>2, <2>3, ForgetRemembers DEF BeginRefresh, Refuse, Answer
<1>6. CASE Validate(c) \/ RecordEntity(c) \/ Settle(c)
  BY <1>6, AdvanceRemembers DEF Validate, RecordEntity, Settle, AtStep, Serving, Executing
<1>7. CASE Refresh(c) \/ HeaderRefresh(c)
  <2>1. UNCHANGED <<row, created>> /\ pc[c] \in Serving
    BY <1>7 DEF Refresh, HeaderRefresh, db, Serving, Executing
  <2>2. CASE /\ pc' = [pc EXCEPT ![c] = "run"]
             /\ view' = [view EXCEPT ![c] = Snapshot(row[Request[c]])]
    BY <1>0, <2>1, <2>2 DEF Remembers
  <2>3. CASE Goto(c, "failing") /\ UNCHANGED view
    BY <2>1, <2>3, GotoRemembers
  <2> QED
    BY <1>7, <2>2, <2>3 DEF Refresh, HeaderRefresh
<1>8. CASE MapRead(c)
  <2>1. UNCHANGED <<db, view>> /\ pc[c] = "run" /\ Request[c] \notin HeaderRequests
    BY <1>8 DEF MapRead, AtStep
  <2>2. \/ pc'[c] = "mapped" /\ local'[c] = mapped[Request[c]] /\ mapped[Request[c]] # 0
        \/ pc'[c] = "map_insert" /\ mapped[Request[c]] = 0
    BY <1>0, <1>8 DEF MapRead, Goto
  <2> QED
    BY <2>1, <2>2 DEF Remembers, Serving, Executing
<1>9. CASE MapInsert(c)
  <2>1. pc'[c] = "map_reread" /\ view'[c] = view[c] /\ pc[c] = "map_insert"
    BY <1>0, <1>9 DEF MapInsert
  <2> QED
    BY <1>9, <2>1 DEF Remembers, Serving, Executing
<1>10. CASE MapReread(c)
  <2>1. /\ pc'[c] = "mapped" /\ view'[c] = view[c] /\ pc[c] = "map_reread" /\ UNCHANGED db
        /\ local'[c] = IF mapped[Request[c]] # 0 THEN mapped[Request[c]] ELSE local[c]
    BY <1>0, <1>10 DEF MapReread
  <2> QED
    BY <2>1 DEF Remembers, Serving, Executing
<1>11. CASE CreateHeader(c)
  <2>1. pc[c] \in Serving /\ view'[c] = view[c] /\ pc'[c] \in {"failing", "header_refresh"}
    BY <1>0, <1>11 DEF CreateHeader, AtStep, Goto, Serving, Executing
  <2> QED
    BY <2>1 DEF Remembers
<1>12. CASE Complete(c)
  <2>1. /\ pc[c] \in Serving /\ view'[c] = view[c] /\ view[c].step = "settled"
        /\ pc'[c] \in {"closing", "complete_check"}
    BY <1>0, <1>12 DEF Complete, AtStep, Goto, Serving, Executing
  <2>2. pc'[c] = "closing" => row'[Request[c]].status = "completed"
    <3> DEFINE n == [row[Request[c]] EXCEPT !.status = "completed", !.step = "completed",
                       !.response = row[Request[c]].target, !.lease = NoToken, !.until = 0]
    <3>1. CASE row'[Request[c]] = n
      BY <3>1, OwnRow DEF RowType
    <3>2. CASE Held(c)
      <4>1. RowMove(c) /\ pc[c] = "run" /\ pc'[c] = "closing" /\ row[Request[c]].step = "settled"
        BY <1>0, <1>12, <2>1, <3>2, RowMoves, HolderReads
           DEF Complete, AtStep, Goto, Deciding, Act, Handle
      <4>2. row' = [row EXCEPT ![Request[c]].status = "completed",
                               ![Request[c]].step = "completed",
                               ![Request[c]].response = view[c].target,
                               ![Request[c]].lease = NoToken,
                               ![Request[c]].until = 0]
        BY <1>12, <3>2 DEF Complete
      <4>3. view[c].target = row[Request[c]].target
        BY <3>2, <4>1, HolderReads DEF Deciding
      <4>4. row'[Request[c]] = n
        BY <4>2, <4>3, OwnRow DEF TypeOK
      <4> QED
        BY <3>1, <4>4
    <3>3. CASE ~Held(c)
      BY <1>0, <1>12, <3>3 DEF Complete, Goto
    <3> QED
      BY <3>2, <3>3
  <2> QED
    BY <2>1, <2>2 DEF Remembers
<1>13. CASE CompleteCheck(c)
  <2>1. /\ pc[c] = "complete_check" /\ view'[c] = view[c] /\ UNCHANGED row
        /\ \/ pc'[c] = "closing" /\ row[Request[c]].status = "completed"
           \/ pc'[c] = "failing"
    BY <1>0, <1>13 DEF CompleteCheck, Goto, db
  <2> QED
    BY <2>1 DEF Remembers, Serving, Executing
<1>14. CASE Close(c) \/ StrayedStep(c) \/ Fail(c) \/ Decline(c)
  BY <1>14, GotoRemembers, ForgetRemembers
     DEF Close, StrayedStep, Fail, Decline, Refuse, Answer, Serving, Executing
<1>15. CASE Discard(c) \/ Throw(c) \/ Crash(c)
  BY <1>15, GotoRemembers, ForgetRemembers
     DEF Discard, Throw, Crash, Refuse, Serving, Executing
<1> QED
  BY <1>1, <1>2, <1>3, <1>4, <1>5, <1>6, <1>7, <1>8, <1>9, <1>10, <1>11, <1>12, <1>13,
     <1>14, <1>15 DEF Act, Handle

LEMMA CreateMoves ==
    ASSUME TypeOK, NEW c \in Callers, Act(c)
    PROVE  Creates(c)
<1>1. CASE MapInsert(c)
  BY <1>1 DEF Creates
<1>2. CASE CreateHeader(c)
  <2>1. CASE UNCHANGED created
    BY <1>2, <2>1 DEF CreateHeader, Creates
  <2>2. CASE /\ created' = NewEntity(c)
             /\ ~(Request[c] \in OrderRequests /\ Placed(c))
             /\ row' = IF Held(c)
                         THEN [row EXCEPT ![Request[c]].step = "written",
                                          ![Request[c]].target = Len(created) + 1,
                                          ![Request[c]].until = now + Lease]
                         ELSE row
    <3>1. Request[c] \in Requests /\ row \in [Requests -> RowType]
      BY OwnRow DEF TypeOK
    <3>2. Held(c) => /\ row'[Request[c]].step = "written"
                     /\ row'[Request[c]].target = Len(created) + 1
      BY <2>2, <3>1 DEF RowType
    <3> QED
      BY <1>2, <2>2, <3>2 DEF CreateHeader, Creates
  <2> QED
    BY <1>2, <2>1, <2>2 DEF CreateHeader
<1>3. CASE \/ BeginRead(c) \/ BeginInsert(c) \/ BeginReread(c) \/ BeginClaim(c)
           \/ BeginRefresh(c) \/ Refresh(c) \/ MapRead(c) \/ MapReread(c)
           \/ HeaderRefresh(c) \/ Complete(c) \/ CompleteCheck(c) \/ Close(c)
           \/ StrayedStep(c) \/ Fail(c)
  BY <1>3 DEF BeginRead, BeginInsert, BeginReread, BeginClaim, BeginRefresh, Refresh,
              MapRead, MapReread, HeaderRefresh, Complete, CompleteCheck, Close,
              StrayedStep, Fail, db, Creates
<1>4. CASE Validate(c) \/ RecordEntity(c) \/ Settle(c)
  BY <1>4 DEF Validate, RecordEntity, Settle, Advance, Creates
<1>5. CASE Begin(c) \/ Discard(c) \/ Throw(c) \/ Crash(c) \/ Decline(c)
  BY <1>5 DEF Begin, Discard, Throw, Crash, Decline, db, Creates
<1> QED
  BY <1>1, <1>2, <1>3, <1>4, <1>5 DEF Act, Handle

LEMMA AnswerMoves ==
    ASSUME TypeOK, NEW c \in Callers, Act(c)
    PROVE  Answers(c)
<1> USE OwnRow
<1>1. ASSUME Examine(c), UNCHANGED db
      PROVE  Answers(c)
  BY <1>1 DEF Examine, Answers, Answer, Refuse
<1>2. CASE BeginRead(c) \/ BeginReread(c)
  BY <1>1, <1>2 DEF BeginRead, BeginReread, Answers, Refuse
<1>3. CASE BeginRefresh(c)
  BY <1>3 DEF BeginRefresh, Answers, Answer, Refuse
<1>4. CASE Close(c)
  BY <1>4 DEF Close, Answers, Answer
<1>5. CASE \/ BeginInsert(c) \/ BeginClaim(c) \/ Refresh(c) \/ MapRead(c) \/ MapInsert(c)
           \/ MapReread(c) \/ CreateHeader(c) \/ HeaderRefresh(c) \/ Complete(c)
           \/ CompleteCheck(c) \/ StrayedStep(c) \/ Fail(c)
  BY <1>5 DEF BeginInsert, BeginClaim, Refresh, MapRead, MapInsert, MapReread,
              CreateHeader, HeaderRefresh, Complete, CompleteCheck, StrayedStep, Fail,
              Refuse, Answers
<1>6. CASE Validate(c) \/ RecordEntity(c) \/ Settle(c)
  BY <1>6 DEF Validate, RecordEntity, Settle, Advance, Answers
<1>7. CASE Begin(c) \/ Discard(c) \/ Throw(c) \/ Crash(c) \/ Decline(c)
  BY <1>7 DEF Begin, Discard, Throw, Crash, Decline, Refuse, Answers
<1> QED
  BY <1>2, <1>3, <1>4, <1>5, <1>6, <1>7 DEF Act, Handle

\* What a step of c can and cannot do to the row of its request.
MoveFacts(c) ==
    LET r == row[Request[c]]
        n == row'[Request[c]]
    IN /\ r.step \in Begun => n.step \in Begun /\ n.status # "none" /\ n.key = r.key
       /\ r.step \in Written => n.step \in Written /\ n.target = r.target
       /\ n.status # "none" =>
            \/ r.status # "none" /\ n.payload = r.payload
            \/ r.status = "none" /\ n.payload = Payload[c] /\ n.step = "started"
       /\ r.status # "none" /\ n.status = "none" =>
            Request[c] \in OrderRequests /\ mapped[Request[c]] = 0
       /\ (n.status = "completed" <=> n.step = "completed")
       /\ n.status = "completed" => n = r \/ n.response = n.target
       /\ n.step \in Written => \/ r.step \in Written
                               \/ /\ Held(c) /\ r.step = "validated"
                                  /\ \/ pc[c] = "mapped" /\ n.target = local[c]
                                     \/ /\ Request[c] \in HeaderRequests
                                        /\ created' = NewEntity(c)
                                        /\ n.target = Len(created) + 1

LEMMA MovesAre ==
    ASSUME NEW c \in Callers, row[Request[c]] \in RowType, RowMove(c),
           row[Request[c]].status = "completed" <=> row[Request[c]].step = "completed",
           row[Request[c]].status = "none" => row[Request[c]].step = "started"
    PROVE  MoveFacts(c)
<1> DEFINE r == row[Request[c]]
           n == row'[Request[c]]
           k == Len(created) + 1
           u == now + Lease
<1> USE DEF Begun, Written
<1>0. /\ r.status \in {"none", "started", "completed"} /\ r.step \in Steps
      /\ Held(c) => r.status = "started"
  BY DEF RowType, Held
<1>1. CASE n = r
  BY <1>0, <1>1 DEF MoveFacts
<1>2. CASE /\ r.status = "none"
           /\ n = [AbsentRow EXCEPT !.status = "started", !.payload = Payload[c],
                                    !.lease = token[c], !.until = until[c],
                                    !.key = row[Request[c]].key + 1]
  <2>1. n.status = "started" /\ n.payload = Payload[c] /\ n.step = "started"
    BY <1>2 DEF AbsentRow
  <2> QED
    BY <1>2, <2>1 DEF MoveFacts
<1>3. CASE Claimable(c) /\ n = [r EXCEPT !.lease = token[c], !.until = until[c]]
  <2>1. /\ n.status = "started" /\ r.status = "started" /\ n.payload = r.payload
        /\ n.step = r.step /\ n.target = r.target /\ n.key = r.key
    BY <1>3 DEF RowType, Claimable
  <2> QED
    BY <1>0, <2>1 DEF MoveFacts
<1>4. CASE Held(c) /\ r.step = "started"
           /\ n = [r EXCEPT !.step = "validated", !.until = u]
  <2>1. n.status = "started" /\ n.payload = r.payload /\ n.step = "validated"
        /\ n.key = r.key
    BY <1>0, <1>4 DEF RowType
  <2> QED
    BY <1>0, <1>4, <2>1 DEF MoveFacts
<1>5. CASE Held(c) /\ pc[c] = "mapped" /\ r.step = "validated"
           /\ n = [r EXCEPT !.step = "written", !.target = local[c], !.until = u]
  <2>1. n.status = "started" /\ n.payload = r.payload /\ n.step = "written"
        /\ n.target = local[c] /\ n.key = r.key
    BY <1>0, <1>5 DEF RowType
  <2> QED
    BY <1>0, <1>5, <2>1 DEF MoveFacts
<1>6. CASE /\ Held(c) /\ r.step = "validated" /\ Request[c] \in HeaderRequests
           /\ created' = NewEntity(c)
           /\ n = [r EXCEPT !.step = "written", !.target = k, !.until = u]
  <2>1. n.status = "started" /\ n.payload = r.payload /\ n.step = "written"
        /\ n.target = k /\ n.key = r.key
    BY <1>0, <1>6 DEF RowType
  <2> QED
    BY <1>0, <1>6, <2>1 DEF MoveFacts
<1>7. CASE Held(c) /\ r.step = "written"
           /\ n = [r EXCEPT !.step = "settled", !.until = u]
  <2>1. n.status = "started" /\ n.payload = r.payload /\ n.step = "settled"
        /\ n.target = r.target /\ n.key = r.key
    BY <1>0, <1>7 DEF RowType
  <2> QED
    BY <1>0, <1>7, <2>1 DEF MoveFacts
<1>8. CASE Held(c) /\ r.step = "settled"
           /\ n = [r EXCEPT !.status = "completed", !.step = "completed",
                            !.response = r.target, !.lease = NoToken, !.until = 0]
  <2>1. n.status = "completed" /\ n.payload = r.payload /\ n.step = "completed"
        /\ n.target = r.target /\ n.response = r.target
        /\ n.key = r.key
    BY <1>8 DEF RowType
  <2> QED
    BY <1>0, <1>8, <2>1 DEF MoveFacts
<1>9. CASE /\ Held(c) /\ r.step = "started" /\ Request[c] \in OrderRequests
           /\ mapped[Request[c]] = 0 /\ n = Dropped(c)
  <2>1. n.status = "none" /\ n.step = "started"
    BY <1>9 DEF Dropped, AbsentRow
  <2> QED
    BY <1>0, <1>9, <2>1 DEF MoveFacts
<1>10. CASE Held(c) /\ n = [r EXCEPT !.lease = NoToken, !.until = 0]
  <2>1. n.status = "started" /\ n.payload = r.payload /\ n.step = r.step
        /\ n.target = r.target /\ n.key = r.key
    BY <1>0, <1>10 DEF RowType
  <2> QED
    BY <1>0, <1>10, <2>1 DEF MoveFacts
<1> QED
  BY <1>1, <1>2, <1>3, <1>4, <1>5, <1>6, <1>7, <1>8, <1>9, <1>10 DEF RowMove

-----------------------------------------------------------------------------
(***************************************************************************)
(* The journal and the business rows.                                      *)
(***************************************************************************)

\* A row is completed when its cursor is; its answer is then its target.  What a
\* handler has read of the cursor stays true: a row past its first step is never
\* discarded, and one past the effect keeps its target.  A business row exists
\* only for requests whose plan is stored, and the mapping is for requests
\* without a header.
CursorInv ==
    /\ \A r \in Requests :
         /\ row[r].status = "completed" <=> row[r].step = "completed"
         /\ row[r].status = "completed" => row[r].response = row[r].target
    /\ \A c \in Callers :
         /\ view[c].step \in Begun => row[Request[c]].step \in Begun
         /\ view[c].step \in Written => /\ row[Request[c]].step \in Written
                                        /\ row[Request[c]].target = view[c].target
         /\ pc[c] \in {"map_insert", "map_reread", "mapped"} => Request[c] \notin HeaderRequests
         /\ pc[c] = "closing" => /\ row[Request[c]].status = "completed"
                                 /\ view[c].step \in Written
         /\ pc[c] = "complete_check" => view[c].step \in Written
    /\ \A i \in 1..Len(created) : row[created[i].request].step \in Begun

LEMMA CursorInit == Init => CursorInv
BY DEF Init, CursorInv, AbsentRow, Blank, Begun, Written

\* The own row of c and every other one, after a step of c.
LEMMA RowsAfter ==
    ASSUME TypeOK, JournalInv, CursorInv, NEW c \in Callers, Act(c)
    PROVE  MoveFacts(c) /\ Frame(c) /\ row[Request[c]] \in RowType
BY OwnRow, RowMoves, MovesAre, MovesInFrame DEF CursorInv, JournalInv

\* The business rows after a step of c.
LEMMA CreatedAfter ==
    ASSUME TypeOK, NEW c \in Callers, Act(c)
    PROVE  /\ Len(created) \in Nat /\ Len(created') \in Nat /\ Len(created) <= Len(created')
           /\ \A i \in 1..Len(created) : created'[i] = created[i] /\ created[i] \in EntityType
           /\ \A i \in 1..Len(created') : i \notin 1..Len(created) =>
                 /\ created' = NewEntity(c) /\ i = Len(created) + 1
                 /\ created'[i] = Row(c)
           /\ created' = NewEntity(c) => Len(created') = Len(created) + 1
<1> DEFINE e == Row(c)
<1>1. created \in Seq(EntityType) /\ e \in EntityType /\ NewEntity(c) = Append(created, e)
  BY RowTyped DEF TypeOK
<1>2. CASE UNCHANGED created /\ created' # NewEntity(c)
  BY <1>1, <1>2
<1>3. CASE created' = NewEntity(c)
  <2>1. /\ Len(created') = Len(created) + 1 /\ Len(created) \in Nat
        /\ \A k \in 1..Len(created) : created'[k] = created[k] /\ created[k] \in EntityType
        /\ created'[Len(created) + 1] = e
    BY <1>1, <1>3
  <2> QED
    BY <1>3, <2>1
<1> QED
  BY <1>2, <1>3, MovesInFrame DEF Frame

LEMMA CursorKept == TypeOK /\ JournalInv /\ CursorInv /\ AnyStep => CursorInv'
<1> SUFFICES ASSUME TypeOK, JournalInv, CursorInv, AnyStep
             PROVE  CursorInv'
  OBVIOUS
<1>1. ASSUME NEW c \in Callers, Act(c)
      PROVE  CursorInv'
  <2>0. /\ MoveFacts(c) /\ Frame(c) /\ Remembers(c) /\ Creates(c)
        /\ Request[c] \in Requests /\ row[Request[c]] \in RowType
    BY <1>1, RowsAfter, OwnMemory, CreateMoves, OwnRow
  <2>1. ASSUME NEW r \in Requests
        PROVE  /\ row'[r].status = "completed" <=> row'[r].step = "completed"
               /\ row'[r].status = "completed" => row'[r].response = row'[r].target
               /\ row[r].step \in Begun => row'[r].step \in Begun
               /\ row[r].step \in Written => /\ row'[r].step \in Written
                                             /\ row'[r].target = row[r].target
               /\ row[r].status = "completed" => row'[r].status = "completed"
    <3>1. CASE r = Request[c]
      <4>1. row[r].status = "completed" => row'[r] = row[r]
        <5>1. AnyStep /\ (Decline(c) \/ [Next]_vars)
          BY <1>1 DEF Act, Next
        <5>2. CASE Decline(c)
          BY <5>2 DEF Decline, db
        <5> QED
          BY <3>1, <5>1, <5>2, RowStep
      <4> QED
        BY <2>0, <3>1, <4>1 DEF MoveFacts, CursorInv
    <3>2. CASE r # Request[c]
      BY <2>0, <3>2 DEF Frame, CursorInv
    <3> QED
      BY <3>1, <3>2
  <2>2. ASSUME NEW d \in Callers
        PROVE  /\ view'[d].step \in Begun => row'[Request[d]].step \in Begun
               /\ view'[d].step \in Written => /\ row'[Request[d]].step \in Written
                                               /\ row'[Request[d]].target = view'[d].target
    <3>0. Request[d] \in Requests
      BY CallersAssumption
    <3>1. CASE view'[d] = view[d]
      BY <2>1, <3>0, <3>1 DEF CursorInv
    <3>2. CASE view'[d] = Blank
      BY <3>2 DEF Blank, Begun, Written
    <3>3. CASE d = c /\ UNCHANGED row /\ view'[d] = Snapshot(row[Request[d]])
      BY <3>3 DEF Snapshot
    <3> QED
      BY <2>0, <3>1, <3>2, <3>3 DEF Frame, Remembers
  <2>3. ASSUME NEW d \in Callers
        PROVE  pc'[d] \in {"map_insert", "map_reread", "mapped"} => Request[d] \notin HeaderRequests
    BY <2>0 DEF Frame, Remembers, MapInsert, CursorInv
  <2>4. ASSUME NEW d \in Callers
        PROVE  /\ pc'[d] = "closing" => /\ row'[Request[d]].status = "completed"
                                        /\ view'[d].step \in Written
               /\ pc'[d] = "complete_check" => view'[d].step \in Written
    <3>1. CASE d = c
      BY <2>0, <3>1 DEF Remembers, CursorInv, Written
    <3>2. CASE d # c
      BY <2>0, <2>1, <3>2, CallersAssumption DEF Frame, CursorInv
    <3> QED
      BY <3>1, <3>2
  <2>5. ASSUME NEW i \in 1..Len(created')
        PROVE  row'[created'[i].request].step \in Begun
    <3>1. CASE i \in 1..Len(created)
      <4>1. created'[i] = created[i] /\ created[i].request \in Requests
        BY <1>1, <3>1, CreatedAfter DEF EntityType
      <4> QED
        BY <2>1, <3>1, <4>1 DEF CursorInv
    <3>2. CASE i \notin 1..Len(created)
      <4>1. /\ created' = NewEntity(c) /\ created'[i].request = Request[c]
        <5>1. /\ created' = NewEntity(c)
              /\ created'[i] = Row(c)
          BY <1>1, <3>2, CreatedAfter
        <5> QED
          BY <5>1, RowTyped
      <4>2. view[c].step = "validated"
        <5>1. created' # created
          BY <3>2
        <5>2. pc[c] = "map_insert" \/ view[c].step = "validated"
          BY <2>0, <5>1 DEF Creates, MapInsert, AtStep
        <5> QED
          BY <5>2 DEF JournalInv
      <4>3. row[Request[c]].step \in Begun
        BY <4>2 DEF CursorInv, Begun
      <4> QED
        BY <2>0, <2>1, <4>1, <4>3
    <3> QED
      BY <3>1, <3>2
  <2> QED
    BY <2>1, <2>2, <2>3, <2>4, <2>5 DEF CursorInv
<1>2. CASE Tick \/ UNCHANGED vars
  <2>1. UNCHANGED <<row, created, view, pc>>
    BY <1>2 DEF Tick, vars, db
  <2> QED
    BY <2>1 DEF CursorInv
<1> QED
  BY <1>1, <1>2 DEF AnyStep

\* A handler past its preflight carries the external id of its row, and so does
\* every business row of the request: a row past its first step is not discarded,
\* hence never inserted again under another external id.  OneOrder rests on it: the
\* UNIQUE external id that the insertion asks for is the one of the order there is.
KeyInv ==
    /\ \A c \in Callers : view[c].step \in Begun => view[c].key = row[Request[c]].key
    /\ \A i \in 1..Len(created) : created[i].key = row[created[i].request].key
    /\ OneOrder

LEMMA KeyInit == Init => KeyInv
BY DEF Init, KeyInv, OneOrder, Copies, Blank, Begun, Written

LEMMA KeyStep ==
    ASSUME TypeOK, JournalInv, CursorInv, KeyInv, NEW c \in Callers, Act(c)
    PROVE  KeyInv'
<1>0. /\ MoveFacts(c) /\ Frame(c) /\ Remembers(c) /\ Creates(c)
      /\ Request[c] \in Requests
  BY RowsAfter, OwnMemory, CreateMoves, OwnRow
<1>1. ASSUME NEW r \in Requests, row[r].step \in Begun
      PROVE  row'[r].key = row[r].key
  <2>1. CASE r = Request[c]
    BY <1>0, <1>1, <2>1 DEF MoveFacts
  <2>2. CASE r # Request[c]
    BY <1>0, <2>2 DEF Frame
  <2> QED
    BY <2>1, <2>2
<1>2. ASSUME NEW d \in Callers, view'[d].step \in Begun
      PROVE  view'[d].key = row'[Request[d]].key
  <2>0. Request[d] \in Requests
    BY CallersAssumption
  <2>1. CASE view'[d] = view[d]
    BY <1>1, <1>2, <2>0, <2>1 DEF KeyInv, CursorInv
  <2>2. CASE view'[d] = Blank
    BY <1>2, <2>2 DEF Blank, Begun, Written
  <2>3. CASE d = c /\ UNCHANGED row /\ view'[d] = Snapshot(row[Request[d]])
    BY <2>3 DEF Snapshot
  <2> QED
    BY <1>0, <2>1, <2>2, <2>3 DEF Frame, Remembers
<1>3. /\ Len(created) \in Nat /\ Len(created') \in Nat
      /\ \A i \in 1..Len(created) : created'[i] = created[i] /\ created[i] \in EntityType
  BY CreatedAfter
\* A row that is inserted now carries the external id of its request's row.
<1>4. ASSUME NEW i \in 1..Len(created'), i \notin 1..Len(created)
      PROVE  /\ i = Len(created) + 1 /\ created'[i] = Row(c)
             /\ created'[i].request = Request[c]
             /\ created'[i].key = row[Request[c]].key
             /\ row[Request[c]].step \in Begun
             /\ Request[c] \in OrderRequests => ~Placed(c)
  <2>1. created' = NewEntity(c) /\ i = Len(created) + 1 /\ created'[i] = Row(c)
    BY <1>4, CreatedAfter
  <2>2. created' # created
    BY <1>4
  <2>3. \/ MapInsert(c)
        \/ AtStep(c, "validated") /\ (Request[c] \in OrderRequests => ~Placed(c))
    BY <1>0, <2>2 DEF Creates
  <2>4. MapInsert(c) => Request[c] \notin OrderRequests
    BY CallersAssumption DEF CursorInv, MapInsert
  <2>5. view[c].step = "validated"
    BY <2>3 DEF MapInsert, AtStep, JournalInv
  <2>6. row[Request[c]].step \in Begun /\ view[c].key = row[Request[c]].key
    BY <2>5 DEF CursorInv, KeyInv, Begun
  <2> QED
    BY <2>1, <2>3, <2>4, <2>6, RowTyped
<1>5. ASSUME NEW i \in 1..Len(created')
      PROVE  created'[i].key = row'[created'[i].request].key
  <2>1. CASE i \in 1..Len(created)
    <3>1. created'[i] = created[i] /\ created[i].request \in Requests
      BY <1>3, <2>1 DEF EntityType
    <3> QED
      BY <1>1, <2>1, <3>1 DEF CursorInv, KeyInv
  <2>2. CASE i \notin 1..Len(created)
    BY <1>0, <1>1, <1>4, <2>2
  <2> QED
    BY <2>1, <2>2
<1>6. ASSUME NEW r \in OrderRequests, NEW i \in Copies(r)', NEW j \in Copies(r)'
      PROVE  i = j
  <2>0. /\ i \in 1..Len(created') /\ created'[i].request = r
        /\ j \in 1..Len(created') /\ created'[j].request = r
    BY <1>6 DEF Copies
  <2>1. CASE i \in 1..Len(created) /\ j \in 1..Len(created)
    <3>1. i \in Copies(r) /\ j \in Copies(r)
      BY <1>3, <2>0, <2>1 DEF Copies
    <3> QED
      BY <3>1 DEF KeyInv, OneOrder
  <2>2. ASSUME NEW k \in 1..Len(created), NEW m \in 1..Len(created'), m \notin 1..Len(created),
               created'[k].request = r, created'[m].request = r
        PROVE  FALSE
    <3>1. r = Request[c] /\ ~Placed(c) /\ view[c].key = row[r].key
      BY <1>4, <2>2, RowTyped
    <3>2. created[k].request = Request[c] /\ created[k].key = row[Request[c]].key
      BY <1>3, <2>2, <3>1 DEF KeyInv
    <3> QED
      BY <3>1, <3>2 DEF Placed, ContextKey
  <2>3. CASE i \notin 1..Len(created) /\ j \notin 1..Len(created)
    BY <1>4, <2>0, <2>3
  <2> QED
    BY <2>0, <2>1, <2>2, <2>3
<1> QED
  BY <1>2, <1>5, <1>6 DEF KeyInv, OneOrder

LEMMA KeyKept == TypeOK /\ JournalInv /\ CursorInv /\ KeyInv /\ AnyStep => KeyInv'
<1>1. ASSUME KeyInv, Tick \/ UNCHANGED vars
      PROVE  KeyInv'
  <2>1. UNCHANGED <<row, created, view>>
    BY <1>1 DEF Tick, vars, db
  <2> QED
    BY <1>1, <2>1 DEF KeyInv, OneOrder, Copies
<1> QED
  BY <1>1, KeyStep DEF AnyStep

\* However many clients repeat a request to create an order, however late their
\* handlers act, whatever crashes and however often its row is discarded and made
\* again with another external id, one order comes of it.
THEOREM OrderOnce == Spec => []OneOrder
<1> DEFINE I == TypeOK /\ JournalInv /\ CursorInv /\ KeyInv
<1>1. Init => I
  BY TypeInit, JournalInit, CursorInit, KeyInit
<1>2. I /\ [Next]_vars => I'
  BY NextIsAnyStep, TypeKept, JournalKept, CursorKept, KeyKept
<1>3. I => OneOrder
  BY DEF KeyInv
<1> QED
  BY <1>1, <1>2, <1>3, PTL DEF Spec

\* A request to create an order is repeated with the body it was first sent with.
\* Without this the statement on answers is false: the row of an order that failed
\* validation may be discarded, and a claim does not compare the bodies again.
OneBody ==
    \A c, d \in Callers :
        Request[c] = Request[d] /\ Request[c] \in OrderRequests => Payload[c] = Payload[d]

\* A business row of this request and body.
Serves(e, r, p) == e.request = r /\ e.payload = p

\* The target of a row, the mapping and what a handler remembers of its insertion
\* all name a business row of this request and body; a handler at work serves
\* the body of its row.
BodyInv ==
    /\ \A r \in Requests :
         /\ row[r].step \in Written => /\ row[r].target \in 1..Len(created)
                                      /\ Serves(created[row[r].target], r, row[r].payload)
         /\ mapped[r] # 0 => /\ row[r].status # "none"
                             /\ Serves(created[mapped[r]], r, row[r].payload)
    /\ \A c \in Callers :
         /\ pc[c] \in Serving =>
              /\ row[Request[c]].status # "none" => row[Request[c]].payload = Payload[c]
              /\ Request[c] \notin OrderRequests => row[Request[c]].status # "none"
         /\ pc[c] \in {"map_reread", "mapped"} =>
              /\ local[c] \in 1..Len(created)
              /\ Serves(created[local[c]], Request[c], Payload[c])
    /\ AnswersAgree

LEMMA BodyInit == Init => BodyInv
<1> SUFFICES ASSUME Init PROVE BodyInv
  OBVIOUS
<1>1. \A r \in Requests : row[r].step \notin Written /\ mapped[r] = 0
  BY DEF Init, AbsentRow, Written
<1>2. \A c \in Callers : pc[c] \notin Serving /\ pc[c] \notin {"map_reread", "mapped"}
  BY DEF Init, Serving, Executing
<1>3. AnswersAgree
  BY DEF Init, AnswersAgree
<1> QED
  BY <1>1, <1>2, <1>3 DEF BodyInv

\* A completed row stays as it is, whoever moves.
LEMMA CompletedKept ==
    ASSUME TypeOK, JournalInv, NEW c \in Callers, Act(c), NEW r \in Requests,
           row[r].status = "completed"
    PROVE  row'[r] = row[r]
<1>1. Decline(c) \/ [Next]_vars
  BY DEF Act, Next
<1>2. CASE Decline(c)
  BY <1>2 DEF Decline, db
<1> QED
  BY <1>1, <1>2, RowStep

LEMMA BodyStep ==
    ASSUME OneBody, TypeOK, JournalInv, CursorInv, BodyInv, NEW c \in Callers, Act(c)
    PROVE  BodyInv'
<1>0. /\ MoveFacts(c) /\ Frame(c) /\ Remembers(c) /\ Creates(c) /\ Answers(c)
      /\ Request[c] \in Requests /\ row[Request[c]] \in RowType
      /\ mapped \in [Requests -> 0..Len(created)] /\ local[c] \in Nat
  BY RowsAfter, OwnMemory, CreateMoves, AnswerMoves, OwnRow DEF TypeOK
<1>1. /\ Len(created) \in Nat /\ Len(created') \in Nat
      /\ \A i \in 1..Len(created) : i \in 1..Len(created') /\ created'[i] = created[i]
      /\ created' = NewEntity(c) =>
           /\ Len(created) + 1 \in 1..Len(created')
           /\ Serves(created'[Len(created) + 1], Request[c], Payload[c])
  <2>1. /\ Len(created) \in Nat /\ Len(created') \in Nat /\ Len(created) <= Len(created')
        /\ \A i \in 1..Len(created) : created'[i] = created[i]
    BY CreatedAfter
  <2>2. ASSUME created' = NewEntity(c)
        PROVE  /\ Len(created) + 1 \in 1..Len(created')
               /\ Serves(created'[Len(created) + 1], Request[c], Payload[c])
    <3>1. Len(created') = Len(created) + 1
      BY <2>2, CreatedAfter
    <3>2. Len(created) + 1 \in 1..Len(created') /\ Len(created) + 1 \notin 1..Len(created)
      BY <2>1, <3>1
    <3>3. created'[Len(created) + 1] = Row(c)
      BY <3>2, CreatedAfter
    <3> QED
      BY <3>2, <3>3, RowTyped DEF Serves
  <2> QED
    BY <2>1, <2>2
<1>2. ASSUME NEW r \in Requests, row'[r].step \in Written
      PROVE  /\ row'[r].target \in 1..Len(created')
             /\ Serves(created'[row'[r].target], r, row'[r].payload)
  <2>1. CASE r # Request[c]
    <3>1. row'[r] = row[r]
      BY <1>0, <2>1 DEF Frame
    <3> QED
      BY <1>1, <1>2, <3>1 DEF BodyInv
  <2>2. CASE r = Request[c] /\ row[r].step \in Written
    <3>1. row[r].status # "none" /\ row'[r].status # "none"
      BY <1>0, <2>2 DEF JournalInv, MoveFacts, Begun, Written
    <3>2. row'[r].target = row[r].target /\ row'[r].payload = row[r].payload
      BY <1>0, <2>2, <3>1 DEF MoveFacts
    <3> QED
      BY <1>1, <2>2, <3>2 DEF BodyInv
  <2>3. CASE r = Request[c] /\ row[r].step \notin Written
    <3>1. /\ Held(c) /\ row[r].step = "validated"
          /\ \/ pc[c] = "mapped" /\ row'[r].target = local[c]
             \/ created' = NewEntity(c) /\ row'[r].target = Len(created) + 1
      BY <1>0, <1>2, <2>3 DEF MoveFacts
    <3>2. row[r].status # "none" /\ row'[r].status # "none" /\ row'[r].payload = row[r].payload
      BY <1>0, <2>3, <3>1 DEF Held, MoveFacts, Begun
    <3>3. pc[c] \in Serving
      <4>1. CASE pc[c] = "mapped"
        BY <4>1 DEF Serving, Executing
      <4>2. CASE created' = NewEntity(c)
        <5>1. created' # created
          BY <1>1, <4>2, CreatedAfter
        <5> QED
          BY <1>0, <5>1 DEF Creates, MapInsert, AtStep, Serving, Executing
      <4> QED
        BY <3>1, <4>1, <4>2
    <3>4. row'[r].payload = Payload[c]
      BY <2>3, <3>2, <3>3 DEF BodyInv
    <3> QED
      BY <1>1, <2>3, <3>1, <3>4 DEF BodyInv
  <2> QED
    BY <2>1, <2>2, <2>3
<1>3. ASSUME NEW r \in Requests, mapped'[r] # 0
      PROVE  row'[r].status # "none" /\ Serves(created'[mapped'[r]], r, row'[r].payload)
  <2>1. CASE mapped'[r] = mapped[r]
    <3>1. row[r].status # "none" /\ Serves(created[mapped[r]], r, row[r].payload)
          /\ mapped[r] \in 1..Len(created)
      BY <1>0, <1>1, <1>3, <2>1 DEF BodyInv
    <3>2. row'[r].status # "none" /\ row'[r].payload = row[r].payload
      BY <1>0, <1>3, <2>1, <3>1 DEF Frame, MoveFacts
    <3> QED
      BY <1>1, <2>1, <3>1, <3>2
  <2>2. CASE MapInsert(c) /\ r = Request[c] /\ mapped[r] = 0
    <3>1. /\ mapped'[r] = Len(created) + 1 /\ created' = NewEntity(c) /\ row' = row
          /\ pc[c] = "map_insert"
      BY <1>0, <2>2 DEF MapInsert
    <3>2. Request[c] \notin OrderRequests /\ pc[c] \in Serving
      BY <3>1, CallersAssumption DEF CursorInv, Serving, Executing
    <3>3. row[r].status # "none" /\ row[r].payload = Payload[c]
      BY <2>2, <3>2 DEF BodyInv
    <3> QED
      BY <1>1, <2>2, <3>1, <3>3
  <2> QED
    BY <1>0, <2>1, <2>2 DEF Creates, Frame, MapInsert
<1>4. ASSUME NEW d \in Callers, pc'[d] \in Serving
      PROVE  /\ row'[Request[d]].status # "none" => row'[Request[d]].payload = Payload[d]
             /\ Request[d] \notin OrderRequests => row'[Request[d]].status # "none"
  <2>0. Request[d] \in Requests
    BY CallersAssumption
  <2>1. CASE Request[d] # Request[c]
    <3>1. row'[Request[d]] = row[Request[d]] /\ pc'[d] = pc[d]
      BY <1>0, <2>0, <2>1 DEF Frame
    <3> QED
      BY <1>4, <3>1 DEF BodyInv
  <2>2. CASE Request[d] = Request[c] /\ pc[d] \in Serving
    <3>1. /\ row[Request[d]].status # "none" => row[Request[d]].payload = Payload[d]
          /\ Request[d] \notin OrderRequests => row[Request[d]].status # "none"
      BY <2>2 DEF BodyInv
    <3>2. Request[d] \in OrderRequests => Payload[c] = Payload[d]
      BY <2>2 DEF OneBody
    <3> QED
      BY <1>0, <2>2, <3>1, <3>2 DEF MoveFacts
  <2>3. CASE Request[d] = Request[c] /\ pc[d] \notin Serving
    <3>1. d = c /\ UNCHANGED row /\ row[Request[c]].status # "none" /\ BodyMatches(c)
      BY <1>0, <1>4, <2>3 DEF Frame, Remembers
    <3> QED
      BY <3>1 DEF BodyMatches
  <2> QED
    BY <2>1, <2>2, <2>3
<1>5. ASSUME NEW d \in Callers, pc'[d] \in {"map_reread", "mapped"}
      PROVE  /\ local'[d] \in 1..Len(created')
             /\ Serves(created'[local'[d]], Request[d], Payload[d])
  <2>1. CASE d # c
    <3>1. pc'[d] = pc[d] /\ local'[d] = local[d]
      BY <1>0, <2>1 DEF Frame
    <3> QED
      BY <1>1, <1>5, <3>1 DEF BodyInv
  <2>2. CASE d = c /\ pc'[d] = "map_reread"
    <3>1. local'[c] = Len(created) + 1 /\ created' = NewEntity(c)
      BY <1>0, <2>2 DEF Remembers, MapInsert, TypeOK
    <3> QED
      BY <1>1, <2>2, <3>1
  <2>3. CASE d = c /\ pc'[d] = "mapped"
    <3>1. UNCHANGED <<row, mapped, created>>
      BY <1>0, <2>3 DEF Remembers, db
    <3>2. CASE mapped[Request[c]] # 0 /\ local'[c] = mapped[Request[c]]
      <4>1. pc[c] \in Serving
        BY <1>0, <2>3 DEF Remembers, Serving, Executing
      <4>2. /\ row[Request[c]].payload = Payload[c]
            /\ mapped[Request[c]] \in 1..Len(created)
            /\ Serves(created[mapped[Request[c]]], Request[c], row[Request[c]].payload)
        BY <1>0, <1>1, <3>2, <4>1 DEF BodyInv
      <4> QED
        BY <2>3, <3>1, <3>2, <4>2
    <3>3. CASE pc[c] = "map_reread" /\ local'[c] = local[c]
      BY <2>3, <3>1, <3>3 DEF BodyInv
    <3> QED
      BY <1>0, <2>3, <3>2, <3>3 DEF Remembers
  <2> QED
    BY <1>5, <2>1, <2>2, <2>3
<1>6. AnswersAgree'
  <2> SUFFICES ASSUME NEW a \in answers'
               PROVE  /\ row'[a.request].status = "completed"
                      /\ row'[a.request].payload = a.payload
                      /\ a.target \in {0, row'[a.request].response}
                      /\ row'[a.request].response \in 1..Len(created')
                      /\ Serves(created'[row'[a.request].response], a.request, a.payload)
    BY DEF AnswersAgree, Serves
  <2>1. CASE a \in answers
    <3>1. a.request \in Requests
      BY <2>1 DEF TypeOK, AnswerType
    <3>2. /\ row[a.request].status = "completed"
          /\ row[a.request].payload = a.payload
          /\ a.target \in {0, row[a.request].response}
          /\ row[a.request].response \in 1..Len(created)
          /\ Serves(created[row[a.request].response], a.request, a.payload)
      BY <2>1 DEF BodyInv, AnswersAgree, Serves
    <3>3. row'[a.request] = row[a.request]
      BY <3>1, <3>2, CompletedKept
    <3> QED
      BY <1>1, <3>2, <3>3
  <2>2. CASE a \notin answers
    <3> DEFINE r == row[Request[c]]
    <3>1. PICK t \in Nat :
            /\ answers' = answers \cup
                 {[request |-> Request[c], payload |-> Payload[c], target |-> t]}
            /\ \/ r.status = "completed" /\ BodyMatches(c) /\ t = r.response
               \/ r.status = "completed" /\ pc[c] = "refresh" /\ t = 0
               \/ pc[c] = "closing" /\ t = view[c].target
      BY <1>0, <2>2 DEF Answers
    <3>2. UNCHANGED <<row, created>> /\ a.request = Request[c] /\ a.payload = Payload[c]
          /\ a.target = t
      BY <1>0, <2>2, <3>1 DEF Answers, db
    <3>3. r.status = "completed" /\ r.payload = Payload[c] /\ t \in {0, r.target}
      <4>1. CASE r.status = "completed" /\ BodyMatches(c) /\ t = r.response
        BY <1>0, <4>1 DEF BodyMatches, CursorInv
      <4>2. CASE r.status = "completed" /\ pc[c] = "refresh" /\ t = 0
        BY <4>2 DEF BodyInv, Serving, Executing
      <4>3. CASE pc[c] = "closing" /\ t = view[c].target
        BY <4>3 DEF BodyInv, CursorInv, Serving
      <4> QED
        BY <3>1, <4>1, <4>2, <4>3
    <3>4. r.response = r.target /\ r.step \in Written
      BY <1>0, <3>3 DEF CursorInv, Written
    <3>5. r.target \in 1..Len(created) /\ Serves(created[r.target], Request[c], r.payload)
      BY <1>0, <3>4 DEF BodyInv
    <3> QED
      BY <1>1, <3>2, <3>3, <3>4, <3>5
  <2> QED
    BY <2>1, <2>2
<1> QED
  BY <1>2, <1>3, <1>4, <1>5, <1>6 DEF BodyInv

LEMMA BodyKept ==
    ASSUME OneBody
    PROVE  TypeOK /\ JournalInv /\ CursorInv /\ BodyInv /\ AnyStep => BodyInv'
<1>1. ASSUME BodyInv, Tick \/ UNCHANGED vars
      PROVE  BodyInv'
  <2>1. UNCHANGED <<row, mapped, created, pc, local, answers>>
    BY <1>1 DEF Tick, vars, db
  <2> QED
    BY <1>1, <2>1 DEF BodyInv, AnswersAgree
<1> QED
  BY <1>1, BodyStep DEF AnyStep

\* However late handlers are, whatever crashes and however often a request is
\* repeated: an answer names the row that the journal stored for the request.
THEOREM AnswersTrue == ASSUME OneBody PROVE Spec => []AnswersAgree
<1> DEFINE Layers == TypeOK /\ JournalInv /\ CursorInv /\ BodyInv
<1>1. Init => Layers
  BY TypeInit, JournalInit, CursorInit, BodyInit
<1>2. Layers /\ [Next]_vars => Layers'
  BY NextIsAnyStep, TypeKept, JournalKept, CursorKept, BodyKept
<1>3. Layers => AnswersAgree
  BY DEF BodyInv
<1> QED
  BY <1>1, <1>2, <1>3, PTL DEF Spec
-----------------------------------------------------------------------------
(***************************************************************************)
(* One effect per request, as long as no handler outlives its lease.       *)
(***************************************************************************)

\* The only business row of a request is the one its mapping names, or the one
\* its operation has for a target.  A handler about to insert has found no
\* mapping, and nobody makes one meanwhile: two holders of one row cannot be.
OnceInv ==
    /\ \A i \in 1..Len(created) :
         LET r == created[i].request IN
         /\ r \notin HeaderRequests => mapped[r] = i
         /\ r \in HeaderRequests => row[r].step \in Written /\ row[r].target = i
    /\ \A c \in Callers : pc[c] = "map_insert" => mapped[Request[c]] = 0

LEMMA OnceInit == Init => OnceInv
BY DEF Init, OnceInv

\* A handler that creates a business row is the only one its request has.
LEMMA FirstCopy ==
    ASSUME TypeOK, JournalInv, LeaseInv, CursorInv, OnceInv, NEW c \in Callers, Act(c),
           created' = NewEntity(c)
    PROVE  /\ \A i \in 1..Len(created) : created[i].request # Request[c]
           /\ Request[c] \notin HeaderRequests =>
                mapped'[Request[c]] = Len(created) + 1 /\ MapInsert(c)
           /\ Request[c] \in HeaderRequests => /\ row'[Request[c]].step \in Written
                                               /\ row'[Request[c]].target = Len(created) + 1
<1>1. created' # created
  <2>1. Len(created') = Len(created) + 1 /\ Len(created) \in Nat
    BY CreatedAfter
  <2> QED
    BY <2>1
<1>2. /\ Creates(c) /\ Request[c] \in Requests /\ pc \in [Callers -> Places]
      /\ mapped \in [Requests -> 0..Len(created)]
  BY CreateMoves, OwnRow DEF TypeOK
<1>3. CASE MapInsert(c)
  <2>1. pc[c] = "map_insert"
    BY <1>3 DEF MapInsert
  <2>2. Request[c] \notin HeaderRequests /\ mapped[Request[c]] = 0
    BY <2>1 DEF CursorInv, OnceInv
  <2>3. mapped'[Request[c]] = Len(created) + 1
    BY <1>2, <1>3, <2>2 DEF MapInsert
  <2>4. \A i \in 1..Len(created) : created[i].request # Request[c]
    BY <2>2 DEF OnceInv
  <2> QED
    BY <1>3, <2>2, <2>3, <2>4
<1>4. CASE /\ Request[c] \in HeaderRequests /\ AtStep(c, "validated")
           /\ Held(c) => /\ row'[Request[c]].step = "written"
                         /\ row'[Request[c]].target = Len(created) + 1
  <2>1. Held(c)
    BY <1>4 DEF AtStep, LeaseInv, LeaseOf, Executing
  <2>2. row[Request[c]].step = "validated"
    BY <1>4, <2>1, HolderReads DEF AtStep, Deciding
  <2>3. \A i \in 1..Len(created) : created[i].request # Request[c]
    BY <1>4, <2>2 DEF OnceInv, Written
  <2> QED
    BY <1>4, <2>1, <2>3 DEF Written
<1> QED
  BY <1>1, <1>2, <1>3, <1>4 DEF Creates

LEMMA OnceStep ==
    ASSUME TypeOK, JournalInv, LeaseInv, CursorInv, OnceInv, NEW c \in Callers, Act(c)
    PROVE  OnceInv'
<1>0. /\ MoveFacts(c) /\ Frame(c) /\ Remembers(c) /\ Creates(c) /\ Request[c] \in Requests
      /\ mapped \in [Requests -> 0..Len(created)]
  BY RowsAfter, OwnMemory, CreateMoves, OwnRow DEF TypeOK
<1>1. ASSUME NEW r \in Requests
      PROVE  /\ mapped[r] # 0 => mapped'[r] = mapped[r]
             /\ row[r].step \in Written => /\ row'[r].step \in Written
                                           /\ row'[r].target = row[r].target
  BY <1>0 DEF MoveFacts, Frame, Creates, MapInsert
<1>2. ASSUME NEW i \in 1..Len(created')
      PROVE  LET r == created'[i].request
             IN /\ r \notin HeaderRequests => mapped'[r] = i
                /\ r \in HeaderRequests => row'[r].step \in Written /\ row'[r].target = i
  <2>1. CASE i \in 1..Len(created)
    <3>1. created'[i] = created[i] /\ created[i] \in EntityType /\ Len(created) \in Nat
      BY <2>1, CreatedAfter
    <3>2. created[i].request \in Requests /\ i # 0
      BY <2>1, <3>1 DEF EntityType
    <3> QED
      BY <1>1, <2>1, <3>1, <3>2 DEF OnceInv
  <2>2. CASE i \notin 1..Len(created)
    <3>1. created' = NewEntity(c) /\ i = Len(created) + 1
          /\ created'[i] = Row(c)
      BY <2>2, CreatedAfter
    <3> QED
      BY <3>1, FirstCopy, RowTyped
  <2> QED
    BY <2>1, <2>2
<1>3. ASSUME NEW d \in Callers, pc'[d] = "map_insert"
      PROVE  mapped'[Request[d]] = 0
  <2>1. CASE d = c
    BY <1>0, <1>3, <2>1 DEF Remembers, db
  <2>2. CASE d # c
    <3>1. pc[d] = "map_insert" /\ mapped[Request[d]] = 0 /\ Request[d] \in Requests
      BY <1>0, <1>3, <2>2, CallersAssumption DEF Frame, OnceInv
    <3>2. Held(d) /\ token[d] # NoToken
      BY <3>1 DEF LeaseInv, LeaseOf, Executing, JournalInv
    <3>3. CASE UNCHANGED mapped
      BY <3>1, <3>3
    <3>4. CASE MapInsert(c)
      <4>1. Held(c)
        BY <3>4 DEF MapInsert, LeaseInv, LeaseOf, Executing
      <4>2. token[c] # token[d]
        BY <2>2, <3>2 DEF JournalInv
      <4>3. Request[c] # Request[d]
        BY <3>2, <4>1, <4>2 DEF Held
      <4> QED
        BY <1>0, <3>1, <4>3 DEF Frame
    <3> QED
      BY <1>0, <3>3, <3>4 DEF Creates
  <2> QED
    BY <2>1, <2>2
<1> QED
  BY <1>2, <1>3 DEF OnceInv

LEMMA OnceKept ==
    TypeOK /\ JournalInv /\ LeaseInv /\ CursorInv /\ OnceInv /\ AnyStep => OnceInv'
<1>1. ASSUME OnceInv, Tick \/ UNCHANGED vars
      PROVE  OnceInv'
  <2>1. UNCHANGED <<row, mapped, created, pc>>
    BY <1>1 DEF Tick, vars, db
  <2> QED
    BY <1>1, <2>1 DEF OnceInv
<1> QED
  BY <1>1, OnceStep DEF AnyStep

LEMMA OnceIsOneEffect == TypeOK /\ OnceInv => OneEffect
<1> SUFFICES ASSUME TypeOK, OnceInv, NEW r \in Requests, NEW i \in Copies(r), NEW j \in Copies(r)
             PROVE  i = j
  BY DEF OneEffect
<1>1. /\ i \in 1..Len(created) /\ created[i].request = r
      /\ j \in 1..Len(created) /\ created[j].request = r
  BY DEF Copies
<1> QED
  BY <1>1 DEF OnceInv

\* "The second copy will not be created": whatever is retried, lost or crashes, a
\* request has one effect, if no handler takes longer than its lease.
THEOREM EffectOnce == ASSUME ~SlowCallers PROVE Spec => []OneEffect
<1> DEFINE Layers == TypeOK /\ JournalInv /\ LeaseInv /\ CursorInv /\ OnceInv
<1>1. Init => Layers
  BY TypeInit, JournalInit, LeaseInit, CursorInit, OnceInit
<1>2. Layers /\ [Next]_vars => Layers'
  BY NextIsAnyStep, TypeKept, JournalKept, LeaseKept, CursorKept, OnceKept
<1>3. Layers => OneEffect
  BY OnceIsOneEffect
<1> QED
  BY <1>1, <1>2, <1>3, PTL DEF Spec
-----------------------------------------------------------------------------
(***************************************************************************)
(* The journal keeps its promise: each step is one of IdempotentRequest or *)
(* leaves its state alone.                                                 *)
(***************************************************************************)

\* The effects of IdempotentRequest, and the one of a business row.
Effect(e, i) == [request |-> e.request, payload |-> e.payload, target |-> i]
Effects == {[request |-> created[i].request, payload |-> created[i].payload,
             target |-> i] : i \in 1..Len(created)}

\* The specification of the promise counts with an operator of its own.
LEMMA SameCount == ASSUME NEW S PROVE Promise!Cardinality(S) = Cardinality(S)
BY DEF Promise!Cardinality, Cardinality

\* There are as many effects as business rows.
LEMMA EffectsCounted == TypeOK => Cardinality(Effects) = Len(created)
<1> SUFFICES ASSUME TypeOK PROVE Cardinality(Effects) = Len(created)
  OBVIOUS
<1> DEFINE n == Len(created)
           f == [i \in 1..n |-> Effect(created[i], i)]
<1>1. n \in Nat
  BY DEF TypeOK
<1>2. \A i \in 1..n : f[i] \in Effects /\ f[i].target = i
  BY DEF Effects, Effect
<1>3. \A e \in Effects : \E i \in 1..n : f[i] = e
  BY DEF Effects, Effect
<1>4. f \in [1..n -> Effects] /\ \A i, j \in 1..n : f[i] = f[j] => i = j
  BY <1>2
<1>5. f \in Bijection(1..n, Effects)
  BY <1>3, <1>4 DEF Bijection, Injection, Surjection, IsInjective
<1>6. ExistsBijection(1..n, Effects)
  BY <1>5 DEF ExistsBijection
<1> QED
  BY <1>1, <1>6, FS_CountingElements

\* A business row is performed as the next effect of a request that has none.
LEMMA CreatePerforms ==
    ASSUME TypeOK, JournalInv, LeaseInv, CursorInv, OnceInv, NEW c \in Callers, Act(c),
           created' = NewEntity(c)
    PROVE  Promise!Perform(Request[c], Payload[c])
<1> DEFINE k == Len(created) + 1
           e == [request |-> Request[c], payload |-> Payload[c], target |-> k]
<1>1. /\ \A i \in 1..Len(created) : created[i].request # Request[c]
      /\ Len(created) \in Nat /\ Len(created') = k
  BY FirstCopy, CreatedAfter
<1>2. created' # created /\ Creates(c)
  BY <1>1, CreateMoves
<1>3. UNCHANGED answers
  BY <1>2 DEF Creates, MapInsert
<1>4. /\ \A i \in 1..Len(created) : created'[i] = created[i]
      /\ created'[k].request = Request[c] /\ created'[k].payload = Payload[c]
  <2>1. k \in 1..Len(created') /\ k \notin 1..Len(created)
    BY <1>1
  <2> QED
    BY <2>1, CreatedAfter, RowTyped
<1>5. \A x \in Effects : x.request # Request[c]
  BY <1>1 DEF Effects
<1>6. Effects' = Effects \cup {e}
  <2>1. ASSUME NEW x \in Effects'
        PROVE  x \in Effects \cup {e}
    <3>1. PICK i \in 1..k : x = [request |-> created'[i].request,
                                 payload |-> created'[i].payload, target |-> i]
      BY <1>1, <2>1 DEF Effects
    <3>2. CASE i = k
      BY <1>4, <3>1, <3>2
    <3>3. CASE i \in 1..Len(created)
      BY <1>4, <3>1, <3>3 DEF Effects
    <3> QED
      BY <1>1, <3>2, <3>3
  <2>2. ASSUME NEW x \in Effects
        PROVE  x \in Effects'
    <3>1. PICK i \in 1..Len(created) : x = [request |-> created[i].request,
                                            payload |-> created[i].payload, target |-> i]
      BY <2>2 DEF Effects
    <3>2. i \in 1..Len(created') /\ created'[i] = created[i]
      BY <1>1, <1>4
    <3> QED
      BY <3>1, <3>2 DEF Effects
  <2>3. e \in Effects'
    <3>1. k \in 1..Len(created')
      BY <1>1
    <3>2. e = [request |-> created'[k].request, payload |-> created'[k].payload, target |-> k]
      BY <1>4
    <3> QED
      BY <3>1, <3>2 DEF Effects
  <2> QED
    BY <2>1, <2>2, <2>3
<1>7. Cardinality(Effects) = Len(created)
  BY EffectsCounted
<1>8. Effects' = Effects \cup {[request |-> Request[c], payload |-> Payload[c],
                                 target |-> Promise!Cardinality(Effects) + 1]}
  BY <1>6, <1>7, SameCount
<1> QED
  BY <1>3, <1>5, <1>8 DEF Promise!Perform, Effects

\* An answer names an effect: the target of a completed row.
LEMMA AnswerReplies ==
    ASSUME TypeOK, JournalInv, LeaseInv, CursorInv, BodyInv, NEW c \in Callers, Act(c)
    PROVE  \/ UNCHANGED answers
           \/ /\ UNCHANGED created
              /\ \E e \in Effects : answers' = answers \cup {e}
<1> DEFINE r == row[Request[c]]
<1> SUFFICES ASSUME ~UNCHANGED answers
             PROVE  UNCHANGED created /\ \E e \in Effects : answers' = answers \cup {e}
  OBVIOUS
<1>0. Request[c] \in Requests
  BY OwnRow
<1>1. PICK t \in Nat :
        /\ UNCHANGED db
        /\ answers' = answers \cup
             {[request |-> Request[c], payload |-> Payload[c], target |-> t]}
        /\ \/ r.status = "completed" /\ BodyMatches(c) /\ t = r.response
           \/ r.status = "completed" /\ pc[c] = "refresh" /\ t = 0
           \/ pc[c] = "closing" /\ t = view[c].target
  BY AnswerMoves DEF Answers
<1>2. r.status = "completed" /\ r.payload = Payload[c] /\ t = r.target
  <2>1. CASE r.status = "completed" /\ BodyMatches(c) /\ t = r.response
    BY <1>0, <2>1 DEF BodyMatches, CursorInv
  <2>2. CASE r.status = "completed" /\ pc[c] = "refresh"
    <3>1. r.status = "started"
      BY <2>2 DEF LeaseInv, LeaseOf, Executing, Held
    <3> QED
      BY <2>2, <3>1
  <2>3. CASE pc[c] = "closing" /\ t = view[c].target
    BY <2>3 DEF BodyInv, CursorInv, Serving
  <2> QED
    BY <1>1, <2>1, <2>2, <2>3
<1>3. r.step \in Written
  BY <1>0, <1>2 DEF CursorInv, Written
<1>4. t \in 1..Len(created) /\ Serves(created[t], Request[c], Payload[c])
  BY <1>0, <1>2, <1>3 DEF BodyInv
<1>5. [request |-> Request[c], payload |-> Payload[c], target |-> t] \in Effects
  BY <1>4 DEF Effects, Serves
<1> QED
  BY <1>1, <1>5 DEF db

\* All that is needed of the journal to show its promise.
PromiseInv == TypeOK /\ JournalInv /\ LeaseInv /\ CursorInv /\ BodyInv /\ OnceInv

LEMMA PromiseInit == Init => PromiseInv
BY TypeInit, JournalInit, LeaseInit, CursorInit, BodyInit, OnceInit DEF PromiseInv

LEMMA PromiseInvKept == ASSUME ~SlowCallers, OneBody PROVE PromiseInv /\ AnyStep => PromiseInv'
BY TypeKept, JournalKept, LeaseKept, CursorKept, BodyKept, OnceKept DEF PromiseInv

LEMMA PromiseStep == PromiseInv /\ AnyStep => [Promise!Next]_<<Effects, answers>>
<1> SUFFICES ASSUME PromiseInv, AnyStep
             PROVE  [Promise!Next]_<<Effects, answers>>
  OBVIOUS
<1> USE DEF PromiseInv
<1>1. ASSUME NEW c \in Callers, Act(c)
      PROVE  [Promise!Next]_<<Effects, answers>>
  <2>1. CASE created' = NewEntity(c)
    <3>1. Promise!Perform(Request[c], Payload[c])
      BY <1>1, <2>1, CreatePerforms
    <3>2. Request[c] \in Requests /\ Payload[c] \in Payloads
      BY CallersAssumption
    <3> QED
      BY <3>1, <3>2 DEF Promise!Next
  <2>2. CASE UNCHANGED created
    <3>1. Effects' = Effects
      BY <2>2 DEF Effects
    <3>2. CASE UNCHANGED answers
      BY <3>1, <3>2
    <3>3. ASSUME NEW e \in Effects, answers' = answers \cup {e}
          PROVE  Promise!Next
      BY <3>1, <3>3 DEF Promise!Next, Promise!Reply, Effects
    <3> QED
      BY <1>1, <3>2, <3>3, AnswerReplies
  <2> QED
    BY <1>1, <2>1, <2>2, MovesInFrame DEF Frame
<1>2. CASE Tick \/ UNCHANGED vars
  <2>1. UNCHANGED <<created, answers>>
    BY <1>2 DEF Tick, vars, db
  <2> QED
    BY <2>1 DEF Effects
<1> QED
  BY <1>1, <1>2 DEF AnyStep

\* Whatever is lost, crashes or is repeated, the journal behaves like the promise
\* made to its users: one effect per request and body, and answers that name it.
THEOREM PromiseKept ==
  ASSUME ~SlowCallers, OneBody
  PROVE  Spec => ImplementsPromise
<1>1. Init => Promise!Init
  BY DEF Init, Promise!Init
<1>2. PromiseInv /\ [Next]_vars => PromiseInv'
  BY NextIsAnyStep, PromiseInvKept
<1>3. PromiseInv /\ [Next]_vars => [Promise!Next]_<<Effects, answers>>
  BY NextIsAnyStep, PromiseStep
<1> QED
  BY <1>1, <1>2, <1>3, PromiseInit, PTL DEF Spec, ImplementsPromise, Promise!Spec, Effects

-----------------------------------------------------------------------------
(* Payments *)

LEMMA PaymentsAreMapped == OneBody /\ HeaderRequests = {} /\ OrderRequests = {}
BY PaymentAssumption, CallersAssumption DEF OneBody

\* Every step of the payments is one that the journal allows its users.
LEMMA PaymentMoves == [PayNext]_payVars => AnyStep
<1>1. ASSUME NEW c \in Callers, Preflight(c)
      PROVE  AnyStep
  <2>1. CASE UNCHANGED pc
    BY <1>1, <2>1 DEF Preflight, AnyStep, vars, db
  <2>2. CASE pc' = [pc EXCEPT ![c] = "failing"]
    BY <1>1, <2>2 DEF Preflight, AnyStep, Act, Decline, Goto, AtStep
  <2> QED
    BY <1>1, <2>1, <2>2 DEF Preflight
<1>2. ASSUME NEW c \in Callers, InsertPayment(c)
      PROVE  AnyStep
  <2>1. CASE MapInsert(c)
    BY <2>1 DEF AnyStep, Act, Handle
  <2>2. CASE /\ pc' = [pc EXCEPT ![c] = "failing"]
             /\ UNCHANGED <<db, now, token, nowMs, until, view, local, answers, faults>>
    BY <1>2, <2>2 DEF InsertPayment, AnyStep, Act, Decline, Goto
  <2> QED
    BY <1>2, <2>1, <2>2 DEF InsertPayment
<1>3. ASSUME NEW c \in Callers, JournalStep(c) \/ FreezePlan(c) \/ CloseBook(c)
      PROVE  AnyStep
  BY <1>3 DEF JournalStep, FreezePlan, CloseBook, AnyStep, Act, Handle
<1>4. ASSUME NEW c \in Callers, Book(c)
      PROVE  AnyStep
  BY <1>4 DEF Book, AnyStep
<1>5. ASSUME NEW c \in Callers, Send(c) \/ Disturb(c)
      PROVE  AnyStep
  BY <1>5 DEF Send, Disturb, AnyStep, Act
<1>6. ASSUME NEW t \in Syncers, SyncRead(t) \/ SyncWrite(t)
      PROVE  AnyStep
  BY <1>6 DEF SyncRead, SyncWrite, AnyStep
<1>7. CASE PassTime \/ UNCHANGED payVars
  BY <1>7 DEF PassTime, payVars, AnyStep
<1> QED
  BY <1>1, <1>2, <1>3, <1>4, <1>5, <1>6, <1>7 DEF PayNext, PayHandle

\* What is known of the journal under the payments, however slow the handlers.
JournalFacts == TypeOK /\ JournalInv /\ CursorInv /\ BodyInv

LEMMA FactsInit == PayInit => JournalFacts
BY TypeInit, JournalInit, CursorInit, BodyInit DEF PayInit, JournalFacts

LEMMA FactsKept == JournalFacts /\ [PayNext]_payVars => JournalFacts'
BY PaymentMoves, PaymentsAreMapped, TypeKept, JournalKept, CursorKept, BodyKept
   DEF JournalFacts

-----------------------------------------------------------------------------
(***************************************************************************)
(* The payments of an order never exceed what it costs.                    *)
(***************************************************************************)

\* The amount of every payment made.
AmountOf == [i \in 1..Len(created) |-> Amount[created[i].payload]]

LEMMA AmountsAre ==
    ASSUME TypeOK
    PROVE  /\ IsFiniteSet(1..Len(created)) /\ Len(created) \in Nat
           /\ \A i \in 1..Len(created) : AmountOf[i] \in Nat
           /\ Paid = SumFunctionOnSet(AmountOf, 1..Len(created))
           /\ Paid \in Nat
<1>1. Len(created) \in Nat /\ \A i \in 1..Len(created) : created[i] \in EntityType
  BY DEF TypeOK
<1>2. IsFiniteSet(1..Len(created))
  BY <1>1, FS_Interval
<1>3. \A i \in 1..Len(created) : AmountOf[i] \in Nat
  BY <1>1, PaymentAssumption DEF AmountOf, EntityType
<1>4. Paid = SumFunctionOnSet(AmountOf, 1..Len(created))
  BY DEF Paid, AmountOf, SumFunction
<1>5. SumFunctionOnSet(AmountOf, 1..Len(created)) \in Nat
  BY <1>2, <1>3, SumNat
<1> QED
  BY <1>1, <1>2, <1>3, <1>4, <1>5

\* A payment adds its amount to what was paid.
LEMMA PaidGrows ==
    ASSUME TypeOK, TypeOK', NEW c \in Callers, created' = NewEntity(c)
    PROVE  Paid' = Paid + Amount[Payload[c]]
<1> DEFINE n == Len(created)
           k == n + 1
           f == AmountOf
           g == AmountOf'
<1>1. /\ n \in Nat /\ IsFiniteSet(1..n) /\ \A i \in 1..n : f[i] \in Nat
      /\ Paid = SumFunctionOnSet(f, 1..n)
  BY AmountsAre
<1>2. /\ created \in Seq(EntityType) /\ Row(c) \in EntityType
      /\ NewEntity(c) = Append(created, Row(c)) /\ Row(c).payload = Payload[c]
  BY RowTyped DEF TypeOK
<1>3. /\ Len(created') = k
      /\ \A i \in 1..n : created'[i] = created[i]
      /\ created'[k] = Row(c)
  BY <1>2
<1>4. 1..k = 1..n \cup {k} /\ k \notin 1..n
  BY <1>1
<1>5. g = [i \in 1..k |-> Amount[created'[i].payload]]
  BY <1>3 DEF AmountOf
<1>6. Paid' = SumFunctionOnSet(g, 1..k)
  BY <1>3, <1>5 DEF Paid, SumFunction
<1>7. /\ \A i \in 1..n : g[i] = f[i]
      /\ g[k] = Amount[Payload[c]] /\ g[k] \in Nat
  BY <1>1, <1>2, <1>3, <1>4, <1>5, CallersAssumption, PaymentAssumption DEF AmountOf
<1> HIDE DEF n, k, f, g
<1>8. SumFunctionOnSet(g, 1..n \cup {k}) = g[k] + SumFunctionOnSet(g, 1..n)
  <2>1. \A i \in 1..n \cup {k} : g[i] \in Int
    BY <1>1, <1>7
  <2> QED
    BY <1>1, <1>4, <2>1, SumAdd
<1>9. SumFunctionOnSet(f, 1..n) = SumFunctionOnSet(g, 1..n)
  BY <1>1, <1>7, SumSame
<1>10. SumFunctionOnSet(f, 1..n) \in Nat
  BY <1>1, SumNat
<1>11. Paid' = SumFunctionOnSet(g, 1..n \cup {k})
  BY <1>4, <1>6
<1> QED
  BY <1>1, <1>7, <1>8, <1>9, <1>10, <1>11

\* A step that makes a payment has looked at the balance in the same statement.
LEMMA PaymentFits ==
    ASSUME [PayNext]_payVars
    PROVE  \/ UNCHANGED created
           \/ \E c \in Callers : created' = NewEntity(c) /\ Fits(c)
<1>1. ASSUME NEW c \in Callers, JournalStep(c)
      PROVE  UNCHANGED created
  <2>1. CASE RecordEntity(c)
    BY <2>1 DEF RecordEntity, Advance
  <2>2. CASE ~RecordEntity(c)
    BY <1>1, <2>2 DEF JournalStep, BeginRead, BeginInsert, BeginReread, BeginClaim,
       BeginRefresh, Refresh, MapRead, MapReread, Complete, CompleteCheck, Close,
       StrayedStep, Fail, db
  <2> QED
    BY <2>1, <2>2
<1>2. ASSUME NEW c \in Callers,
             Preflight(c) \/ FreezePlan(c) \/ Book(c) \/ CloseBook(c) \/ Send(c) \/ Disturb(c)
      PROVE  UNCHANGED created
  BY <1>2 DEF Preflight, FreezePlan, Book, CloseBook, Send, Disturb, Validate, Settle,
              Advance, Begin, Throw, Crash, db, vars
<1>3. ASSUME NEW c \in Callers, InsertPayment(c)
      PROVE  UNCHANGED created \/ (created' = NewEntity(c) /\ Fits(c))
  BY <1>3 DEF InsertPayment, MapInsert, db
<1>4. ASSUME NEW t \in Syncers, SyncRead(t) \/ SyncWrite(t)
      PROVE  UNCHANGED created
  BY <1>4 DEF SyncRead, SyncWrite, vars, db
<1>5. CASE PassTime \/ UNCHANGED payVars
  BY <1>5 DEF PassTime, Tick, payVars, vars, db
<1> QED
  BY <1>1, <1>2, <1>3, <1>4, <1>5 DEF PayNext, PayHandle

LEMMA NoOverpaymentInit == PayInit => NoOverpayment
<1> SUFFICES ASSUME PayInit PROVE Paid <= Total
  BY DEF NoOverpayment
<1>1. created = << >> /\ Len(created) = 0 /\ 1..Len(created) = {}
  BY DEF PayInit, Init
<1>2. Paid = SumFunctionOnSet(AmountOf, {})
  BY <1>1 DEF Paid, SumFunction, AmountOf
<1>3. Paid = 0
  BY <1>2, SumEmpty
<1> QED
  BY <1>3, PaymentAssumption

LEMMA NoOverpaymentKept ==
    TypeOK /\ NoOverpayment /\ [PayNext]_payVars => NoOverpayment'
<1> SUFFICES ASSUME TypeOK, NoOverpayment, [PayNext]_payVars
             PROVE  NoOverpayment'
  OBVIOUS
<1>1. CASE UNCHANGED created
  BY <1>1 DEF NoOverpayment, Paid
<1>2. ASSUME NEW c \in Callers, created' = NewEntity(c), Fits(c)
      PROVE  NoOverpayment'
  <2>1. Paid' = Paid + Amount[Payload[c]] /\ Paid \in Nat
    BY <1>2, PaidGrows, AmountsAre, TypeKept, PaymentMoves
  <2>2. Amount[Payload[c]] \in Nat \ {0} /\ Total \in Nat
    BY PaymentAssumption, CallersAssumption
  <2>3. Paid + Amount[Payload[c]] <= Total
    BY <1>2, <2>1, <2>2 DEF Fits, DebtOf
  <2> QED
    BY <2>1, <2>3 DEF NoOverpayment
<1> QED
  BY <1>1, <1>2, PaymentFits

\* However many employees pay the same debt at once, from balances read earlier,
\* and however late their handlers are: together they never book more than the
\* order costs.
THEOREM NeverOverpaid == PaySpec => []NoOverpayment
<1>1. TypeOK /\ [PayNext]_payVars => TypeOK'
  BY PaymentMoves, TypeKept
<1>2. PayInit => TypeOK
  BY TypeInit DEF PayInit
<1> QED
  BY <1>1, <1>2, NoOverpaymentInit, NoOverpaymentKept, PTL DEF PaySpec

\* The journal under payments keeps its answers true, however slow the handlers.
THEOREM PaymentAnswersTrue == PaySpec => []AnswersAgree
<1>1. JournalFacts => AnswersAgree
  BY DEF JournalFacts, BodyInv
<1> QED
  BY <1>1, FactsInit, FactsKept, PTL DEF PaySpec
-----------------------------------------------------------------------------
(***************************************************************************)
(* The payments and the ledger.                                            *)
(***************************************************************************)

\* A handler is ready only while it runs; ready at the step after its payment, it
\* has recorded the event; and no row is past that step without its event, nor
\* is there an event of a payment that was not made.
BookInv ==
    /\ ready \in [Callers -> BOOLEAN]
    /\ events \subseteq Requests
    /\ \A c \in Callers :
         ready[c] => /\ pc[c] = "run"
                     /\ view[c].step = "written" => Request[c] \in events
    /\ \A r \in Requests : row[r].step \in {"settled", "completed"} => r \in events
    /\ \A r \in events : row[r].step \in Written

LEMMA BookInit == PayInit => BookInv
BY DEF PayInit, Init, BookInv, AbsentRow

\* What a step does to the cursors: none reaches the step after "written" but for
\* a handler that is ready to leave it, and none comes back.
LEMMA SettlesReady ==
    ASSUME JournalFacts, [PayNext]_payVars, NEW r \in Requests,
           row'[r].step \in {"settled", "completed"},
           row[r].step \notin {"settled", "completed"}
    PROVE  \E c \in Callers : /\ r = Request[c] /\ ready[c] /\ view[c].step = "written"
                              /\ UNCHANGED events
<1> USE DEF JournalFacts
<1>1. ASSUME NEW c \in Callers, Act(c), pc[c] # "run" \/ view[c].step # "written" \/ UNCHANGED row
      PROVE  FALSE
  <2>1. RowMove(c) /\ Frame(c) /\ row[Request[c]] \in RowType /\ Request[c] \in Requests
    BY <1>1, RowMoves, MovesInFrame, OwnRow
  <2>2. r = Request[c] /\ row'[r] # row[r]
    BY <2>1 DEF Frame
  <2> DEFINE w == row[Request[c]]
             n == row'[Request[c]]
             t == local[c]
             k == Len(created) + 1
             u == now + Lease
  <2>3. ~ n = [w EXCEPT !.step = "validated", !.until = u]
    BY <2>1, <2>2 DEF RowType
  <2>4. ~ n = [w EXCEPT !.step = "written", !.target = t, !.until = u]
    BY <2>1, <2>2 DEF RowType
  <2>5. ~ n = [w EXCEPT !.step = "written", !.target = k, !.until = u]
    BY <2>1, <2>2 DEF RowType
  <2>6. ~ n = [w EXCEPT !.lease = NoToken, !.until = 0]
    BY <2>1, <2>2 DEF RowType
  <2>7. ~ n = [w EXCEPT !.lease = token[c], !.until = until[c]]
    BY <2>1, <2>2 DEF RowType
  <2>8. ~ n = [AbsentRow EXCEPT !.status = "started", !.payload = Payload[c],
                                !.lease = token[c], !.until = until[c],
                                !.key = row[Request[c]].key + 1]
    BY <2>2 DEF AbsentRow
  <2>9. n # Dropped(c)
    BY <2>2 DEF Dropped, AbsentRow
  <2> QED
    BY <1>1, <2>1, <2>2, <2>3, <2>4, <2>5, <2>6, <2>7, <2>8, <2>9 DEF RowMove
<1>2. ASSUME NEW c \in Callers, JournalStep(c) \/ FreezePlan(c) \/ InsertPayment(c)
      PROVE  FALSE
  <2>1. CASE RecordEntity(c)
    <3>1. Act(c) /\ pc[c] # "run"
      BY <2>1 DEF RecordEntity, Act, Handle
    <3> QED
      BY <1>1, <3>1
  <2>2. CASE \/ BeginRead(c) \/ BeginInsert(c) \/ BeginReread(c) \/ BeginClaim(c)
             \/ BeginRefresh(c) \/ Refresh(c) \/ MapReread(c) \/ CompleteCheck(c) \/ Close(c)
             \/ Fail(c)
    <3>1. Act(c) /\ pc[c] # "run"
      BY <2>2 DEF Act, Handle, BeginRead, BeginInsert, BeginReread, BeginClaim,
         BeginRefresh, Refresh, MapReread, CompleteCheck, Close, Fail
    <3> QED
      BY <1>1, <3>1
  <2>3. CASE MapRead(c) \/ Complete(c) \/ StrayedStep(c) \/ FreezePlan(c)
    <3>1. Act(c) /\ view[c].step # "written"
      BY <2>3 DEF Act, Handle, MapRead, Complete, StrayedStep, FreezePlan, Validate, AtStep
    <3> QED
      BY <1>1, <3>1
  <2>4. CASE InsertPayment(c)
    <3>1. UNCHANGED row
      BY <2>4 DEF InsertPayment, MapInsert, db
    <3> QED
      BY <3>1
  <2> QED
    BY <1>2, <2>1, <2>2, <2>3, <2>4 DEF JournalStep
<1>3. ASSUME NEW c \in Callers, Preflight(c) \/ Book(c) \/ Send(c) \/ Disturb(c)
      PROVE  FALSE
  <2>1. UNCHANGED row
    BY <1>3 DEF Preflight, Book, Send, Disturb, Begin, Throw, Crash, db, vars
  <2> QED
    BY <2>1
<1>4. ASSUME NEW c \in Callers, CloseBook(c)
      PROVE  r = Request[c] /\ ready[c] /\ view[c].step = "written" /\ UNCHANGED events
  <2>1. Act(c) /\ Frame(c)
    BY <1>4, MovesInFrame DEF CloseBook, Act, Handle
  <2> QED
    BY <1>4, <2>1 DEF CloseBook, Settle, AtStep, Leave, order_, Frame
<1>5. ASSUME NEW t \in Syncers, SyncRead(t) \/ SyncWrite(t)
      PROVE  FALSE
  <2>1. UNCHANGED row
    BY <1>5 DEF SyncRead, SyncWrite, vars, db
  <2> QED
    BY <2>1
<1>6. CASE PassTime \/ UNCHANGED payVars
  <2>1. UNCHANGED row
    BY <1>6 DEF PassTime, Tick, payVars, vars, db
  <2> QED
    BY <2>1
<1> QED
  BY <1>2, <1>3, <1>4, <1>5, <1>6 DEF PayNext, PayHandle

\* What a step does to the readiness of the handlers and to the events.
Prepares(c) ==
    \/ Book(c)
    \/ /\ UNCHANGED events
       /\ \/ ready' = [ready EXCEPT ![c] = FALSE]
          \/ Preflight(c)

LEMMA PaymentPrepares ==
    ASSUME [PayNext]_payVars
    PROVE  \/ UNCHANGED <<ready, events, pc, view>>
           \/ \E c \in Callers : Prepares(c) /\ (Book(c) \/ Preflight(c) \/ Act(c))
<1>1. ASSUME NEW c \in Callers,
             \/ JournalStep(c) \/ FreezePlan(c) \/ CloseBook(c) \/ Send(c) \/ Disturb(c)
      PROVE  Prepares(c) /\ Act(c)
  BY <1>1 DEF JournalStep, FreezePlan, CloseBook, Send, Disturb, Leave, order_, Prepares,
              Act, Handle
<1>2. ASSUME NEW c \in Callers, InsertPayment(c)
      PROVE  Prepares(c) /\ Act(c)
  <2>1. Prepares(c)
    BY <1>2 DEF InsertPayment, Leave, order_, Prepares
  <2>2. CASE MapInsert(c)
    BY <2>1, <2>2 DEF Act, Handle
  <2>3. CASE /\ pc' = [pc EXCEPT ![c] = "failing"]
             /\ UNCHANGED <<db, now, token, nowMs, until, view, local, answers, faults>>
    BY <1>2, <2>1, <2>3 DEF InsertPayment, Act, Decline, Goto
  <2> QED
    BY <1>2, <2>2, <2>3 DEF InsertPayment
<1>3. ASSUME NEW c \in Callers, Preflight(c) \/ Book(c)
      PROVE  Prepares(c)
  BY <1>3 DEF Preflight, order_, Prepares
<1>4. ASSUME NEW t \in Syncers, SyncRead(t) \/ SyncWrite(t)
      PROVE  UNCHANGED <<ready, events, pc, view>>
  BY <1>4 DEF SyncRead, SyncWrite, order_, vars
<1>5. CASE PassTime \/ UNCHANGED payVars
  BY <1>5 DEF PassTime, Tick, payVars, order_, vars
<1> QED
  BY <1>1, <1>2, <1>3, <1>4, <1>5 DEF PayNext, PayHandle

LEMMA BookKept == JournalFacts /\ BookInv /\ [PayNext]_payVars => BookInv'
<1> SUFFICES ASSUME JournalFacts, BookInv, [PayNext]_payVars
             PROVE  BookInv'
  OBVIOUS
<1>0. CursorInv /\ TypeOK /\ TypeOK' /\ JournalInv
  BY FactsKept DEF JournalFacts
<1>1. \A r \in Requests : row[r].step \in Written => row'[r].step \in Written
  <2> SUFFICES ASSUME NEW r \in Requests, row[r].step \in Written
               PROVE  row'[r].step \in Written
    OBVIOUS
  <2>1. ASSUME NEW c \in Callers, Act(c)
        PROVE  row'[r].step \in Written
    <3>1. MoveFacts(c) /\ Frame(c)
      BY <1>0, <2>1, RowsAfter
    <3> QED
      BY <3>1 DEF MoveFacts, Frame
  <2>2. CASE Tick \/ UNCHANGED vars
    BY <2>2 DEF Tick, vars, db
  <2> QED
    BY <2>1, <2>2, PaymentMoves DEF AnyStep
<1>2. events \subseteq events' /\ events' \subseteq Requests
      /\ \A r \in events' : row'[r].step \in Written
  <2>1. CASE UNCHANGED events
    BY <1>1, <2>1 DEF BookInv
  <2>2. ASSUME NEW c \in Callers, Book(c)
        PROVE  /\ events \subseteq events' /\ events' \subseteq Requests
               /\ \A r \in events' : row'[r].step \in Written
    <3>1. events' = events \cup {Request[c]} /\ Request[c] \in Requests
          /\ view[c].step \in Written /\ UNCHANGED row
      BY <2>2, CallersAssumption DEF Book, AtStep, Written, vars, db
    <3>2. row[Request[c]].step \in Written
      BY <1>0, <3>1 DEF CursorInv
    <3> QED
      BY <3>1, <3>2 DEF BookInv
  <2> QED
    BY <2>1, <2>2, PaymentPrepares DEF Prepares
<1>3. ASSUME NEW r \in Requests, row'[r].step \in {"settled", "completed"}
      PROVE  r \in events'
  <2>1. CASE row[r].step \in {"settled", "completed"}
    BY <1>2, <2>1 DEF BookInv
  <2>2. CASE row[r].step \notin {"settled", "completed"}
    BY <1>3, <2>2, SettlesReady DEF BookInv
  <2> QED
    BY <2>1, <2>2
<1>4. ready' \in [Callers -> BOOLEAN]
  BY PaymentPrepares DEF BookInv, Prepares, Book, Preflight
<1>5. ASSUME NEW d \in Callers, ready'[d]
      PROVE  pc'[d] = "run" /\ (view'[d].step = "written" => Request[d] \in events')
  <2>1. CASE UNCHANGED <<ready, events, pc, view>>
    BY <1>5, <2>1 DEF BookInv
  <2>2. ASSUME NEW c \in Callers, Book(c)
        PROVE  pc'[d] = "run" /\ (view'[d].step = "written" => Request[d] \in events')
    <3>1. /\ UNCHANGED <<pc, view>> /\ ready' = [ready EXCEPT ![c] = TRUE] /\ pc[c] = "run"
          /\ events' = events \cup {Request[c]}
      BY <2>2 DEF Book, AtStep, vars
    <3> QED
      BY <1>5, <3>1 DEF BookInv
  <2>3. ASSUME NEW c \in Callers, Preflight(c)
        PROVE  pc'[d] = "run" /\ (view'[d].step = "written" => Request[d] \in events')
    <3>1. /\ UNCHANGED <<view, events>> /\ pc[c] = "run" /\ view[c].step = "started" /\ ~ready[c]
          /\ \/ UNCHANGED pc /\ ready' = [ready EXCEPT ![c] = TRUE]
             \/ pc' = [pc EXCEPT ![c] = "failing"] /\ UNCHANGED ready
      BY <2>3 DEF Preflight, AtStep, order_
    <3>2. pc \in [Callers -> Places]
      BY <1>0 DEF TypeOK
    <3> QED
      BY <1>5, <3>1, <3>2 DEF BookInv
  <2>4. ASSUME NEW c \in Callers, Act(c), UNCHANGED events, ready' = [ready EXCEPT ![c] = FALSE]
        PROVE  pc'[d] = "run" /\ (view'[d].step = "written" => Request[d] \in events')
    <3>1. Frame(c)
      BY <1>0, <2>4, MovesInFrame
    <3>2. d # c /\ ready[d]
      BY <1>5, <2>4 DEF BookInv
    <3> QED
      BY <2>4, <3>1, <3>2 DEF BookInv, Frame
  <2> QED
    BY <2>1, <2>2, <2>3, <2>4, PaymentPrepares DEF Prepares
<1> QED
  BY <1>2, <1>3, <1>4, <1>5 DEF BookInv

\* A payment that is reported complete has its event in the ledger, whichever of
\* its handlers crashed or came too late.
THEOREM CompletedAreBooked == PaySpec => []CompletedIsBooked
<1>1. JournalFacts /\ BookInv => CompletedIsBooked
  BY DEF JournalFacts, CursorInv, BookInv, CompletedIsBooked
<1>2. JournalFacts /\ BookInv /\ [PayNext]_payVars => (JournalFacts /\ BookInv)'
  BY FactsKept, BookKept
<1> QED
  BY <1>1, <1>2, FactsInit, BookInit, PTL DEF PaySpec

\* One payment per request, as under the journal alone.
PaymentFacts == PromiseInv /\ BookInv

LEMMA PaymentFactsInit == PayInit => PaymentFacts
BY PromiseInit, BookInit DEF PayInit, PaymentFacts

LEMMA PaymentFactsKept ==
    ASSUME ~SlowCallers
    PROVE  PaymentFacts /\ [PayNext]_payVars => PaymentFacts'
BY PaymentMoves, PaymentsAreMapped, PromiseInvKept, BookKept
   DEF PaymentFacts, PromiseInv, JournalFacts

\* With nothing under way, payments and events are in one to one correspondence:
\* an event is of a payment made, a payment made is complete, and has its event,
\* and no request has two payments.
LEMMA FactsBalance == PaymentFacts => BooksBalance
<1> SUFFICES ASSUME PaymentFacts, \A r \in Requests : ~Unfinished(r)
             PROVE  Paid = SumFunction([r \in events |-> Amount[row[r].payload]])
  BY DEF BooksBalance
<1> DEFINE n == Len(created)
           g == [r \in events |-> Amount[row[r].payload]]
           name == [i \in 1..n |-> created[i].request]
<1>1. /\ TypeOK /\ JournalInv /\ CursorInv /\ BodyInv /\ OnceInv /\ BookInv
      /\ HeaderRequests = {}
  BY PaymentsAreMapped DEF PaymentFacts, PromiseInv
<1>2. /\ n \in Nat /\ IsFiniteSet(1..n) /\ \A i \in 1..n : AmountOf[i] \in Nat
      /\ Paid = SumFunctionOnSet(AmountOf, 1..n)
  BY <1>1, AmountsAre
<1>3. \A i \in 1..n : created[i] \in EntityType /\ created[i].request \in Requests
  <2>1. \A i \in 1..n : created[i] \in EntityType
    BY <1>1 DEF TypeOK
  <2> QED
    BY <2>1 DEF EntityType
<1>4. ASSUME NEW i \in 1..n
      PROVE  name[i] \in events /\ created[i].payload = row[name[i]].payload
             /\ mapped[name[i]] = i
  <2>1. name[i] \in Requests /\ mapped[name[i]] = i /\ i # 0
    BY <1>1, <1>3 DEF OnceInv
  <2>2. Serves(created[i], name[i], row[name[i]].payload)
    BY <1>1, <2>1 DEF BodyInv
  <2>3. row[name[i]].step \in Begun
    BY <1>1 DEF CursorInv
  <2>4. row[name[i]].status \in {"none", "started", "completed"} /\ row[name[i]].step # "started"
    BY <1>1, <2>1, <2>3 DEF TypeOK, RowType, Begun, Written
  <2>5. row[name[i]].status = "completed"
    BY <1>1, <2>1, <2>4 DEF JournalInv, Unfinished
  <2>6. row[name[i]].step = "completed"
    BY <1>1, <2>1, <2>5 DEF CursorInv
  <2> QED
    BY <1>1, <2>1, <2>2, <2>6 DEF BookInv, Serves
<1>5. ASSUME NEW r \in events
      PROVE  \E i \in 1..n : name[i] = r
  <2>1. r \in Requests /\ row[r].step \in Written
    BY <1>1 DEF BookInv
  <2>2. row[r].target \in 1..n /\ Serves(created[row[r].target], r, row[r].payload)
    BY <1>1, <2>1 DEF BodyInv
  <2> QED
    BY <2>2 DEF Serves
<1>6. IsFiniteSet(events)
  <2>1. name \in Surjection(1..n, events)
    BY <1>4, <1>5 DEF Surjection
  <2> QED
    BY <1>2, <2>1, FS_Surjection
<1>7. \A i \in 1..n : name[i] \in events /\ AmountOf[i] \in Int /\ AmountOf[i] = g[name[i]]
  <2> SUFFICES ASSUME NEW i \in 1..n
               PROVE  name[i] \in events /\ AmountOf[i] \in Int /\ AmountOf[i] = g[name[i]]
    OBVIOUS
  <2>1. AmountOf[i] = Amount[created[i].payload] /\ AmountOf[i] \in Int
    BY <1>2 DEF AmountOf
  <2>2. name[i] \in events /\ g[name[i]] = Amount[row[name[i]].payload]
    BY <1>4
  <2> QED
    BY <1>4, <2>1, <2>2
<1>8. \A i, j \in 1..n : name[i] = name[j] => i = j
  BY <1>4
<1>9. \A r \in events : \E i \in 1..n : name[i] = r
  BY <1>5
<1>11. SumFunction(g) = SumFunctionOnSet(g, events)
  BY DEF SumFunction
<1> HIDE DEF n, g, name
<1>10. SumFunctionOnSet(AmountOf, 1..n) = SumFunctionOnSet(g, events)
  <2> DEFINE S == 1..n
             f == AmountOf
  <2>1. /\ IsFiniteSet(S) /\ \A x \in S : name[x] \in events /\ f[x] \in Int /\ f[x] = g[name[x]]
        /\ \A x, y \in S : name[x] = name[y] => x = y
        /\ \A z \in events : \E x \in S : name[x] = z
    BY <1>2, <1>7, <1>8, <1>9
  <2> HIDE DEF S, f
  <2>2. SumFunctionOnSet(f, S) = SumFunctionOnSet(g, events)
    BY <1>6, <2>1, SumRenamed
  <2> QED
    BY <2>2 DEF S, f
<1> QED
  BY <1>2, <1>10, <1>11 DEF g

\* Whatever crashes, is retried or comes late: with nothing under way the payments
\* of the order and its ledger events add up to the same money.
THEOREM BooksBalanced == ASSUME ~SlowCallers PROVE PaySpec => []BooksBalance
BY PaymentFactsInit, PaymentFactsKept, FactsBalance, PTL DEF PaySpec

\* Payments keep the promise of the journal: one payment per request and body,
\* and every answer names it.
THEOREM PaymentsKeepPromise == ASSUME ~SlowCallers PROVE PaySpec => ImplementsPromise
<1>1. PayInit => Promise!Init
  BY DEF PayInit, Init, Promise!Init
<1>2. PaymentFacts /\ [PayNext]_payVars => [Promise!Next]_<<Effects, answers>>
  BY PaymentMoves, PromiseStep DEF PaymentFacts
<1> QED
  BY <1>1, <1>2, PaymentFactsInit, PaymentFactsKept, PTL
     DEF PaySpec, ImplementsPromise, Promise!Spec, Effects
===============================================================================
