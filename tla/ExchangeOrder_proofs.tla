------------------------- MODULE ExchangeOrder_proofs -------------------------
(***************************************************************************)
(* Proofs that an order adds up after its exchanges, for every set of      *)
(* lines and exchanges, every quantity, every number of dying calls.       *)
(*                                                                         *)
(* To the layers of ExchangeSet_proofs come three more, for an order whose *)
(* exchanges are worked on one at a time (ExchangesApart):                 *)
(*   BalanceInv  the account of the units of every line, with what each    *)
(*               exchange left when it was made (LatestFirst);             *)
(*   FitInv      the reservation and the mark behind the units of a line   *)
(*               (HandoversStay);                                          *)
(*   MoneyInv    total and payments while an exchange is on its way.       *)
(* BalanceQuiet, FitQuiet and MoneyQuiet say what leaves a layer alone.    *)
(***************************************************************************)
EXTENDS ExchangeSet_proofs

-----------------------------------------------------------------------------
(* The units of the lines, when an order is worked on by one handler *)

\* The exchanges that stand against a line, and what they took of it.
Rests(d, l) == Standing(d) /\ made[d].plan.line = l
Share(d, l) == IF Rests(d, l) THEN made[d].plan.take ELSE 0
Back(l) == Sum([d \in Exchanges |-> Share(d, l)], Exchanges)

\* What was taken of the line of an exchange after it.
ShareAfter(d, c) == IF Rests(d, made[c].plan.line) /\ made[d].id > made[c].id THEN made[d].plan.take ELSE 0
Later(c) == Sum([d \in Exchanges |-> ShareAfter(d, c)], Exchanges)

\* What a line was bought in, and the account of its units: what is left of
\* it and what every exchange left when it was made.
Held(l) == IF l \in First THEN Ordered[l] ELSE IF Standing(l) /\ mark[l] # "absent" THEN made[l].plan.give ELSE 0
Balanced(l, n) ==
  /\ n + Back(l) = Held(l)
  /\ \A c \in Exchanges : Rests(c, l) => made[c].plan.target = n + Later(c)

\* No cancellation is at work on a line.
Calm(l) == \A c \in Exchanges : Undoing(c) => c # l /\ made[c].plan.line # l

\* Nothing rests on the new line of an exchange, nothing later on its old one.
Latest(c) ==
  \A d \in Exchanges : /\ ~Rests(d, c)
                       /\ Rests(d, made[c].plan.line) => made[d].id <= made[c].id

Restored == {"oldResv", "moneyBack", "finish"}
Emptied == {"oldQty"} \cup Restored
UndoingUnits(c) ==
  LET l == made[c].plan.line
  IN /\ Balanced(l, undo[c].baseline)
     /\ qty[l] \in {undo[c].baseline, undo[c].target}
     /\ qty[c] \in {0, made[c].plan.give}
     /\ pc[c].cancel \in Emptied => qty[c] = 0
     /\ pc[c].cancel \in Restored => qty[l] = undo[c].target

Numbered ==
  /\ \A c \in Exchanges : made[c].id <= Cardinality({d \in Exchanges : Claimed(d)})
  /\ \A c, d \in Exchanges : Claimed(c) /\ made[c].id = made[d].id => c = d
LinesBalance == \A l \in Lines : Calm(l) => Balanced(l, qty[l])
NothingRests == \A c, d \in Exchanges : made[c].status = "cancelled" \/ made[c].step \in Midway => ~Rests(d, c)
LatestUndone == \A c \in Exchanges : Undoing(c) \/ pc[c].cancel = "freeze" => Latest(c)
UndoneUnits == \A c \in Exchanges : Undoing(c) => UndoingUnits(c)
BalanceInv == Numbered /\ LinesBalance /\ NothingRests /\ LatestUndone /\ UndoneUnits

\* An exchange that has claimed units has a plan, of another line than its own.
LEMMA StandingPlan ==
  ASSUME CoreInv, NEW d \in Exchanges, Claimed(d)
  PROVE  LET p == made[d].plan
         IN /\ made[d].step \in Midway \cup {"completed"} /\ d \in Lines /\ d \notin First
            /\ p \in Plans /\ p.line \in Lines /\ p.line # d
            /\ p.take \in Nat \ {0} /\ p.give \in Nat \ {0} /\ p.target \in Nat /\ p.initial = p.target + p.take
            /\ made[d].id \in Nat
<1>1. made[d].step \in Midway \cup {"completed"} /\ PlanOK(d) /\ made[d].id \in Nat
  BY DEF CoreInv, Typed, WorkTyped, Exchange, Staged, CreateStage, Claimed, Midway, Resumes
<1>2. made[d].plan \in Plans /\ made[d].step # "none"
  BY <1>1, PlansOf DEF Midway
<1> QED
  BY <1>1, <1>2, ExchangeAssumption DEF PlanOK, Plans, Lines

\* An exchange that stands has claimed its units.
LEMMA StandingClaimed == ASSUME CoreInv, NEW d \in Exchanges, Standing(d) PROVE Claimed(d)
BY DEF CoreInv, Staged, CreateStage, Standing, Claimed

\* Shares and their sums are numbers.
LEMMA SharesNat ==
  ASSUME CoreInv
  PROVE  /\ \A d \in Exchanges, l \in Lines : Share(d, l) \in Nat
         /\ \A c, d \in Exchanges : ShareAfter(d, c) \in Nat
         /\ \A l \in Lines : Back(l) \in Nat
         /\ \A c \in Exchanges : Later(c) \in Nat
<1>1. \A d \in Exchanges : Standing(d) => made[d].plan.take \in Nat
  BY StandingPlan, StandingClaimed
<1>2. /\ \A d \in Exchanges, l \in Lines : Share(d, l) \in Nat
      /\ \A c, d \in Exchanges : ShareAfter(d, c) \in Nat
  BY <1>1 DEF Share, ShareAfter, Rests
<1>3. ASSUME NEW l \in Lines PROVE Back(l) \in Nat
  <2>1. \A d \in Exchanges : [e \in Exchanges |-> Share(e, l)][d] \in Nat
    BY <1>2
  <2> QED
    BY <2>1, LinesFinite, SumNat DEF Back, Sum
<1>4. ASSUME NEW c \in Exchanges PROVE Later(c) \in Nat
  <2>1. \A d \in Exchanges : [e \in Exchanges |-> ShareAfter(e, c)][d] \in Nat
    BY <1>2
  <2> QED
    BY <2>1, LinesFinite, SumNat DEF Later, Sum
<1> QED
  BY <1>2, <1>3, <1>4

\* The sums follow the shares.
LEMMA SharesKept ==
  ASSUME NEW l, \A d \in Exchanges : Share(d, l)' = Share(d, l)
  PROVE  Back(l)' = Back(l)
<1>1. [d \in Exchanges |-> Share(d, l)'] = [d \in Exchanges |-> Share(d, l)]
  OBVIOUS
<1> QED
  BY <1>1 DEF Back

\* What was taken later follows its shares.
LEMMA LaterKept ==
  ASSUME NEW c, \A d \in Exchanges : ShareAfter(d, c)' = ShareAfter(d, c)
  PROVE  Later(c)' = Later(c)
<1>1. [d \in Exchanges |-> ShareAfter(d, c)'] = [d \in Exchanges |-> ShareAfter(d, c)]
  OBVIOUS
<1> QED
  BY <1>1 DEF Later

\* One share changes: so does what was given back of the line.
LEMMA OneShare ==
  ASSUME CoreInv, NEW c \in Exchanges, NEW l \in Lines, Share(c, l)' \in Int,
         \A d \in Exchanges \ {c} : Share(d, l)' = Share(d, l)
  PROVE  Back(l)' = Back(l) - Share(c, l) + Share(c, l)'
<1> DEFINE f == [d \in Exchanges |-> Share(d, l)]
           g == [d \in Exchanges |-> Share(d, l)']
<1>1. \A d \in Exchanges : f[d] = Share(d, l) /\ f[d] \in Int /\ g[d] = Share(d, l)' /\ g[d] \in Int
  BY SharesNat
<1>2. \A d \in Exchanges \ {c} : g[d] = f[d]
  BY <1>1
<1>3. Back(l) = Sum(f, Exchanges) /\ Back(l)' = Sum(g, Exchanges)
  BY DEF Back
<1> HIDE DEF f, g
<1>4. Sum(g, Exchanges) = Sum(f, Exchanges) - f[c] + g[c]
  <2>1. \A d \in Exchanges : f[d] \in Int /\ g[d] \in Int
    BY <1>1
  <2>2. IsFiniteSet(Exchanges)
    BY LinesFinite
  <2> QED
    BY ONLY <1>2, <2>1, <2>2, SumPoint, c \in Exchanges
<1> QED
  BY <1>1, <1>3, <1>4

\* One later share changes: so does what was taken later.
LEMMA OneLater ==
  ASSUME CoreInv, NEW c \in Exchanges, NEW e \in Exchanges, ShareAfter(c, e)' \in Int,
         \A d \in Exchanges \ {c} : ShareAfter(d, e)' = ShareAfter(d, e)
  PROVE  Later(e)' = Later(e) - ShareAfter(c, e) + ShareAfter(c, e)'
<1> DEFINE f == [d \in Exchanges |-> ShareAfter(d, e)]
           g == [d \in Exchanges |-> ShareAfter(d, e)']
<1>1. \A d \in Exchanges : f[d] = ShareAfter(d, e) /\ f[d] \in Int /\ g[d] = ShareAfter(d, e)' /\ g[d] \in Int
  BY SharesNat
<1>2. \A d \in Exchanges \ {c} : g[d] = f[d]
  BY <1>1
<1>3. Later(e) = Sum(f, Exchanges) /\ Later(e)' = Sum(g, Exchanges)
  BY DEF Later
<1> HIDE DEF f, g
<1>4. Sum(g, Exchanges) = Sum(f, Exchanges) - f[c] + g[c]
  <2>1. \A d \in Exchanges : f[d] \in Int /\ g[d] \in Int
    BY <1>1
  <2>2. IsFiniteSet(Exchanges)
    BY LinesFinite
  <2> QED
    BY ONLY <1>2, <2>1, <2>2, SumPoint, c \in Exchanges
<1> QED
  BY <1>1, <1>3, <1>4

\* The step concerns the units in nothing.
BalanceQuiet(c) ==
  /\ qty' = qty /\ Only(c)
  /\ \A d \in Exchanges : mark'[d] = "absent" <=> mark[d] = "absent"
  /\ made'[c].status = made[c].status /\ made'[c].id = made[c].id
  /\ Claimed(c) => made'[c].plan = made[c].plan
  /\ made'[c].step \in Midway => made[c].step \in Midway
  /\ Undoing(c)' <=> Undoing(c)
  /\ Undoing(c) => undo'[c] = undo[c]
  /\ pc'[c].cancel = "freeze" => pc[c].cancel = "freeze"
  /\ pc'[c].cancel \in Emptied => pc[c].cancel \in Emptied
  /\ pc'[c].cancel \in Restored => pc[c].cancel \in Restored

\* While the rows of the exchanges stand, so do their accounts.
LEMMA AccountsKept ==
  ASSUME CoreInv,
         \A d \in Exchanges : /\ made'[d].status = made[d].status /\ made'[d].id = made[d].id
                              /\ Claimed(d) => made'[d].plan = made[d].plan
  PROVE  /\ \A d \in Exchanges, l \in Lines : Rests(d, l)' = Rests(d, l)
         /\ \A l \in Lines : Back(l)' = Back(l)
         /\ \A d \in Exchanges : Standing(d) => Later(d)' = Later(d) /\ made'[d].plan = made[d].plan
<1>1. \A d \in Exchanges : Standing(d)' = Standing(d) /\ (Standing(d) => made'[d].plan = made[d].plan)
  BY StandingClaimed DEF Standing
<1>2. \A d \in Exchanges, l \in Lines : Rests(d, l)' = Rests(d, l)
  BY <1>1 DEF Rests
<1>3. ASSUME NEW l \in Lines PROVE Back(l)' = Back(l)
  <2>1. \A d \in Exchanges : Share(d, l)' = Share(d, l)
    BY <1>1 DEF Share, Rests
  <2> QED
    BY <2>1, SharesKept
<1>4. ASSUME NEW c \in Exchanges, Standing(c) PROVE Later(c)' = Later(c)
  <2>1. \A d \in Exchanges : ShareAfter(d, c)' = ShareAfter(d, c)
    BY <1>1, <1>4 DEF ShareAfter, Rests
  <2> QED
    BY <2>1, LaterKept
<1> QED
  BY <1>1, <1>2, <1>3, <1>4

\* What a line was bought in stays while its exchange stands.
LEMMA HeldKept ==
  ASSUME CoreInv, NEW l \in Lines,
         \A d \in Exchanges : Standing(d)' = Standing(d) /\ (Standing(d) => made'[d].plan = made[d].plan),
         l \in Exchanges => (mark'[l] = "absent" <=> mark[l] = "absent")
  PROVE  Held(l)' = Held(l)
BY DEF Held, Lines

\* The step of Quiet keeps the account of the units.
LEMMA QuietBalance ==
  ASSUME CoreInv, BalanceInv, NEW c \in Exchanges, BalanceQuiet(c)
  PROVE  BalanceInv'
<1>1. \A d \in Exchanges : /\ made'[d].status = made[d].status /\ made'[d].id = made[d].id
                           /\ Claimed(d) => made'[d].plan = made[d].plan
                           /\ Undoing(d)' = Undoing(d) /\ (Undoing(d) => undo'[d] = undo[d])
  BY DEF BalanceQuiet, Only, Undoing, Standing
<1>2. \A d \in Exchanges : Standing(d)' = Standing(d) /\ Claimed(d)' = Claimed(d)
  BY <1>1 DEF Standing, Claimed
<1>3. /\ \A d \in Exchanges, l \in Lines : Rests(d, l)' = Rests(d, l)
      /\ \A l \in Lines : Back(l)' = Back(l)
      /\ \A d \in Exchanges : Standing(d) => Later(d)' = Later(d) /\ made'[d].plan = made[d].plan
  BY <1>1, AccountsKept
<1>4. \A l \in Lines : Held(l)' = Held(l)
  BY <1>2, <1>3, HeldKept DEF BalanceQuiet
<1>6. Numbered'
  <2>1. {d \in Exchanges : Claimed(d)'} = {d \in Exchanges : Claimed(d)}
    BY <1>2
  <2> QED
    BY <1>1, <1>2, <2>1 DEF BalanceInv, Numbered
<1>7. LinesBalance'
  <2>1. \A l \in Lines : Calm(l)' => Calm(l)
    BY <1>1, <1>3 DEF Calm, Undoing
  <2>2. \A l \in Lines : Balanced(l, qty[l])' = Balanced(l, qty[l])
    BY <1>3, <1>4 DEF Balanced, Rests, BalanceQuiet
  <2> QED
    BY <2>1, <2>2 DEF BalanceInv, LinesBalance
<1>8. NothingRests'
  <2>1. \A d \in Exchanges : made'[d].step \in Midway => made[d].step \in Midway
    BY DEF BalanceQuiet, Only
  <2>2. \A d \in Exchanges : d \in Lines
    BY DEF Lines
  <2> QED
    BY <1>1, <1>3, <2>1, <2>2 DEF BalanceInv, NothingRests
<1>9. \A d \in Exchanges : Undoing(d)' \/ pc'[d].cancel = "freeze" => Undoing(d) \/ pc[d].cancel = "freeze"
  BY <1>1 DEF BalanceQuiet, Only
<1>10. \A d \in Exchanges : Undoing(d) \/ pc[d].cancel = "freeze" => Standing(d)
  BY DEF Undoing, CoreInv, Staged, CancelStage
<1>11. LatestUndone'
  <2> SUFFICES ASSUME NEW d \in Exchanges, Undoing(d)' \/ pc'[d].cancel = "freeze" PROVE Latest(d)'
    BY DEF LatestUndone
  <2>1. Latest(d) /\ Standing(d)
    BY <1>9, <1>10 DEF BalanceInv, LatestUndone
  <2>2. d \in Lines /\ made[d].plan.line \in Lines
    BY <2>1, StandingPlan, StandingClaimed
  <2> QED
    BY <1>1, <1>3, <2>1, <2>2 DEF Latest
<1>12. UndoneUnits'
  <2> SUFFICES ASSUME NEW d \in Exchanges, Undoing(d)' PROVE UndoingUnits(d)'
    BY DEF UndoneUnits
  <2>1. Undoing(d) /\ UndoingUnits(d) /\ Standing(d) /\ undo'[d] = undo[d]
    BY <1>1 DEF BalanceInv, UndoneUnits, Undoing
  <2>2. made'[d].plan = made[d].plan /\ made[d].plan.line \in Lines
    BY <1>3, <2>1, StandingPlan, StandingClaimed
  <2>3. Balanced(made[d].plan.line, undo[d].baseline)'
    <3>1. \A l \in Lines, n \in {undo[d].baseline} : Balanced(l, n) => n + Back(l)' = Held(l)'
            /\ \A e \in Exchanges : Rests(e, l)' => made'[e].plan.target = n + Later(e)'
      BY <1>3, <1>4 DEF Balanced, Rests
    <3> QED
      BY <2>1, <2>2, <3>1 DEF UndoingUnits, Balanced
  <2>4. /\ pc'[d].cancel \in Emptied => pc[d].cancel \in Emptied
        /\ pc'[d].cancel \in Restored => pc[d].cancel \in Restored
    BY DEF BalanceQuiet, Only
  <2>5. qty' = qty
    BY DEF BalanceQuiet
  <2> QED
    BY <2>1, <2>2, <2>3, <2>4, <2>5 DEF UndoingUnits
<1> QED
  BY <1>6, <1>7, <1>8, <1>11, <1>12 DEF BalanceInv

\* The step of Retry leaves the account of the units alone.
LEMMA RetryEven == ASSUME CoreInv, NEW c \in Exchanges, Retry(c) PROVE BalanceQuiet(c)
<1>0. Staged(c) /\ WorkTyped /\ LinesTyped /\ made[c] \in Exchange /\ undo[c] \in Cancellation
  BY DEF CoreInv, Typed, WorkTyped
<1>1. qty' = qty /\ Only(c)
  BY <1>0 DEF Retry, Goes, Refused, lineVars, Only, WorkTyped
<1>2. \A d \in Exchanges : mark'[d] = "absent" <=> mark[d] = "absent"
  BY DEF Retry, Refused, lineVars
<1>3. /\ made'[c].status = made[c].status /\ made'[c].id = made[c].id
      /\ Claimed(c) => made'[c].plan = made[c].plan
      /\ made'[c].step \in Midway => made[c].step \in Midway
  BY <1>0 DEF Retry, Goes, Refused, At, Staged, CreateStage, StepAt, Midway, Claimed, WorkTyped, Exchange
<1>4. /\ Undoing(c)' <=> Undoing(c)
      /\ Undoing(c) => undo'[c] = undo[c]
  BY <1>0, <1>3 DEF Retry, Goes, Refused, At, Staged, CancelStage, Undoing, Standing, WorkTyped, Cancellation
<1>5. /\ pc'[c].cancel = "freeze" => pc[c].cancel = "freeze"
      /\ pc'[c].cancel \in Emptied => pc[c].cancel \in Emptied
      /\ pc'[c].cancel \in Restored => pc[c].cancel \in Restored
  BY <1>0 DEF Retry, Goes, Refused, At, Emptied, Restored, WorkTyped
<1> QED
  BY <1>1, <1>2, <1>3, <1>4, <1>5 DEF BalanceQuiet

\* The step of Drop leaves the account of the units alone.
LEMMA DropEven == ASSUME CoreInv, NEW c \in Exchanges, Drop(c) PROVE BalanceQuiet(c)
<1>0. Staged(c) /\ WorkTyped /\ LinesTyped /\ made[c] \in Exchange /\ undo[c] \in Cancellation
  BY DEF CoreInv, Typed, WorkTyped
<1>1. qty' = qty /\ Only(c)
  BY <1>0 DEF Drop, Goes, Refused, lineVars, Only, WorkTyped
<1>2. \A d \in Exchanges : mark'[d] = "absent" <=> mark[d] = "absent"
  BY DEF Drop, Refused, lineVars
<1>3. /\ made'[c].status = made[c].status /\ made'[c].id = made[c].id
      /\ Claimed(c) => made'[c].plan = made[c].plan
      /\ made'[c].step \in Midway => made[c].step \in Midway
  BY <1>0 DEF Drop, Goes, Refused, At, Staged, CreateStage, StepAt, Midway, Claimed, WorkTyped, Exchange
<1>4. /\ Undoing(c)' <=> Undoing(c)
      /\ Undoing(c) => undo'[c] = undo[c]
  BY <1>0, <1>3 DEF Drop, Goes, Refused, At, Staged, CancelStage, Undoing, Standing, WorkTyped, Cancellation
<1>5. /\ pc'[c].cancel = "freeze" => pc[c].cancel = "freeze"
      /\ pc'[c].cancel \in Emptied => pc[c].cancel \in Emptied
      /\ pc'[c].cancel \in Restored => pc[c].cancel \in Restored
  BY <1>0 DEF Drop, Goes, Refused, At, Emptied, Restored, WorkTyped
<1> QED
  BY <1>1, <1>2, <1>3, <1>4, <1>5 DEF BalanceQuiet

\* The step of OldRow leaves the account of the units alone.
LEMMA OldRowEven == ASSUME CoreInv, NEW c \in Exchanges, OldRow(c) PROVE BalanceQuiet(c)
<1>0. Staged(c) /\ WorkTyped /\ LinesTyped /\ made[c] \in Exchange /\ undo[c] \in Cancellation
  BY DEF CoreInv, Typed, WorkTyped
<1>1. qty' = qty /\ Only(c)
  BY <1>0 DEF OldRow, Goes, Refused, lineVars, Only, WorkTyped
<1>2. \A d \in Exchanges : mark'[d] = "absent" <=> mark[d] = "absent"
  BY DEF OldRow, Refused, lineVars
<1>3. /\ made'[c].status = made[c].status /\ made'[c].id = made[c].id
      /\ Claimed(c) => made'[c].plan = made[c].plan
      /\ made'[c].step \in Midway => made[c].step \in Midway
  BY <1>0 DEF OldRow, Goes, Refused, At, Staged, CreateStage, StepAt, Midway, Claimed, WorkTyped, Exchange
<1>4. /\ Undoing(c)' <=> Undoing(c)
      /\ Undoing(c) => undo'[c] = undo[c]
  BY <1>0, <1>3 DEF OldRow, Goes, Refused, At, Staged, CancelStage, Undoing, Standing, WorkTyped, Cancellation
<1>5. /\ pc'[c].cancel = "freeze" => pc[c].cancel = "freeze"
      /\ pc'[c].cancel \in Emptied => pc[c].cancel \in Emptied
      /\ pc'[c].cancel \in Restored => pc[c].cancel \in Restored
  BY <1>0 DEF OldRow, Goes, Refused, At, Emptied, Restored, WorkTyped
<1> QED
  BY <1>1, <1>2, <1>3, <1>4, <1>5 DEF BalanceQuiet

\* The step of InsertIn leaves the account of the units alone.
LEMMA InsertInEven == ASSUME CoreInv, NEW c \in Exchanges, InsertIn(c) PROVE BalanceQuiet(c)
<1>0. Staged(c) /\ WorkTyped /\ LinesTyped /\ made[c] \in Exchange /\ undo[c] \in Cancellation
  BY DEF CoreInv, Typed, WorkTyped
<1>1. qty' = qty /\ Only(c)
  BY <1>0 DEF InsertIn, Goes, Refused, lineVars, Only, WorkTyped
<1>2. \A d \in Exchanges : mark'[d] = "absent" <=> mark[d] = "absent"
  BY DEF InsertIn, Refused, lineVars
<1>3. /\ made'[c].status = made[c].status /\ made'[c].id = made[c].id
      /\ Claimed(c) => made'[c].plan = made[c].plan
      /\ made'[c].step \in Midway => made[c].step \in Midway
  BY <1>0 DEF InsertIn, Goes, Refused, At, Staged, CreateStage, StepAt, Midway, Claimed, WorkTyped, Exchange
<1>4. /\ Undoing(c)' <=> Undoing(c)
      /\ Undoing(c) => undo'[c] = undo[c]
  BY <1>0, <1>3 DEF InsertIn, Goes, Refused, At, Staged, CancelStage, Undoing, Standing, WorkTyped, Cancellation
<1>5. /\ pc'[c].cancel = "freeze" => pc[c].cancel = "freeze"
      /\ pc'[c].cancel \in Emptied => pc[c].cancel \in Emptied
      /\ pc'[c].cancel \in Restored => pc[c].cancel \in Restored
  BY <1>0 DEF InsertIn, Goes, Refused, At, Emptied, Restored, WorkTyped
<1> QED
  BY <1>1, <1>2, <1>3, <1>4, <1>5 DEF BalanceQuiet

\* The step of ApplyIn leaves the account of the units alone.
LEMMA ApplyInEven == ASSUME CoreInv, NEW c \in Exchanges, ApplyIn(c) PROVE BalanceQuiet(c)
<1>0. Staged(c) /\ WorkTyped /\ LinesTyped /\ made[c] \in Exchange /\ undo[c] \in Cancellation
  BY DEF CoreInv, Typed, WorkTyped
<1>1. qty' = qty /\ Only(c)
  BY <1>0 DEF ApplyIn, Goes, Refused, lineVars, Only, WorkTyped
<1>2. \A d \in Exchanges : mark'[d] = "absent" <=> mark[d] = "absent"
  BY DEF ApplyIn, Refused, lineVars
<1>3. /\ made'[c].status = made[c].status /\ made'[c].id = made[c].id
      /\ Claimed(c) => made'[c].plan = made[c].plan
      /\ made'[c].step \in Midway => made[c].step \in Midway
  BY <1>0 DEF ApplyIn, Goes, Refused, At, Staged, CreateStage, StepAt, Midway, Claimed, WorkTyped, Exchange
<1>4. /\ Undoing(c)' <=> Undoing(c)
      /\ Undoing(c) => undo'[c] = undo[c]
  BY <1>0, <1>3 DEF ApplyIn, Goes, Refused, At, Staged, CancelStage, Undoing, Standing, WorkTyped, Cancellation
<1>5. /\ pc'[c].cancel = "freeze" => pc[c].cancel = "freeze"
      /\ pc'[c].cancel \in Emptied => pc[c].cancel \in Emptied
      /\ pc'[c].cancel \in Restored => pc[c].cancel \in Restored
  BY <1>0 DEF ApplyIn, Goes, Refused, At, Emptied, Restored, WorkTyped
<1> QED
  BY <1>1, <1>2, <1>3, <1>4, <1>5 DEF BalanceQuiet

\* The step of NewRow leaves the account of the units alone.
LEMMA NewRowEven == ASSUME CoreInv, NEW c \in Exchanges, NewRow(c) PROVE BalanceQuiet(c)
<1>0. Staged(c) /\ WorkTyped /\ LinesTyped /\ made[c] \in Exchange /\ undo[c] \in Cancellation
  BY DEF CoreInv, Typed, WorkTyped
<1>1. qty' = qty /\ Only(c)
  BY <1>0 DEF NewRow, Goes, Refused, lineVars, Only, WorkTyped
<1>2. \A d \in Exchanges : mark'[d] = "absent" <=> mark[d] = "absent"
  BY DEF NewRow, Refused, lineVars
<1>3. /\ made'[c].status = made[c].status /\ made'[c].id = made[c].id
      /\ Claimed(c) => made'[c].plan = made[c].plan
      /\ made'[c].step \in Midway => made[c].step \in Midway
  BY <1>0 DEF NewRow, Goes, Refused, At, Staged, CreateStage, StepAt, Midway, Claimed, WorkTyped, Exchange
<1>4. /\ Undoing(c)' <=> Undoing(c)
      /\ Undoing(c) => undo'[c] = undo[c]
  BY <1>0, <1>3 DEF NewRow, Goes, Refused, At, Staged, CancelStage, Undoing, Standing, WorkTyped, Cancellation
<1>5. /\ pc'[c].cancel = "freeze" => pc[c].cancel = "freeze"
      /\ pc'[c].cancel \in Emptied => pc[c].cancel \in Emptied
      /\ pc'[c].cancel \in Restored => pc[c].cancel \in Restored
  BY <1>0 DEF NewRow, Goes, Refused, At, Emptied, Restored, WorkTyped
<1> QED
  BY <1>1, <1>2, <1>3, <1>4, <1>5 DEF BalanceQuiet

\* The step of InsertOut leaves the account of the units alone.
LEMMA InsertOutEven == ASSUME CoreInv, NEW c \in Exchanges, InsertOut(c) PROVE BalanceQuiet(c)
<1>0. Staged(c) /\ WorkTyped /\ LinesTyped /\ made[c] \in Exchange /\ undo[c] \in Cancellation
  BY DEF CoreInv, Typed, WorkTyped
<1>1. qty' = qty /\ Only(c)
  BY <1>0 DEF InsertOut, Goes, Refused, lineVars, Only, WorkTyped
<1>2. \A d \in Exchanges : mark'[d] = "absent" <=> mark[d] = "absent"
  BY DEF InsertOut, Refused, lineVars
<1>3. /\ made'[c].status = made[c].status /\ made'[c].id = made[c].id
      /\ Claimed(c) => made'[c].plan = made[c].plan
      /\ made'[c].step \in Midway => made[c].step \in Midway
  BY <1>0 DEF InsertOut, Goes, Refused, At, Staged, CreateStage, StepAt, Midway, Claimed, WorkTyped, Exchange
<1>4. /\ Undoing(c)' <=> Undoing(c)
      /\ Undoing(c) => undo'[c] = undo[c]
  BY <1>0, <1>3 DEF InsertOut, Goes, Refused, At, Staged, CancelStage, Undoing, Standing, WorkTyped, Cancellation
<1>5. /\ pc'[c].cancel = "freeze" => pc[c].cancel = "freeze"
      /\ pc'[c].cancel \in Emptied => pc[c].cancel \in Emptied
      /\ pc'[c].cancel \in Restored => pc[c].cancel \in Restored
  BY <1>0 DEF InsertOut, Goes, Refused, At, Emptied, Restored, WorkTyped
<1> QED
  BY <1>1, <1>2, <1>3, <1>4, <1>5 DEF BalanceQuiet

\* The step of LinkOut leaves the account of the units alone.
LEMMA LinkOutEven == ASSUME CoreInv, NEW c \in Exchanges, LinkOut(c) PROVE BalanceQuiet(c)
<1>0. Staged(c) /\ WorkTyped /\ LinesTyped /\ made[c] \in Exchange /\ undo[c] \in Cancellation
  BY DEF CoreInv, Typed, WorkTyped
<1>1. qty' = qty /\ Only(c)
  BY <1>0 DEF LinkOut, Goes, Refused, lineVars, Only, WorkTyped
<1>2. \A d \in Exchanges : mark'[d] = "absent" <=> mark[d] = "absent"
  BY DEF LinkOut, Refused, lineVars
<1>3. /\ made'[c].status = made[c].status /\ made'[c].id = made[c].id
      /\ Claimed(c) => made'[c].plan = made[c].plan
      /\ made'[c].step \in Midway => made[c].step \in Midway
  BY <1>0 DEF LinkOut, Goes, Refused, At, Staged, CreateStage, StepAt, Midway, Claimed, WorkTyped, Exchange
<1>4. /\ Undoing(c)' <=> Undoing(c)
      /\ Undoing(c) => undo'[c] = undo[c]
  BY <1>0, <1>3 DEF LinkOut, Goes, Refused, At, Staged, CancelStage, Undoing, Standing, WorkTyped, Cancellation
<1>5. /\ pc'[c].cancel = "freeze" => pc[c].cancel = "freeze"
      /\ pc'[c].cancel \in Emptied => pc[c].cancel \in Emptied
      /\ pc'[c].cancel \in Restored => pc[c].cancel \in Restored
  BY <1>0 DEF LinkOut, Goes, Refused, At, Emptied, Restored, WorkTyped
<1> QED
  BY <1>1, <1>2, <1>3, <1>4, <1>5 DEF BalanceQuiet

\* The step of BookMoney leaves the account of the units alone.
LEMMA BookMoneyEven == ASSUME CoreInv, NEW c \in Exchanges, BookMoney(c) PROVE BalanceQuiet(c)
<1>0. Staged(c) /\ WorkTyped /\ LinesTyped /\ made[c] \in Exchange /\ undo[c] \in Cancellation
  BY DEF CoreInv, Typed, WorkTyped
<1>1. qty' = qty /\ Only(c)
  BY <1>0 DEF BookMoney, Goes, Refused, lineVars, Only, WorkTyped
<1>2. \A d \in Exchanges : mark'[d] = "absent" <=> mark[d] = "absent"
  BY DEF BookMoney, Refused, lineVars
<1>3. /\ made'[c].status = made[c].status /\ made'[c].id = made[c].id
      /\ Claimed(c) => made'[c].plan = made[c].plan
      /\ made'[c].step \in Midway => made[c].step \in Midway
  BY <1>0 DEF BookMoney, Goes, Refused, At, Staged, CreateStage, StepAt, Midway, Claimed, WorkTyped, Exchange
<1>4. /\ Undoing(c)' <=> Undoing(c)
      /\ Undoing(c) => undo'[c] = undo[c]
  BY <1>0, <1>3 DEF BookMoney, Goes, Refused, At, Staged, CancelStage, Undoing, Standing, WorkTyped, Cancellation
<1>5. /\ pc'[c].cancel = "freeze" => pc[c].cancel = "freeze"
      /\ pc'[c].cancel \in Emptied => pc[c].cancel \in Emptied
      /\ pc'[c].cancel \in Restored => pc[c].cancel \in Restored
  BY <1>0 DEF BookMoney, Goes, Refused, At, Emptied, Restored, WorkTyped
<1> QED
  BY <1>1, <1>2, <1>3, <1>4, <1>5 DEF BalanceQuiet

\* The step of SetTotal leaves the account of the units alone.
LEMMA SetTotalEven == ASSUME CoreInv, NEW c \in Exchanges, SetTotal(c) PROVE BalanceQuiet(c)
<1>0. Staged(c) /\ WorkTyped /\ LinesTyped /\ made[c] \in Exchange /\ undo[c] \in Cancellation
  BY DEF CoreInv, Typed, WorkTyped
<1>1. qty' = qty /\ Only(c)
  BY <1>0 DEF SetTotal, Goes, Refused, lineVars, Only, WorkTyped
<1>2. \A d \in Exchanges : mark'[d] = "absent" <=> mark[d] = "absent"
  BY DEF SetTotal, Refused, lineVars
<1>3. /\ made'[c].status = made[c].status /\ made'[c].id = made[c].id
      /\ Claimed(c) => made'[c].plan = made[c].plan
      /\ made'[c].step \in Midway => made[c].step \in Midway
  BY <1>0 DEF SetTotal, Goes, Refused, At, Staged, CreateStage, StepAt, Midway, Claimed, WorkTyped, Exchange
<1>4. /\ Undoing(c)' <=> Undoing(c)
      /\ Undoing(c) => undo'[c] = undo[c]
  BY <1>0, <1>3 DEF SetTotal, Goes, Refused, At, Staged, CancelStage, Undoing, Standing, WorkTyped, Cancellation
<1>5. /\ pc'[c].cancel = "freeze" => pc[c].cancel = "freeze"
      /\ pc'[c].cancel \in Emptied => pc[c].cancel \in Emptied
      /\ pc'[c].cancel \in Restored => pc[c].cancel \in Restored
  BY <1>0 DEF SetTotal, Goes, Refused, At, Emptied, Restored, WorkTyped
<1> QED
  BY <1>1, <1>2, <1>3, <1>4, <1>5 DEF BalanceQuiet

\* The step of Complete leaves the account of the units alone.
LEMMA CompleteEven == ASSUME CoreInv, NEW c \in Exchanges, Complete(c) PROVE BalanceQuiet(c)
<1>0. Staged(c) /\ WorkTyped /\ LinesTyped /\ made[c] \in Exchange /\ undo[c] \in Cancellation
  BY DEF CoreInv, Typed, WorkTyped
<1>1. qty' = qty /\ Only(c)
  BY <1>0 DEF Complete, Goes, Refused, lineVars, Only, WorkTyped
<1>2. \A d \in Exchanges : mark'[d] = "absent" <=> mark[d] = "absent"
  BY DEF Complete, Refused, lineVars
<1>3. /\ made'[c].status = made[c].status /\ made'[c].id = made[c].id
      /\ Claimed(c) => made'[c].plan = made[c].plan
      /\ made'[c].step \in Midway => made[c].step \in Midway
  BY <1>0 DEF Complete, Goes, Refused, At, Staged, CreateStage, StepAt, Midway, Claimed, WorkTyped, Exchange
<1>4. /\ Undoing(c)' <=> Undoing(c)
      /\ Undoing(c) => undo'[c] = undo[c]
  BY <1>0, <1>3 DEF Complete, Goes, Refused, At, Staged, CancelStage, Undoing, Standing, WorkTyped, Cancellation
<1>5. /\ pc'[c].cancel = "freeze" => pc[c].cancel = "freeze"
      /\ pc'[c].cancel \in Emptied => pc[c].cancel \in Emptied
      /\ pc'[c].cancel \in Restored => pc[c].cancel \in Restored
  BY <1>0 DEF Complete, Goes, Refused, At, Emptied, Restored, WorkTyped
<1> QED
  BY <1>1, <1>2, <1>3, <1>4, <1>5 DEF BalanceQuiet

\* The step of CancelIn leaves the account of the units alone.
LEMMA CancelInEven == ASSUME CoreInv, NEW c \in Exchanges, CancelIn(c) PROVE BalanceQuiet(c)
<1>0. Staged(c) /\ WorkTyped /\ LinesTyped /\ made[c] \in Exchange /\ undo[c] \in Cancellation
  BY DEF CoreInv, Typed, WorkTyped
<1>1. qty' = qty /\ Only(c)
  BY <1>0 DEF CancelIn, Goes, Refused, lineVars, Only, WorkTyped
<1>2. \A d \in Exchanges : mark'[d] = "absent" <=> mark[d] = "absent"
  BY DEF CancelIn, Refused, lineVars
<1>3. /\ made'[c].status = made[c].status /\ made'[c].id = made[c].id
      /\ Claimed(c) => made'[c].plan = made[c].plan
      /\ made'[c].step \in Midway => made[c].step \in Midway
  BY <1>0 DEF CancelIn, Goes, Refused, At, Staged, CreateStage, StepAt, Midway, Claimed, WorkTyped, Exchange
<1>4. /\ Undoing(c)' <=> Undoing(c)
      /\ Undoing(c) => undo'[c] = undo[c]
  BY <1>0, <1>3 DEF CancelIn, Goes, Refused, At, Staged, CancelStage, Undoing, Standing, WorkTyped, Cancellation
<1>5. /\ pc'[c].cancel = "freeze" => pc[c].cancel = "freeze"
      /\ pc'[c].cancel \in Emptied => pc[c].cancel \in Emptied
      /\ pc'[c].cancel \in Restored => pc[c].cancel \in Restored
  BY <1>0 DEF CancelIn, Goes, Refused, At, Emptied, Restored, WorkTyped
<1> QED
  BY <1>1, <1>2, <1>3, <1>4, <1>5 DEF BalanceQuiet

\* The step of CancelOut leaves the account of the units alone.
LEMMA CancelOutEven == ASSUME CoreInv, NEW c \in Exchanges, CancelOut(c) PROVE BalanceQuiet(c)
<1>0. Staged(c) /\ WorkTyped /\ LinesTyped /\ made[c] \in Exchange /\ undo[c] \in Cancellation
  BY DEF CoreInv, Typed, WorkTyped
<1>1. qty' = qty /\ Only(c)
  BY <1>0 DEF CancelOut, Goes, Refused, lineVars, Only, WorkTyped
<1>2. \A d \in Exchanges : mark'[d] = "absent" <=> mark[d] = "absent"
  BY DEF CancelOut, Refused, lineVars
<1>3. /\ made'[c].status = made[c].status /\ made'[c].id = made[c].id
      /\ Claimed(c) => made'[c].plan = made[c].plan
      /\ made'[c].step \in Midway => made[c].step \in Midway
  BY <1>0 DEF CancelOut, Goes, Refused, At, Staged, CreateStage, StepAt, Midway, Claimed, WorkTyped, Exchange
<1>4. /\ Undoing(c)' <=> Undoing(c)
      /\ Undoing(c) => undo'[c] = undo[c]
  BY <1>0, <1>3 DEF CancelOut, Goes, Refused, At, Staged, CancelStage, Undoing, Standing, WorkTyped, Cancellation
<1>5. /\ pc'[c].cancel = "freeze" => pc[c].cancel = "freeze"
      /\ pc'[c].cancel \in Emptied => pc[c].cancel \in Emptied
      /\ pc'[c].cancel \in Restored => pc[c].cancel \in Restored
  BY <1>0 DEF CancelOut, Goes, Refused, At, Emptied, Restored, WorkTyped
<1> QED
  BY <1>1, <1>2, <1>3, <1>4, <1>5 DEF BalanceQuiet

\* The step of MoneyBack leaves the account of the units alone.
LEMMA MoneyBackEven == ASSUME CoreInv, NEW c \in Exchanges, MoneyBack(c) PROVE BalanceQuiet(c)
<1>0. Staged(c) /\ WorkTyped /\ LinesTyped /\ made[c] \in Exchange /\ undo[c] \in Cancellation
  BY DEF CoreInv, Typed, WorkTyped
<1>1. qty' = qty /\ Only(c)
  BY <1>0 DEF MoneyBack, Goes, Refused, lineVars, Only, WorkTyped
<1>2. \A d \in Exchanges : mark'[d] = "absent" <=> mark[d] = "absent"
  BY DEF MoneyBack, Refused, lineVars
<1>3. /\ made'[c].status = made[c].status /\ made'[c].id = made[c].id
      /\ Claimed(c) => made'[c].plan = made[c].plan
      /\ made'[c].step \in Midway => made[c].step \in Midway
  BY <1>0 DEF MoneyBack, Goes, Refused, At, Staged, CreateStage, StepAt, Midway, Claimed, WorkTyped, Exchange
<1>4. /\ Undoing(c)' <=> Undoing(c)
      /\ Undoing(c) => undo'[c] = undo[c]
  BY <1>0, <1>3 DEF MoneyBack, Goes, Refused, At, Staged, CancelStage, Undoing, Standing, WorkTyped, Cancellation
<1>5. /\ pc'[c].cancel = "freeze" => pc[c].cancel = "freeze"
      /\ pc'[c].cancel \in Emptied => pc[c].cancel \in Emptied
      /\ pc'[c].cancel \in Restored => pc[c].cancel \in Restored
  BY <1>0 DEF MoneyBack, Goes, Refused, At, Emptied, Restored, WorkTyped
<1> QED
  BY <1>1, <1>2, <1>3, <1>4, <1>5 DEF BalanceQuiet

\* The step of CompleteCancel leaves the account of the units alone.
LEMMA CompleteCancelEven == ASSUME CoreInv, NEW c \in Exchanges, CompleteCancel(c) PROVE BalanceQuiet(c)
<1>0. Staged(c) /\ WorkTyped /\ LinesTyped /\ made[c] \in Exchange /\ undo[c] \in Cancellation
  BY DEF CoreInv, Typed, WorkTyped
<1>1. qty' = qty /\ Only(c)
  BY <1>0 DEF CompleteCancel, Goes, Refused, lineVars, Only, WorkTyped
<1>2. \A d \in Exchanges : mark'[d] = "absent" <=> mark[d] = "absent"
  BY DEF CompleteCancel, Refused, lineVars
<1>3. /\ made'[c].status = made[c].status /\ made'[c].id = made[c].id
      /\ Claimed(c) => made'[c].plan = made[c].plan
      /\ made'[c].step \in Midway => made[c].step \in Midway
  BY <1>0 DEF CompleteCancel, Goes, Refused, At, Staged, CreateStage, StepAt, Midway, Claimed, WorkTyped, Exchange
<1>4. /\ Undoing(c)' <=> Undoing(c)
      /\ Undoing(c) => undo'[c] = undo[c]
  BY <1>0, <1>3 DEF CompleteCancel, Goes, Refused, At, Staged, CancelStage, Undoing, Standing, WorkTyped, Cancellation
<1>5. /\ pc'[c].cancel = "freeze" => pc[c].cancel = "freeze"
      /\ pc'[c].cancel \in Emptied => pc[c].cancel \in Emptied
      /\ pc'[c].cancel \in Restored => pc[c].cancel \in Restored
  BY <1>0 DEF CompleteCancel, Goes, Refused, At, Emptied, Restored, WorkTyped
<1> QED
  BY <1>1, <1>2, <1>3, <1>4, <1>5 DEF BalanceQuiet

\* The step that ends the old line leaves the account of the units alone.
LEMMA AdvanceOldEven == ASSUME CoreInv, NEW c \in Exchanges, Advance(c, "oldDone", "old_done", "content") PROVE BalanceQuiet(c)
<1>0. Staged(c) /\ WorkTyped /\ LinesTyped /\ made[c] \in Exchange /\ undo[c] \in Cancellation
  BY DEF CoreInv, Typed, WorkTyped
<1>1. qty' = qty /\ Only(c)
  BY <1>0 DEF Advance, Goes, Refused, lineVars, Only, WorkTyped
<1>2. \A d \in Exchanges : mark'[d] = "absent" <=> mark[d] = "absent"
  BY DEF Advance, Refused, lineVars
<1>3. /\ made'[c].status = made[c].status /\ made'[c].id = made[c].id
      /\ Claimed(c) => made'[c].plan = made[c].plan
      /\ made'[c].step \in Midway => made[c].step \in Midway
  BY <1>0 DEF Advance, Goes, Refused, At, Staged, CreateStage, StepAt, Midway, Claimed, WorkTyped, Exchange
<1>4. /\ Undoing(c)' <=> Undoing(c)
      /\ Undoing(c) => undo'[c] = undo[c]
  BY <1>0, <1>3 DEF Advance, Goes, Refused, At, Staged, CancelStage, Undoing, Standing, WorkTyped, Cancellation
<1>5. /\ pc'[c].cancel = "freeze" => pc[c].cancel = "freeze"
      /\ pc'[c].cancel \in Emptied => pc[c].cancel \in Emptied
      /\ pc'[c].cancel \in Restored => pc[c].cancel \in Restored
  BY <1>0 DEF Advance, Goes, Refused, At, Emptied, Restored, WorkTyped
<1> QED
  BY <1>1, <1>2, <1>3, <1>4, <1>5 DEF BalanceQuiet

\* The step that ends the insertion of the content leaves the account of the units alone.
LEMMA AdvanceContentEven == ASSUME CoreInv, NEW c \in Exchanges, Advance(c, "contentDone", "content_inserted", "newRow") PROVE BalanceQuiet(c)
<1>0. Staged(c) /\ WorkTyped /\ LinesTyped /\ made[c] \in Exchange /\ undo[c] \in Cancellation
  BY DEF CoreInv, Typed, WorkTyped
<1>1. qty' = qty /\ Only(c)
  BY <1>0 DEF Advance, Goes, Refused, lineVars, Only, WorkTyped
<1>2. \A d \in Exchanges : mark'[d] = "absent" <=> mark[d] = "absent"
  BY DEF Advance, Refused, lineVars
<1>3. /\ made'[c].status = made[c].status /\ made'[c].id = made[c].id
      /\ Claimed(c) => made'[c].plan = made[c].plan
      /\ made'[c].step \in Midway => made[c].step \in Midway
  BY <1>0 DEF Advance, Goes, Refused, At, Staged, CreateStage, StepAt, Midway, Claimed, WorkTyped, Exchange
<1>4. /\ Undoing(c)' <=> Undoing(c)
      /\ Undoing(c) => undo'[c] = undo[c]
  BY <1>0, <1>3 DEF Advance, Goes, Refused, At, Staged, CancelStage, Undoing, Standing, WorkTyped, Cancellation
<1>5. /\ pc'[c].cancel = "freeze" => pc[c].cancel = "freeze"
      /\ pc'[c].cancel \in Emptied => pc[c].cancel \in Emptied
      /\ pc'[c].cancel \in Restored => pc[c].cancel \in Restored
  BY <1>0 DEF Advance, Goes, Refused, At, Emptied, Restored, WorkTyped
<1> QED
  BY <1>1, <1>2, <1>3, <1>4, <1>5 DEF BalanceQuiet

\* The step that ends the new line leaves the account of the units alone.
LEMMA AdvanceNewEven == ASSUME CoreInv, NEW c \in Exchanges, Advance(c, "newDone", "new_done", "money") PROVE BalanceQuiet(c)
<1>0. Staged(c) /\ WorkTyped /\ LinesTyped /\ made[c] \in Exchange /\ undo[c] \in Cancellation
  BY DEF CoreInv, Typed, WorkTyped
<1>1. qty' = qty /\ Only(c)
  BY <1>0 DEF Advance, Goes, Refused, lineVars, Only, WorkTyped
<1>2. \A d \in Exchanges : mark'[d] = "absent" <=> mark[d] = "absent"
  BY DEF Advance, Refused, lineVars
<1>3. /\ made'[c].status = made[c].status /\ made'[c].id = made[c].id
      /\ Claimed(c) => made'[c].plan = made[c].plan
      /\ made'[c].step \in Midway => made[c].step \in Midway
  BY <1>0 DEF Advance, Goes, Refused, At, Staged, CreateStage, StepAt, Midway, Claimed, WorkTyped, Exchange
<1>4. /\ Undoing(c)' <=> Undoing(c)
      /\ Undoing(c) => undo'[c] = undo[c]
  BY <1>0, <1>3 DEF Advance, Goes, Refused, At, Staged, CancelStage, Undoing, Standing, WorkTyped, Cancellation
<1>5. /\ pc'[c].cancel = "freeze" => pc[c].cancel = "freeze"
      /\ pc'[c].cancel \in Emptied => pc[c].cancel \in Emptied
      /\ pc'[c].cancel \in Restored => pc[c].cancel \in Restored
  BY <1>0 DEF Advance, Goes, Refused, At, Emptied, Restored, WorkTyped
<1> QED
  BY <1>1, <1>2, <1>3, <1>4, <1>5 DEF BalanceQuiet

\* The step that ends the money leaves the account of the units alone.
LEMMA AdvanceMoneyEven == ASSUME CoreInv, NEW c \in Exchanges, Advance(c, "moneyDone", "finances_done", "complete") PROVE BalanceQuiet(c)
<1>0. Staged(c) /\ WorkTyped /\ LinesTyped /\ made[c] \in Exchange /\ undo[c] \in Cancellation
  BY DEF CoreInv, Typed, WorkTyped
<1>1. qty' = qty /\ Only(c)
  BY <1>0 DEF Advance, Goes, Refused, lineVars, Only, WorkTyped
<1>2. \A d \in Exchanges : mark'[d] = "absent" <=> mark[d] = "absent"
  BY DEF Advance, Refused, lineVars
<1>3. /\ made'[c].status = made[c].status /\ made'[c].id = made[c].id
      /\ Claimed(c) => made'[c].plan = made[c].plan
      /\ made'[c].step \in Midway => made[c].step \in Midway
  BY <1>0 DEF Advance, Goes, Refused, At, Staged, CreateStage, StepAt, Midway, Claimed, WorkTyped, Exchange
<1>4. /\ Undoing(c)' <=> Undoing(c)
      /\ Undoing(c) => undo'[c] = undo[c]
  BY <1>0, <1>3 DEF Advance, Goes, Refused, At, Staged, CancelStage, Undoing, Standing, WorkTyped, Cancellation
<1>5. /\ pc'[c].cancel = "freeze" => pc[c].cancel = "freeze"
      /\ pc'[c].cancel \in Emptied => pc[c].cancel \in Emptied
      /\ pc'[c].cancel \in Restored => pc[c].cancel \in Restored
  BY <1>0 DEF Advance, Goes, Refused, At, Emptied, Restored, WorkTyped
<1> QED
  BY <1>1, <1>2, <1>3, <1>4, <1>5 DEF BalanceQuiet

\* A call that dies leaves the account of the units alone.
LEMMA CrashEven == ASSUME CoreInv, NEW c \in Exchanges, NEW op \in {"create", "cancel"}, Crash(c, op) PROVE BalanceQuiet(c)
<1>0. Staged(c) /\ WorkTyped /\ LinesTyped /\ made[c] \in Exchange /\ undo[c] \in Cancellation
  BY DEF CoreInv, Typed, WorkTyped
<1>1. qty' = qty /\ Only(c)
  BY <1>0 DEF Crash, Goes, Refused, lineVars, Only, WorkTyped
<1>2. \A d \in Exchanges : mark'[d] = "absent" <=> mark[d] = "absent"
  BY DEF Crash, Refused, lineVars
<1>3. /\ made'[c].status = made[c].status /\ made'[c].id = made[c].id
      /\ Claimed(c) => made'[c].plan = made[c].plan
      /\ made'[c].step \in Midway => made[c].step \in Midway
  BY <1>0 DEF Crash, Goes, Refused, At, Staged, CreateStage, StepAt, Midway, Claimed, WorkTyped, Exchange
<1>4. /\ Undoing(c)' <=> Undoing(c)
      /\ Undoing(c) => undo'[c] = undo[c]
  BY <1>0, <1>3 DEF Crash, Goes, Refused, At, Staged, CancelStage, Undoing, Standing, WorkTyped, Cancellation
<1>5. /\ pc'[c].cancel = "freeze" => pc[c].cancel = "freeze"
      /\ pc'[c].cancel \in Emptied => pc[c].cancel \in Emptied
      /\ pc'[c].cancel \in Restored => pc[c].cancel \in Restored
  BY <1>0 DEF Crash, Goes, Refused, At, Emptied, Restored, WorkTyped
<1> QED
  BY <1>1, <1>2, <1>3, <1>4, <1>5 DEF BalanceQuiet

\* A request that is refused leaves the account of the units alone.
LEMMA RefusedEven == ASSUME CoreInv, NEW c \in Exchanges, NEW op \in {"create", "cancel"}, Refused(c, op) PROVE BalanceQuiet(c)
<1>0. Staged(c) /\ WorkTyped /\ LinesTyped /\ made[c] \in Exchange /\ undo[c] \in Cancellation
  BY DEF CoreInv, Typed, WorkTyped
<1>1. qty' = qty /\ Only(c)
  BY <1>0 DEF Refused, Goes, lineVars, Only, WorkTyped
<1>2. \A d \in Exchanges : mark'[d] = "absent" <=> mark[d] = "absent"
  BY DEF Refused, lineVars
<1>3. /\ made'[c].status = made[c].status /\ made'[c].id = made[c].id
      /\ Claimed(c) => made'[c].plan = made[c].plan
      /\ made'[c].step \in Midway => made[c].step \in Midway
  BY <1>0 DEF Refused, Goes, At, Staged, CreateStage, StepAt, Midway, Claimed, WorkTyped, Exchange
<1>4. /\ Undoing(c)' <=> Undoing(c)
      /\ Undoing(c) => undo'[c] = undo[c]
  BY <1>0, <1>3 DEF Refused, Goes, At, Staged, CancelStage, Undoing, Standing, WorkTyped, Cancellation
<1>5. /\ pc'[c].cancel = "freeze" => pc[c].cancel = "freeze"
      /\ pc'[c].cancel \in Emptied => pc[c].cancel \in Emptied
      /\ pc'[c].cancel \in Restored => pc[c].cancel \in Restored
  BY <1>0 DEF Refused, Goes, At, Emptied, Restored, WorkTyped
<1> QED
  BY <1>1, <1>2, <1>3, <1>4, <1>5 DEF BalanceQuiet

\* The step of Promise leaves the account of the units alone.
LEMMA PromiseEven == ASSUME CoreInv, NEW c \in Exchanges, Promise(c) PROVE BalanceQuiet(c)
<1>0. Staged(c) /\ WorkTyped /\ LinesTyped /\ made[c] \in Exchange /\ undo[c] \in Cancellation
  BY DEF CoreInv, Typed, WorkTyped
<1>1. qty' = qty /\ Only(c)
  BY <1>0 DEF Promise, Goes, Refused, lineVars, Only, WorkTyped
<1>2. \A d \in Exchanges : mark'[d] = "absent" <=> mark[d] = "absent"
  <2>1. made[c].step # "none" /\ made[c].plan.line \in Lines
    BY <1>0, AtWork, PlansOf DEF Promise, At, Plans
  <2>2. /\ \A k \in Lines \ {c, made[c].plan.line} : mark'[k] = mark[k]
        /\ mark'[c] = mark[c] \/ (mark'[c] # "absent" /\ mark[c] # "absent")
        /\ LET l == made[c].plan.line IN mark'[l] = mark[l] \/ mark'[l] # "absent"
    BY <1>0, <2>1 DEF Promise, At, LinesTyped, Refused, Releases, lineVars, Staged, NewLineOK, CreateStage, CancelStage, StepAt, Undoing, PlanOK
  <2> QED
    BY <1>0, <2>1, <2>2 DEF Lines, Staged, LineThere
<1>3. /\ made'[c].status = made[c].status /\ made'[c].id = made[c].id
      /\ Claimed(c) => made'[c].plan = made[c].plan
      /\ made'[c].step \in Midway => made[c].step \in Midway
  BY <1>0 DEF Promise, Goes, Refused, At, Staged, CreateStage, StepAt, Midway, Claimed, WorkTyped, Exchange
<1>4. /\ Undoing(c)' <=> Undoing(c)
      /\ Undoing(c) => undo'[c] = undo[c]
  BY <1>0, <1>3 DEF Promise, Goes, Refused, At, Staged, CancelStage, Undoing, Standing, WorkTyped, Cancellation
<1>5. /\ pc'[c].cancel = "freeze" => pc[c].cancel = "freeze"
      /\ pc'[c].cancel \in Emptied => pc[c].cancel \in Emptied
      /\ pc'[c].cancel \in Restored => pc[c].cancel \in Restored
  BY <1>0 DEF Promise, Goes, Refused, At, Emptied, Restored, WorkTyped
<1> QED
  BY <1>1, <1>2, <1>3, <1>4, <1>5 DEF BalanceQuiet

\* The step of ApplyOut leaves the account of the units alone.
LEMMA ApplyOutEven == ASSUME CoreInv, NEW c \in Exchanges, ApplyOut(c) PROVE BalanceQuiet(c)
<1>0. Staged(c) /\ WorkTyped /\ LinesTyped /\ made[c] \in Exchange /\ undo[c] \in Cancellation
  BY DEF CoreInv, Typed, WorkTyped
<1>1. qty' = qty /\ Only(c)
  BY <1>0 DEF ApplyOut, Goes, Refused, lineVars, Only, WorkTyped
<1>2. \A d \in Exchanges : mark'[d] = "absent" <=> mark[d] = "absent"
  <2>1. made[c].step # "none" /\ made[c].plan.line \in Lines
    BY <1>0, AtWork, PlansOf DEF ApplyOut, At, Plans
  <2>2. /\ \A k \in Lines \ {c, made[c].plan.line} : mark'[k] = mark[k]
        /\ mark'[c] = mark[c] \/ (mark'[c] # "absent" /\ mark[c] # "absent")
        /\ LET l == made[c].plan.line IN mark'[l] = mark[l] \/ mark'[l] # "absent"
    BY <1>0, <2>1 DEF ApplyOut, At, LinesTyped, Refused, Releases, lineVars, Staged, NewLineOK, CreateStage, CancelStage, StepAt, Undoing, PlanOK
  <2> QED
    BY <1>0, <2>1, <2>2 DEF Lines, Staged, LineThere
<1>3. /\ made'[c].status = made[c].status /\ made'[c].id = made[c].id
      /\ Claimed(c) => made'[c].plan = made[c].plan
      /\ made'[c].step \in Midway => made[c].step \in Midway
  BY <1>0 DEF ApplyOut, Goes, Refused, At, Staged, CreateStage, StepAt, Midway, Claimed, WorkTyped, Exchange
<1>4. /\ Undoing(c)' <=> Undoing(c)
      /\ Undoing(c) => undo'[c] = undo[c]
  BY <1>0, <1>3 DEF ApplyOut, Goes, Refused, At, Staged, CancelStage, Undoing, Standing, WorkTyped, Cancellation
<1>5. /\ pc'[c].cancel = "freeze" => pc[c].cancel = "freeze"
      /\ pc'[c].cancel \in Emptied => pc[c].cancel \in Emptied
      /\ pc'[c].cancel \in Restored => pc[c].cancel \in Restored
  BY <1>0 DEF ApplyOut, Goes, Refused, At, Emptied, Restored, WorkTyped
<1> QED
  BY <1>1, <1>2, <1>3, <1>4, <1>5 DEF BalanceQuiet

\* The step of Reserve leaves the account of the units alone.
LEMMA ReserveEven == ASSUME CoreInv, NEW c \in Exchanges, Reserve(c) PROVE BalanceQuiet(c)
<1>0. Staged(c) /\ WorkTyped /\ LinesTyped /\ made[c] \in Exchange /\ undo[c] \in Cancellation
  BY DEF CoreInv, Typed, WorkTyped
<1>1. qty' = qty /\ Only(c)
  BY <1>0 DEF Reserve, Goes, Refused, Releases, lineVars, Only, WorkTyped
<1>2. \A d \in Exchanges : mark'[d] = "absent" <=> mark[d] = "absent"
  <2>1. made[c].step # "none" /\ made[c].plan.line \in Lines
    BY <1>0, AtWork, PlansOf DEF Reserve, At, Plans
  <2>2. mark' = mark \/ \E st \in Marks \ {"absent"} : mark' = [mark EXCEPT ![made[c].plan.line] = st]
    BY DEF Reserve, Refused, Releases, lineVars, Marks
  <2> QED
    BY <1>0, <2>1, <2>2 DEF Lines, Staged, LineThere, LinesTyped
<1>3. /\ made'[c].status = made[c].status /\ made'[c].id = made[c].id
      /\ Claimed(c) => made'[c].plan = made[c].plan
      /\ made'[c].step \in Midway => made[c].step \in Midway
  BY <1>0 DEF Reserve, Goes, Refused, At, Staged, CreateStage, StepAt, Midway, Claimed, WorkTyped, Exchange
<1>4. /\ Undoing(c)' <=> Undoing(c)
      /\ Undoing(c) => undo'[c] = undo[c]
  BY <1>0, <1>3 DEF Reserve, Goes, Refused, At, Staged, CancelStage, Undoing, Standing, WorkTyped, Cancellation
<1>5. /\ pc'[c].cancel = "freeze" => pc[c].cancel = "freeze"
      /\ pc'[c].cancel \in Emptied => pc[c].cancel \in Emptied
      /\ pc'[c].cancel \in Restored => pc[c].cancel \in Restored
  BY <1>0 DEF Reserve, Goes, Refused, At, Emptied, Restored, WorkTyped
<1> QED
  BY <1>1, <1>2, <1>3, <1>4, <1>5 DEF BalanceQuiet

\* The step of RestoreResv leaves the account of the units alone.
LEMMA RestoreResvEven == ASSUME CoreInv, NEW c \in Exchanges, RestoreResv(c) PROVE BalanceQuiet(c)
<1>0. Staged(c) /\ WorkTyped /\ LinesTyped /\ made[c] \in Exchange /\ undo[c] \in Cancellation
  BY DEF CoreInv, Typed, WorkTyped
<1>1. qty' = qty /\ Only(c)
  BY <1>0 DEF RestoreResv, Goes, Refused, lineVars, Only, WorkTyped
<1>2. \A d \in Exchanges : mark'[d] = "absent" <=> mark[d] = "absent"
  <2>1. made[c].step # "none" /\ made[c].plan.line \in Lines
    BY <1>0, AtWork, PlansOf DEF RestoreResv, At, Plans
  <2>2. mark' = mark \/ \E st \in Marks \ {"absent"} : mark' = [mark EXCEPT ![made[c].plan.line] = st]
    BY DEF RestoreResv, Refused, Releases, lineVars, Marks
  <2> QED
    BY <1>0, <2>1, <2>2 DEF Lines, Staged, LineThere, LinesTyped
<1>3. /\ made'[c].status = made[c].status /\ made'[c].id = made[c].id
      /\ Claimed(c) => made'[c].plan = made[c].plan
      /\ made'[c].step \in Midway => made[c].step \in Midway
  BY <1>0 DEF RestoreResv, Goes, Refused, At, Staged, CreateStage, StepAt, Midway, Claimed, WorkTyped, Exchange
<1>4. /\ Undoing(c)' <=> Undoing(c)
      /\ Undoing(c) => undo'[c] = undo[c]
  BY <1>0, <1>3 DEF RestoreResv, Goes, Refused, At, Staged, CancelStage, Undoing, Standing, WorkTyped, Cancellation
<1>5. /\ pc'[c].cancel = "freeze" => pc[c].cancel = "freeze"
      /\ pc'[c].cancel \in Emptied => pc[c].cancel \in Emptied
      /\ pc'[c].cancel \in Restored => pc[c].cancel \in Restored
  BY <1>0 DEF RestoreResv, Goes, Refused, At, Emptied, Restored, WorkTyped
<1> QED
  BY <1>1, <1>2, <1>3, <1>4, <1>5 DEF BalanceQuiet

\* The step of ReleaseNew leaves the account of the units alone.
LEMMA ReleaseNewEven == ASSUME CoreInv, NEW c \in Exchanges, ExchangesApart, ReleaseNew(c) PROVE BalanceQuiet(c)
<1>0. Staged(c) /\ WorkTyped /\ LinesTyped /\ made[c] \in Exchange /\ undo[c] \in Cancellation
  BY DEF CoreInv, Typed, WorkTyped
<1>1. qty' = qty /\ Only(c)
  BY <1>0 DEF ReleaseNew, Goes, Refused, lineVars, Only, WorkTyped
<1>2. \A d \in Exchanges : mark'[d] = "absent" <=> mark[d] = "absent"
  <2>1. made[c].step = "completed"
    BY <1>0 DEF ReleaseNew, At, Staged, CreateStage, CancelStage, ReadyStage, Ready, Undoing, Standing, Midway
  <2>2. mark' = mark \/ \E st \in Marks \ {"absent"} : mark' = [mark EXCEPT ![c] = st]
    BY DEF ReleaseNew, Refused, Releases, lineVars, Marks
  <2> QED
    BY <1>0, <2>1, <2>2 DEF Lines, Staged, NewLineOK, LinesTyped
<1>3. /\ made'[c].status = made[c].status /\ made'[c].id = made[c].id
      /\ Claimed(c) => made'[c].plan = made[c].plan
      /\ made'[c].step \in Midway => made[c].step \in Midway
  BY <1>0 DEF ReleaseNew, Goes, Refused, At, Staged, CreateStage, StepAt, Midway, Claimed, WorkTyped, Exchange
<1>4. /\ Undoing(c)' <=> Undoing(c)
      /\ Undoing(c) => undo'[c] = undo[c]
  BY <1>0, <1>3 DEF ReleaseNew, Goes, Refused, At, Staged, CancelStage, Undoing, Standing, WorkTyped, Cancellation
<1>5. /\ pc'[c].cancel = "freeze" => pc[c].cancel = "freeze"
      /\ pc'[c].cancel \in Emptied => pc[c].cancel \in Emptied
      /\ pc'[c].cancel \in Restored => pc[c].cancel \in Restored
  BY <1>0 DEF ReleaseNew, Goes, Refused, At, Emptied, Restored, WorkTyped
<1> QED
  BY <1>1, <1>2, <1>3, <1>4, <1>5 DEF BalanceQuiet

\* The step of SetQty leaves the account of the units alone.
LEMMA SetQtyEven == ASSUME CoreInv, ClaimHeld, NEW c \in Exchanges, SetQty(c) PROVE BalanceQuiet(c)
<1>0. Staged(c) /\ WorkTyped /\ LinesTyped /\ made[c] \in Exchange /\ made[c].step = "exchange_created"
  BY DEF CoreInv, Typed, WorkTyped, Staged, CreateStage, StepAt, SetQty, At
<1>1. qty[made[c].plan.line] = made[c].plan.target
  BY <1>0 DEF ClaimHeld, Midway
<1>2. UNCHANGED <<qty, mark, made, undo>> /\ \E place : pc' = [pc EXCEPT ![c].create = place]
  BY <1>0, <1>1 DEF SetQty, Goes, Refused, LinesTyped, lineVars
<1>3. Only(c) /\ pc'[c].cancel = pc[c].cancel
  BY <1>0, <1>2 DEF Only, WorkTyped
<1> QED
  BY <1>2, <1>3 DEF BalanceQuiet, Undoing, Standing

\* The step of Plan leaves the account of the units alone.
LEMMA PlanEven == ASSUME CoreInv, NEW c \in Exchanges, Plan(c) PROVE BalanceQuiet(c)
<1>0. WorkTyped /\ Staged(c) /\ made[c].step = "none"
  BY DEF CoreInv, Typed, Plan
<1>1. PICK p : Validated(c, p)
  BY PlanMakes
<1>2. UNCHANGED <<qty, mark, undo>> /\ pc' = [pc EXCEPT ![c].create = "claim"]
  BY DEF Plan, Goes, lineVars
<1>3. Only(c) /\ pc'[c].cancel = pc[c].cancel
  BY <1>0, <1>1, <1>2 DEF Validated, Only, WorkTyped
<1>4. made'[c].step = "validated" /\ made'[c].status = made[c].status /\ made'[c].id = made[c].id
  BY <1>0, <1>1 DEF Validated, WorkTyped, Exchange
<1>5. ~Claimed(c)
  BY <1>0 DEF Staged, CreateStage, Claimed
<1> QED
  BY <1>2, <1>3, <1>4, <1>5 DEF BalanceQuiet, Undoing, Standing, Midway

\* While one handler has work, no other exchange is being cancelled.
LEMMA OneUndone ==
  ASSUME UnitInv, NEW c \in Exchanges, NEW op \in {"create", "cancel"}, Under(c, op),
         NEW d \in Exchanges, Undoing(d) \/ pc[d].cancel # "idle"
  PROVE  d = c /\ op = "cancel"
<1>1. Under(d, "cancel")
  BY DEF Under, Undoing
<1> QED
  BY <1>1 DEF UnitInv, Exclusive

\* A step that leaves the rows of the exchanges alone leaves their accounts.
LEMMA MadeKept ==
  ASSUME made' = made
  PROVE  /\ Numbered' = Numbered /\ NothingRests' = NothingRests
         /\ \A d \in Exchanges : /\ Standing(d)' = Standing(d) /\ Claimed(d)' = Claimed(d)
                                 /\ Later(d)' = Later(d) /\ Latest(d)' = Latest(d)
         /\ \A d \in Exchanges, l \in Lines : Rests(d, l)' = Rests(d, l)
         /\ \A l \in Lines : Back(l)' = Back(l)
BY DEF Numbered, NothingRests, Standing, Claimed, Later, Latest, Rests, Back, Share, ShareAfter

\* Nothing was given back of a line no exchange rests on.
LEMMA NoBack ==
  ASSUME NEW l \in Lines, \A d \in Exchanges : ~Rests(d, l)
  PROVE  Back(l) = 0
<1>1. \A d \in Exchanges : [e \in Exchanges |-> Share(e, l)][d] = 0
  BY DEF Share
<1> QED
  BY <1>1, LinesFinite, SumZero DEF Back, Sum

\* A finished or midway exchange of a careful shop that is not cancelled stands.
LEMMA MidwayStands ==
  ASSUME CoreInv, ExchangesApart, NEW c \in Exchanges, made[c].step \in Midway
  PROVE  Standing(c)
BY DEF CoreInv, Typed, WorkTyped, Exchange, Staged, CreateStage, CancelStage, ReadyStage, Ready, Midway, Standing

\* The step of InsertContent keeps the account of the units.
LEMMA InsertContentBalance ==
  ASSUME UnitInv, BalanceInv, ExchangesApart, NEW c \in Exchanges, InsertContent(c)
  PROVE  BalanceInv'
<1>0. /\ CoreInv /\ WorkTyped /\ LinesTyped /\ Staged(c) /\ made[c].step = "old_done" /\ c \in Lines /\ c \notin First
  BY ExchangeAssumption DEF UnitInv, CoreInv, Typed, Staged, CreateStage, StepAt, InsertContent, At, Lines
<1>1. UNCHANGED <<made, undo>> /\ pc' = [pc EXCEPT ![c].create = "promise"]
  BY DEF InsertContent, Goes
<1>2. Only(c) /\ pc'[c].cancel = pc[c].cancel
  BY <1>0, <1>1 DEF Only, WorkTyped
<1>3. CASE mark[c] # "absent"
  <2>1. BalanceQuiet(c)
    BY <1>1, <1>2, <1>3 DEF InsertContent, BalanceQuiet, Undoing, Standing
  <2> QED
    BY <1>0, <2>1, QuietBalance
<1>4. CASE mark[c] = "absent"
  <2>1. qty' = [qty EXCEPT ![c] = made[c].plan.give] /\ mark' = [mark EXCEPT ![c] = "new"]
    BY <1>4 DEF InsertContent
  <2>2. Under(c, "create")
    BY <1>0 DEF Under
  <2>3. \A d \in Exchanges : ~Undoing(d) /\ pc[d].cancel = "idle"
    BY <2>2, OneUndone
  <2>4. \A d \in Exchanges : ~Undoing(d)' /\ pc'[d].cancel = "idle"
    BY <1>1, <1>2, <2>3 DEF Only, Undoing, Standing
  <2>5. \A d \in Exchanges : ~Rests(d, c)
    BY <1>0 DEF BalanceInv, NothingRests, Midway
  <2>6. Standing(c)
    BY <1>0, MidwayStands DEF Midway
  <2>7. Back(c) = 0
    BY <1>0, <2>5, NoBack
  <2>8. Held(c)' = made[c].plan.give /\ qty'[c] = made[c].plan.give /\ made[c].plan.give \in Nat
    <3>1. made[c].plan.give \in Nat
      BY <1>0, <2>6, StandingPlan, StandingClaimed
    <3> QED
      BY <1>0, <1>1, <2>1, <2>6, <3>1 DEF Held, Standing, LinesTyped
  <2>9. ASSUME NEW l \in Lines \ {c} PROVE Held(l)' = Held(l) /\ qty'[l] = qty[l]
    BY <1>0, <1>1, <2>1 DEF Held, Standing, LinesTyped
  <2>10. LinesBalance'
    <3> SUFFICES ASSUME NEW l \in Lines PROVE Balanced(l, qty[l])'
      BY DEF LinesBalance
    <3>1. l # c => Balanced(l, qty[l])
      BY <2>3 DEF BalanceInv, LinesBalance, Calm
    <3> QED
      BY <1>0, <1>1, <2>5, <2>7, <2>8, <2>9, <3>1, MadeKept DEF Balanced
  <2> QED
    BY <1>1, <2>4, <2>10, MadeKept DEF BalanceInv, LatestUndone, UndoneUnits
<1> QED
  BY <1>3, <1>4

\* The step of BeginCancel keeps the account of the units.
LEMMA BeginCancelBalance ==
  ASSUME UnitInv, BalanceInv, ExchangesApart, LatestFirst, NEW c \in Exchanges, BeginCancel(c)
  PROVE  BalanceInv'
<1>0. CoreInv /\ WorkTyped /\ Staged(c) /\ undo[c] \in Cancellation /\ c \in Lines
  BY DEF UnitInv, CoreInv, Typed, WorkTyped, Lines
<1>1. UNCHANGED <<qty, mark, made, undo>>
  BY DEF BeginCancel, lineVars
<1>2. Only(c)
  BY <1>0, <1>1 DEF BeginCancel, Goes, Only, WorkTyped
<1>3. pc'[c].cancel \in {"complete", "freeze", "in"} /\ (pc'[c].cancel = "freeze" => Standing(c) /\ undo[c].step = "none")
  BY <1>0 DEF BeginCancel, Goes, WorkTyped
<1>4. CASE pc'[c].cancel # "freeze"
  <2>1. BalanceQuiet(c)
    BY <1>1, <1>2, <1>3, <1>4 DEF BalanceQuiet, Undoing, Standing, Emptied, Restored
  <2> QED
    BY <1>0, <2>1, QuietBalance
<1>5. CASE pc'[c].cancel = "freeze"
  <2>1. /\ Alone(c, "cancel") /\ NothingRestsOn(c) /\ Claimed(c)
        /\ \A d \in Exchanges : Standing(d) /\ made[d].id > made[c].id => made[d].plan.line # made[c].plan.line
    BY <1>3, <1>5 DEF BeginCancel
  <2>2. \A d \in Exchanges : ~Under(d, "create")
    BY <2>1 DEF Alone
  <2>3. \A d \in Exchanges : Standing(d) => made[d].oldRow
    <3> SUFFICES ASSUME NEW d \in Exchanges, Standing(d) PROVE made[d].oldRow
      OBVIOUS
    <3>1. made[d].step = "completed"
      BY <1>0, <2>2, StandingPlan, StandingClaimed DEF Under, Midway
    <3> QED
      BY <1>0, <3>1 DEF CoreInv, Staged, CreateStage
  <2>4. Latest(c)
    <3> SUFFICES ASSUME NEW d \in Exchanges
                 PROVE  ~Rests(d, c) /\ (Rests(d, made[c].plan.line) => made[d].id <= made[c].id)
      BY DEF Latest
    <3>1. made[d].id \in Nat /\ made[c].id \in Nat
      BY <1>0 DEF WorkTyped, Exchange
    <3>2. ~Rests(d, c)
      BY <1>0, <2>1, <2>3, StandingPlan DEF NothingRestsOn, Rests
    <3> QED
      BY <2>1, <3>1, <3>2 DEF Rests
  <2>5. LinesBalance'
    <3>1. \A l \in Lines : Calm(l)' = Calm(l) /\ Held(l)' = Held(l)
      BY <1>1 DEF Calm, Undoing, Standing, Held
    <3> QED
      BY <1>1, <3>1, MadeKept DEF BalanceInv, LinesBalance, Balanced
  <2>6. \A d \in Exchanges : Undoing(d)' = Undoing(d)
    BY <1>1 DEF Undoing, Standing
  <2>7. LatestUndone'
    BY <1>1, <1>2, <2>4, <2>6, MadeKept DEF BalanceInv, LatestUndone, Only
  <2>8. UndoneUnits'
    <3> SUFFICES ASSUME NEW d \in Exchanges, Undoing(d) PROVE UndoingUnits(d)'
      BY <2>6 DEF UndoneUnits
    <3>1. d # c
      BY <1>3, <1>5 DEF Undoing
    <3>2. UndoingUnits(d) /\ pc'[d] = pc[d]
      BY <1>2, <3>1 DEF BalanceInv, UndoneUnits, Only
    <3>3. made[d].plan.line \in Lines
      BY <1>0, StandingPlan, StandingClaimed DEF Undoing
    <3>4. Held(made[d].plan.line)' = Held(made[d].plan.line)
      BY <1>1 DEF Held, Standing
    <3> QED
      BY <1>1, <3>2, <3>3, <3>4, MadeKept DEF UndoingUnits, Balanced
  <2> QED
    BY <1>1, <2>5, <2>7, <2>8, MadeKept DEF BalanceInv
<1> QED
  BY <1>4, <1>5

\* The step of Freeze keeps the account of the units.
LEMMA FreezeBalance ==
  ASSUME UnitInv, BalanceInv, NEW c \in Exchanges, Freeze(c)
  PROVE  BalanceInv'
<1>0. CoreInv /\ WorkTyped /\ Staged(c) /\ c \in Lines
  BY DEF UnitInv, CoreInv, Typed, Lines
<1>1. CASE Refused(c, "cancel")
  BY <1>0, <1>1, RefusedEven, QuietBalance
<1>2. CASE ~Refused(c, "cancel")
  <2> DEFINE l == made[c].plan.line
  <2>1. /\ qty[c] = made[c].plan.give
        /\ undo'[c].baseline = qty[l] /\ undo'[c].target = qty[l] + made[c].plan.take
        /\ \A d \in Exchanges \ {c} : undo'[d] = undo[d]
        /\ pc' = [pc EXCEPT ![c].cancel = "in"] /\ UNCHANGED <<qty, mark, made>>
    BY <1>0, <1>2 DEF Freeze, Goes, WorkTyped, Cancellation, lineVars
  <2>2. Only(c) /\ pc'[c].cancel = "in" /\ pc[c].cancel = "freeze" /\ undo[c].step = "none" /\ Standing(c)
    BY <1>0, <2>1 DEF Only, WorkTyped, Freeze, At, Staged, CancelStage
  <2>3. Under(c, "cancel")
    BY <2>2 DEF Under
  <2>4. \A d \in Exchanges : ~Undoing(d)
    BY <2>2, <2>3, OneUndone DEF Undoing
  <2>5. \A d \in Exchanges \ {c} : ~Undoing(d)' /\ pc'[d].cancel # "freeze"
    <3>1. \A d \in Exchanges \ {c} : pc[d].cancel = "idle"
      BY <2>3, OneUndone
    <3> QED
      BY <2>2, <2>4, <3>1 DEF Only, Undoing, Standing
  <2>6. \A k \in Lines : Held(k)' = Held(k) /\ Balanced(k, qty[k])
    BY <2>1, <2>4 DEF Held, Standing, BalanceInv, LinesBalance, Calm
  <2>7. l \in Lines /\ c \in Lines
    BY <1>0, <2>2, StandingPlan, StandingClaimed
  <2>8. LinesBalance'
    BY <2>1, <2>6, MadeKept DEF LinesBalance, Balanced
  <2>9. LatestUndone'
    <3>1. Latest(c)
      BY <2>2 DEF BalanceInv, LatestUndone
    <3> QED
      BY <2>1, <2>2, <2>5, <3>1, MadeKept DEF LatestUndone
  <2>10. UndoneUnits'
    <3> SUFFICES UndoingUnits(c)'
      BY <2>5 DEF UndoneUnits
    <3>1. \A e \in Exchanges : Rests(e, l)' = Rests(e, l) /\ Later(e)' = Later(e)
      BY <2>1, <2>7, MadeKept
    <3>2. Balanced(l, undo[c].baseline)'
      BY <2>1, <2>6, <2>7, <3>1, MadeKept DEF Balanced
    <3> QED
      BY <2>1, <2>2, <3>2 DEF UndoingUnits, Emptied, Restored
  <2> QED
    BY <2>1, <2>8, <2>9, <2>10, MadeKept DEF BalanceInv
<1> QED
  BY <1>1, <1>2

\* The step of Claim keeps the account of the units.
LEMMA ClaimBalance ==
  ASSUME UnitInv, BalanceInv, NEW c \in Exchanges, Claim(c)
  PROVE  BalanceInv'
<1>0. /\ CoreInv /\ WorkTyped /\ LinesTyped /\ Staged(c) /\ made[c] \in Exchange
      /\ made[c].step = "validated" /\ made[c].plan \in Plans /\ c \in Lines /\ c \notin First
  <2>1. made[c].step = "validated" /\ CoreInv
    BY DEF UnitInv, CoreInv, Staged, CreateStage, StepAt, Claim, At
  <2> QED
    BY <2>1, PlansOf, ExchangeAssumption DEF CoreInv, Typed, WorkTyped, Lines
<1>1. CASE Refused(c, "create")
  BY <1>0, <1>1, RefusedEven, QuietBalance
<1>2. CASE ~Refused(c, "create")
  <2> DEFINE l == made[c].plan.line
             take == made[c].plan.take
             n == Cardinality({d \in Exchanges : Claimed(d)})
  <2>1. /\ qty[l] = made[c].plan.initial
        /\ qty' = [qty EXCEPT ![l] = made[c].plan.target] /\ undo' = undo
        /\ made' = [made EXCEPT ![c].step = "exchange_created", ![c].status = "completed", ![c].id = 1 + n]
        /\ pc' = [pc EXCEPT ![c].create = "reserve"]
        /\ mark' = IF made[c].plan.target = 0 THEN [mark EXCEPT ![l] = "exchanged"] ELSE mark
    BY <1>2, Zenon DEF Claim, Goes
  <2>2. /\ l \in Lines /\ l # c /\ made[c].plan.target \in Nat /\ take \in Nat \ {0}
        /\ made[c].plan.initial = made[c].plan.target + take
        /\ l \in Exchanges => mark[l] # "absent"
    BY <1>0, ExchangeAssumption DEF Plans, Staged, PlanOK, LineThere
  <2>3. qty'[l] = made[c].plan.target /\ \A k \in Lines \ {l} : qty'[k] = qty[k]
    BY <1>0, <2>1, <2>2 DEF LinesTyped
  <2>4. /\ made'[c].plan = made[c].plan /\ made'[c].step = "exchange_created" /\ made'[c].status = "completed"
        /\ made'[c].id = 1 + n
    BY <1>0, <2>1 DEF WorkTyped, Exchange
  <2>5. Only(c) /\ pc'[c].cancel = pc[c].cancel
    BY <1>0, <2>1 DEF Only, WorkTyped
  <2>6. \A d \in Exchanges : ~Undoing(d) /\ pc[d].cancel = "idle"
    <3>1. Under(c, "create")
      BY <1>0 DEF Under
    <3> QED
      BY <3>1, OneUndone
  <2>7. made[c].id = 0 /\ made[c].status = "none" /\ mark[c] = "absent" /\ undo[c].step = "none"
    BY <1>0 DEF Staged, CreateStage, CancelStage, NewLineOK, Midway, Claimed
  <2>8. \A d \in Exchanges : ~Undoing(d)' /\ pc'[d].cancel = "idle"
    BY <2>1, <2>5, <2>6, <2>7 DEF Only, Undoing, Standing
  <2>9. /\ n \in Nat /\ \A d \in Exchanges : made[d].id \in Nat /\ made[d].id <= n
        /\ Cardinality({d \in Exchanges : Claimed(d)'}) = n + 1
    <3> DEFINE S == {d \in Exchanges : Claimed(d)}
    <3>1. IsFiniteSet(S) /\ c \notin S
      BY <2>7, LinesFinite, FS_Subset DEF Claimed
    <3>2. n \in Nat /\ n = Cardinality(S)
      BY <3>1, FS_CardinalityType
    <3>3. {d \in Exchanges : Claimed(d)'} = S \cup {c}
      BY <2>4, <2>5, <3>2 DEF Claimed, Only
    <3>4. Cardinality(S \cup {c}) = n + 1
      BY <3>1, <3>2, FS_AddElement
    <3>5. \A d \in Exchanges : made[d].id \in Nat /\ made[d].id <= n
      BY <1>0 DEF BalanceInv, Numbered, WorkTyped, Exchange
    <3> QED
      BY <3>2, <3>3, <3>4, <3>5
  <2> HIDE DEF n
  <2>10. /\ \A d \in Exchanges \ {c} : Standing(d)' = Standing(d) /\ made'[d] = made[d]
         /\ ~Standing(c) /\ Standing(c)'
    BY <2>4, <2>5, <2>7 DEF Standing, Only
  <2>11. /\ \A d \in Exchanges \ {c}, k \in Lines : Rests(d, k)' = Rests(d, k)
         /\ \A k \in Lines : ~Rests(c, k) /\ (Rests(c, k)' <=> k = l)
    BY <2>4, <2>10 DEF Rests
  <2>12. /\ \A d \in Exchanges \ {c}, k \in Lines : Share(d, k)' = Share(d, k)
         /\ \A k \in Lines : Share(c, k) = 0 /\ Share(c, k)' = IF k = l THEN take ELSE 0
    BY <2>4, <2>10, <2>11 DEF Share
  <2>13. \A k \in Lines : Back(k) \in Nat /\ Back(k)' = Back(k) + IF k = l THEN take ELSE 0
    <3> SUFFICES ASSUME NEW k \in Lines PROVE Back(k) \in Nat /\ Back(k)' = Back(k) + IF k = l THEN take ELSE 0
      OBVIOUS
    <3>1. Share(c, k)' \in Int /\ Back(k) \in Nat /\ Share(c, k) = 0 /\ Share(c, k)' = IF k = l THEN take ELSE 0
      BY <1>0, <2>2, <2>12, SharesNat
    <3>2. Back(k)' = Back(k) - Share(c, k) + Share(c, k)'
      BY <1>0, <2>12, <3>1, OneShare
    <3> HIDE DEF l, take
    <3> QED
      BY <2>2, <3>1, <3>2
  <2>14. ASSUME NEW e \in Exchanges \ {c}, Standing(e)
         PROVE  Later(e) \in Nat /\ Later(e)' = Later(e) + IF made[e].plan.line = l THEN take ELSE 0
    <3>1. \A d \in Exchanges \ {c} : ShareAfter(d, e)' = ShareAfter(d, e)
      BY <2>10 DEF ShareAfter, Rests
    <3>2. ShareAfter(c, e) = 0
      BY <2>10 DEF ShareAfter, Rests
    <3>3. made'[c].id > made'[e].id
      BY <2>4, <2>9, <2>10
    <3>4. ShareAfter(c, e)' = IF made[e].plan.line = l THEN take ELSE 0
      BY <2>4, <2>10, <3>3 DEF ShareAfter, Rests
    <3>5. ShareAfter(c, e)' \in Int /\ Later(e) \in Nat
      BY <1>0, <2>2, <3>4, SharesNat
    <3>6. Later(e)' = Later(e) - ShareAfter(c, e) + ShareAfter(c, e)'
      BY <1>0, <3>1, <3>5, OneLater
    <3> HIDE DEF l, take
    <3> QED
      BY <2>2, <3>2, <3>4, <3>5, <3>6
  <2>15. Later(c)' = 0
    <3>1. \A d \in Exchanges : ~(made'[d].id > made'[c].id)
      BY <2>4, <2>9, <2>10
    <3>2. \A d \in Exchanges : [e \in Exchanges |-> ShareAfter(e, c)'][d] = 0
      BY <3>1 DEF ShareAfter
    <3>3. Sum([e \in Exchanges |-> ShareAfter(e, c)'], Exchanges) = 0
      BY <3>2, LinesFinite, SumZero DEF Sum
    <3> QED
      BY <3>3 DEF Later
  <2>16. \A k \in Lines : Held(k)' = Held(k) /\ Held(k) \in Nat
    <3> SUFFICES ASSUME NEW k \in Lines PROVE Held(k)' = Held(k) /\ Held(k) \in Nat
      OBVIOUS
    <3>1. k \in Exchanges => (mark'[k] = "absent" <=> mark[k] = "absent")
      BY <1>0, <2>1, <2>2 DEF LinesTyped
    <3>2. CASE k = c
      BY <1>0, <2>7, <3>1, <3>2 DEF Held
    <3>3. CASE k # c
      <4>1. Held(k)' = Held(k)
        BY <2>10, <3>1, <3>3 DEF Held, Lines
      <4>2. k \in Exchanges /\ Standing(k) => made[k].plan.give \in Nat
        BY <1>0, StandingPlan, StandingClaimed
      <4> QED
        BY <4>1, <4>2, ExchangeAssumption DEF Held, Lines
    <3> QED
      BY <3>2, <3>3
  <2>17. \A k \in Lines : Balanced(k, qty[k])
    BY <2>6 DEF BalanceInv, LinesBalance, Calm
  <2>18. LinesBalance'
    <3> SUFFICES ASSUME NEW k \in Lines PROVE Balanced(k, qty[k])'
      BY DEF LinesBalance
    <3>1. qty'[k] + Back(k)' = Held(k)'
      <4>1. qty[k] + Back(k) = Held(k) /\ qty[k] \in Nat
        BY <1>0, <2>17 DEF Balanced, LinesTyped
      <4>2. Back(k) \in Nat /\ Back(k)' = Back(k) + IF k = l THEN take ELSE 0
        BY <2>13
      <4> HIDE DEF l, take
      <4> QED
        BY <2>1, <2>2, <2>3, <2>16, <4>1, <4>2
    <3>2. ASSUME NEW e \in Exchanges, Rests(e, k)' PROVE made'[e].plan.target = qty'[k] + Later(e)'
      <4>1. CASE e = c
        BY <2>2, <2>3, <2>4, <2>11, <2>15, <3>2, <4>1
      <4>2. CASE e # c
        <5>1. Rests(e, k) /\ Standing(e) /\ made[e].plan.line = k /\ made'[e] = made[e]
          BY <2>10, <2>11, <3>2, <4>2 DEF Rests
        <5>2. made[e].plan.target = qty[k] + Later(e) /\ qty[k] \in Nat
          BY <1>0, <2>17, <5>1 DEF Balanced, LinesTyped
        <5>3. Later(e) \in Nat /\ Later(e)' = Later(e) + IF k = l THEN take ELSE 0
          BY <2>14, <4>2, <5>1
        <5> HIDE DEF l, take
        <5> QED
          BY <2>1, <2>2, <2>3, <5>1, <5>2, <5>3
      <4> QED
        BY <4>1, <4>2
    <3> QED
      BY <3>1, <3>2 DEF Balanced
  <2>19. Numbered'
    <3>1. \A d \in Exchanges : made'[d].id <= n + 1
      BY <2>4, <2>9, <2>10
    <3>2. ASSUME NEW d \in Exchanges, NEW e \in Exchanges, Claimed(d)', made'[d].id = made'[e].id PROVE d = e
      <4>1. CASE d = c /\ e # c
        BY <2>4, <2>9, <2>10, <3>2, <4>1
      <4>2. CASE d # c /\ e = c
        BY <2>4, <2>9, <2>10, <3>2, <4>2
      <4>3. CASE d # c /\ e # c
        BY <2>10, <3>2, <4>3 DEF BalanceInv, Numbered, Claimed
      <4> QED
        BY <4>1, <4>2, <4>3
    <3> QED
      BY <2>9, <3>1, <3>2 DEF Numbered
  <2>20. NothingRests'
    <3> SUFFICES ASSUME NEW e \in Exchanges, NEW d \in Exchanges,
                        made'[e].status = "cancelled" \/ made'[e].step \in Midway
                 PROVE  ~Rests(d, e)'
      BY DEF NothingRests
    <3>1. e \in Lines
      BY DEF Lines
    <3>2. CASE e = c
      <4>1. d # c => ~Rests(d, c)
        BY <1>0, <2>7, StandingClaimed DEF CoreInv, Staged, LineThere, CreateStage, Rests, Claimed
      <4> QED
        BY <1>0, <2>2, <2>11, <3>2, <4>1
    <3>3. CASE e # c
      <4>1. made[e].status = "cancelled"
        <5>1. made[e].step \notin Midway
          <6>1. Under(c, "create")
            BY <1>0 DEF Under
          <6> QED
            BY <3>3, <6>1, OthersRest
        <5> QED
          BY <2>10, <3>3, <5>1
      <4>2. ~Rests(d, e) /\ e \notin First
        BY <4>1, ExchangeAssumption DEF BalanceInv, NothingRests
      <4>3. l # e
        <5>1. Held(e) = 0
          BY <4>1, <4>2 DEF Held, Standing
        <5>2. qty[e] = 0
          BY <1>0, <2>13, <2>17, <3>1, <5>1 DEF Balanced, LinesTyped
        <5> QED
          BY <2>1, <2>2, <5>2
      <4> QED
        BY <2>11, <3>1, <4>2, <4>3
    <3> QED
      BY <3>2, <3>3
  <2> QED
    BY <2>8, <2>18, <2>19, <2>20 DEF BalanceInv, LatestUndone, UndoneUnits
<1> QED
  BY <1>1, <1>2

\* The step of EmptyNew keeps the account of the units.
LEMMA EmptyNewBalance ==
  ASSUME UnitInv, BalanceInv, ExchangesApart, NEW c \in Exchanges, EmptyNew(c)
  PROVE  BalanceInv'
<1>0. /\ CoreInv /\ WorkTyped /\ LinesTyped /\ Staged(c) /\ Undoing(c) /\ c \in Lines /\ c \notin First
      /\ made[c].step = "completed" /\ mark[c] # "absent"
  <2>1. CoreInv /\ Undoing(c)
    BY DEF UnitInv, CoreInv, Staged, CancelStage, EmptyNew, At
  <2>2. made[c].step = "completed" /\ mark[c] # "absent"
    BY <2>1 DEF CoreInv, Staged, ReadyStage, NewLineOK, Ready, Undoing
  <2> QED
    BY <2>1, <2>2, ExchangeAssumption DEF CoreInv, Typed, Lines
<1>1. /\ UNCHANGED <<made, undo>> /\ pc' = [pc EXCEPT ![c].cancel = "oldQty"]
      /\ qty' = [qty EXCEPT ![c] = 0] /\ mark' = [mark EXCEPT ![c] = "cancelled"]
  BY DEF EmptyNew, Goes
<1>2. Only(c) /\ pc'[c].cancel = "oldQty"
  BY <1>0, <1>1 DEF Only, WorkTyped
<1>3. qty'[c] = 0 /\ \A k \in Lines \ {c} : qty'[k] = qty[k]
  BY <1>0, <1>1 DEF LinesTyped
<1>4. \A k \in Lines : Held(k)' = Held(k)
  BY <1>0, <1>1 DEF Held, Standing, LinesTyped
<1>5. \A d \in Exchanges : Undoing(d)' = Undoing(d)
  BY <1>1 DEF Undoing, Standing
<1>6. LinesBalance'
  <2> SUFFICES ASSUME NEW k \in Lines, Calm(k)' PROVE Balanced(k, qty[k])'
    BY DEF LinesBalance
  <2>1. Calm(k) /\ k # c
    BY <1>0, <1>1, <1>5 DEF Calm
  <2> QED
    BY <1>1, <1>3, <1>4, <2>1, MadeKept DEF BalanceInv, LinesBalance, Balanced
<1>7. LatestUndone'
  BY <1>0, <1>1, <1>2, <1>5, MadeKept DEF BalanceInv, LatestUndone, Only
<1>8. UndoneUnits'
  <2> SUFFICES ASSUME NEW d \in Exchanges, Undoing(d) PROVE UndoingUnits(d)'
    BY <1>5 DEF UndoneUnits
  <2>1. Under(c, "cancel")
    BY DEF EmptyNew, At, Under
  <2>2. d = c
    BY <2>1, OneUndone
  <2>3. UndoingUnits(c)
    BY <1>0 DEF BalanceInv, UndoneUnits
  <2>4. made[c].plan.line \in Lines \ {c}
    BY <1>0, StandingPlan, StandingClaimed DEF Undoing
  <2> QED
    BY <1>1, <1>2, <1>3, <1>4, <2>2, <2>3, <2>4, MadeKept DEF UndoingUnits, Balanced, Emptied, Restored
<1> QED
  BY <1>1, <1>6, <1>7, <1>8, MadeKept DEF BalanceInv

\* The step of RestoreQty keeps the account of the units.
LEMMA RestoreQtyBalance ==
  ASSUME UnitInv, BalanceInv, NEW c \in Exchanges, RestoreQty(c)
  PROVE  BalanceInv'
<1>0. /\ CoreInv /\ WorkTyped /\ LinesTyped /\ Staged(c) /\ Undoing(c) /\ pc[c].cancel = "oldQty"
      /\ made[c].plan.line \in Lines \ {c} /\ made[c].plan \in Plans
  <2>1. CoreInv /\ Undoing(c)
    BY DEF UnitInv, CoreInv, Staged, CancelStage, RestoreQty, At
  <2> QED
    BY <2>1, StandingPlan, StandingClaimed DEF CoreInv, Typed, RestoreQty, At, Undoing
<1>1. CASE Refused(c, "cancel")
  BY <1>0, <1>1, RefusedEven, QuietBalance
<1>2. CASE ~Refused(c, "cancel")
  <2> DEFINE l == made[c].plan.line
  <2>1. /\ qty' = [qty EXCEPT ![l] = undo[c].target]
        /\ UNCHANGED <<made, undo>> /\ pc' = [pc EXCEPT ![c].cancel = "oldResv"]
        /\ mark' = IF qty[l] # undo[c].target THEN [mark EXCEPT ![l] = made[c].plan.marked] ELSE mark
    BY <1>2, Zenon DEF RestoreQty, Restores, Goes
  <2>2. Only(c) /\ pc'[c].cancel = "oldResv"
    BY <1>0, <2>1 DEF Only, WorkTyped
  <2>3. qty'[l] = undo[c].target /\ \A k \in Lines \ {l} : qty'[k] = qty[k]
    BY <1>0, <2>1 DEF LinesTyped
  <2>4. \A k \in Exchanges : mark'[k] = "absent" <=> mark[k] = "absent"
    <3>1. l \in Exchanges => mark[l] # "absent" /\ made[c].plan.marked # "absent"
      BY <1>0, StandingPlan, StandingClaimed DEF Staged, LineThere, PlanOK, Undoing, Midway
    <3> QED
      BY <1>0, <2>1, <3>1 DEF LinesTyped, Lines
  <2>5. \A k \in Lines : Held(k)' = Held(k)
    BY <2>1, <2>4 DEF Held, Standing, Lines
  <2>6. \A d \in Exchanges : Undoing(d)' = Undoing(d)
    BY <2>1 DEF Undoing, Standing
  <2>7. LinesBalance'
    <3> SUFFICES ASSUME NEW k \in Lines, Calm(k)' PROVE Balanced(k, qty[k])'
      BY DEF LinesBalance
    <3>1. Calm(k) /\ k # l
      BY <1>0, <2>1, <2>6 DEF Calm
    <3> QED
      BY <2>1, <2>3, <2>5, <3>1, MadeKept DEF BalanceInv, LinesBalance, Balanced
  <2>8. LatestUndone'
    BY <1>0, <2>1, <2>2, <2>6, MadeKept DEF BalanceInv, LatestUndone, Only
  <2>9. UndoneUnits'
    <3> SUFFICES ASSUME NEW d \in Exchanges, Undoing(d) PROVE UndoingUnits(d)'
      BY <2>6 DEF UndoneUnits
    <3>1. Under(c, "cancel")
      BY <1>0 DEF Under
    <3>2. d = c
      BY <3>1, OneUndone
    <3>3. UndoingUnits(c)
      BY <1>0 DEF BalanceInv, UndoneUnits
    <3>4. c \in Lines
      BY DEF Lines
    <3> QED
      BY <1>0, <2>1, <2>2, <2>3, <2>5, <3>2, <3>3, <3>4, MadeKept DEF UndoingUnits, Balanced, Emptied, Restored
  <2> QED
    BY <2>1, <2>7, <2>8, <2>9, MadeKept DEF BalanceInv
<1> QED
  BY <1>1, <1>2

\* The step of Finish keeps the account of the units.
LEMMA FinishBalance ==
  ASSUME UnitInv, BalanceInv, NEW c \in Exchanges, Finish(c)
  PROVE  BalanceInv'
<1>0. /\ CoreInv /\ WorkTyped /\ LinesTyped /\ Staged(c) /\ Undoing(c) /\ pc[c].cancel = "finish"
      /\ c \in Lines /\ c \notin First
      /\ made[c].plan.line \in Lines \ {c} /\ made[c].plan \in Plans /\ made[c].id \in Nat
  <2>1. CoreInv /\ Undoing(c) /\ c \notin First
    BY ExchangeAssumption DEF UnitInv, CoreInv, Staged, CancelStage, Finish, At
  <2> QED
    BY <2>1, StandingPlan, StandingClaimed DEF CoreInv, Typed, Finish, At, Undoing
<1>1. CASE Refused(c, "cancel")
  BY <1>0, <1>1, RefusedEven, QuietBalance
<1>2. CASE ~Refused(c, "cancel")
  <2> DEFINE l == made[c].plan.line
             take == made[c].plan.take
  <2>1. /\ made' = [made EXCEPT ![c].status = "cancelled"]
        /\ UNCHANGED <<qty, mark, undo>> /\ pc' = [pc EXCEPT ![c].cancel = "complete"]
    BY <1>2, Zenon DEF Finish, Goes, lineVars
  <2>2. /\ made'[c].status = "cancelled" /\ made'[c].plan = made[c].plan /\ made'[c].id = made[c].id
        /\ made'[c].step = made[c].step
    BY <1>0, <2>1 DEF WorkTyped, Exchange
  <2>3. Only(c) /\ pc'[c].cancel = "complete"
    BY <1>0, <2>1 DEF Only, WorkTyped
  <2>4. Under(c, "cancel")
    BY <1>0 DEF Under
  <2>5. \A d \in Exchanges \ {c} : ~Undoing(d) /\ pc[d].cancel = "idle"
    BY <2>4, OneUndone
  <2>6. \A d \in Exchanges : ~Undoing(d)' /\ pc'[d].cancel # "freeze"
    BY <2>1, <2>2, <2>3, <2>5 DEF Only, Undoing, Standing
  <2>7. Latest(c) /\ UndoingUnits(c)
    BY <1>0 DEF BalanceInv, LatestUndone, UndoneUnits
  <2>8. /\ Balanced(l, undo[c].baseline) /\ qty[c] = 0 /\ qty[l] = undo[c].baseline + take
        /\ undo[c].baseline \in Nat /\ take \in Nat
    BY <1>0, <2>7, StandingPlan, StandingClaimed
       DEF UndoingUnits, Emptied, Restored, Staged, CancelStage, Undoing, WorkTyped, Cancellation
  <2>9. /\ \A d \in Exchanges \ {c} : Standing(d)' = Standing(d) /\ made'[d] = made[d]
        /\ Standing(c) /\ ~Standing(c)'
    BY <1>0, <2>2, <2>3 DEF Only, Standing, Undoing
  <2>10. \A d \in Exchanges, k \in Lines : Rests(d, k)' = (Rests(d, k) /\ d # c)
    BY <2>9 DEF Rests
  <2>11. \A d \in Exchanges : ~Rests(d, c) /\ (Rests(d, l) => made[d].id <= made[c].id)
    BY <2>7 DEF Latest
  <2>12. \A k \in Lines : Back(k) \in Nat /\ Back(k)' = Back(k) - IF k = l THEN take ELSE 0
    <3> SUFFICES ASSUME NEW k \in Lines
                 PROVE  Back(k) \in Nat /\ Back(k)' = Back(k) - IF k = l THEN take ELSE 0
      OBVIOUS
    <3>1. \A d \in Exchanges \ {c} : Share(d, k)' = Share(d, k)
      BY <2>9, <2>10 DEF Share
    <3>2. Share(c, k)' = 0 /\ Share(c, k) = IF k = l THEN take ELSE 0
      BY <2>9, <2>10 DEF Share, Rests
    <3>3. Back(k)' = Back(k) - Share(c, k) + Share(c, k)'
      BY <1>0, <3>1, <3>2, OneShare
    <3>4. Back(k) \in Nat /\ Share(c, k) \in Nat
      BY <1>0, SharesNat
    <3> HIDE DEF l, take
    <3> QED
      BY <3>2, <3>3, <3>4
  <2>13. \A e \in Exchanges \ {c}, k \in Lines :
           Rests(e, k) => Later(e) \in Nat /\ Later(e)' = Later(e) - IF k = l THEN take ELSE 0
    <3> SUFFICES ASSUME NEW e \in Exchanges \ {c}, NEW k \in Lines, Rests(e, k)
                 PROVE  Later(e) \in Nat /\ Later(e)' = Later(e) - IF k = l THEN take ELSE 0
      OBVIOUS
    <3>1. Standing(e) /\ made[e].plan.line = k /\ made'[e] = made[e] /\ made[e].id \in Nat
      BY <1>0, <2>9 DEF Rests, WorkTyped, Exchange
    <3>2. \A d \in Exchanges \ {c} : ShareAfter(d, e)' = ShareAfter(d, e)
      BY <2>9, <2>10, <3>1 DEF ShareAfter
    <3>3. ShareAfter(c, e)' = 0
      BY <2>10, <3>1 DEF ShareAfter
    <3>4. k = l => made[c].id > made[e].id
      <4>1. made[e].id # made[c].id
        BY <1>0, StandingClaimed DEF BalanceInv, Numbered, Undoing
      <4> QED
        BY <1>0, <2>11, <3>1, <4>1
    <3>5. ShareAfter(c, e) = IF k = l THEN take ELSE 0
      BY <2>9, <3>1, <3>4 DEF ShareAfter, Rests
    <3>6. Later(e)' = Later(e) - ShareAfter(c, e) + ShareAfter(c, e)'
      BY <1>0, <3>2, <3>3, OneLater
    <3>7. Later(e) \in Nat /\ ShareAfter(c, e) \in Nat
      BY <1>0, SharesNat
    <3> HIDE DEF l, take
    <3> QED
      BY <3>3, <3>5, <3>6, <3>7
  <2>14. Held(c)' = 0 /\ \A k \in Lines \ {c} : Held(k)' = Held(k)
    <3>1. Held(c)' = 0
      BY <1>0, <2>9 DEF Held
    <3>2. ASSUME NEW k \in Lines \ {c} PROVE Held(k)' = Held(k)
      BY <2>1, <2>9 DEF Held, Lines
    <3> QED
      BY <3>1, <3>2
  <2>15. LinesBalance'
    <3> SUFFICES ASSUME NEW k \in Lines PROVE Balanced(k, qty[k])'
      BY DEF LinesBalance
    <3>1. CASE k = c
      <4>1. Back(c) = 0
        BY <1>0, <2>11, NoBack
      <4>2. Back(c)' = 0 /\ qty'[c] = 0
        BY <1>0, <2>1, <2>8, <2>12, <4>1
      <4>3. \A e \in Exchanges : ~Rests(e, c)'
        BY <1>0, <2>10, <2>11
      <4> QED
        BY <2>14, <3>1, <4>2, <4>3 DEF Balanced
    <3>2. CASE k # c
      <4> DEFINE n == IF k = l THEN undo[c].baseline ELSE qty[k]
                 more == IF k = l THEN take ELSE 0
      <4>1. Balanced(k, n)
        <5>1. k # l => Calm(k)
          BY <2>5, <3>2 DEF Calm
        <5> QED
          BY <2>8, <5>1 DEF BalanceInv, LinesBalance
      <4>2. qty'[k] = n + more /\ n \in Nat /\ more \in Nat
        BY <1>0, <2>1, <2>8 DEF LinesTyped
      <4>3. Back(k) \in Nat /\ Back(k)' = Back(k) - more
        BY <2>12
      <4>4. n + Back(k) = Held(k) /\ Held(k)' = Held(k)
        BY <2>14, <3>2, <4>1 DEF Balanced
      <4>5. ASSUME NEW e \in Exchanges, Rests(e, k)' PROVE made'[e].plan.target = qty'[k] + Later(e)'
        <5>1. e # c /\ Rests(e, k) /\ made'[e] = made[e]
          BY <2>9, <2>10, <4>5
        <5>2. made[e].plan.target = n + Later(e) /\ Later(e) \in Nat /\ Later(e)' = Later(e) - more
          BY <2>13, <4>1, <5>1 DEF Balanced
        <5> HIDE DEF n, more
        <5> QED
          BY <4>2, <5>1, <5>2
      <4>6. qty'[k] + Back(k)' = Held(k)'
        <5> HIDE DEF n, more
        <5> QED
          BY <4>2, <4>3, <4>4
      <4> QED
        BY <4>5, <4>6 DEF Balanced
    <3> QED
      BY <3>1, <3>2
  <2>16. Numbered'
    <3>1. \A d \in Exchanges : made'[d].id = made[d].id
      BY <2>2, <2>9
    <3>2. {d \in Exchanges : Claimed(d)'} = {d \in Exchanges : Claimed(d)}
      BY <3>1 DEF Claimed
    <3> QED
      BY <3>1, <3>2 DEF BalanceInv, Numbered, Claimed
  <2>17. NothingRests'
    <3> SUFFICES ASSUME NEW e \in Exchanges, NEW d \in Exchanges,
                        made'[e].status = "cancelled" \/ made'[e].step \in Midway
                 PROVE  ~Rests(d, e)'
      BY DEF NothingRests
    <3>1. e \in Lines
      BY DEF Lines
    <3>2. CASE e = c
      BY <2>10, <2>11, <3>1, <3>2
    <3>3. CASE e # c
      BY <2>9, <2>10, <3>1, <3>3 DEF BalanceInv, NothingRests
    <3> QED
      BY <3>2, <3>3
  <2> QED
    BY <2>6, <2>15, <2>16, <2>17 DEF BalanceInv, LatestUndone, UndoneUnits
<1> QED
  BY <1>1, <1>2

\* Returns of single units and steps of nobody.
LEMMA ReturnsBalance ==
  ASSUME BalanceInv, UNCHANGED <<qty, mark, made, undo, pc>>
  PROVE  BalanceInv'
<1>1. /\ \A d \in Exchanges : Undoing(d)' = Undoing(d)
      /\ \A l \in Lines : Held(l)' = Held(l) /\ Calm(l)' = Calm(l)
  BY DEF Undoing, Standing, Held, Calm
<1>2. LinesBalance'
  <2>1. \A l \in Lines : Balanced(l, qty[l])' = Balanced(l, qty[l])
    BY <1>1, MadeKept DEF Balanced
  <2> QED
    BY <1>1, <2>1 DEF BalanceInv, LinesBalance
<1>3. LatestUndone'
  BY <1>1, MadeKept DEF BalanceInv, LatestUndone
<1>4. UndoneUnits'
  <2>1. \A d \in Exchanges : UndoingUnits(d)' = UndoingUnits(d)
    BY DEF UndoingUnits, Balanced, Rests, Later, ShareAfter, Back, Share, Held, Standing
  <2> QED
    BY <1>1, <2>1 DEF BalanceInv, UndoneUnits
<1> QED
  BY <1>2, <1>3, <1>4, MadeKept DEF BalanceInv

\* At first every line holds what was ordered.
LEMMA BalanceInit == Init => BalanceInv
<1> SUFFICES ASSUME Init PROVE BalanceInv
  OBVIOUS
<1>1. /\ \A d \in Exchanges : /\ made[d].status = "none" /\ made[d].id = 0 /\ made[d].step = "none"
                              /\ undo[d].step = "none" /\ pc[d].cancel = "idle"
      /\ \A l \in Lines : qty[l] = IF l \in First THEN Ordered[l] ELSE 0
  BY DEF Init
<1>2. \A d \in Exchanges : ~Standing(d) /\ ~Claimed(d) /\ ~Undoing(d) /\ made[d].step \notin Midway
  BY <1>1 DEF Standing, Claimed, Undoing, Midway
<1>3. \A d \in Exchanges, l \in Lines : ~Rests(d, l)
  BY <1>2 DEF Rests
<1>4. \A l \in Lines : Held(l) = qty[l] /\ qty[l] \in Nat
  BY <1>1, <1>2, ExchangeAssumption DEF Held, Lines
<1>5. LinesBalance
  BY <1>3, <1>4, NoBack DEF LinesBalance, Balanced
<1>6. Numbered
  <2>1. {d \in Exchanges : Claimed(d)} = {}
    BY <1>2
  <2> QED
    BY <1>1, <1>2, <2>1, FS_EmptySet DEF Numbered
<1> QED
  BY <1>1, <1>2, <1>3, <1>5, <1>6 DEF BalanceInv, NothingRests, LatestUndone, UndoneUnits, Lines

\* Every step keeps the account of the units.
LEMMA BalanceStep ==
  ASSUME UnitInv, BalanceInv, ExchangesApart, LatestFirst, [Next]_vars
  PROVE  BalanceInv'
<1>0. CoreInv /\ ClaimHeld
  BY DEF UnitInv
<1>1. ASSUME NEW c \in Exchanges, Creates(c) PROVE BalanceInv'
  BY <1>0, <1>1, ClaimBalance, ReserveEven, SetQtyEven, OldRowEven, InsertInEven, ApplyInEven, AdvanceOldEven,
     InsertContentBalance, PromiseEven, AdvanceContentEven, NewRowEven, InsertOutEven, ApplyOutEven, LinkOutEven, AdvanceNewEven,
     BookMoneyEven, SetTotalEven, AdvanceMoneyEven, CompleteEven, QuietBalance DEF Creates
<1>2. ASSUME NEW c \in Exchanges, Cancels(c) PROVE BalanceInv'
  BY <1>0, <1>2, FreezeBalance, CancelInEven, CancelOutEven, ReleaseNewEven, EmptyNewBalance, RestoreQtyBalance,
     RestoreResvEven, MoneyBackEven, FinishBalance, CompleteCancelEven, QuietBalance DEF Cancels
<1>3. ASSUME NEW c \in Exchanges, Plan(c) \/ Retry(c) \/ Drop(c) \/ BeginCancel(c)
             \/ \E op \in {"create", "cancel"} : Crash(c, op)
      PROVE  BalanceInv'
  BY <1>0, <1>3, PlanEven, RetryEven, DropEven, CrashEven, BeginCancelBalance, QuietBalance
<1>4. ASSUME NEW l \in Lines, TakeReturn(l) \/ CancelReturn(l) PROVE BalanceInv'
  BY <1>4, ReturnsBalance DEF TakeReturn, CancelReturn
<1>5. CASE UNCHANGED vars
  BY <1>5, ReturnsBalance DEF vars, lineVars
<1> QED
  BY <1>1, <1>2, <1>3, <1>4, <1>5 DEF Next

-----------------------------------------------------------------------------
(* The goods behind a line, when an order is worked on by one handler *)

\* The units of a line are with the client or promised to it, all of them.
Fit(l) ==
  qty[l] > 0 => \/ Issued(l) /\ resv[l].status = "fulfilled"
                \/ ~Issued(l) /\ resv[l] = [status |-> "active", qty |-> qty[l]]

\* What a plan saw of the reservation, and what a claim found and leaves.
PlanFits(c) ==
  made[c].plan.physical = "not_issued" =>
    made[c].plan.snapshot = [status |-> "active", qty |-> made[c].plan.initial]
Found(c) ==
  LET p == made[c].plan
  IN /\ ~Issued(p.line) /\ resv[p.line] = [status |-> "active", qty |-> p.initial]
     /\ p.physical = "warehouse" => p.handover
Kept(c) ==
  LET p == made[c].plan
  IN /\ p.physical = "warehouse" => resv[p.line].status = "fulfilled"
     /\ p.physical = "not_issued" /\ p.target = 0 => resv[p.line] = [status |-> "released", qty |-> p.initial]

\* An exchange is in the middle of changing a line.
Changing(c, l) ==
  \/ made[c].step = "exchange_created" /\ made[c].plan.line = l
  \/ made[c].step = "old_done" /\ c = l
  \/ Undoing(c) /\ l \in {c, made[c].plan.line}

PlannedFit(c) ==
  LET p == made[c].plan
  IN made[c].step = "validated" =>
       /\ qty[p.line] = p.initial
       /\ Found(c) \/ (p.physical = "warehouse" /\ Issued(p.line) /\ resv[p.line].status = "fulfilled")
ClaimedFit(c) ==
  made[c].step = "exchange_created" =>
    \/ Found(c) /\ pc[c].create \in {"idle", "reserve"}
    \/ Fit(made[c].plan.line) /\ Kept(c)
NewFit(c) ==
  made[c].step = "old_done" =>
    /\ Fit(c) \/ (resv[c] = Nothing /\ ~Issued(c))
    /\ pc[c].create = "contentDone" => Fit(c)
UndoingFit(c) ==
  LET p == made[c].plan
      l == p.line
  IN Undoing(c) =>
       /\ p.physical = "warehouse" => resv[l].status = "fulfilled"
       /\ qty[l] = undo[c].target => (Issued(l) <=> p.physical = "warehouse")
       /\ p.physical = "not_issued" /\ p.target = 0 => resv[l].status \in {"active", "released"} /\ resv[l].qty = p.initial
       /\ pc[c].cancel \in {"moneyBack", "finish"} => Fit(l)
FitRow(c) ==
  /\ made[c].step = "validated" \/ Claimed(c) => PlanFits(c)
  /\ Standing(c) /\ made[c].step # "exchange_created" /\ ~Undoing(c) => Kept(c)
  /\ PlannedFit(c) /\ ClaimedFit(c) /\ NewFit(c) /\ UndoingFit(c)
LinesFit == \A l \in Lines : Fit(l) \/ \E c \in Exchanges : Changing(c, l)
FitInv == LinesFit /\ \A c \in Exchanges : FitRow(c)

\* The step concerns the goods in nothing.
FitQuiet(c) ==
  /\ UNCHANGED <<qty, mark, resv>> /\ Only(c)
  /\ made'[c].status = made[c].status /\ made'[c].id = made[c].id /\ made'[c].plan = made[c].plan
  /\ made'[c].step = "validated" => made[c].step = "validated"
  /\ made'[c].step = "exchange_created" <=> made[c].step = "exchange_created"
  /\ made'[c].step = "old_done" <=> made[c].step = "old_done"
  /\ Undoing(c)' <=> Undoing(c)
  /\ Undoing(c) => undo'[c] = undo[c]
  /\ pc[c].create \in {"idle", "reserve"} /\ made[c].step = "exchange_created" => pc'[c].create \in {"idle", "reserve"}
  /\ pc'[c].create = "contentDone" => pc[c].create = "contentDone"
  /\ pc'[c].cancel \in {"moneyBack", "finish"} => pc[c].cancel \in {"moneyBack", "finish"}

\* What is said of a line and its rows follows the line and the rows.
LEMMA FitSame ==
  ASSUME UNCHANGED <<qty, mark, resv>>
  PROVE  /\ \A l : Fit(l)' <=> Fit(l)
         /\ \A d : made'[d].plan = made[d].plan =>
              (Found(d)' <=> Found(d)) /\ (Kept(d)' <=> Kept(d)) /\ (PlanFits(d)' <=> PlanFits(d))
BY DEF Fit, Found, Kept, PlanFits, Issued

\* The step of Quiet keeps the goods behind the lines.
LEMMA QuietFit ==
  ASSUME FitInv, NEW c \in Exchanges, FitQuiet(c)
  PROVE  FitInv'
<1>0. UNCHANGED <<qty, mark, resv>>
  BY DEF FitQuiet
<1>1. ASSUME NEW d \in Exchanges
      PROVE  /\ made'[d].status = made[d].status /\ made'[d].id = made[d].id /\ made'[d].plan = made[d].plan
             /\ made'[d].step = "validated" => made[d].step = "validated"
             /\ made'[d].step = "exchange_created" <=> made[d].step = "exchange_created"
             /\ made'[d].step = "old_done" <=> made[d].step = "old_done"
             /\ Undoing(d)' <=> Undoing(d)
             /\ Undoing(d) => undo'[d] = undo[d]
             /\ pc[d].create \in {"idle", "reserve"} /\ made[d].step = "exchange_created" => pc'[d].create \in {"idle", "reserve"}
             /\ pc'[d].create = "contentDone" => pc[d].create = "contentDone"
             /\ pc'[d].cancel \in {"moneyBack", "finish"} => pc[d].cancel \in {"moneyBack", "finish"}
  <2>1. CASE d = c
    BY <2>1 DEF FitQuiet
  <2>2. CASE d # c
    BY <2>2 DEF FitQuiet, Only, Undoing, Standing
  <2> QED
    BY <2>1, <2>2
<1>2. LinesFit'
  <2>1. \A d \in Exchanges, l \in Lines : Changing(d, l) => Changing(d, l)'
    BY <1>1 DEF Changing
  <2> QED
    BY <1>0, <2>1, FitSame DEF FitInv, LinesFit
<1>3. ASSUME NEW d \in Exchanges PROVE FitRow(d)'
  <2>1. FitRow(d) /\ made'[d].plan = made[d].plan
    BY <1>1 DEF FitInv
  <2>2. /\ \A l : Fit(l)' <=> Fit(l)
        /\ Found(d)' <=> Found(d)
        /\ Kept(d)' <=> Kept(d)
        /\ PlanFits(d)' <=> PlanFits(d)
    BY <1>0, <2>1, FitSame
  <2>3. /\ made'[d].step = "validated" \/ Claimed(d)' => PlanFits(d)'
        /\ Standing(d)' /\ made'[d].step # "exchange_created" /\ ~Undoing(d)' => Kept(d)'
    BY <1>1, <2>1, <2>2 DEF FitRow, Claimed, Standing
  <2>4. PlannedFit(d)'
    BY <1>0, <1>1, <2>1, <2>2 DEF FitRow, PlannedFit, Issued
  <2>5. ClaimedFit(d)'
    BY <1>1, <2>1, <2>2 DEF FitRow, ClaimedFit
  <2>6. NewFit(d)'
    BY <1>0, <1>1, <2>1, <2>2 DEF FitRow, NewFit, Issued
  <2>7. UndoingFit(d)'
    BY <1>0, <1>1, <2>1, <2>2 DEF FitRow, UndoingFit, Issued
  <2> QED
    BY <2>3, <2>4, <2>5, <2>6, <2>7 DEF FitRow
<1> QED
  BY <1>2, <1>3 DEF FitInv

\* Nobody but the handlers of an exchange is in the middle of anything.
Nobody(c) ==
  \A d \in Exchanges \ {c} :
    ~Undoing(d) /\ made[d].step \notin Midway \cup {"validated"} /\ pc[d] = [create |-> "idle", cancel |-> "idle"]

\* Beside an exchange that is worked on, or may be taken up, the others rest.
LEMMA NobodyElse ==
  ASSUME UnitInv, NEW c \in Exchanges, NEW op \in {"create", "cancel"}, Under(c, op) \/ (ExchangesApart /\ Alone(c, op))
  PROVE  Nobody(c)
<1> SUFFICES ASSUME NEW d \in Exchanges \ {c}
             PROVE  /\ ~Undoing(d) /\ made[d].step \notin Midway \cup {"validated"}
                    /\ pc[d] = [create |-> "idle", cancel |-> "idle"]
  BY DEF Nobody
<1>1. ~Under(d, "create") /\ ~Under(d, "cancel")
  BY DEF UnitInv, Exclusive, Alone
<1>2. pc[d] \in [create : CreatePlaces, cancel : CancelPlaces]
  BY DEF UnitInv, CoreInv, Typed, WorkTyped
<1> QED
  BY <1>1, <1>2 DEF Under, Undoing, Midway

\* A step of one exchange that changes one line.
LEMMA FitStep ==
  ASSUME FitInv, NEW c \in Exchanges, Only(c), Nobody(c), NEW m \in Lines,
         \A k \in Lines \ {m} : qty'[k] = qty[k] /\ mark'[k] = mark[k] /\ resv'[k] = resv[k],
         \A d \in Exchanges : made[d].step # "none" => made[d].plan.line \in Lines,
         \A d \in Exchanges : made[d].step = "none" => ~Standing(d),
         \A d \in Exchanges \ {c} : Standing(d) /\ made[d].plan.line = m => Kept(d)',
         Fit(m)' \/ Changing(c, m)',
         \A k \in Lines \ {m} : Changing(c, k) => Changing(c, k)' \/ Fit(k)',
         FitRow(c)'
  PROVE  FitInv'
<1>1. \A k \in Lines \ {m} : Fit(k)' <=> Fit(k)
  BY DEF Fit, Issued
<1>2. \A d \in Exchanges \ {c}, k \in Lines : ~Changing(d, k)
  BY DEF Nobody, Changing, Midway
<1>3. LinesFit'
  <2> SUFFICES ASSUME NEW k \in Lines PROVE Fit(k)' \/ \E d \in Exchanges : Changing(d, k)'
    BY DEF LinesFit
  <2>1. k # m => Fit(k) \/ Changing(c, k)
    BY <1>2 DEF FitInv, LinesFit
  <2> QED
    BY <1>1, <2>1
<1>4. ASSUME NEW d \in Exchanges \ {c} PROVE FitRow(d)'
  <2>1. FitRow(d) /\ made'[d] = made[d] /\ undo'[d] = undo[d] /\ ~Undoing(d)
        /\ made[d].step \notin Midway \cup {"validated"}
    BY DEF FitInv, Only, Nobody
  <2>2. ~Undoing(d)' /\ Standing(d)' = Standing(d) /\ Claimed(d)' = Claimed(d)
    BY <2>1 DEF Undoing, Standing, Claimed
  <2>3. Standing(d) => Kept(d)'
    <3>1. Standing(d) /\ made[d].plan.line # m => Kept(d)'
      <4>1. Standing(d) => Kept(d) /\ made[d].plan.line \in Lines
        BY <2>1 DEF FitRow, Midway
      <4> QED
        BY <2>1, <4>1 DEF Kept
    <3> QED
      BY <3>1
  <2>4. Claimed(d) => PlanFits(d)'
    BY <2>1 DEF FitRow, PlanFits
  <2> QED
    BY <2>1, <2>2, <2>3, <2>4 DEF FitRow, PlannedFit, ClaimedFit, NewFit, UndoingFit, Midway
<1> QED
  BY <1>3, <1>4 DEF FitInv

\* The step of Retry leaves the goods behind the lines alone.
LEMMA RetryNoFit == ASSUME CoreInv, NEW c \in Exchanges, Retry(c) PROVE FitQuiet(c)
<1>0. Staged(c) /\ WorkTyped /\ made[c] \in Exchange /\ undo[c] \in Cancellation /\ pc[c] \in [create : CreatePlaces, cancel : CancelPlaces]
  BY DEF CoreInv, Typed, WorkTyped
<1>1. UNCHANGED <<qty, mark, resv>> /\ Only(c)
  BY <1>0 DEF Retry, Goes, Refused, lineVars, Only, WorkTyped
<1>2. /\ made'[c].status = made[c].status /\ made'[c].id = made[c].id /\ made'[c].plan = made[c].plan
      /\ made'[c].step = "validated" => made[c].step = "validated"
      /\ made'[c].step = "exchange_created" <=> made[c].step = "exchange_created"
      /\ made'[c].step = "old_done" <=> made[c].step = "old_done"
  BY <1>0 DEF Retry, Goes, Refused, At, Staged, CreateStage, StepAt, WorkTyped, Exchange
<1>3. /\ Undoing(c)' <=> Undoing(c)
      /\ Undoing(c) => undo'[c] = undo[c]
  BY <1>0, <1>2 DEF Retry, Goes, Refused, At, Staged, CancelStage, Undoing, Standing, WorkTyped, Cancellation
<1>4. /\ pc[c].create \in {"idle", "reserve"} /\ made[c].step = "exchange_created" => pc'[c].create \in {"idle", "reserve"}
      /\ pc'[c].create = "contentDone" => pc[c].create = "contentDone"
      /\ pc'[c].cancel \in {"moneyBack", "finish"} => pc[c].cancel \in {"moneyBack", "finish"}
  BY <1>0 DEF Retry, Goes, Refused, At, Resumes, Staged, CreateStage, StepAt, WorkTyped
<1> QED
  BY <1>1, <1>2, <1>3, <1>4 DEF FitQuiet

\* The step of Drop leaves the goods behind the lines alone.
LEMMA DropNoFit == ASSUME CoreInv, NEW c \in Exchanges, Drop(c) PROVE FitQuiet(c)
<1>0. Staged(c) /\ WorkTyped /\ made[c] \in Exchange /\ undo[c] \in Cancellation /\ pc[c] \in [create : CreatePlaces, cancel : CancelPlaces]
  BY DEF CoreInv, Typed, WorkTyped
<1>1. UNCHANGED <<qty, mark, resv>> /\ Only(c)
  BY <1>0 DEF Drop, Goes, Refused, lineVars, Only, WorkTyped
<1>2. /\ made'[c].status = made[c].status /\ made'[c].id = made[c].id /\ made'[c].plan = made[c].plan
      /\ made'[c].step = "validated" => made[c].step = "validated"
      /\ made'[c].step = "exchange_created" <=> made[c].step = "exchange_created"
      /\ made'[c].step = "old_done" <=> made[c].step = "old_done"
  BY <1>0 DEF Drop, Goes, Refused, At, Staged, CreateStage, StepAt, WorkTyped, Exchange
<1>3. /\ Undoing(c)' <=> Undoing(c)
      /\ Undoing(c) => undo'[c] = undo[c]
  BY <1>0, <1>2 DEF Drop, Goes, Refused, At, Staged, CancelStage, Undoing, Standing, WorkTyped, Cancellation
<1>4. /\ pc[c].create \in {"idle", "reserve"} /\ made[c].step = "exchange_created" => pc'[c].create \in {"idle", "reserve"}
      /\ pc'[c].create = "contentDone" => pc[c].create = "contentDone"
      /\ pc'[c].cancel \in {"moneyBack", "finish"} => pc[c].cancel \in {"moneyBack", "finish"}
  BY <1>0 DEF Drop, Goes, Refused, At, Resumes, Staged, CreateStage, StepAt, WorkTyped
<1> QED
  BY <1>1, <1>2, <1>3, <1>4 DEF FitQuiet

\* The step of OldRow leaves the goods behind the lines alone.
LEMMA OldRowNoFit == ASSUME CoreInv, NEW c \in Exchanges, OldRow(c) PROVE FitQuiet(c)
<1>0. Staged(c) /\ WorkTyped /\ made[c] \in Exchange /\ undo[c] \in Cancellation /\ pc[c] \in [create : CreatePlaces, cancel : CancelPlaces]
  BY DEF CoreInv, Typed, WorkTyped
<1>1. UNCHANGED <<qty, mark, resv>> /\ Only(c)
  BY <1>0 DEF OldRow, Goes, Refused, lineVars, Only, WorkTyped
<1>2. /\ made'[c].status = made[c].status /\ made'[c].id = made[c].id /\ made'[c].plan = made[c].plan
      /\ made'[c].step = "validated" => made[c].step = "validated"
      /\ made'[c].step = "exchange_created" <=> made[c].step = "exchange_created"
      /\ made'[c].step = "old_done" <=> made[c].step = "old_done"
  BY <1>0 DEF OldRow, Goes, Refused, At, Staged, CreateStage, StepAt, WorkTyped, Exchange
<1>3. /\ Undoing(c)' <=> Undoing(c)
      /\ Undoing(c) => undo'[c] = undo[c]
  BY <1>0, <1>2 DEF OldRow, Goes, Refused, At, Staged, CancelStage, Undoing, Standing, WorkTyped, Cancellation
<1>4. /\ pc[c].create \in {"idle", "reserve"} /\ made[c].step = "exchange_created" => pc'[c].create \in {"idle", "reserve"}
      /\ pc'[c].create = "contentDone" => pc[c].create = "contentDone"
      /\ pc'[c].cancel \in {"moneyBack", "finish"} => pc[c].cancel \in {"moneyBack", "finish"}
  BY <1>0 DEF OldRow, Goes, Refused, At, Resumes, Staged, CreateStage, StepAt, WorkTyped
<1> QED
  BY <1>1, <1>2, <1>3, <1>4 DEF FitQuiet

\* The step of InsertIn leaves the goods behind the lines alone.
LEMMA InsertInNoFit == ASSUME CoreInv, NEW c \in Exchanges, InsertIn(c) PROVE FitQuiet(c)
<1>0. Staged(c) /\ WorkTyped /\ made[c] \in Exchange /\ undo[c] \in Cancellation /\ pc[c] \in [create : CreatePlaces, cancel : CancelPlaces]
  BY DEF CoreInv, Typed, WorkTyped
<1>1. UNCHANGED <<qty, mark, resv>> /\ Only(c)
  BY <1>0 DEF InsertIn, Goes, Refused, lineVars, Only, WorkTyped
<1>2. /\ made'[c].status = made[c].status /\ made'[c].id = made[c].id /\ made'[c].plan = made[c].plan
      /\ made'[c].step = "validated" => made[c].step = "validated"
      /\ made'[c].step = "exchange_created" <=> made[c].step = "exchange_created"
      /\ made'[c].step = "old_done" <=> made[c].step = "old_done"
  BY <1>0 DEF InsertIn, Goes, Refused, At, Staged, CreateStage, StepAt, WorkTyped, Exchange
<1>3. /\ Undoing(c)' <=> Undoing(c)
      /\ Undoing(c) => undo'[c] = undo[c]
  BY <1>0, <1>2 DEF InsertIn, Goes, Refused, At, Staged, CancelStage, Undoing, Standing, WorkTyped, Cancellation
<1>4. /\ pc[c].create \in {"idle", "reserve"} /\ made[c].step = "exchange_created" => pc'[c].create \in {"idle", "reserve"}
      /\ pc'[c].create = "contentDone" => pc[c].create = "contentDone"
      /\ pc'[c].cancel \in {"moneyBack", "finish"} => pc[c].cancel \in {"moneyBack", "finish"}
  BY <1>0 DEF InsertIn, Goes, Refused, At, Resumes, Staged, CreateStage, StepAt, WorkTyped
<1> QED
  BY <1>1, <1>2, <1>3, <1>4 DEF FitQuiet

\* The step of ApplyIn leaves the goods behind the lines alone.
LEMMA ApplyInNoFit == ASSUME CoreInv, NEW c \in Exchanges, ApplyIn(c) PROVE FitQuiet(c)
<1>0. Staged(c) /\ WorkTyped /\ made[c] \in Exchange /\ undo[c] \in Cancellation /\ pc[c] \in [create : CreatePlaces, cancel : CancelPlaces]
  BY DEF CoreInv, Typed, WorkTyped
<1>1. UNCHANGED <<qty, mark, resv>> /\ Only(c)
  BY <1>0 DEF ApplyIn, Goes, Refused, lineVars, Only, WorkTyped
<1>2. /\ made'[c].status = made[c].status /\ made'[c].id = made[c].id /\ made'[c].plan = made[c].plan
      /\ made'[c].step = "validated" => made[c].step = "validated"
      /\ made'[c].step = "exchange_created" <=> made[c].step = "exchange_created"
      /\ made'[c].step = "old_done" <=> made[c].step = "old_done"
  BY <1>0 DEF ApplyIn, Goes, Refused, At, Staged, CreateStage, StepAt, WorkTyped, Exchange
<1>3. /\ Undoing(c)' <=> Undoing(c)
      /\ Undoing(c) => undo'[c] = undo[c]
  BY <1>0, <1>2 DEF ApplyIn, Goes, Refused, At, Staged, CancelStage, Undoing, Standing, WorkTyped, Cancellation
<1>4. /\ pc[c].create \in {"idle", "reserve"} /\ made[c].step = "exchange_created" => pc'[c].create \in {"idle", "reserve"}
      /\ pc'[c].create = "contentDone" => pc[c].create = "contentDone"
      /\ pc'[c].cancel \in {"moneyBack", "finish"} => pc[c].cancel \in {"moneyBack", "finish"}
  BY <1>0 DEF ApplyIn, Goes, Refused, At, Resumes, Staged, CreateStage, StepAt, WorkTyped
<1> QED
  BY <1>1, <1>2, <1>3, <1>4 DEF FitQuiet

\* The step of NewRow leaves the goods behind the lines alone.
LEMMA NewRowNoFit == ASSUME CoreInv, NEW c \in Exchanges, NewRow(c) PROVE FitQuiet(c)
<1>0. Staged(c) /\ WorkTyped /\ made[c] \in Exchange /\ undo[c] \in Cancellation /\ pc[c] \in [create : CreatePlaces, cancel : CancelPlaces]
  BY DEF CoreInv, Typed, WorkTyped
<1>1. UNCHANGED <<qty, mark, resv>> /\ Only(c)
  BY <1>0 DEF NewRow, Goes, Refused, lineVars, Only, WorkTyped
<1>2. /\ made'[c].status = made[c].status /\ made'[c].id = made[c].id /\ made'[c].plan = made[c].plan
      /\ made'[c].step = "validated" => made[c].step = "validated"
      /\ made'[c].step = "exchange_created" <=> made[c].step = "exchange_created"
      /\ made'[c].step = "old_done" <=> made[c].step = "old_done"
  BY <1>0 DEF NewRow, Goes, Refused, At, Staged, CreateStage, StepAt, WorkTyped, Exchange
<1>3. /\ Undoing(c)' <=> Undoing(c)
      /\ Undoing(c) => undo'[c] = undo[c]
  BY <1>0, <1>2 DEF NewRow, Goes, Refused, At, Staged, CancelStage, Undoing, Standing, WorkTyped, Cancellation
<1>4. /\ pc[c].create \in {"idle", "reserve"} /\ made[c].step = "exchange_created" => pc'[c].create \in {"idle", "reserve"}
      /\ pc'[c].create = "contentDone" => pc[c].create = "contentDone"
      /\ pc'[c].cancel \in {"moneyBack", "finish"} => pc[c].cancel \in {"moneyBack", "finish"}
  BY <1>0 DEF NewRow, Goes, Refused, At, Resumes, Staged, CreateStage, StepAt, WorkTyped
<1> QED
  BY <1>1, <1>2, <1>3, <1>4 DEF FitQuiet

\* The step of InsertOut leaves the goods behind the lines alone.
LEMMA InsertOutNoFit == ASSUME CoreInv, NEW c \in Exchanges, InsertOut(c) PROVE FitQuiet(c)
<1>0. Staged(c) /\ WorkTyped /\ made[c] \in Exchange /\ undo[c] \in Cancellation /\ pc[c] \in [create : CreatePlaces, cancel : CancelPlaces]
  BY DEF CoreInv, Typed, WorkTyped
<1>1. UNCHANGED <<qty, mark, resv>> /\ Only(c)
  BY <1>0 DEF InsertOut, Goes, Refused, lineVars, Only, WorkTyped
<1>2. /\ made'[c].status = made[c].status /\ made'[c].id = made[c].id /\ made'[c].plan = made[c].plan
      /\ made'[c].step = "validated" => made[c].step = "validated"
      /\ made'[c].step = "exchange_created" <=> made[c].step = "exchange_created"
      /\ made'[c].step = "old_done" <=> made[c].step = "old_done"
  BY <1>0 DEF InsertOut, Goes, Refused, At, Staged, CreateStage, StepAt, WorkTyped, Exchange
<1>3. /\ Undoing(c)' <=> Undoing(c)
      /\ Undoing(c) => undo'[c] = undo[c]
  BY <1>0, <1>2 DEF InsertOut, Goes, Refused, At, Staged, CancelStage, Undoing, Standing, WorkTyped, Cancellation
<1>4. /\ pc[c].create \in {"idle", "reserve"} /\ made[c].step = "exchange_created" => pc'[c].create \in {"idle", "reserve"}
      /\ pc'[c].create = "contentDone" => pc[c].create = "contentDone"
      /\ pc'[c].cancel \in {"moneyBack", "finish"} => pc[c].cancel \in {"moneyBack", "finish"}
  BY <1>0 DEF InsertOut, Goes, Refused, At, Resumes, Staged, CreateStage, StepAt, WorkTyped
<1> QED
  BY <1>1, <1>2, <1>3, <1>4 DEF FitQuiet

\* The step of LinkOut leaves the goods behind the lines alone.
LEMMA LinkOutNoFit == ASSUME CoreInv, NEW c \in Exchanges, LinkOut(c) PROVE FitQuiet(c)
<1>0. Staged(c) /\ WorkTyped /\ made[c] \in Exchange /\ undo[c] \in Cancellation /\ pc[c] \in [create : CreatePlaces, cancel : CancelPlaces]
  BY DEF CoreInv, Typed, WorkTyped
<1>1. UNCHANGED <<qty, mark, resv>> /\ Only(c)
  BY <1>0 DEF LinkOut, Goes, Refused, lineVars, Only, WorkTyped
<1>2. /\ made'[c].status = made[c].status /\ made'[c].id = made[c].id /\ made'[c].plan = made[c].plan
      /\ made'[c].step = "validated" => made[c].step = "validated"
      /\ made'[c].step = "exchange_created" <=> made[c].step = "exchange_created"
      /\ made'[c].step = "old_done" <=> made[c].step = "old_done"
  BY <1>0 DEF LinkOut, Goes, Refused, At, Staged, CreateStage, StepAt, WorkTyped, Exchange
<1>3. /\ Undoing(c)' <=> Undoing(c)
      /\ Undoing(c) => undo'[c] = undo[c]
  BY <1>0, <1>2 DEF LinkOut, Goes, Refused, At, Staged, CancelStage, Undoing, Standing, WorkTyped, Cancellation
<1>4. /\ pc[c].create \in {"idle", "reserve"} /\ made[c].step = "exchange_created" => pc'[c].create \in {"idle", "reserve"}
      /\ pc'[c].create = "contentDone" => pc[c].create = "contentDone"
      /\ pc'[c].cancel \in {"moneyBack", "finish"} => pc[c].cancel \in {"moneyBack", "finish"}
  BY <1>0 DEF LinkOut, Goes, Refused, At, Resumes, Staged, CreateStage, StepAt, WorkTyped
<1> QED
  BY <1>1, <1>2, <1>3, <1>4 DEF FitQuiet

\* The step of BookMoney leaves the goods behind the lines alone.
LEMMA BookMoneyNoFit == ASSUME CoreInv, NEW c \in Exchanges, BookMoney(c) PROVE FitQuiet(c)
<1>0. Staged(c) /\ WorkTyped /\ made[c] \in Exchange /\ undo[c] \in Cancellation /\ pc[c] \in [create : CreatePlaces, cancel : CancelPlaces]
  BY DEF CoreInv, Typed, WorkTyped
<1>1. UNCHANGED <<qty, mark, resv>> /\ Only(c)
  BY <1>0 DEF BookMoney, Goes, Refused, lineVars, Only, WorkTyped
<1>2. /\ made'[c].status = made[c].status /\ made'[c].id = made[c].id /\ made'[c].plan = made[c].plan
      /\ made'[c].step = "validated" => made[c].step = "validated"
      /\ made'[c].step = "exchange_created" <=> made[c].step = "exchange_created"
      /\ made'[c].step = "old_done" <=> made[c].step = "old_done"
  BY <1>0 DEF BookMoney, Goes, Refused, At, Staged, CreateStage, StepAt, WorkTyped, Exchange
<1>3. /\ Undoing(c)' <=> Undoing(c)
      /\ Undoing(c) => undo'[c] = undo[c]
  BY <1>0, <1>2 DEF BookMoney, Goes, Refused, At, Staged, CancelStage, Undoing, Standing, WorkTyped, Cancellation
<1>4. /\ pc[c].create \in {"idle", "reserve"} /\ made[c].step = "exchange_created" => pc'[c].create \in {"idle", "reserve"}
      /\ pc'[c].create = "contentDone" => pc[c].create = "contentDone"
      /\ pc'[c].cancel \in {"moneyBack", "finish"} => pc[c].cancel \in {"moneyBack", "finish"}
  BY <1>0 DEF BookMoney, Goes, Refused, At, Resumes, Staged, CreateStage, StepAt, WorkTyped
<1> QED
  BY <1>1, <1>2, <1>3, <1>4 DEF FitQuiet

\* The step of SetTotal leaves the goods behind the lines alone.
LEMMA SetTotalNoFit == ASSUME CoreInv, NEW c \in Exchanges, SetTotal(c) PROVE FitQuiet(c)
<1>0. Staged(c) /\ WorkTyped /\ made[c] \in Exchange /\ undo[c] \in Cancellation /\ pc[c] \in [create : CreatePlaces, cancel : CancelPlaces]
  BY DEF CoreInv, Typed, WorkTyped
<1>1. UNCHANGED <<qty, mark, resv>> /\ Only(c)
  BY <1>0 DEF SetTotal, Goes, Refused, lineVars, Only, WorkTyped
<1>2. /\ made'[c].status = made[c].status /\ made'[c].id = made[c].id /\ made'[c].plan = made[c].plan
      /\ made'[c].step = "validated" => made[c].step = "validated"
      /\ made'[c].step = "exchange_created" <=> made[c].step = "exchange_created"
      /\ made'[c].step = "old_done" <=> made[c].step = "old_done"
  BY <1>0 DEF SetTotal, Goes, Refused, At, Staged, CreateStage, StepAt, WorkTyped, Exchange
<1>3. /\ Undoing(c)' <=> Undoing(c)
      /\ Undoing(c) => undo'[c] = undo[c]
  BY <1>0, <1>2 DEF SetTotal, Goes, Refused, At, Staged, CancelStage, Undoing, Standing, WorkTyped, Cancellation
<1>4. /\ pc[c].create \in {"idle", "reserve"} /\ made[c].step = "exchange_created" => pc'[c].create \in {"idle", "reserve"}
      /\ pc'[c].create = "contentDone" => pc[c].create = "contentDone"
      /\ pc'[c].cancel \in {"moneyBack", "finish"} => pc[c].cancel \in {"moneyBack", "finish"}
  BY <1>0 DEF SetTotal, Goes, Refused, At, Resumes, Staged, CreateStage, StepAt, WorkTyped
<1> QED
  BY <1>1, <1>2, <1>3, <1>4 DEF FitQuiet

\* The step of Complete leaves the goods behind the lines alone.
LEMMA CompleteNoFit == ASSUME CoreInv, NEW c \in Exchanges, Complete(c) PROVE FitQuiet(c)
<1>0. Staged(c) /\ WorkTyped /\ made[c] \in Exchange /\ undo[c] \in Cancellation /\ pc[c] \in [create : CreatePlaces, cancel : CancelPlaces]
  BY DEF CoreInv, Typed, WorkTyped
<1>1. UNCHANGED <<qty, mark, resv>> /\ Only(c)
  BY <1>0 DEF Complete, Goes, Refused, lineVars, Only, WorkTyped
<1>2. /\ made'[c].status = made[c].status /\ made'[c].id = made[c].id /\ made'[c].plan = made[c].plan
      /\ made'[c].step = "validated" => made[c].step = "validated"
      /\ made'[c].step = "exchange_created" <=> made[c].step = "exchange_created"
      /\ made'[c].step = "old_done" <=> made[c].step = "old_done"
  BY <1>0 DEF Complete, Goes, Refused, At, Staged, CreateStage, StepAt, WorkTyped, Exchange
<1>3. /\ Undoing(c)' <=> Undoing(c)
      /\ Undoing(c) => undo'[c] = undo[c]
  BY <1>0, <1>2 DEF Complete, Goes, Refused, At, Staged, CancelStage, Undoing, Standing, WorkTyped, Cancellation
<1>4. /\ pc[c].create \in {"idle", "reserve"} /\ made[c].step = "exchange_created" => pc'[c].create \in {"idle", "reserve"}
      /\ pc'[c].create = "contentDone" => pc[c].create = "contentDone"
      /\ pc'[c].cancel \in {"moneyBack", "finish"} => pc[c].cancel \in {"moneyBack", "finish"}
  BY <1>0 DEF Complete, Goes, Refused, At, Resumes, Staged, CreateStage, StepAt, WorkTyped
<1> QED
  BY <1>1, <1>2, <1>3, <1>4 DEF FitQuiet

\* The step of BeginCancel leaves the goods behind the lines alone.
LEMMA BeginCancelNoFit == ASSUME CoreInv, NEW c \in Exchanges, BeginCancel(c) PROVE FitQuiet(c)
<1>0. Staged(c) /\ WorkTyped /\ made[c] \in Exchange /\ undo[c] \in Cancellation /\ pc[c] \in [create : CreatePlaces, cancel : CancelPlaces]
  BY DEF CoreInv, Typed, WorkTyped
<1>1. UNCHANGED <<qty, mark, resv>> /\ Only(c)
  BY <1>0 DEF BeginCancel, Goes, Refused, lineVars, Only, WorkTyped
<1>2. /\ made'[c].status = made[c].status /\ made'[c].id = made[c].id /\ made'[c].plan = made[c].plan
      /\ made'[c].step = "validated" => made[c].step = "validated"
      /\ made'[c].step = "exchange_created" <=> made[c].step = "exchange_created"
      /\ made'[c].step = "old_done" <=> made[c].step = "old_done"
  BY <1>0 DEF BeginCancel, Goes, Refused, At, Staged, CreateStage, StepAt, WorkTyped, Exchange
<1>3. /\ Undoing(c)' <=> Undoing(c)
      /\ Undoing(c) => undo'[c] = undo[c]
  BY <1>0, <1>2 DEF BeginCancel, Goes, Refused, At, Staged, CancelStage, Undoing, Standing, WorkTyped, Cancellation
<1>4. /\ pc[c].create \in {"idle", "reserve"} /\ made[c].step = "exchange_created" => pc'[c].create \in {"idle", "reserve"}
      /\ pc'[c].create = "contentDone" => pc[c].create = "contentDone"
      /\ pc'[c].cancel \in {"moneyBack", "finish"} => pc[c].cancel \in {"moneyBack", "finish"}
  BY <1>0 DEF BeginCancel, Goes, Refused, At, Resumes, Staged, CreateStage, StepAt, WorkTyped
<1> QED
  BY <1>1, <1>2, <1>3, <1>4 DEF FitQuiet

\* The step of CancelIn leaves the goods behind the lines alone.
LEMMA CancelInNoFit == ASSUME CoreInv, NEW c \in Exchanges, CancelIn(c) PROVE FitQuiet(c)
<1>0. Staged(c) /\ WorkTyped /\ made[c] \in Exchange /\ undo[c] \in Cancellation /\ pc[c] \in [create : CreatePlaces, cancel : CancelPlaces]
  BY DEF CoreInv, Typed, WorkTyped
<1>1. UNCHANGED <<qty, mark, resv>> /\ Only(c)
  BY <1>0 DEF CancelIn, Goes, Refused, lineVars, Only, WorkTyped
<1>2. /\ made'[c].status = made[c].status /\ made'[c].id = made[c].id /\ made'[c].plan = made[c].plan
      /\ made'[c].step = "validated" => made[c].step = "validated"
      /\ made'[c].step = "exchange_created" <=> made[c].step = "exchange_created"
      /\ made'[c].step = "old_done" <=> made[c].step = "old_done"
  BY <1>0 DEF CancelIn, Goes, Refused, At, Staged, CreateStage, StepAt, WorkTyped, Exchange
<1>3. /\ Undoing(c)' <=> Undoing(c)
      /\ Undoing(c) => undo'[c] = undo[c]
  BY <1>0, <1>2 DEF CancelIn, Goes, Refused, At, Staged, CancelStage, Undoing, Standing, WorkTyped, Cancellation
<1>4. /\ pc[c].create \in {"idle", "reserve"} /\ made[c].step = "exchange_created" => pc'[c].create \in {"idle", "reserve"}
      /\ pc'[c].create = "contentDone" => pc[c].create = "contentDone"
      /\ pc'[c].cancel \in {"moneyBack", "finish"} => pc[c].cancel \in {"moneyBack", "finish"}
  BY <1>0 DEF CancelIn, Goes, Refused, At, Resumes, Staged, CreateStage, StepAt, WorkTyped
<1> QED
  BY <1>1, <1>2, <1>3, <1>4 DEF FitQuiet

\* The step of MoneyBack leaves the goods behind the lines alone.
LEMMA MoneyBackNoFit == ASSUME CoreInv, NEW c \in Exchanges, MoneyBack(c) PROVE FitQuiet(c)
<1>0. Staged(c) /\ WorkTyped /\ made[c] \in Exchange /\ undo[c] \in Cancellation /\ pc[c] \in [create : CreatePlaces, cancel : CancelPlaces]
  BY DEF CoreInv, Typed, WorkTyped
<1>1. UNCHANGED <<qty, mark, resv>> /\ Only(c)
  BY <1>0 DEF MoneyBack, Goes, Refused, lineVars, Only, WorkTyped
<1>2. /\ made'[c].status = made[c].status /\ made'[c].id = made[c].id /\ made'[c].plan = made[c].plan
      /\ made'[c].step = "validated" => made[c].step = "validated"
      /\ made'[c].step = "exchange_created" <=> made[c].step = "exchange_created"
      /\ made'[c].step = "old_done" <=> made[c].step = "old_done"
  BY <1>0 DEF MoneyBack, Goes, Refused, At, Staged, CreateStage, StepAt, WorkTyped, Exchange
<1>3. /\ Undoing(c)' <=> Undoing(c)
      /\ Undoing(c) => undo'[c] = undo[c]
  BY <1>0, <1>2 DEF MoneyBack, Goes, Refused, At, Staged, CancelStage, Undoing, Standing, WorkTyped, Cancellation
<1>4. /\ pc[c].create \in {"idle", "reserve"} /\ made[c].step = "exchange_created" => pc'[c].create \in {"idle", "reserve"}
      /\ pc'[c].create = "contentDone" => pc[c].create = "contentDone"
      /\ pc'[c].cancel \in {"moneyBack", "finish"} => pc[c].cancel \in {"moneyBack", "finish"}
  BY <1>0 DEF MoneyBack, Goes, Refused, At, Resumes, Staged, CreateStage, StepAt, WorkTyped
<1> QED
  BY <1>1, <1>2, <1>3, <1>4 DEF FitQuiet

\* The step of CompleteCancel leaves the goods behind the lines alone.
LEMMA CompleteCancelNoFit == ASSUME CoreInv, NEW c \in Exchanges, CompleteCancel(c) PROVE FitQuiet(c)
<1>0. Staged(c) /\ WorkTyped /\ made[c] \in Exchange /\ undo[c] \in Cancellation /\ pc[c] \in [create : CreatePlaces, cancel : CancelPlaces]
  BY DEF CoreInv, Typed, WorkTyped
<1>1. UNCHANGED <<qty, mark, resv>> /\ Only(c)
  BY <1>0 DEF CompleteCancel, Goes, Refused, lineVars, Only, WorkTyped
<1>2. /\ made'[c].status = made[c].status /\ made'[c].id = made[c].id /\ made'[c].plan = made[c].plan
      /\ made'[c].step = "validated" => made[c].step = "validated"
      /\ made'[c].step = "exchange_created" <=> made[c].step = "exchange_created"
      /\ made'[c].step = "old_done" <=> made[c].step = "old_done"
  BY <1>0 DEF CompleteCancel, Goes, Refused, At, Staged, CreateStage, StepAt, WorkTyped, Exchange
<1>3. /\ Undoing(c)' <=> Undoing(c)
      /\ Undoing(c) => undo'[c] = undo[c]
  BY <1>0, <1>2 DEF CompleteCancel, Goes, Refused, At, Staged, CancelStage, Undoing, Standing, WorkTyped, Cancellation
<1>4. /\ pc[c].create \in {"idle", "reserve"} /\ made[c].step = "exchange_created" => pc'[c].create \in {"idle", "reserve"}
      /\ pc'[c].create = "contentDone" => pc[c].create = "contentDone"
      /\ pc'[c].cancel \in {"moneyBack", "finish"} => pc[c].cancel \in {"moneyBack", "finish"}
  BY <1>0 DEF CompleteCancel, Goes, Refused, At, Resumes, Staged, CreateStage, StepAt, WorkTyped
<1> QED
  BY <1>1, <1>2, <1>3, <1>4 DEF FitQuiet

\* The step that ends the new line leaves the goods behind the lines alone.
LEMMA AdvanceNewNoFit == ASSUME CoreInv, NEW c \in Exchanges, Advance(c, "newDone", "new_done", "money") PROVE FitQuiet(c)
<1>0. Staged(c) /\ WorkTyped /\ made[c] \in Exchange /\ undo[c] \in Cancellation /\ pc[c] \in [create : CreatePlaces, cancel : CancelPlaces]
  BY DEF CoreInv, Typed, WorkTyped
<1>1. UNCHANGED <<qty, mark, resv>> /\ Only(c)
  BY <1>0 DEF Advance, Goes, Refused, lineVars, Only, WorkTyped
<1>2. /\ made'[c].status = made[c].status /\ made'[c].id = made[c].id /\ made'[c].plan = made[c].plan
      /\ made'[c].step = "validated" => made[c].step = "validated"
      /\ made'[c].step = "exchange_created" <=> made[c].step = "exchange_created"
      /\ made'[c].step = "old_done" <=> made[c].step = "old_done"
  BY <1>0 DEF Advance, Goes, Refused, At, Staged, CreateStage, StepAt, WorkTyped, Exchange
<1>3. /\ Undoing(c)' <=> Undoing(c)
      /\ Undoing(c) => undo'[c] = undo[c]
  BY <1>0, <1>2 DEF Advance, Goes, Refused, At, Staged, CancelStage, Undoing, Standing, WorkTyped, Cancellation
<1>4. /\ pc[c].create \in {"idle", "reserve"} /\ made[c].step = "exchange_created" => pc'[c].create \in {"idle", "reserve"}
      /\ pc'[c].create = "contentDone" => pc[c].create = "contentDone"
      /\ pc'[c].cancel \in {"moneyBack", "finish"} => pc[c].cancel \in {"moneyBack", "finish"}
  BY <1>0 DEF Advance, Goes, Refused, At, Resumes, Staged, CreateStage, StepAt, WorkTyped
<1> QED
  BY <1>1, <1>2, <1>3, <1>4 DEF FitQuiet

\* The step that ends the money leaves the goods behind the lines alone.
LEMMA AdvanceMoneyNoFit == ASSUME CoreInv, NEW c \in Exchanges, Advance(c, "moneyDone", "finances_done", "complete") PROVE FitQuiet(c)
<1>0. Staged(c) /\ WorkTyped /\ made[c] \in Exchange /\ undo[c] \in Cancellation /\ pc[c] \in [create : CreatePlaces, cancel : CancelPlaces]
  BY DEF CoreInv, Typed, WorkTyped
<1>1. UNCHANGED <<qty, mark, resv>> /\ Only(c)
  BY <1>0 DEF Advance, Goes, Refused, lineVars, Only, WorkTyped
<1>2. /\ made'[c].status = made[c].status /\ made'[c].id = made[c].id /\ made'[c].plan = made[c].plan
      /\ made'[c].step = "validated" => made[c].step = "validated"
      /\ made'[c].step = "exchange_created" <=> made[c].step = "exchange_created"
      /\ made'[c].step = "old_done" <=> made[c].step = "old_done"
  BY <1>0 DEF Advance, Goes, Refused, At, Staged, CreateStage, StepAt, WorkTyped, Exchange
<1>3. /\ Undoing(c)' <=> Undoing(c)
      /\ Undoing(c) => undo'[c] = undo[c]
  BY <1>0, <1>2 DEF Advance, Goes, Refused, At, Staged, CancelStage, Undoing, Standing, WorkTyped, Cancellation
<1>4. /\ pc[c].create \in {"idle", "reserve"} /\ made[c].step = "exchange_created" => pc'[c].create \in {"idle", "reserve"}
      /\ pc'[c].create = "contentDone" => pc[c].create = "contentDone"
      /\ pc'[c].cancel \in {"moneyBack", "finish"} => pc[c].cancel \in {"moneyBack", "finish"}
  BY <1>0 DEF Advance, Goes, Refused, At, Resumes, Staged, CreateStage, StepAt, WorkTyped
<1> QED
  BY <1>1, <1>2, <1>3, <1>4 DEF FitQuiet

\* A call that dies leaves the goods behind the lines alone.
LEMMA CrashNoFit == ASSUME CoreInv, NEW c \in Exchanges, NEW op \in {"create", "cancel"}, Crash(c, op) PROVE FitQuiet(c)
<1>0. Staged(c) /\ WorkTyped /\ made[c] \in Exchange /\ undo[c] \in Cancellation /\ pc[c] \in [create : CreatePlaces, cancel : CancelPlaces]
  BY DEF CoreInv, Typed, WorkTyped
<1>1. UNCHANGED <<qty, mark, resv>> /\ Only(c)
  BY <1>0 DEF Crash, Goes, Refused, lineVars, Only, WorkTyped
<1>2. /\ made'[c].status = made[c].status /\ made'[c].id = made[c].id /\ made'[c].plan = made[c].plan
      /\ made'[c].step = "validated" => made[c].step = "validated"
      /\ made'[c].step = "exchange_created" <=> made[c].step = "exchange_created"
      /\ made'[c].step = "old_done" <=> made[c].step = "old_done"
  BY <1>0 DEF Crash, Goes, Refused, At, Staged, CreateStage, StepAt, WorkTyped, Exchange
<1>3. /\ Undoing(c)' <=> Undoing(c)
      /\ Undoing(c) => undo'[c] = undo[c]
  BY <1>0, <1>2 DEF Crash, Goes, Refused, At, Staged, CancelStage, Undoing, Standing, WorkTyped, Cancellation
<1>4. /\ pc[c].create \in {"idle", "reserve"} /\ made[c].step = "exchange_created" => pc'[c].create \in {"idle", "reserve"}
      /\ pc'[c].create = "contentDone" => pc[c].create = "contentDone"
      /\ pc'[c].cancel \in {"moneyBack", "finish"} => pc[c].cancel \in {"moneyBack", "finish"}
  BY <1>0 DEF Crash, Goes, Refused, At, Resumes, Staged, CreateStage, StepAt, WorkTyped
<1> QED
  BY <1>1, <1>2, <1>3, <1>4 DEF FitQuiet

\* A request that is refused leaves the goods behind the lines alone.
LEMMA RefusedNoFit == ASSUME CoreInv, NEW c \in Exchanges, NEW op \in {"create", "cancel"}, Refused(c, op) PROVE FitQuiet(c)
<1>0. Staged(c) /\ WorkTyped /\ made[c] \in Exchange /\ undo[c] \in Cancellation /\ pc[c] \in [create : CreatePlaces, cancel : CancelPlaces]
  BY DEF CoreInv, Typed, WorkTyped
<1>1. UNCHANGED <<qty, mark, resv>> /\ Only(c)
  BY <1>0 DEF Refused, Goes, lineVars, Only, WorkTyped
<1>2. /\ made'[c].status = made[c].status /\ made'[c].id = made[c].id /\ made'[c].plan = made[c].plan
      /\ made'[c].step = "validated" => made[c].step = "validated"
      /\ made'[c].step = "exchange_created" <=> made[c].step = "exchange_created"
      /\ made'[c].step = "old_done" <=> made[c].step = "old_done"
  BY <1>0 DEF Refused, Goes, At, Staged, CreateStage, StepAt, WorkTyped, Exchange
<1>3. /\ Undoing(c)' <=> Undoing(c)
      /\ Undoing(c) => undo'[c] = undo[c]
  BY <1>0, <1>2 DEF Refused, Goes, At, Staged, CancelStage, Undoing, Standing, WorkTyped, Cancellation
<1>4. /\ pc[c].create \in {"idle", "reserve"} /\ made[c].step = "exchange_created" => pc'[c].create \in {"idle", "reserve"}
      /\ pc'[c].create = "contentDone" => pc[c].create = "contentDone"
      /\ pc'[c].cancel \in {"moneyBack", "finish"} => pc[c].cancel \in {"moneyBack", "finish"}
  BY <1>0 DEF Refused, Goes, At, Resumes, Staged, CreateStage, StepAt, WorkTyped
<1> QED
  BY <1>1, <1>2, <1>3, <1>4 DEF FitQuiet

\* The line of a planned exchange is one of the order's.
LEMMA PlanLines ==
  ASSUME CoreInv
  PROVE  /\ \A d \in Exchanges : made[d].step # "none" => made[d].plan.line \in Lines
         /\ \A d \in Exchanges : made[d].step = "none" => ~Standing(d)
BY PlansOf DEF Plans, CoreInv, Staged, CreateStage, Standing

\* Exchanges whose old lines keep their rows keep what they left there.
LEMMA OthersKept ==
  ASSUME FitInv, NEW c \in Exchanges, Only(c), Nobody(c), NEW d \in Exchanges \ {c}, Standing(d),
         resv'[made[d].plan.line] = resv[made[d].plan.line]
  PROVE  Kept(d)'
<1>1. Kept(d) /\ made'[d] = made[d]
  BY DEF FitInv, FitRow, Nobody, Only, Midway
<1> QED
  BY <1>1 DEF Kept

\* The step of Plan keeps the goods behind the lines.
LEMMA PlanFit ==
  ASSUME UnitInv, FitInv, ExchangesApart, NEW c \in Exchanges, Plan(c)
  PROVE  FitInv'
<1>0. /\ CoreInv /\ WorkTyped /\ LinesTyped /\ Staged(c) /\ made[c].step = "none" /\ made[c] \in Exchange
      /\ Alone(c, "create")
  BY DEF UnitInv, CoreInv, Typed, WorkTyped, Plan
<1>1. Nobody(c)
  BY <1>0, NobodyElse
<1>2. UNCHANGED <<qty, mark, resv, undo>> /\ pc' = [pc EXCEPT ![c].create = "claim"]
  BY DEF Plan, Goes, lineVars
<1>3. ~Under(c, "create") /\ ~Under(c, "cancel")
  BY <1>0 DEF Plan, At, Under, Alone, Staged, CancelStage, Claimed, CreateStage
<1>4. PICK l \in Lines, take \in Takes, give \in Gives, physical \in {"not_issued", "warehouse"},
           shipped \in BOOLEAN, pay \in 0..1 :
        /\ Fits(c, l, take, give, physical, pay)
        /\ Validated(c, PlanOf(c, l, take, give, physical, shipped, pay))
  BY <1>0, PlanMakes
<1> DEFINE p == PlanOf(c, l, take, give, physical, shipped, pay)
<1>5. /\ made'[c].step = "validated" /\ made'[c].plan = p /\ made'[c].id = made[c].id /\ made'[c].status = made[c].status
      /\ \A d \in Exchanges \ {c} : made'[d] = made[d]
  BY <1>0, <1>4 DEF Validated, Exchange
<1>6. /\ p.line = l /\ p.initial = qty[l] /\ p.physical = physical
      /\ p.handover = (physical # "not_issued" /\ ~Issued(l))
      /\ p.snapshot = IF physical = "not_issued" THEN resv[l] ELSE Nothing
  BY DEF PlanOf
<1> HIDE DEF p
<1>7. Only(c)
  BY <1>0, <1>2, <1>5 DEF Only, WorkTyped
<1>8. Fit(l) /\ qty[l] > 0
  <2>1. \A d \in Exchanges : ~Changing(d, l)
    BY <1>0, <1>1, <1>3 DEF Nobody, Changing, Midway, Undoing, Under
  <2>2. qty[l] >= take + returned[l] /\ take \in Nat \ {0} /\ returned[l] \in Nat /\ qty[l] \in Nat
    BY <1>0, <1>4, ExchangeAssumption DEF Fits, Available, LinesTyped
  <2> QED
    BY <2>1, <2>2 DEF FitInv, LinesFit
<1>9. Undoing(c)' = Undoing(c) /\ ~Undoing(c)
  BY <1>2, <1>3, <1>5 DEF Undoing, Standing, Under
<1>10. PlanFits(c)' /\ PlannedFit(c)'
  <2>1. physical = "not_issued" => ~Issued(l) /\ resv[l] = [status |-> "active", qty |-> qty[l]]
    BY <1>4, <1>8 DEF Fits, Fit
  <2>2. PlanFits(c)'
    BY <1>5, <1>6, <2>1 DEF PlanFits
  <2>3. Issued(l)' <=> Issued(l)
    BY <1>2 DEF Issued
  <2>4. physical = "warehouse" /\ Issued(l) => resv[l].status = "fulfilled"
    BY <1>8 DEF Fit
  <2>5. ~Issued(l) => resv[l] = [status |-> "active", qty |-> qty[l]]
    BY <1>8 DEF Fit
  <2>6. Found(c)' \/ (physical = "warehouse" /\ Issued(l)' /\ resv'[l].status = "fulfilled")
    BY <1>2, <1>5, <1>6, <2>1, <2>3, <2>4, <2>5 DEF Found
  <2>7. PlannedFit(c)'
    BY <1>2, <1>5, <1>6, <2>6 DEF PlannedFit
  <2> QED
    BY <2>2, <2>7
<1>11. FitRow(c)'
  <2>1. ~Standing(c)'
    BY <1>0, <1>5, PlanLines DEF Standing
  <2> QED
    BY <1>5, <1>9, <1>10, <2>1 DEF FitRow, ClaimedFit, NewFit, UndoingFit
<1>12. Fit(l)'
  BY <1>2, <1>8, FitSame
<1>13. \A k \in Lines : ~Changing(c, k)
  BY <1>0, <1>9 DEF Changing
<1> QED
  BY <1>0, <1>1, <1>2, <1>7, <1>11, <1>12, <1>13, FitStep, PlanLines, OthersKept

\* The step of Claim keeps the goods behind the lines.
LEMMA ClaimFit ==
  ASSUME UnitInv, FitInv, NEW c \in Exchanges, Claim(c)
  PROVE  FitInv'
<1>0. /\ CoreInv /\ WorkTyped /\ LinesTyped /\ Staged(c) /\ made[c] \in Exchange
      /\ made[c].step = "validated" /\ made[c].plan \in Plans /\ Under(c, "create") /\ made[c].plan.line \in Lines
  <2>1. made[c].step = "validated" /\ CoreInv
    BY DEF UnitInv, CoreInv, Staged, CreateStage, StepAt, Claim, At
  <2> QED
    BY <2>1, PlansOf DEF CoreInv, Typed, WorkTyped, Under, Plans
<1>1. CASE Refused(c, "create")
  BY <1>0, <1>1, RefusedNoFit, QuietFit
<1>2. CASE ~Refused(c, "create")
  <2>0. PICK l \in Lines : l = made[c].plan.line
    BY <1>0
  <2>1. /\ qty' = [qty EXCEPT ![l] = made[c].plan.target] /\ undo' = undo /\ resv' = resv
        /\ \E n : made' = [made EXCEPT ![c].step = "exchange_created", ![c].status = "completed", ![c].id = n]
        /\ pc' = [pc EXCEPT ![c].create = "reserve"]
        /\ mark' = IF made[c].plan.target = 0 THEN [mark EXCEPT ![l] = "exchanged"] ELSE mark
    BY <1>2, <2>0, Zenon DEF Claim, Goes
  <2>2. /\ qty'[l] = made[c].plan.target
        /\ \A k \in Lines \ {l} : qty'[k] = qty[k] /\ mark'[k] = mark[k]
        /\ mark'[l] = IF made[c].plan.target = 0 THEN "exchanged" ELSE mark[l]
    BY <1>0, <2>1 DEF LinesTyped
  <2>3. made'[c].plan = made[c].plan /\ made'[c].step = "exchange_created"
    BY <1>0, <2>1 DEF WorkTyped, Exchange
  <2>4. Only(c) /\ pc'[c].create = "reserve"
    BY <1>0, <2>1 DEF Only, WorkTyped
  <2>5. Nobody(c)
    BY <1>0, NobodyElse
  <2>6. undo[c].step = "none" /\ ~Undoing(c) /\ ~Undoing(c)'
    BY <1>0, <2>1 DEF Staged, CreateStage, CancelStage, Claimed, Undoing
  <2>7. PlanFits(c) /\ (Found(c) \/ (made[c].plan.physical = "warehouse" /\ Issued(l) /\ resv[l].status = "fulfilled"))
    BY <1>0, <2>0 DEF FitInv, FitRow, PlannedFit
  <2>8. ClaimedFit(c)'
    <3>1. CASE Found(c)
      <4>1. ~Issued(l)'
        BY <2>0, <2>2, <3>1 DEF Found, Issued
      <4> QED
        BY <2>0, <2>1, <2>3, <2>4, <3>1, <4>1 DEF ClaimedFit, Found
    <3>2. CASE made[c].plan.physical = "warehouse" /\ Issued(l) /\ resv[l].status = "fulfilled"
      <4>1. made[c].plan.target > 0 => Issued(l)'
        BY <2>2, <3>2 DEF Issued
      <4>2. Fit(l)' /\ Kept(c)'
        BY <1>0, <2>0, <2>1, <2>2, <2>3, <3>2, <4>1 DEF Fit, Kept
      <4> QED
        BY <2>0, <2>3, <4>2 DEF ClaimedFit
    <3> QED
      BY <2>7, <3>1, <3>2
  <2>9. FitRow(c)'
    BY <2>3, <2>6, <2>7, <2>8 DEF FitRow, PlanFits, PlannedFit, NewFit, UndoingFit
  <2>10. Changing(c, l)' /\ \A k \in Lines : ~Changing(c, k)
    BY <1>0, <2>0, <2>3, <2>6 DEF Changing
  <2> QED
    BY <1>0, <2>1, <2>2, <2>4, <2>5, <2>9, <2>10, FitStep, PlanLines, OthersKept
<1> QED
  BY <1>1, <1>2

\* The step of SetQty leaves the goods behind the lines alone.
LEMMA SetQtyNoFit ==
  ASSUME UnitInv, NEW c \in Exchanges, SetQty(c)
  PROVE  UNCHANGED <<qty, mark, resv, made, undo>> /\ Only(c) /\ pc'[c].cancel = pc[c].cancel
         /\ pc'[c].create \in {"idle", "oldRow"}
<1>0. Staged(c) /\ WorkTyped /\ LinesTyped /\ made[c] \in Exchange /\ made[c].step = "exchange_created"
  BY DEF UnitInv, CoreInv, Typed, WorkTyped, Staged, CreateStage, StepAt, SetQty, At
<1>1. qty[made[c].plan.line] = made[c].plan.target
  BY <1>0 DEF UnitInv, ClaimHeld, Midway
<1>2. /\ UNCHANGED <<qty, mark, resv, made, undo>>
      /\ pc' = [pc EXCEPT ![c].create = "oldRow"] \/ pc' = [pc EXCEPT ![c].create = "idle"]
  BY <1>0, <1>1 DEF SetQty, Goes, Refused, LinesTyped, lineVars
<1> QED
  BY <1>0, <1>2 DEF Only, WorkTyped

\* The step of SetQty keeps the goods behind the lines.
LEMMA SetQtyFit == ASSUME UnitInv, FitInv, NEW c \in Exchanges, SetQty(c) PROVE FitInv'
<1>1. pc[c].create = "setQty"
  BY DEF SetQty, At
<1>2. FitQuiet(c)
  BY <1>1, SetQtyNoFit DEF FitQuiet, Undoing, Standing
<1> QED
  BY <1>2, QuietFit

\* The step of Reserve keeps the goods behind the lines.
LEMMA ReserveFit ==
  ASSUME UnitInv, FitInv, NEW c \in Exchanges, Reserve(c)
  PROVE  FitInv'
<1>0. /\ CoreInv /\ WorkTyped /\ LinesTyped /\ Staged(c) /\ made[c] \in Exchange
      /\ made[c].step = "exchange_created" /\ made[c].plan \in Plans /\ Under(c, "create") /\ made[c].plan.line \in Lines
  <2>1. made[c].step = "exchange_created" /\ CoreInv
    BY DEF UnitInv, CoreInv, Staged, CreateStage, StepAt, Reserve, At
  <2> QED
    BY <2>1, PlansOf DEF CoreInv, Typed, WorkTyped, Under, Plans
<1>1. CASE Refused(c, "create")
  BY <1>0, <1>1, RefusedNoFit, QuietFit
<1>2. CASE ~Refused(c, "create")
  <2> PICK l \in Lines : l = made[c].plan.line
    BY <1>0
  <2> PICK p \in Plans : p = made[c].plan
    BY <1>0
  <2>0. l = made[c].plan.line /\ p = made[c].plan /\ l = p.line
    OBVIOUS
  <2>1. /\ UNCHANGED <<qty, made, undo>> /\ pc' = [pc EXCEPT ![c].create = "setQty"]
        /\ \/ /\ p.physical = "not_issued" /\ p.snapshot.status = "active" /\ p.target = 0
              /\ resv[l].status = "active" 
              /\ resv' = [resv EXCEPT ![l].status = "released"] /\ mark' = [mark EXCEPT ![l] = "reservation_released"]
           \/ /\ p.physical = "not_issued" /\ p.snapshot.status = "active" /\ p.target > 0
              /\ resv[l] = p.snapshot /\ resv[l] # Reduced(p)
              /\ resv' = [resv EXCEPT ![l] = Reduced(p)] /\ mark' = mark
           \/ /\ p.handover /\ resv[l].status = "active"
              /\ resv' = [resv EXCEPT ![l].status = "fulfilled"] /\ mark' = [mark EXCEPT ![l] = "fulfilled"]
           \/ /\ p.handover => resv[l].status # "active"
              /\ p.physical = "not_issued" /\ p.snapshot.status = "active" =>
                   \/ p.target = 0 /\ resv[l].status # "active"
                   \/ p.target > 0 /\ resv[l] = Reduced(p)
              /\ UNCHANGED <<resv, mark>>
    <3>1. p.target \in Nat
      BY DEF Plans
    <3>2. ~(p.handover /\ p.physical = "not_issued")
      BY <1>0, <2>0 DEF Staged, PlanOK
    <3> QED
      BY <1>2, <2>0, <3>1, <3>2 DEF Reserve, Goes, Releases
  <2>2. Only(c) /\ pc'[c].create = "setQty"
    BY <1>0, <2>1 DEF Only, WorkTyped
  <2>3. Nobody(c)
    BY <1>0, NobodyElse
  <2>4. qty[l] = p.target /\ p.target \in Nat /\ p.take \in Nat \ {0} /\ p.initial = p.target + p.take
    BY <1>0, <2>0, ExchangeAssumption DEF UnitInv, ClaimHeld, Midway, Plans, Staged, PlanOK
  <2>5. ~Undoing(c) /\ ~Undoing(c)'
    <3>1. Under(c, "create") => undo[c].step # "validated"
      BY DEF UnitInv, Exclusive, Under
    <3> QED
      BY <1>0, <2>1, <3>1 DEF Undoing
  <2>6. \A k \in Lines \ {l} : qty'[k] = qty[k] /\ mark'[k] = mark[k] /\ resv'[k] = resv[k]
    BY <1>0, <2>1 DEF LinesTyped
  <2>7. /\ p.physical = "not_issued" => p.snapshot = [status |-> "active", qty |-> p.initial]
        /\ p.handover <=> p.physical = "warehouse" /\ p.marked # "fulfilled"
    BY <1>0, <2>0 DEF FitInv, FitRow, PlanFits, Claimed, Staged, CreateStage, PlanOK
  <2>8. p.physical = "not_issued" => Reduced(p) = [status |-> "active", qty |-> p.target]
    BY <2>4, <2>7 DEF Reduced
  <2>9. Found(c) \/ (Fit(l) /\ Kept(c))
    BY <1>0, <2>0 DEF FitInv, FitRow, ClaimedFit
  <2>10. /\ Fit(l)' <=> (qty[l] > 0 => \/ mark'[l] = "fulfilled" /\ resv'[l].status = "fulfilled"
                                       \/ mark'[l] # "fulfilled" /\ resv'[l] = [status |-> "active", qty |-> qty[l]])
         /\ Kept(c)' <=> /\ p.physical = "warehouse" => resv'[l].status = "fulfilled"
                         /\ p.physical = "not_issued" /\ p.target = 0 =>
                              resv'[l] = [status |-> "released", qty |-> p.initial]
    BY <2>0, <2>1 DEF Fit, Kept, Issued
  <2>11. ASSUME Found(c)
         PROVE  Fit(l)' /\ Kept(c)' /\ \A d \in Exchanges \ {c} : Standing(d) /\ made[d].plan.line = l => Kept(d)'
    <3>1. /\ mark[l] # "fulfilled" /\ resv[l] = [status |-> "active", qty |-> p.initial]
          /\ p.physical = "warehouse" => p.handover
          /\ resv[l].status = "active"
      BY <2>0, <2>11 DEF Found, Issued
    <3>2. Fit(l)' /\ Kept(c)'
      <4>1. CASE p.physical = "not_issued" /\ p.target = 0
        <5>1. resv' = [resv EXCEPT ![l].status = "released"]
          BY <2>1, <2>7, <3>1, <4>1
        <5>2. resv'[l] = [status |-> "released", qty |-> p.initial]
          BY <1>0, <3>1, <5>1 DEF LinesTyped
        <5> QED
          BY <2>4, <2>10, <4>1, <5>2
      <4>2. CASE p.physical = "not_issued" /\ p.target > 0
        <5>1. resv[l] # Reduced(p)
          BY <2>4, <2>8, <3>1, <4>2
        <5>2. resv' = [resv EXCEPT ![l] = Reduced(p)] /\ mark' = mark
          BY <2>1, <2>7, <3>1, <4>2, <5>1
        <5>3. resv'[l] = [status |-> "active", qty |-> p.target] /\ mark'[l] # "fulfilled"
          BY <1>0, <2>8, <3>1, <4>2, <5>2 DEF LinesTyped
        <5> QED
          BY <2>4, <2>10, <4>2, <5>3
      <4>3. CASE p.physical = "warehouse"
        <5>1. resv' = [resv EXCEPT ![l].status = "fulfilled"] /\ mark' = [mark EXCEPT ![l] = "fulfilled"]
          BY <2>1, <3>1, <4>3
        <5>2. resv'[l].status = "fulfilled" /\ mark'[l] = "fulfilled"
          BY <1>0, <5>1 DEF LinesTyped
        <5> QED
          BY <2>10, <4>3, <5>2
      <4> QED
        BY <2>4, <4>1, <4>2, <4>3 DEF Plans
    <3>3. ASSUME NEW d \in Exchanges \ {c}, Standing(d), made[d].plan.line = l PROVE Kept(d)'
      <4>1. Kept(d) /\ made'[d] = made[d]
        BY <2>2, <2>3, <3>3 DEF FitInv, FitRow, Nobody, Only, Midway
      <4>2. made[d].plan.physical # "warehouse" /\ ~(made[d].plan.physical = "not_issued" /\ made[d].plan.target = 0)
        BY <3>1, <3>3, <4>1 DEF Kept
      <4> QED
        BY <4>1, <4>2 DEF Kept
    <3> QED
      BY <3>2, <3>3
  <2>12. ASSUME ~Found(c)
         PROVE  Fit(l)' /\ Kept(c)' /\ \A d \in Exchanges \ {c} : Standing(d) /\ made[d].plan.line = l => Kept(d)'
    <3>1. Fit(l) /\ Kept(c)
      BY <2>9, <2>12
    <3>2. /\ p.physical = "warehouse" => resv[l].status = "fulfilled"
          /\ p.physical = "not_issued" /\ p.target = 0 => resv[l] = [status |-> "released", qty |-> p.initial]
          /\ qty[l] > 0 => \/ resv[l].status = "fulfilled"
                           \/ resv[l] = [status |-> "active", qty |-> qty[l]]
      BY <2>0, <3>1 DEF Kept, Fit
    <3>3. UNCHANGED <<resv, mark>>
      <4>1. ~(p.physical = "not_issued" /\ p.target = 0 /\ resv[l].status = "active")
        BY <3>2
      <4>2. ~(p.physical = "not_issued" /\ p.target > 0 /\ resv[l] = p.snapshot)
        BY <2>4, <2>7, <3>2
      <4>3. ~(p.handover /\ resv[l].status = "active")
        BY <2>7, <3>2
      <4> QED
        BY <2>1, <4>1, <4>2, <4>3
    <3>4. Fit(l)' /\ Kept(c)'
      BY <2>0, <2>1, <3>1, <3>3, FitSame
    <3> QED
      BY <2>0, <2>2, <2>3, <3>3, <3>4, OthersKept
  <2>13. Fit(l)' /\ Kept(c)' /\ \A d \in Exchanges \ {c} : Standing(d) /\ made[d].plan.line = l => Kept(d)'
    BY <2>11, <2>12
  <2>14. FitRow(c)'
    <3>1. made'[c] = made[c] /\ (PlanFits(c)' <=> PlanFits(c))
      BY <2>1 DEF PlanFits
    <3> QED
      BY <1>0, <2>0, <2>5, <2>13, <3>1
         DEF FitInv, FitRow, Claimed, Standing, PlannedFit, ClaimedFit, NewFit, UndoingFit
  <2>15. \A k \in Lines \ {l} : ~Changing(c, k)
    BY <1>0, <2>0, <2>5 DEF Changing
  <2> QED
    BY <1>0, <2>2, <2>3, <2>6, <2>13, <2>14, <2>15, FitStep, PlanLines
<1> QED
  BY <1>1, <1>2

\* While an exchange is created it is not cancelled.
LEMMA CreatesOnly ==
  ASSUME UnitInv, NEW c \in Exchanges, Under(c, "create")
  PROVE  ~Undoing(c) /\ undo[c].step # "validated" /\ pc[c].cancel = "idle"
<1>1. ~Under(c, "cancel")
  BY DEF UnitInv, Exclusive
<1> QED
  BY <1>1 DEF Under, Undoing

\* The step that ends the old line keeps the goods behind the lines.
LEMMA AdvanceOldFit ==
  ASSUME UnitInv, FitInv, NEW c \in Exchanges, Advance(c, "oldDone", "old_done", "content")
  PROVE  FitInv'
<1>0. /\ CoreInv /\ WorkTyped /\ LinesTyped /\ Staged(c) /\ made[c] \in Exchange /\ c \in Lines
      /\ made[c].step = "exchange_created" /\ pc[c].create = "oldDone" /\ Under(c, "create")
  BY DEF UnitInv, CoreInv, Typed, WorkTyped, Staged, CreateStage, StepAt, Advance, At, Under, Lines
<1>1. /\ UNCHANGED <<qty, mark, resv, undo>> /\ made' = [made EXCEPT ![c].step = "old_done"]
      /\ pc' = [pc EXCEPT ![c].create = "content"]
  BY DEF Advance, Goes, lineVars
<1>2. /\ Only(c) /\ pc'[c].create = "content" /\ made'[c].step = "old_done" /\ made'[c].plan = made[c].plan
      /\ made'[c].status = made[c].status /\ made'[c].id = made[c].id
  BY <1>0, <1>1 DEF Only, WorkTyped, Exchange
<1>3. Nobody(c) /\ ~Undoing(c) /\ ~Undoing(c)'
  BY <1>0, <1>1, NobodyElse, CreatesOnly DEF Undoing
<1>4. Fit(made[c].plan.line) /\ Kept(c) /\ PlanFits(c)
  BY <1>0 DEF FitInv, FitRow, ClaimedFit, Claimed, Staged, CreateStage
<1>5. made[c].plan.line # c /\ made[c].plan.line \in Lines
  BY <1>0, PlanLines DEF Staged, PlanOK
<1>6. Fit(c)
  <2>1. ~Changing(c, c)
    BY <1>0, <1>3, <1>5 DEF Changing
  <2>2. \A d \in Exchanges \ {c} : ~Changing(d, c)
    BY <1>3 DEF Nobody, Changing, Midway
  <2> QED
    BY <1>0, <2>1, <2>2 DEF FitInv, LinesFit
<1>7. Fit(c)' /\ (\A k \in Lines : Changing(c, k) => Fit(k)') /\ Kept(c)' /\ PlanFits(c)'
  <2>1. \A k \in Lines : Changing(c, k) => k = made[c].plan.line
    BY <1>0, <1>3 DEF Changing
  <2> QED
    BY <1>1, <1>2, <1>4, <1>6, <2>1, FitSame
<1>8. FitRow(c)'
  BY <1>2, <1>3, <1>7 DEF FitRow, PlannedFit, ClaimedFit, NewFit, UndoingFit
<1> QED
  BY <1>0, <1>1, <1>2, <1>3, <1>7, <1>8, FitStep, PlanLines, OthersKept

\* The step that ends the insertion of the content keeps the goods behind the lines.
LEMMA AdvanceContentFit ==
  ASSUME UnitInv, FitInv, NEW c \in Exchanges, Advance(c, "contentDone", "content_inserted", "newRow")
  PROVE  FitInv'
<1>0. /\ CoreInv /\ WorkTyped /\ LinesTyped /\ Staged(c) /\ made[c] \in Exchange /\ c \in Lines
      /\ made[c].step = "old_done" /\ pc[c].create = "contentDone" /\ Under(c, "create")
  BY DEF UnitInv, CoreInv, Typed, WorkTyped, Staged, CreateStage, StepAt, Advance, At, Under, Lines
<1>1. /\ UNCHANGED <<qty, mark, resv, undo>> /\ made' = [made EXCEPT ![c].step = "content_inserted"]
      /\ pc' = [pc EXCEPT ![c].create = "newRow"]
  BY DEF Advance, Goes, lineVars
<1>2. /\ Only(c) /\ pc'[c].create = "newRow" /\ made'[c].step = "content_inserted" /\ made'[c].plan = made[c].plan
      /\ made'[c].status = made[c].status /\ made'[c].id = made[c].id
  BY <1>0, <1>1 DEF Only, WorkTyped, Exchange
<1>3. Nobody(c) /\ ~Undoing(c) /\ ~Undoing(c)'
  BY <1>0, <1>1, NobodyElse, CreatesOnly DEF Undoing
<1>4. Fit(c) /\ (Standing(c) => Kept(c)) /\ PlanFits(c)
  BY <1>0, <1>3 DEF FitInv, FitRow, NewFit, Claimed, Staged, CreateStage
<1>5. Fit(c)' /\ (\A k \in Lines : Changing(c, k) => Fit(k)') /\ (Standing(c) => Kept(c)') /\ PlanFits(c)'
  <2>1. \A k \in Lines : Changing(c, k) => k = c
    BY <1>0, <1>3 DEF Changing
  <2> QED
    BY <1>1, <1>2, <1>4, <2>1, FitSame
<1>6. FitRow(c)'
  BY <1>2, <1>3, <1>5 DEF FitRow, PlannedFit, ClaimedFit, NewFit, UndoingFit, Standing
<1> QED
  BY <1>0, <1>1, <1>2, <1>3, <1>5, <1>6, FitStep, PlanLines, OthersKept

\* A step of a creation on its own new line, between the old line and the money.
LEMMA NewLineFit ==
  ASSUME UnitInv, FitInv, BalanceInv, NEW c \in Exchanges, Under(c, "create"), made[c].step \in {"old_done", "content_inserted"},
         Only(c), \A k \in Lines \ {c} : qty'[k] = qty[k] /\ mark'[k] = mark[k] /\ resv'[k] = resv[k],
         undo'[c] = undo[c], made'[c].step = made[c].step, made'[c].plan = made[c].plan, made'[c].status = made[c].status,
         made'[c].id = made[c].id, NewFit(c)', made[c].step = "content_inserted" => Fit(c)'
  PROVE  FitInv'
<1>0. /\ CoreInv /\ Staged(c) /\ c \in Lines /\ made[c].plan.line # c /\ made[c].plan.line \in Lines
  BY PlanLines DEF UnitInv, CoreInv, Lines, Staged, PlanOK
<1>1. Nobody(c) /\ ~Undoing(c) /\ ~Undoing(c)'
  BY NobodyElse, CreatesOnly DEF Undoing
<1>2. \A k \in Lines : Changing(c, k) => k = c
  BY <1>1 DEF Changing
<1>3. \A d \in Exchanges \ {c} : Standing(d) => made[d].plan.line # c
  BY <1>0 DEF BalanceInv, NothingRests, Midway, Rests
<1>4. Fit(c)' \/ Changing(c, c)'
  BY DEF Changing
<1>5. FitRow(c)'
  <2>1. (Standing(c) => Kept(c)) /\ PlanFits(c)
    BY <1>0, <1>1 DEF FitInv, FitRow, Claimed, Staged, CreateStage
  <2>2. (Standing(c) => Kept(c)') /\ PlanFits(c)'
    BY <1>0, <2>1 DEF Kept, PlanFits
  <2> QED
    BY <1>1, <2>2 DEF FitRow, PlannedFit, ClaimedFit, UndoingFit, Standing
<1> QED
  BY <1>0, <1>1, <1>2, <1>3, <1>4, <1>5, FitStep, PlanLines

\* The step of InsertContent keeps the goods behind the lines.
LEMMA InsertContentFit ==
  ASSUME UnitInv, FitInv, BalanceInv, NEW c \in Exchanges, InsertContent(c)
  PROVE  FitInv'
<1>0. /\ CoreInv /\ WorkTyped /\ LinesTyped /\ Staged(c) /\ made[c].step = "old_done" /\ c \in Lines /\ Under(c, "create")
  BY DEF UnitInv, CoreInv, Typed, Staged, CreateStage, StepAt, InsertContent, At, Lines, Under
<1>1. UNCHANGED <<resv, made, undo>> /\ pc' = [pc EXCEPT ![c].create = "promise"]
  BY DEF InsertContent, Goes
<1>2. Only(c) /\ pc'[c].create = "promise"
  BY <1>0, <1>1 DEF Only, WorkTyped
<1>3. /\ \A k \in Lines \ {c} : qty'[k] = qty[k] /\ mark'[k] = mark[k]
      /\ IF mark[c] = "absent" THEN mark'[c] = "new" ELSE qty'[c] = qty[c] /\ mark'[c] = mark[c]
  BY <1>0 DEF InsertContent, LinesTyped
<1>4. NewFit(c)'
  <2>1. Fit(c) \/ (resv[c] = Nothing /\ ~Issued(c))
    BY <1>0 DEF FitInv, FitRow, NewFit
  <2>2. CASE mark[c] = "absent"
    <3>1. resv'[c] = Nothing /\ ~Issued(c)'
      BY <1>0, <1>1, <1>3, <2>2 DEF Staged, NewLineOK, Issued
    <3> QED
      BY <1>2, <3>1 DEF NewFit, Nothing
  <2>3. CASE mark[c] # "absent"
    <3>1. Fit(c)' \/ (resv'[c] = Nothing /\ ~Issued(c)')
      BY <1>1, <1>3, <2>1, <2>3 DEF Fit, Issued
    <3> QED
      BY <1>2, <3>1 DEF NewFit, Nothing
  <2> QED
    BY <2>2, <2>3
<1> QED
  BY <1>0, <1>1, <1>2, <1>3, <1>4, NewLineFit

\* The step of Promise keeps the goods behind the lines.
LEMMA PromiseFit ==
  ASSUME UnitInv, FitInv, BalanceInv, ExchangesApart, NEW c \in Exchanges, Promise(c)
  PROVE  FitInv'
<1>0. /\ CoreInv /\ WorkTyped /\ LinesTyped /\ Staged(c) /\ made[c].step = "old_done" /\ pc[c].create = "promise"
      /\ c \in Lines /\ c \notin First /\ Under(c, "create")
  BY ExchangeAssumption
     DEF UnitInv, CoreInv, Typed, Staged, CreateStage, StepAt, Promise, At, Lines, Under
<1>1. UNCHANGED <<qty, made, undo>> /\ pc' = [pc EXCEPT ![c].create = "contentDone"]
  BY DEF Promise, Goes
<1>2. Only(c)
  BY <1>0, <1>1 DEF Only, WorkTyped
<1>3. /\ \A k \in Lines \ {c} : resv'[k] = resv[k] /\ mark'[k] = mark[k]
      /\ IF resv[c].status = "none"
         THEN mark'[c] = "reserved" /\ resv'[c] = [status |-> "active", qty |-> made[c].plan.give]
         ELSE mark'[c] = mark[c] /\ resv'[c] = resv[c]
  BY <1>0 DEF Promise, LinesTyped
<1>4. Fit(c)'
  <2>1. Fit(c) \/ (resv[c] = Nothing /\ ~Issued(c))
    BY <1>0 DEF FitInv, FitRow, NewFit
  <2>2. CASE resv[c].status = "none"
    <3>1. qty[c] = made[c].plan.give
      <4>1. Standing(c) /\ mark[c] # "absent"
        BY <1>0, MidwayStands DEF Midway, Staged, NewLineOK
      <4>2. \A d \in Exchanges : ~Undoing(d) /\ ~Rests(d, c)
        BY <1>0, OneUndone DEF BalanceInv, NothingRests, Midway
      <4>3. qty[c] + Back(c) = Held(c) /\ Back(c) = 0
        BY <1>0, <4>2, NoBack DEF BalanceInv, LinesBalance, Calm, Balanced
      <4>4. Held(c) = made[c].plan.give
        BY <1>0, <4>1 DEF Held
      <4>5. qty[c] \in Nat
        BY <1>0 DEF LinesTyped
      <4> QED
        BY <4>3, <4>4, <4>5
    <3> QED
      BY <1>1, <1>3, <2>2, <3>1 DEF Fit, Issued
  <2>3. CASE resv[c].status # "none"
    <3>1. Fit(c)
      BY <2>1, <2>3 DEF Nothing
    <3> QED
      BY <1>1, <1>3, <2>3, <3>1 DEF Fit, Issued
  <2> QED
    BY <2>2, <2>3
<1>5. NewFit(c)'
  BY <1>4 DEF NewFit
<1> QED
  BY <1>0, <1>1, <1>2, <1>3, <1>4, <1>5, NewLineFit

\* The step of ApplyOut keeps the goods behind the lines.
LEMMA ApplyOutFit ==
  ASSUME UnitInv, FitInv, BalanceInv, NEW c \in Exchanges, ApplyOut(c)
  PROVE  FitInv'
<1>0. /\ CoreInv /\ WorkTyped /\ LinesTyped /\ Staged(c) /\ made[c] \in Exchange /\ made[c].step = "content_inserted"
      /\ c \in Lines /\ Under(c, "create") /\ pc[c].create = "applyOut"
  BY DEF UnitInv, CoreInv, Typed, WorkTyped, Staged, CreateStage, StepAt, ApplyOut, At, Lines, Under
<1>1. CASE Refused(c, "create")
  BY <1>0, <1>1, RefusedNoFit, QuietFit
<1>2. CASE /\ Goes(c, "create", "newDone")
           /\ UNCHANGED <<lineVars, bookVars, made, undo, spent>>
  <2>1. Only(c) /\ pc'[c].create = "newDone" /\ pc'[c].cancel = pc[c].cancel
    BY <1>0, <1>2 DEF Goes, Only, WorkTyped
  <2>2. FitQuiet(c)
    BY <1>0, <1>2, <2>1 DEF FitQuiet, lineVars, Undoing, Standing
  <2> QED
    BY <2>2, QuietFit
<1>3. CASE /\ qty' = qty /\ undo' = undo
           /\ resv' = [resv EXCEPT ![c].status = "fulfilled"]
           /\ mark' = [mark EXCEPT ![c] = "fulfilled"]
           /\ made' = [made EXCEPT ![c].out = "applied", ![c].movement = "inserted"]
           /\ Goes(c, "create", "linkOut")
  <2>1. /\ Only(c) /\ made'[c].step = made[c].step /\ made'[c].plan = made[c].plan /\ made'[c].status = made[c].status
        /\ made'[c].id = made[c].id
    BY <1>0, <1>3 DEF Goes, Only, WorkTyped, Exchange
  <2>2. /\ resv'[c].status = "fulfilled" /\ mark'[c] = "fulfilled"
        /\ \A k \in Lines \ {c} : resv'[k] = resv[k] /\ mark'[k] = mark[k]
    BY <1>0, <1>3 DEF LinesTyped
  <2>3. Fit(c)' /\ NewFit(c)'
    BY <1>0, <2>1, <2>2 DEF Fit, Issued, NewFit
  <2> QED
    BY <1>0, <1>3, <2>1, <2>2, <2>3, NewLineFit
<1> QED
  BY <1>1, <1>2, <1>3 DEF ApplyOut

\* A cancellation past its preflight: where its exchange stands, and alone.
LEMMA UndoingOnly ==
  ASSUME UnitInv, BalanceInv, NEW c \in Exchanges, Undoing(c)
  PROVE  /\ CoreInv /\ WorkTyped /\ LinesTyped /\ Staged(c) /\ c \in Lines /\ Nobody(c) /\ Under(c, "cancel")
         /\ made[c].step \notin Midway \cup {"validated"} /\ Claimed(c) /\ Standing(c)
         /\ made[c].plan.line \in Lines /\ made[c].plan.line # c /\ made[c].plan \in Plans
         /\ Latest(c) /\ UndoingUnits(c)
         /\ \A d \in Exchanges \ {c} : Standing(d) => made[d].plan.line # c
<1>1. Under(c, "cancel") /\ CoreInv
  BY DEF UnitInv, Under, Undoing
<1>2. Nobody(c)
  BY <1>1, NobodyElse
<1>3. made[c].step \notin Midway \cup {"validated"}
  <2>1. ~Under(c, "create")
    BY <1>1 DEF UnitInv, Exclusive
  <2> QED
    BY <2>1 DEF Under, Midway
<1>4. Standing(c) /\ Claimed(c)
  BY <1>1, StandingClaimed DEF Undoing
<1>5. made[c].plan.line \in Lines /\ made[c].plan.line # c /\ made[c].plan \in Plans
  BY <1>1, <1>4, StandingPlan
<1>6. Latest(c) /\ UndoingUnits(c)
  BY DEF BalanceInv, LatestUndone, UndoneUnits
<1>7. \A d \in Exchanges \ {c} : Standing(d) => made[d].plan.line # c
  BY <1>6 DEF Latest, Rests
<1> QED
  BY <1>1, <1>2, <1>3, <1>4, <1>5, <1>6, <1>7 DEF CoreInv, Typed, Lines

\* A step of a cancellation on the new line.
LEMMA NewLineUndone ==
  ASSUME UnitInv, FitInv, BalanceInv, NEW c \in Exchanges, Undoing(c), Only(c),
         \A k \in Lines \ {c} : qty'[k] = qty[k] /\ mark'[k] = mark[k] /\ resv'[k] = resv[k],
         undo'[c] = undo[c], made'[c].step = made[c].step, made'[c].plan = made[c].plan, made'[c].status = made[c].status,
         made'[c].id = made[c].id, pc'[c].cancel \notin {"moneyBack", "finish"}
  PROVE  FitInv'
<1>0. /\ CoreInv /\ Staged(c) /\ c \in Lines /\ Nobody(c) /\ made[c].step \notin Midway \cup {"validated"} /\ Claimed(c)
      /\ made[c].plan.line \in Lines /\ made[c].plan.line # c
      /\ \A d \in Exchanges \ {c} : Standing(d) => made[d].plan.line # c
  BY UndoingOnly
<1>1. Undoing(c)'
  BY DEF Undoing, Standing
<1>2. \A k \in Lines : Changing(c, k) => Changing(c, k)'
  BY <1>1 DEF Changing
<1>3. Changing(c, c)'
  BY <1>1 DEF Changing
<1>4. FitRow(c)'
  <2>1. PlanFits(c) /\ UndoingFit(c)
    BY <1>0 DEF FitInv, FitRow
  <2>2. PlanFits(c)'
    BY <2>1 DEF PlanFits
  <2>3. UndoingFit(c)'
    BY <1>0, <2>1 DEF UndoingFit, Issued
  <2> QED
    BY <1>0, <1>1, <2>2, <2>3 DEF FitRow, PlannedFit, ClaimedFit, NewFit, Midway
<1> QED
  BY <1>0, <1>2, <1>3, <1>4, FitStep, PlanLines

\* Between its preflight and its end a cancellation is undoing its exchange.
LEMMA CancelPlacesUndone ==
  ASSUME CoreInv, NEW c \in Exchanges, pc[c].cancel \notin {"idle", "freeze", "complete"}
  PROVE  Undoing(c)
BY DEF CoreInv, Staged, CancelStage

\* The step of CancelOut keeps the goods behind the lines.
LEMMA CancelOutFit ==
  ASSUME UnitInv, FitInv, BalanceInv, NEW c \in Exchanges, CancelOut(c)
  PROVE  FitInv'
<1>0. CoreInv /\ WorkTyped /\ LinesTyped /\ made[c] \in Exchange /\ pc[c].cancel = "out" /\ Undoing(c) /\ c \in Lines
  BY CancelPlacesUndone DEF UnitInv, CoreInv, Typed, WorkTyped, CancelOut, At, Lines
<1>1. /\ UNCHANGED <<qty, mark, undo>> /\ pc' = [pc EXCEPT ![c].cancel = "release"]
      /\ resv' = resv \/ resv' = [resv EXCEPT ![c].status = "released"]
      /\ \E e : made' = [made EXCEPT ![c].out = e]
  BY DEF CancelOut, Goes
<1>2. /\ Only(c) /\ pc'[c].cancel = "release" /\ made'[c].step = made[c].step /\ made'[c].plan = made[c].plan
      /\ made'[c].status = made[c].status /\ made'[c].id = made[c].id
  BY <1>0, <1>1 DEF Only, WorkTyped, Exchange
<1>3. \A k \in Lines \ {c} : resv'[k] = resv[k]
  BY <1>0, <1>1 DEF LinesTyped
<1> QED
  BY <1>0, <1>1, <1>2, <1>3, NewLineUndone

\* The step of ReleaseNew keeps the goods behind the lines.
LEMMA ReleaseNewFit ==
  ASSUME UnitInv, FitInv, BalanceInv, NEW c \in Exchanges, ReleaseNew(c)
  PROVE  FitInv'
<1>0. CoreInv /\ WorkTyped /\ LinesTyped /\ pc[c].cancel = "release" /\ Undoing(c) /\ c \in Lines
  BY CancelPlacesUndone DEF UnitInv, CoreInv, Typed, ReleaseNew, At, Lines
<1>1. /\ UNCHANGED <<qty, made, undo>> /\ pc' = [pc EXCEPT ![c].cancel = "empty"]
      /\ \A k \in Lines \ {c} : mark'[k] = mark[k] /\ resv'[k] = resv[k]
  BY <1>0 DEF ReleaseNew, Releases, Goes, LinesTyped
<1>2. Only(c) /\ pc'[c].cancel = "empty"
  BY <1>0, <1>1 DEF Only, WorkTyped
<1> QED
  BY <1>0, <1>1, <1>2, NewLineUndone

\* The step of EmptyNew keeps the goods behind the lines.
LEMMA EmptyNewFit ==
  ASSUME UnitInv, FitInv, BalanceInv, NEW c \in Exchanges, EmptyNew(c)
  PROVE  FitInv'
<1>0. CoreInv /\ WorkTyped /\ LinesTyped /\ pc[c].cancel = "empty" /\ Undoing(c) /\ c \in Lines
  BY CancelPlacesUndone DEF UnitInv, CoreInv, Typed, EmptyNew, At, Lines
<1>1. /\ UNCHANGED <<resv, made, undo>> /\ pc' = [pc EXCEPT ![c].cancel = "oldQty"]
      /\ \A k \in Lines \ {c} : mark'[k] = mark[k] /\ qty'[k] = qty[k]
  BY <1>0 DEF EmptyNew, Goes, LinesTyped
<1>2. Only(c) /\ pc'[c].cancel = "oldQty"
  BY <1>0, <1>1 DEF Only, WorkTyped
<1> QED
  BY <1>0, <1>1, <1>2, NewLineUndone

\* The step of Freeze keeps the goods behind the lines.
LEMMA FreezeFit ==
  ASSUME UnitInv, FitInv, BalanceInv, ExchangesApart, NEW c \in Exchanges, Freeze(c)
  PROVE  FitInv'
<1>0. /\ CoreInv /\ WorkTyped /\ LinesTyped /\ Staged(c) /\ c \in Lines /\ pc[c].cancel = "freeze" /\ Under(c, "cancel")
      /\ undo[c].step = "none" /\ Standing(c) /\ made[c].step = "completed" /\ Claimed(c)
  BY StandingClaimed
     DEF UnitInv, CoreInv, Typed, Freeze, At, Lines, Under, Staged, CancelStage, ReadyStage, Ready
<1>1. CASE Refused(c, "cancel")
  BY <1>0, <1>1, RefusedNoFit, QuietFit
<1>2. CASE ~Refused(c, "cancel")
  <2>0. made[c].plan \in Plans /\ made[c].plan.line \in Lines
    BY <1>0, StandingPlan
  <2> PICK l \in Lines : l = made[c].plan.line
    BY <2>0
  <2>1. /\ UNCHANGED <<qty, mark, resv, made>> /\ pc' = [pc EXCEPT ![c].cancel = "in"]
        /\ undo'[c].step = "validated" /\ undo'[c].target = qty[l] + made[c].plan.take
        /\ \A d \in Exchanges \ {c} : undo'[d] = undo[d]
    BY <1>0, <1>2 DEF Freeze, Goes, WorkTyped, Cancellation, lineVars
  <2>2. Only(c) /\ pc'[c].cancel = "in"
    BY <1>0, <2>1 DEF Only, WorkTyped
  <2>3. Nobody(c)
    BY <1>0, NobodyElse
  <2>4. Undoing(c)' /\ ~Undoing(c)
    BY <1>0, <2>1 DEF Undoing, Standing
  <2>5. Kept(c) /\ PlanFits(c) /\ PlanFits(c)'
    BY <1>0, <2>1, <2>4 DEF FitInv, FitRow, PlanFits
  <2>6. qty[l] # qty[l] + made[c].plan.take
    <3>1. qty[l] \in Nat
      BY <1>0 DEF LinesTyped
    <3>2. made[c].plan.take \in Nat \ {0}
      BY <1>0, StandingPlan
    <3> QED
      BY <3>1, <3>2
  <2>7. UndoingFit(c)'
    BY <2>1, <2>2, <2>5, <2>6 DEF UndoingFit, Kept
  <2>8. FitRow(c)'
    BY <1>0, <2>1, <2>4, <2>5, <2>7 DEF FitRow, PlannedFit, ClaimedFit, NewFit
  <2>9. Changing(c, l)' /\ \A k \in Lines : ~Changing(c, k)
    BY <1>0, <2>1, <2>4 DEF Changing
  <2> QED
    BY <1>0, <2>1, <2>2, <2>3, <2>8, <2>9, FitStep, PlanLines, OthersKept
<1> QED
  BY <1>1, <1>2

\* The step of RestoreQty keeps the goods behind the lines.
LEMMA RestoreQtyFit ==
  ASSUME UnitInv, FitInv, BalanceInv, HandoversStay, NEW c \in Exchanges, RestoreQty(c)
  PROVE  FitInv'
<1>0. /\ CoreInv /\ WorkTyped /\ LinesTyped /\ Staged(c) /\ c \in Lines /\ pc[c].cancel = "oldQty" /\ Undoing(c)
      /\ Nobody(c) /\ made[c].step \notin Midway \cup {"validated"} /\ Claimed(c)
      /\ made[c].plan.line \in Lines /\ made[c].plan \in Plans
  <2>1. CoreInv /\ pc[c].cancel = "oldQty" /\ Undoing(c)
    BY CancelPlacesUndone DEF UnitInv, RestoreQty, At
  <2> QED
    BY <2>1, UndoingOnly
<1>1. CASE Refused(c, "cancel")
  BY <1>0, <1>1, RefusedNoFit, QuietFit
<1>2. CASE ~Refused(c, "cancel")
  <2> PICK l \in Lines : l = made[c].plan.line
    BY <1>0
  <2>1. /\ qty' = [qty EXCEPT ![l] = undo[c].target]
        /\ UNCHANGED <<made, undo, resv>> /\ pc' = [pc EXCEPT ![c].cancel = "oldResv"]
        /\ mark' = IF qty[l] # undo[c].target THEN [mark EXCEPT ![l] = made[c].plan.marked] ELSE mark
    BY <1>2 DEF RestoreQty, Restores, Goes
  <2>2. Only(c) /\ pc'[c].cancel = "oldResv"
    BY <1>0, <2>1 DEF Only, WorkTyped
  <2>3. /\ qty'[l] = undo[c].target /\ \A k \in Lines \ {l} : qty'[k] = qty[k] /\ mark'[k] = mark[k]
        /\ mark'[l] = IF qty[l] # undo[c].target THEN made[c].plan.marked ELSE mark[l]
    BY <1>0, <2>1 DEF LinesTyped
  <2>4. Undoing(c)'
    BY <1>0, <2>1 DEF Undoing, Standing
  <2>5. made[c].plan.marked = "fulfilled" <=> made[c].plan.physical = "warehouse"
    <3>1. ~made[c].plan.handover /\ made[c].step # "none"
      BY <1>0 DEF Staged, ReadyStage, Ready, CreateStage, Claimed
    <3> QED
      BY <1>0, <3>1 DEF Staged, PlanOK, Plans
  <2>6. PlanFits(c) /\ UndoingFit(c)
    BY <1>0 DEF FitInv, FitRow
  <2>7. UndoingFit(c)'
    <3>1. Issued(l)' <=> made[c].plan.physical = "warehouse"
      BY <1>0, <2>3, <2>5, <2>6 DEF UndoingFit, Issued
    <3> QED
      BY <1>0, <2>1, <2>2, <2>6, <3>1 DEF UndoingFit
  <2>8. FitRow(c)'
    BY <1>0, <2>1, <2>4, <2>6, <2>7 DEF FitRow, PlanFits, PlannedFit, ClaimedFit, NewFit, Midway
  <2>9. Changing(c, l)' /\ \A k \in Lines : Changing(c, k) => Changing(c, k)'
    BY <1>0, <2>1, <2>4 DEF Changing
  <2> QED
    BY <1>0, <2>1, <2>2, <2>3, <2>8, <2>9, FitStep, PlanLines, OthersKept
<1> QED
  BY <1>1, <1>2

\* The step of Finish keeps the goods behind the lines.
LEMMA FinishFit ==
  ASSUME UnitInv, FitInv, BalanceInv, NEW c \in Exchanges, Finish(c)
  PROVE  FitInv'
<1>0. /\ CoreInv /\ WorkTyped /\ LinesTyped /\ Staged(c) /\ c \in Lines /\ pc[c].cancel = "finish" /\ Undoing(c)
      /\ Nobody(c) /\ made[c].step \notin Midway \cup {"validated"} /\ Claimed(c) /\ made[c] \in Exchange
      /\ made[c].plan.line \in Lines /\ UndoingUnits(c)
  <2>1. CoreInv /\ pc[c].cancel = "finish" /\ Undoing(c)
    BY CancelPlacesUndone DEF UnitInv, Finish, At
  <2> QED
    BY <2>1, UndoingOnly DEF WorkTyped
<1>1. CASE Refused(c, "cancel")
  BY <1>0, <1>1, RefusedNoFit, QuietFit
<1>2. CASE ~Refused(c, "cancel")
  <2> PICK l \in Lines : l = made[c].plan.line
    BY <1>0
  <2>1. /\ made' = [made EXCEPT ![c].status = "cancelled"]
        /\ UNCHANGED <<qty, mark, resv, undo>> /\ pc' = [pc EXCEPT ![c].cancel = "complete"]
    BY <1>2, Zenon DEF Finish, Goes, lineVars
  <2>2. /\ Only(c) /\ made'[c].status = "cancelled" /\ made'[c].plan = made[c].plan /\ made'[c].step = made[c].step
    BY <1>0, <2>1 DEF Only, WorkTyped, Exchange
  <2>3. ~Standing(c)' /\ ~Undoing(c)'
    BY <2>2 DEF Standing, Undoing
  <2>4. qty[c] = 0 /\ Fit(l) /\ PlanFits(c)
    BY <1>0 DEF UndoingUnits, Emptied, Restored, FitInv, FitRow, UndoingFit
  <2>5. Fit(c)' /\ Fit(l)' /\ PlanFits(c)'
    BY <2>1, <2>2, <2>4, FitSame DEF Fit
  <2>6. FitRow(c)'
    BY <1>0, <2>2, <2>3, <2>5 DEF FitRow, PlannedFit, ClaimedFit, NewFit, UndoingFit, Midway
  <2>7. \A k \in Lines : Changing(c, k) => k \in {c, l}
    BY <1>0 DEF Changing, Midway
  <2> QED
    BY <1>0, <2>1, <2>2, <2>5, <2>6, <2>7, FitStep, PlanLines, OthersKept
<1> QED
  BY <1>1, <1>2

\* Nothing was taken of the old line after the latest exchange of it.
LEMMA LatestLater ==
  ASSUME CoreInv, NEW c \in Exchanges, Standing(c), Latest(c)
  PROVE  Later(c) = 0
<1>1. \A d \in Exchanges : made[d].id \in Nat
  BY DEF CoreInv, Typed, WorkTyped, Exchange
<1>2. \A d \in Exchanges : [e \in Exchanges |-> ShareAfter(e, c)][d] = 0
  BY <1>1 DEF Latest, ShareAfter
<1>3. Sum([e \in Exchanges |-> ShareAfter(e, c)], Exchanges) = 0
  BY <1>2, LinesFinite, SumZero DEF Sum
<1> QED
  BY <1>3 DEF Later

\* Each share taken later is a part of what was taken later.
LEMMA LaterCounts ==
  ASSUME CoreInv, NEW c \in Exchanges, NEW d \in Exchanges
  PROVE  ShareAfter(d, c) <= Later(c) /\ ShareAfter(d, c) \in Nat /\ Later(c) \in Nat
<1> DEFINE f == [e \in Exchanges |-> ShareAfter(e, c)]
<1>1. (\A e \in Exchanges : f[e] \in Nat) /\ f[d] = ShareAfter(d, c) /\ Later(c) \in Nat
  BY SharesNat
<1>2. Later(c) = Sum(f, Exchanges)
  BY DEF Later
<1> HIDE DEF f
<1>3. f[d] <= Sum(f, Exchanges)
  BY <1>1, LinesFinite, SumBounds DEF Sum
<1> QED
  BY <1>1, <1>2, <1>3

\* The step of RestoreResv keeps the goods behind the lines.
LEMMA RestoreResvFit ==
  ASSUME UnitInv, FitInv, BalanceInv, NEW c \in Exchanges, RestoreResv(c)
  PROVE  FitInv'
<1>0. /\ CoreInv /\ WorkTyped /\ LinesTyped /\ Staged(c) /\ c \in Lines /\ pc[c].cancel = "oldResv" /\ Undoing(c)
      /\ Nobody(c) /\ made[c].step \notin Midway \cup {"validated"} /\ Claimed(c) /\ Standing(c)
      /\ made[c].plan.line \in Lines /\ made[c].plan \in Plans /\ UndoingUnits(c) /\ Latest(c)
  <2>1. CoreInv /\ pc[c].cancel = "oldResv" /\ Undoing(c)
    BY CancelPlacesUndone DEF UnitInv, RestoreResv, At
  <2> QED
    BY <2>1, UndoingOnly
<1>1. CASE Refused(c, "cancel")
  BY <1>0, <1>1, RefusedNoFit, QuietFit
<1>2. CASE ~Refused(c, "cancel")
  <2> PICK l \in Lines : l = made[c].plan.line
    BY <1>0
  <2> PICK p \in Plans : p = made[c].plan
    BY <1>0
  <2>0. l = made[c].plan.line /\ p = made[c].plan /\ l = p.line
    OBVIOUS
  <2>1. /\ UNCHANGED <<qty, made, undo>> /\ pc' = [pc EXCEPT ![c].cancel = "moneyBack"]
        /\ \/ /\ UNCHANGED <<resv, mark>>
              /\ p.physical = "not_issued" /\ p.snapshot.status = "active" =>
                   IF p.target = 0 THEN resv[l].status = "active" ELSE resv[l] = p.snapshot
           \/ /\ p.physical = "not_issued" /\ p.target > 0 /\ resv[l] = Reduced(p)
              /\ resv' = [resv EXCEPT ![l] = p.snapshot] /\ mark' = mark
           \/ /\ p.physical = "not_issued" /\ p.target = 0 /\ resv[l].status = "released"
              /\ resv' = [resv EXCEPT ![l].status = "active"] /\ mark' = [mark EXCEPT ![l] = "reserved"]
    <3>1. p.target \in Nat
      BY DEF Plans
    <3> QED
      BY <1>2, <2>0, <3>1 DEF RestoreResv, Goes
  <2>2. Only(c) /\ pc'[c].cancel = "moneyBack"
    BY <1>0, <2>1 DEF Only, WorkTyped
  <2>3. Undoing(c)'
    BY <1>0, <2>1 DEF Undoing, Standing
  <2>4. /\ p.target \in Nat /\ p.take \in Nat \ {0} /\ p.initial = p.target + p.take
        /\ p.physical \in {"not_issued", "warehouse"}
    BY <1>0, <2>0, StandingPlan DEF Plans
  <2>5. Rests(c, l) /\ Balanced(l, undo[c].baseline) /\ qty[l] = undo[c].baseline + p.take /\ qty[l] = undo[c].target
        /\ undo[c].baseline \in Nat
    BY <1>0, <2>0 DEF Rests, UndoingUnits, Emptied, Restored, Staged, CancelStage, Undoing, WorkTyped, Cancellation
  <2>6. p.target = undo[c].baseline /\ qty[l] = p.initial
    <3>1. p.target = undo[c].baseline + Later(c) /\ Later(c) = 0
      BY <1>0, <2>0, <2>5, LatestLater DEF Balanced
    <3> QED
      BY <2>4, <2>5, <3>1
  <2>7. PlanFits(c) /\ UndoingFit(c)
    BY <1>0 DEF FitInv, FitRow
  <2>8. /\ p.physical = "not_issued" => p.snapshot = [status |-> "active", qty |-> p.initial]
        /\ p.physical = "warehouse" => resv[l].status = "fulfilled"
        /\ mark[l] = "fulfilled" <=> p.physical = "warehouse"
        /\ p.physical = "not_issued" /\ p.target = 0 => resv[l].status \in {"active", "released"} /\ resv[l].qty = p.initial
    BY <1>0, <2>0, <2>5, <2>7 DEF PlanFits, UndoingFit, Issued
  <2>9. \A k \in Lines \ {l} : qty'[k] = qty[k] /\ mark'[k] = mark[k] /\ resv'[k] = resv[k]
    BY <1>0, <2>1 DEF LinesTyped
  <2>10. p.physical = "not_issued" => resv'[l] = [status |-> "active", qty |-> p.initial] /\ mark'[l] # "fulfilled"
    <3> SUFFICES ASSUME p.physical = "not_issued"
                 PROVE  resv'[l] = [status |-> "active", qty |-> p.initial] /\ mark'[l] # "fulfilled"
      OBVIOUS
    <3>1. resv[l] = [status |-> resv[l].status, qty |-> resv[l].qty] /\ p.snapshot.status = "active"
      BY <1>0, <2>8 DEF LinesTyped
    <3>2. CASE UNCHANGED <<resv, mark>>
      <4>1. CASE p.target = 0
        <5>1. resv[l].status = "active"
          <6>1. resv' = [resv EXCEPT ![l].status = "active"] => resv'[l].status = "active"
            BY <1>0 DEF LinesTyped
          <6> QED
            BY <2>1, <2>4, <2>8, <3>1, <3>2, <4>1, <6>1
        <5> QED
          BY <2>8, <3>1, <3>2, <4>1, <5>1
      <4>2. CASE p.target > 0
        <5>1. resv[l] = p.snapshot \/ resv[l] = Reduced(p)
          BY <2>1, <2>4, <2>8, <3>1, <4>2
        <5>2. resv'[l] = p.snapshot
          <6>1. resv[l] = Reduced(p) /\ resv' = [resv EXCEPT ![l] = p.snapshot] => resv'[l] = p.snapshot
            BY <1>0 DEF LinesTyped
          <6> QED
            BY <2>1, <2>4, <2>8, <3>1, <3>2, <4>2, <6>1
        <5> QED
          BY <2>8, <3>2, <5>2
      <4> QED
        BY <2>4, <4>1, <4>2
    <3>3. CASE p.target > 0 /\ resv' = [resv EXCEPT ![l] = p.snapshot] /\ mark' = mark
      BY <1>0, <2>8, <3>3 DEF LinesTyped
    <3>4. CASE p.target = 0 /\ resv' = [resv EXCEPT ![l].status = "active"] /\ mark' = [mark EXCEPT ![l] = "reserved"]
      <4>1. mark'[l] = "reserved"
        BY <1>0, <3>4 DEF LinesTyped
      <4>2. resv'[l].status = "active" /\ resv'[l].qty = p.initial /\ resv'[l] = [status |-> resv'[l].status, qty |-> resv'[l].qty]
        BY <1>0, <2>8, <3>4 DEF LinesTyped
      <4> QED
        BY <4>1, <4>2
    <3> QED
      BY <2>1, <3>2, <3>3, <3>4
  <2>11. p.physical = "warehouse" => UNCHANGED <<resv, mark>>
    BY <2>1
  <2>12. Fit(l)'
    <3>1. CASE p.physical = "not_issued"
      BY <2>1, <2>6, <2>10, <3>1 DEF Fit, Issued
    <3>2. CASE p.physical = "warehouse"
      BY <2>8, <2>11, <3>2 DEF Fit, Issued
    <3> QED
      BY <2>4, <3>1, <3>2
  <2>13. UndoingFit(c)'
    <3>1. Issued(l)' <=> p.physical = "warehouse"
      BY <2>4, <2>8, <2>10, <2>11 DEF Issued
    <3>2. p.physical = "warehouse" => resv'[l].status = "fulfilled"
      BY <2>8, <2>11
    <3>3. p.physical = "not_issued" => resv'[l].status = "active" /\ resv'[l].qty = p.initial
      BY <2>10
    <3>4. made'[c].plan = p /\ made'[c].plan.line = l
      BY <2>0, <2>1
    <3> QED
      BY <2>12, <3>1, <3>2, <3>3, <3>4 DEF UndoingFit
  <2>14. FitRow(c)'
    BY <1>0, <2>1, <2>3, <2>7, <2>13 DEF FitRow, PlanFits, PlannedFit, ClaimedFit, NewFit, Midway
  <2>15. \A k \in Lines : Changing(c, k) => Changing(c, k)'
    BY <2>1, <2>3 DEF Changing
  <2>16. ASSUME NEW d \in Exchanges \ {c}, Standing(d), made[d].plan.line = l PROVE Kept(d)'
    <3>1. Kept(d) /\ made'[d] = made[d] /\ Rests(d, l)
      BY <1>0, <2>2, <2>16 DEF FitInv, FitRow, Nobody, Only, Midway, Rests
    <3>2. made[d].plan.target > 0
      <4>1. Claimed(d) /\ made[d].id # made[c].id /\ made[d].id <= made[c].id
        BY <1>0, <2>0, <2>16, <3>1, StandingClaimed DEF BalanceInv, Numbered, Latest, Claimed
      <4>2. made[d].id \in Nat /\ made[c].id \in Nat
        BY <1>0 DEF WorkTyped, Exchange
      <4>3. ShareAfter(c, d) = p.take
        BY <2>0, <2>5, <2>16, <4>1, <4>2 DEF ShareAfter
      <4>4. made[d].plan.target = undo[c].baseline + Later(d) /\ p.take <= Later(d) /\ Later(d) \in Nat
        BY <1>0, <2>5, <3>1, <4>3, LaterCounts DEF Balanced
      <4> QED
        BY <2>4, <2>5, <4>4
    <3>3. made[d].plan.physical = "warehouse" => resv'[l] = resv[l]
      <4>1. made[d].plan.physical = "warehouse" => resv[l].status = "fulfilled"
        BY <2>16, <3>1 DEF Kept
      <4>2. p.physical = "not_issued" => resv[l].status \in {"active", "released"} \/ UNCHANGED resv
        BY <2>1, <2>8 DEF Reduced
      <4> QED
        BY <2>1, <2>4, <2>11, <4>1, <4>2
    <3> QED
      BY <2>16, <3>1, <3>2, <3>3 DEF Kept
  <2> QED
    BY <1>0, <2>2, <2>9, <2>12, <2>14, <2>15, <2>16, FitStep, PlanLines
<1> QED
  BY <1>1, <1>2

\* A return of units, or its cancellation, keeps the goods behind the lines.
LEMMA ReturnsFit ==
  ASSUME FitInv, UNCHANGED <<qty, mark, resv, made, undo, pc>>
  PROVE  FitInv'
<1>1. LinesFit'
  BY DEF FitInv, LinesFit, Fit, Issued, Changing, Undoing, Standing
<1>2. ASSUME NEW d \in Exchanges PROVE FitRow(d)'
  <2>1. FitRow(d)
    BY DEF FitInv
  <2>2. /\ \A l : Fit(l)' <=> Fit(l)
        /\ Found(d)' <=> Found(d)
        /\ Kept(d)' <=> Kept(d)
        /\ PlanFits(d)' <=> PlanFits(d)
    BY FitSame
  <2>3. (Undoing(d)' <=> Undoing(d)) /\ (Standing(d)' <=> Standing(d)) /\ (Claimed(d)' <=> Claimed(d))
    BY DEF Undoing, Standing, Claimed
  <2> QED
    BY <2>1, <2>2, <2>3 DEF FitRow, PlannedFit, ClaimedFit, NewFit, UndoingFit, Issued
<1> QED
  BY <1>1, <1>2 DEF FitInv

\* At first the units of every line are issued or promised.
LEMMA FitInit == Init => FitInv
<1> SUFFICES ASSUME Init PROVE FitInv
  OBVIOUS
<1>1. \A d \in Exchanges : /\ made[d].status = "none" /\ made[d].id = 0 /\ made[d].step = "none" /\ undo[d].step = "none"
  BY DEF Init
<1>2. LinesFit
  <2> SUFFICES ASSUME NEW l \in Lines PROVE Fit(l)
    BY DEF LinesFit
  <2>1. CASE l \in First
    BY <2>1 DEF Init, Fit, Issued
  <2>2. CASE l \notin First
    BY <2>2 DEF Init, Fit
  <2> QED
    BY <2>1, <2>2
<1>3. \A d \in Exchanges : FitRow(d)
  BY <1>1 DEF FitRow, Claimed, Standing, PlannedFit, ClaimedFit, NewFit, UndoingFit, Undoing
<1> QED
  BY <1>2, <1>3 DEF FitInv

\* Every step keeps the goods behind the lines.
LEMMA FitsStep ==
  ASSUME UnitInv, FitInv, BalanceInv, ExchangesApart, HandoversStay, [Next]_vars
  PROVE  FitInv'
<1>0. CoreInv
  BY DEF UnitInv
<1>1. ASSUME NEW c \in Exchanges, Creates(c) PROVE FitInv'
  BY <1>0, <1>1, ClaimFit, ReserveFit, SetQtyFit, OldRowNoFit, InsertInNoFit, ApplyInNoFit, AdvanceOldFit,
     InsertContentFit, PromiseFit, AdvanceContentFit, NewRowNoFit, InsertOutNoFit, ApplyOutFit, LinkOutNoFit, AdvanceNewNoFit,
     BookMoneyNoFit, SetTotalNoFit, AdvanceMoneyNoFit, CompleteNoFit, QuietFit DEF Creates
<1>2. ASSUME NEW c \in Exchanges, Cancels(c) PROVE FitInv'
  BY <1>0, <1>2, FreezeFit, CancelInNoFit, CancelOutFit, ReleaseNewFit, EmptyNewFit, RestoreQtyFit,
     RestoreResvFit, MoneyBackNoFit, FinishFit, CompleteCancelNoFit, QuietFit DEF Cancels
<1>3. ASSUME NEW c \in Exchanges, Plan(c) \/ Retry(c) \/ Drop(c) \/ BeginCancel(c)
             \/ \E op \in {"create", "cancel"} : Crash(c, op)
      PROVE  FitInv'
  BY <1>0, <1>3, PlanFit, RetryNoFit, DropNoFit, CrashNoFit, BeginCancelNoFit, QuietFit
<1>4. ASSUME NEW l \in Lines, TakeReturn(l) \/ CancelReturn(l) PROVE FitInv'
  BY <1>4, ReturnsFit DEF TakeReturn, CancelReturn
<1>5. CASE UNCHANGED vars
  BY <1>5, ReturnsFit DEF vars, lineVars
<1> QED
  BY <1>1, <1>2, <1>3, <1>4, <1>5 DEF Next

-----------------------------------------------------------------------------
(* The money of the order, when it is worked on by one handler *)

\* No exchange is between its claim and its end, or its preflight and its end.
AllQuiet == \A c \in Exchanges : made[c].step \notin Midway /\ ~Undoing(c)
Pending(c) == IF made[c].money THEN 0 ELSE made[c].plan.money
Booked(c) == IF made[c].money THEN made[c].plan.money ELSE 0
Worth == Sum(qty, Lines)

PlannedMoney(c) ==
  LET p == made[c].plan
  IN made[c].step = "validated" =>
       p.final = total - p.take + p.give /\ 0 <= paid + p.money /\ paid + p.money <= p.final
MidwayMoney(c) ==
  LET p == made[c].plan
  IN made[c].step \in Midway =>
       Worth = p.final - p.give + qty[c] /\ 0 <= paid + Pending(c) /\ paid + Pending(c) <= p.final
Finished(c) == made[c].step = "completed" /\ undo[c].step = "none"
Settled(c) == pc[c].create = "moneyDone" \/ made[c].step = "finances_done"
SettledMoney(c) ==
  /\ made[c].money => made[c].plan.money # 0
  /\ pc[c].create = "total" \/ Settled(c) \/ Finished(c) => (made[c].money <=> made[c].plan.money # 0)
  /\ Settled(c) \/ Finished(c) => made[c].linked = made[c].money
  /\ Settled(c) => total = made[c].plan.final
UndoingMoney(c) ==
  Undoing(c) =>
    /\ made[c].money => made[c].linked
    /\ 0 <= paid - Booked(c) /\ paid - Booked(c) <= undo[c].projected
    /\ pc[c].cancel = "finish" => ~made[c].money
MoneyRow(c) == PlannedMoney(c) /\ MidwayMoney(c) /\ SettledMoney(c) /\ UndoingMoney(c)
QuietMoney == AllQuiet => total = Worth /\ 0 <= paid /\ paid <= total
MoneyInv == QuietMoney /\ \A c \in Exchanges : MoneyRow(c)

\* The step concerns the money in nothing.
MoneyQuiet(c) ==
  /\ UNCHANGED <<qty, total, paid>> /\ Only(c)
  /\ made'[c].status = made[c].status /\ made'[c].plan = made[c].plan
  /\ made'[c].money = made[c].money /\ made'[c].linked = made[c].linked
  /\ made'[c].step = "validated" => made[c].step = "validated"
  /\ made'[c].step \in Midway <=> made[c].step \in Midway
  /\ made'[c].step = "finances_done" => made[c].step = "finances_done" \/ pc[c].create = "moneyDone"
  /\ made'[c].step = "completed" => made[c].step = "completed"
  /\ Undoing(c)' <=> Undoing(c)
  /\ Undoing(c) => undo'[c].projected = undo[c].projected
  /\ undo'[c].step = "none" => undo[c].step = "none"
  /\ pc'[c].create = "total" => pc[c].create = "total"
  /\ pc'[c].create = "moneyDone" => pc[c].create = "moneyDone"
  /\ pc'[c].cancel = "finish" => pc[c].cancel = "finish"

\* A step that does not concern the money keeps the books.
LEMMA QuietBooks ==
  ASSUME MoneyInv, NEW c \in Exchanges, MoneyQuiet(c)
  PROVE  MoneyInv'
<1>0. UNCHANGED <<qty, total, paid>> /\ Worth' = Worth
  BY DEF MoneyQuiet, Worth
<1>1. ASSUME NEW d \in Exchanges
      PROVE  /\ made'[d].status = made[d].status /\ made'[d].plan = made[d].plan
             /\ made'[d].money = made[d].money /\ made'[d].linked = made[d].linked
             /\ made'[d].step = "validated" => made[d].step = "validated"
             /\ made'[d].step \in Midway <=> made[d].step \in Midway
             /\ made'[d].step = "finances_done" => made[d].step = "finances_done" \/ pc[d].create = "moneyDone"
             /\ made'[d].step = "completed" => made[d].step = "completed"
             /\ Undoing(d)' <=> Undoing(d)
             /\ Undoing(d) => undo'[d].projected = undo[d].projected
             /\ undo'[d].step = "none" => undo[d].step = "none"
             /\ pc'[d].create = "total" => pc[d].create = "total"
             /\ pc'[d].create = "moneyDone" => pc[d].create = "moneyDone"
             /\ pc'[d].cancel = "finish" => pc[d].cancel = "finish"
  <2>1. CASE d = c
    BY <2>1 DEF MoneyQuiet
  <2>2. CASE d # c
    BY <2>2 DEF MoneyQuiet, Only, Undoing, Standing
  <2> QED
    BY <2>1, <2>2
<1>2. QuietMoney'
  BY <1>0, <1>1 DEF MoneyInv, QuietMoney, AllQuiet
<1>3. ASSUME NEW d \in Exchanges PROVE MoneyRow(d)'
  <2>1. MoneyRow(d) /\ Pending(d)' = Pending(d) /\ Booked(d)' = Booked(d)
    BY <1>1 DEF MoneyInv, Pending, Booked
  <2>2. PlannedMoney(d)' /\ MidwayMoney(d)'
    BY <1>0, <1>1, <2>1 DEF MoneyRow, PlannedMoney, MidwayMoney
  <2>3. (Settled(d)' => Settled(d)) /\ (Finished(d)' => Finished(d))
    BY <1>1 DEF Settled, Finished
  <2>4. SettledMoney(d)'
    BY <1>0, <1>1, <2>1, <2>3 DEF MoneyRow, SettledMoney
  <2>5. UndoingMoney(d)'
    BY <1>0, <1>1, <2>1 DEF MoneyRow, UndoingMoney
  <2> QED
    BY <2>2, <2>4, <2>5 DEF MoneyRow
<1> QED
  BY <1>2, <1>3 DEF MoneyInv

\* A step of one exchange while nobody else is in the middle of anything.
LEMMA MoneyStep ==
  ASSUME MoneyInv, NEW c \in Exchanges, Only(c), Nobody(c), MoneyRow(c)',
         made'[c].step \notin Midway /\ ~Undoing(c)' => total' = Worth' /\ 0 <= paid' /\ paid' <= total'
  PROVE  MoneyInv'
<1>1. QuietMoney'
  BY DEF QuietMoney, AllQuiet
<1>2. ASSUME NEW d \in Exchanges \ {c} PROVE MoneyRow(d)'
  <2>1. /\ SettledMoney(d) /\ made'[d] = made[d] /\ undo'[d] = undo[d] /\ pc'[d] = pc[d] /\ ~Undoing(d)
        /\ made[d].step \notin Midway \cup {"validated"} /\ pc[d].create = "idle"
    BY DEF MoneyInv, MoneyRow, Only, Nobody
  <2>2. ~Undoing(d)' /\ ~Settled(d)' /\ (Finished(d)' => Finished(d))
    BY <2>1 DEF Undoing, Standing, Settled, Finished, Midway
  <2> QED
    BY <2>1, <2>2 DEF MoneyRow, PlannedMoney, MidwayMoney, SettledMoney, UndoingMoney
<1> QED
  BY <1>1, <1>2 DEF MoneyInv

\* The worth of the lines when one of them changes.
LEMMA WorthIs == LinesWorth = Worth
BY PlainSum DEF LinesWorth, Worth

\* The worth of the lines is a number, no less than that of one.
LEMMA WorthNat ==
  ASSUME LinesTyped
  PROVE  Worth \in Nat /\ \A l \in Lines : qty[l] <= Worth
<1>1. \A l \in Lines : qty[l] \in Nat
  BY DEF LinesTyped
<1> QED
  BY <1>1, LinesFinite, SumNat, SumBounds DEF Worth, Sum

\* The worth follows the one line that changes.
LEMMA WorthPoint ==
  ASSUME LinesTyped, NEW m \in Lines, qty'[m] \in Nat, \A k \in Lines \ {m} : qty'[k] = qty[k]
  PROVE  Worth' = Worth - qty[m] + qty'[m]
<1>1. \A k \in Lines : qty[k] \in Int /\ qty'[k] \in Int
  BY DEF LinesTyped
<1>2. Worth = Sum(qty, Lines) /\ Worth' = Sum(qty', Lines)
  BY DEF Worth
<1> DEFINE f == qty
           g == qty'
<1>3. \A k \in Lines : f[k] \in Int /\ g[k] \in Int
  BY <1>1
<1>4. \A k \in Lines \ {m} : g[k] = f[k]
  OBVIOUS
<1> HIDE DEF f, g
<1>5. Sum(g, Lines) = Sum(f, Lines) - f[m] + g[m]
  <2>1. IsFiniteSet(Lines)
    BY LinesFinite
  <2> QED
    BY ONLY <1>3, <1>4, <2>1, SumPoint, m \in Lines
<1> QED
  BY <1>2, <1>5 DEF f, g

\* The step of Retry leaves the books and the quantities alone.
LEMMA RetryNoMoney == ASSUME CoreInv, NEW c \in Exchanges, Retry(c) PROVE MoneyQuiet(c)
<1>0. Staged(c) /\ WorkTyped /\ made[c] \in Exchange /\ undo[c] \in Cancellation /\ pc[c] \in [create : CreatePlaces, cancel : CancelPlaces]
  BY DEF CoreInv, Typed, WorkTyped
<1>1. UNCHANGED <<qty, total, paid>> /\ Only(c)
  BY <1>0 DEF Retry, Goes, Refused, Releases, lineVars, bookVars, Only, WorkTyped
<1>2. /\ made'[c].status = made[c].status /\ made'[c].plan = made[c].plan
      /\ made'[c].money = made[c].money /\ made'[c].linked = made[c].linked
      /\ made'[c].step = "validated" => made[c].step = "validated"
      /\ made'[c].step \in Midway <=> made[c].step \in Midway
      /\ made'[c].step = "finances_done" => made[c].step = "finances_done" \/ pc[c].create = "moneyDone"
      /\ made'[c].step = "completed" => made[c].step = "completed"
  BY <1>0 DEF Retry, Goes, Refused, At, Staged, CreateStage, StepAt, Midway, WorkTyped, Exchange
<1>3. /\ Undoing(c)' <=> Undoing(c)
      /\ Undoing(c) => undo'[c].projected = undo[c].projected
      /\ undo'[c].step = "none" => undo[c].step = "none"
  BY <1>0, <1>2 DEF Retry, Goes, Refused, At, Staged, CancelStage, Undoing, Standing, WorkTyped, Cancellation
<1>4. /\ pc'[c].create = "total" => pc[c].create = "total"
      /\ pc'[c].create = "moneyDone" => pc[c].create = "moneyDone"
      /\ pc'[c].cancel = "finish" => pc[c].cancel = "finish"
  BY <1>0 DEF Retry, Goes, Refused, At, Resumes, WorkTyped
<1> QED
  BY <1>1, <1>2, <1>3, <1>4 DEF MoneyQuiet

\* The step of Drop leaves the books and the quantities alone.
LEMMA DropNoMoney == ASSUME CoreInv, NEW c \in Exchanges, Drop(c) PROVE MoneyQuiet(c)
<1>0. Staged(c) /\ WorkTyped /\ made[c] \in Exchange /\ undo[c] \in Cancellation /\ pc[c] \in [create : CreatePlaces, cancel : CancelPlaces]
  BY DEF CoreInv, Typed, WorkTyped
<1>1. UNCHANGED <<qty, total, paid>> /\ Only(c)
  BY <1>0 DEF Drop, Goes, Refused, Releases, lineVars, bookVars, Only, WorkTyped
<1>2. /\ made'[c].status = made[c].status /\ made'[c].plan = made[c].plan
      /\ made'[c].money = made[c].money /\ made'[c].linked = made[c].linked
      /\ made'[c].step = "validated" => made[c].step = "validated"
      /\ made'[c].step \in Midway <=> made[c].step \in Midway
      /\ made'[c].step = "finances_done" => made[c].step = "finances_done" \/ pc[c].create = "moneyDone"
      /\ made'[c].step = "completed" => made[c].step = "completed"
  BY <1>0 DEF Drop, Goes, Refused, At, Staged, CreateStage, StepAt, Midway, WorkTyped, Exchange
<1>3. /\ Undoing(c)' <=> Undoing(c)
      /\ Undoing(c) => undo'[c].projected = undo[c].projected
      /\ undo'[c].step = "none" => undo[c].step = "none"
  BY <1>0, <1>2 DEF Drop, Goes, Refused, At, Staged, CancelStage, Undoing, Standing, WorkTyped, Cancellation
<1>4. /\ pc'[c].create = "total" => pc[c].create = "total"
      /\ pc'[c].create = "moneyDone" => pc[c].create = "moneyDone"
      /\ pc'[c].cancel = "finish" => pc[c].cancel = "finish"
  BY <1>0 DEF Drop, Goes, Refused, At, Resumes, WorkTyped
<1> QED
  BY <1>1, <1>2, <1>3, <1>4 DEF MoneyQuiet

\* The step of Reserve leaves the books and the quantities alone.
LEMMA ReserveNoMoney == ASSUME CoreInv, NEW c \in Exchanges, Reserve(c) PROVE MoneyQuiet(c)
<1>0. Staged(c) /\ WorkTyped /\ made[c] \in Exchange /\ undo[c] \in Cancellation /\ pc[c] \in [create : CreatePlaces, cancel : CancelPlaces]
  BY DEF CoreInv, Typed, WorkTyped
<1>1. UNCHANGED <<qty, total, paid>> /\ Only(c)
  BY <1>0 DEF Reserve, Goes, Refused, Releases, lineVars, bookVars, Only, WorkTyped
<1>2. /\ made'[c].status = made[c].status /\ made'[c].plan = made[c].plan
      /\ made'[c].money = made[c].money /\ made'[c].linked = made[c].linked
      /\ made'[c].step = "validated" => made[c].step = "validated"
      /\ made'[c].step \in Midway <=> made[c].step \in Midway
      /\ made'[c].step = "finances_done" => made[c].step = "finances_done" \/ pc[c].create = "moneyDone"
      /\ made'[c].step = "completed" => made[c].step = "completed"
  BY <1>0 DEF Reserve, Goes, Refused, At, Staged, CreateStage, StepAt, Midway, WorkTyped, Exchange
<1>3. /\ Undoing(c)' <=> Undoing(c)
      /\ Undoing(c) => undo'[c].projected = undo[c].projected
      /\ undo'[c].step = "none" => undo[c].step = "none"
  BY <1>0, <1>2 DEF Reserve, Goes, Refused, At, Staged, CancelStage, Undoing, Standing, WorkTyped, Cancellation
<1>4. /\ pc'[c].create = "total" => pc[c].create = "total"
      /\ pc'[c].create = "moneyDone" => pc[c].create = "moneyDone"
      /\ pc'[c].cancel = "finish" => pc[c].cancel = "finish"
  BY <1>0 DEF Reserve, Goes, Refused, At, Resumes, WorkTyped
<1> QED
  BY <1>1, <1>2, <1>3, <1>4 DEF MoneyQuiet

\* The step of OldRow leaves the books and the quantities alone.
LEMMA OldRowNoMoney == ASSUME CoreInv, NEW c \in Exchanges, OldRow(c) PROVE MoneyQuiet(c)
<1>0. Staged(c) /\ WorkTyped /\ made[c] \in Exchange /\ undo[c] \in Cancellation /\ pc[c] \in [create : CreatePlaces, cancel : CancelPlaces]
  BY DEF CoreInv, Typed, WorkTyped
<1>1. UNCHANGED <<qty, total, paid>> /\ Only(c)
  BY <1>0 DEF OldRow, Goes, Refused, Releases, lineVars, bookVars, Only, WorkTyped
<1>2. /\ made'[c].status = made[c].status /\ made'[c].plan = made[c].plan
      /\ made'[c].money = made[c].money /\ made'[c].linked = made[c].linked
      /\ made'[c].step = "validated" => made[c].step = "validated"
      /\ made'[c].step \in Midway <=> made[c].step \in Midway
      /\ made'[c].step = "finances_done" => made[c].step = "finances_done" \/ pc[c].create = "moneyDone"
      /\ made'[c].step = "completed" => made[c].step = "completed"
  BY <1>0 DEF OldRow, Goes, Refused, At, Staged, CreateStage, StepAt, Midway, WorkTyped, Exchange
<1>3. /\ Undoing(c)' <=> Undoing(c)
      /\ Undoing(c) => undo'[c].projected = undo[c].projected
      /\ undo'[c].step = "none" => undo[c].step = "none"
  BY <1>0, <1>2 DEF OldRow, Goes, Refused, At, Staged, CancelStage, Undoing, Standing, WorkTyped, Cancellation
<1>4. /\ pc'[c].create = "total" => pc[c].create = "total"
      /\ pc'[c].create = "moneyDone" => pc[c].create = "moneyDone"
      /\ pc'[c].cancel = "finish" => pc[c].cancel = "finish"
  BY <1>0 DEF OldRow, Goes, Refused, At, Resumes, WorkTyped
<1> QED
  BY <1>1, <1>2, <1>3, <1>4 DEF MoneyQuiet

\* The step of InsertIn leaves the books and the quantities alone.
LEMMA InsertInNoMoney == ASSUME CoreInv, NEW c \in Exchanges, InsertIn(c) PROVE MoneyQuiet(c)
<1>0. Staged(c) /\ WorkTyped /\ made[c] \in Exchange /\ undo[c] \in Cancellation /\ pc[c] \in [create : CreatePlaces, cancel : CancelPlaces]
  BY DEF CoreInv, Typed, WorkTyped
<1>1. UNCHANGED <<qty, total, paid>> /\ Only(c)
  BY <1>0 DEF InsertIn, Goes, Refused, Releases, lineVars, bookVars, Only, WorkTyped
<1>2. /\ made'[c].status = made[c].status /\ made'[c].plan = made[c].plan
      /\ made'[c].money = made[c].money /\ made'[c].linked = made[c].linked
      /\ made'[c].step = "validated" => made[c].step = "validated"
      /\ made'[c].step \in Midway <=> made[c].step \in Midway
      /\ made'[c].step = "finances_done" => made[c].step = "finances_done" \/ pc[c].create = "moneyDone"
      /\ made'[c].step = "completed" => made[c].step = "completed"
  BY <1>0 DEF InsertIn, Goes, Refused, At, Staged, CreateStage, StepAt, Midway, WorkTyped, Exchange
<1>3. /\ Undoing(c)' <=> Undoing(c)
      /\ Undoing(c) => undo'[c].projected = undo[c].projected
      /\ undo'[c].step = "none" => undo[c].step = "none"
  BY <1>0, <1>2 DEF InsertIn, Goes, Refused, At, Staged, CancelStage, Undoing, Standing, WorkTyped, Cancellation
<1>4. /\ pc'[c].create = "total" => pc[c].create = "total"
      /\ pc'[c].create = "moneyDone" => pc[c].create = "moneyDone"
      /\ pc'[c].cancel = "finish" => pc[c].cancel = "finish"
  BY <1>0 DEF InsertIn, Goes, Refused, At, Resumes, WorkTyped
<1> QED
  BY <1>1, <1>2, <1>3, <1>4 DEF MoneyQuiet

\* The step of ApplyIn leaves the books and the quantities alone.
LEMMA ApplyInNoMoney == ASSUME CoreInv, NEW c \in Exchanges, ApplyIn(c) PROVE MoneyQuiet(c)
<1>0. Staged(c) /\ WorkTyped /\ made[c] \in Exchange /\ undo[c] \in Cancellation /\ pc[c] \in [create : CreatePlaces, cancel : CancelPlaces]
  BY DEF CoreInv, Typed, WorkTyped
<1>1. UNCHANGED <<qty, total, paid>> /\ Only(c)
  BY <1>0 DEF ApplyIn, Goes, Refused, Releases, lineVars, bookVars, Only, WorkTyped
<1>2. /\ made'[c].status = made[c].status /\ made'[c].plan = made[c].plan
      /\ made'[c].money = made[c].money /\ made'[c].linked = made[c].linked
      /\ made'[c].step = "validated" => made[c].step = "validated"
      /\ made'[c].step \in Midway <=> made[c].step \in Midway
      /\ made'[c].step = "finances_done" => made[c].step = "finances_done" \/ pc[c].create = "moneyDone"
      /\ made'[c].step = "completed" => made[c].step = "completed"
  BY <1>0 DEF ApplyIn, Goes, Refused, At, Staged, CreateStage, StepAt, Midway, WorkTyped, Exchange
<1>3. /\ Undoing(c)' <=> Undoing(c)
      /\ Undoing(c) => undo'[c].projected = undo[c].projected
      /\ undo'[c].step = "none" => undo[c].step = "none"
  BY <1>0, <1>2 DEF ApplyIn, Goes, Refused, At, Staged, CancelStage, Undoing, Standing, WorkTyped, Cancellation
<1>4. /\ pc'[c].create = "total" => pc[c].create = "total"
      /\ pc'[c].create = "moneyDone" => pc[c].create = "moneyDone"
      /\ pc'[c].cancel = "finish" => pc[c].cancel = "finish"
  BY <1>0 DEF ApplyIn, Goes, Refused, At, Resumes, WorkTyped
<1> QED
  BY <1>1, <1>2, <1>3, <1>4 DEF MoneyQuiet

\* The step of Promise leaves the books and the quantities alone.
LEMMA PromiseNoMoney == ASSUME CoreInv, NEW c \in Exchanges, Promise(c) PROVE MoneyQuiet(c)
<1>0. Staged(c) /\ WorkTyped /\ made[c] \in Exchange /\ undo[c] \in Cancellation /\ pc[c] \in [create : CreatePlaces, cancel : CancelPlaces]
  BY DEF CoreInv, Typed, WorkTyped
<1>1. UNCHANGED <<qty, total, paid>> /\ Only(c)
  BY <1>0 DEF Promise, Goes, Refused, Releases, lineVars, bookVars, Only, WorkTyped
<1>2. /\ made'[c].status = made[c].status /\ made'[c].plan = made[c].plan
      /\ made'[c].money = made[c].money /\ made'[c].linked = made[c].linked
      /\ made'[c].step = "validated" => made[c].step = "validated"
      /\ made'[c].step \in Midway <=> made[c].step \in Midway
      /\ made'[c].step = "finances_done" => made[c].step = "finances_done" \/ pc[c].create = "moneyDone"
      /\ made'[c].step = "completed" => made[c].step = "completed"
  BY <1>0 DEF Promise, Goes, Refused, At, Staged, CreateStage, StepAt, Midway, WorkTyped, Exchange
<1>3. /\ Undoing(c)' <=> Undoing(c)
      /\ Undoing(c) => undo'[c].projected = undo[c].projected
      /\ undo'[c].step = "none" => undo[c].step = "none"
  BY <1>0, <1>2 DEF Promise, Goes, Refused, At, Staged, CancelStage, Undoing, Standing, WorkTyped, Cancellation
<1>4. /\ pc'[c].create = "total" => pc[c].create = "total"
      /\ pc'[c].create = "moneyDone" => pc[c].create = "moneyDone"
      /\ pc'[c].cancel = "finish" => pc[c].cancel = "finish"
  BY <1>0 DEF Promise, Goes, Refused, At, Resumes, WorkTyped
<1> QED
  BY <1>1, <1>2, <1>3, <1>4 DEF MoneyQuiet

\* The step of NewRow leaves the books and the quantities alone.
LEMMA NewRowNoMoney == ASSUME CoreInv, NEW c \in Exchanges, NewRow(c) PROVE MoneyQuiet(c)
<1>0. Staged(c) /\ WorkTyped /\ made[c] \in Exchange /\ undo[c] \in Cancellation /\ pc[c] \in [create : CreatePlaces, cancel : CancelPlaces]
  BY DEF CoreInv, Typed, WorkTyped
<1>1. UNCHANGED <<qty, total, paid>> /\ Only(c)
  BY <1>0 DEF NewRow, Goes, Refused, Releases, lineVars, bookVars, Only, WorkTyped
<1>2. /\ made'[c].status = made[c].status /\ made'[c].plan = made[c].plan
      /\ made'[c].money = made[c].money /\ made'[c].linked = made[c].linked
      /\ made'[c].step = "validated" => made[c].step = "validated"
      /\ made'[c].step \in Midway <=> made[c].step \in Midway
      /\ made'[c].step = "finances_done" => made[c].step = "finances_done" \/ pc[c].create = "moneyDone"
      /\ made'[c].step = "completed" => made[c].step = "completed"
  BY <1>0 DEF NewRow, Goes, Refused, At, Staged, CreateStage, StepAt, Midway, WorkTyped, Exchange
<1>3. /\ Undoing(c)' <=> Undoing(c)
      /\ Undoing(c) => undo'[c].projected = undo[c].projected
      /\ undo'[c].step = "none" => undo[c].step = "none"
  BY <1>0, <1>2 DEF NewRow, Goes, Refused, At, Staged, CancelStage, Undoing, Standing, WorkTyped, Cancellation
<1>4. /\ pc'[c].create = "total" => pc[c].create = "total"
      /\ pc'[c].create = "moneyDone" => pc[c].create = "moneyDone"
      /\ pc'[c].cancel = "finish" => pc[c].cancel = "finish"
  BY <1>0 DEF NewRow, Goes, Refused, At, Resumes, WorkTyped
<1> QED
  BY <1>1, <1>2, <1>3, <1>4 DEF MoneyQuiet

\* The step of InsertOut leaves the books and the quantities alone.
LEMMA InsertOutNoMoney == ASSUME CoreInv, NEW c \in Exchanges, InsertOut(c) PROVE MoneyQuiet(c)
<1>0. Staged(c) /\ WorkTyped /\ made[c] \in Exchange /\ undo[c] \in Cancellation /\ pc[c] \in [create : CreatePlaces, cancel : CancelPlaces]
  BY DEF CoreInv, Typed, WorkTyped
<1>1. UNCHANGED <<qty, total, paid>> /\ Only(c)
  BY <1>0 DEF InsertOut, Goes, Refused, Releases, lineVars, bookVars, Only, WorkTyped
<1>2. /\ made'[c].status = made[c].status /\ made'[c].plan = made[c].plan
      /\ made'[c].money = made[c].money /\ made'[c].linked = made[c].linked
      /\ made'[c].step = "validated" => made[c].step = "validated"
      /\ made'[c].step \in Midway <=> made[c].step \in Midway
      /\ made'[c].step = "finances_done" => made[c].step = "finances_done" \/ pc[c].create = "moneyDone"
      /\ made'[c].step = "completed" => made[c].step = "completed"
  BY <1>0 DEF InsertOut, Goes, Refused, At, Staged, CreateStage, StepAt, Midway, WorkTyped, Exchange
<1>3. /\ Undoing(c)' <=> Undoing(c)
      /\ Undoing(c) => undo'[c].projected = undo[c].projected
      /\ undo'[c].step = "none" => undo[c].step = "none"
  BY <1>0, <1>2 DEF InsertOut, Goes, Refused, At, Staged, CancelStage, Undoing, Standing, WorkTyped, Cancellation
<1>4. /\ pc'[c].create = "total" => pc[c].create = "total"
      /\ pc'[c].create = "moneyDone" => pc[c].create = "moneyDone"
      /\ pc'[c].cancel = "finish" => pc[c].cancel = "finish"
  BY <1>0 DEF InsertOut, Goes, Refused, At, Resumes, WorkTyped
<1> QED
  BY <1>1, <1>2, <1>3, <1>4 DEF MoneyQuiet

\* The step of LinkOut leaves the books and the quantities alone.
LEMMA LinkOutNoMoney == ASSUME CoreInv, NEW c \in Exchanges, LinkOut(c) PROVE MoneyQuiet(c)
<1>0. Staged(c) /\ WorkTyped /\ made[c] \in Exchange /\ undo[c] \in Cancellation /\ pc[c] \in [create : CreatePlaces, cancel : CancelPlaces]
  BY DEF CoreInv, Typed, WorkTyped
<1>1. UNCHANGED <<qty, total, paid>> /\ Only(c)
  BY <1>0 DEF LinkOut, Goes, Refused, Releases, lineVars, bookVars, Only, WorkTyped
<1>2. /\ made'[c].status = made[c].status /\ made'[c].plan = made[c].plan
      /\ made'[c].money = made[c].money /\ made'[c].linked = made[c].linked
      /\ made'[c].step = "validated" => made[c].step = "validated"
      /\ made'[c].step \in Midway <=> made[c].step \in Midway
      /\ made'[c].step = "finances_done" => made[c].step = "finances_done" \/ pc[c].create = "moneyDone"
      /\ made'[c].step = "completed" => made[c].step = "completed"
  BY <1>0 DEF LinkOut, Goes, Refused, At, Staged, CreateStage, StepAt, Midway, WorkTyped, Exchange
<1>3. /\ Undoing(c)' <=> Undoing(c)
      /\ Undoing(c) => undo'[c].projected = undo[c].projected
      /\ undo'[c].step = "none" => undo[c].step = "none"
  BY <1>0, <1>2 DEF LinkOut, Goes, Refused, At, Staged, CancelStage, Undoing, Standing, WorkTyped, Cancellation
<1>4. /\ pc'[c].create = "total" => pc[c].create = "total"
      /\ pc'[c].create = "moneyDone" => pc[c].create = "moneyDone"
      /\ pc'[c].cancel = "finish" => pc[c].cancel = "finish"
  BY <1>0 DEF LinkOut, Goes, Refused, At, Resumes, WorkTyped
<1> QED
  BY <1>1, <1>2, <1>3, <1>4 DEF MoneyQuiet

\* The step of ApplyOut leaves the books and the quantities alone.
LEMMA ApplyOutNoMoney == ASSUME CoreInv, NEW c \in Exchanges, ApplyOut(c) PROVE MoneyQuiet(c)
<1>0. Staged(c) /\ WorkTyped /\ made[c] \in Exchange /\ undo[c] \in Cancellation /\ pc[c] \in [create : CreatePlaces, cancel : CancelPlaces]
  BY DEF CoreInv, Typed, WorkTyped
<1>1. UNCHANGED <<qty, total, paid>> /\ Only(c)
  BY <1>0 DEF ApplyOut, Goes, Refused, Releases, lineVars, bookVars, Only, WorkTyped
<1>2. /\ made'[c].status = made[c].status /\ made'[c].plan = made[c].plan
      /\ made'[c].money = made[c].money /\ made'[c].linked = made[c].linked
      /\ made'[c].step = "validated" => made[c].step = "validated"
      /\ made'[c].step \in Midway <=> made[c].step \in Midway
      /\ made'[c].step = "finances_done" => made[c].step = "finances_done" \/ pc[c].create = "moneyDone"
      /\ made'[c].step = "completed" => made[c].step = "completed"
  BY <1>0 DEF ApplyOut, Goes, Refused, At, Staged, CreateStage, StepAt, Midway, WorkTyped, Exchange
<1>3. /\ Undoing(c)' <=> Undoing(c)
      /\ Undoing(c) => undo'[c].projected = undo[c].projected
      /\ undo'[c].step = "none" => undo[c].step = "none"
  BY <1>0, <1>2 DEF ApplyOut, Goes, Refused, At, Staged, CancelStage, Undoing, Standing, WorkTyped, Cancellation
<1>4. /\ pc'[c].create = "total" => pc[c].create = "total"
      /\ pc'[c].create = "moneyDone" => pc[c].create = "moneyDone"
      /\ pc'[c].cancel = "finish" => pc[c].cancel = "finish"
  BY <1>0 DEF ApplyOut, Goes, Refused, At, Resumes, WorkTyped
<1> QED
  BY <1>1, <1>2, <1>3, <1>4 DEF MoneyQuiet

\* The step of BeginCancel leaves the books and the quantities alone.
LEMMA BeginCancelNoMoney == ASSUME CoreInv, NEW c \in Exchanges, BeginCancel(c) PROVE MoneyQuiet(c)
<1>0. Staged(c) /\ WorkTyped /\ made[c] \in Exchange /\ undo[c] \in Cancellation /\ pc[c] \in [create : CreatePlaces, cancel : CancelPlaces]
  BY DEF CoreInv, Typed, WorkTyped
<1>1. UNCHANGED <<qty, total, paid>> /\ Only(c)
  BY <1>0 DEF BeginCancel, Goes, Refused, Releases, lineVars, bookVars, Only, WorkTyped
<1>2. /\ made'[c].status = made[c].status /\ made'[c].plan = made[c].plan
      /\ made'[c].money = made[c].money /\ made'[c].linked = made[c].linked
      /\ made'[c].step = "validated" => made[c].step = "validated"
      /\ made'[c].step \in Midway <=> made[c].step \in Midway
      /\ made'[c].step = "finances_done" => made[c].step = "finances_done" \/ pc[c].create = "moneyDone"
      /\ made'[c].step = "completed" => made[c].step = "completed"
  BY <1>0 DEF BeginCancel, Goes, Refused, At, Staged, CreateStage, StepAt, Midway, WorkTyped, Exchange
<1>3. /\ Undoing(c)' <=> Undoing(c)
      /\ Undoing(c) => undo'[c].projected = undo[c].projected
      /\ undo'[c].step = "none" => undo[c].step = "none"
  BY <1>0, <1>2 DEF BeginCancel, Goes, Refused, At, Staged, CancelStage, Undoing, Standing, WorkTyped, Cancellation
<1>4. /\ pc'[c].create = "total" => pc[c].create = "total"
      /\ pc'[c].create = "moneyDone" => pc[c].create = "moneyDone"
      /\ pc'[c].cancel = "finish" => pc[c].cancel = "finish"
  BY <1>0 DEF BeginCancel, Goes, Refused, At, Resumes, WorkTyped
<1> QED
  BY <1>1, <1>2, <1>3, <1>4 DEF MoneyQuiet

\* The step of CancelIn leaves the books and the quantities alone.
LEMMA CancelInNoMoney == ASSUME CoreInv, NEW c \in Exchanges, CancelIn(c) PROVE MoneyQuiet(c)
<1>0. Staged(c) /\ WorkTyped /\ made[c] \in Exchange /\ undo[c] \in Cancellation /\ pc[c] \in [create : CreatePlaces, cancel : CancelPlaces]
  BY DEF CoreInv, Typed, WorkTyped
<1>1. UNCHANGED <<qty, total, paid>> /\ Only(c)
  BY <1>0 DEF CancelIn, Goes, Refused, Releases, lineVars, bookVars, Only, WorkTyped
<1>2. /\ made'[c].status = made[c].status /\ made'[c].plan = made[c].plan
      /\ made'[c].money = made[c].money /\ made'[c].linked = made[c].linked
      /\ made'[c].step = "validated" => made[c].step = "validated"
      /\ made'[c].step \in Midway <=> made[c].step \in Midway
      /\ made'[c].step = "finances_done" => made[c].step = "finances_done" \/ pc[c].create = "moneyDone"
      /\ made'[c].step = "completed" => made[c].step = "completed"
  BY <1>0 DEF CancelIn, Goes, Refused, At, Staged, CreateStage, StepAt, Midway, WorkTyped, Exchange
<1>3. /\ Undoing(c)' <=> Undoing(c)
      /\ Undoing(c) => undo'[c].projected = undo[c].projected
      /\ undo'[c].step = "none" => undo[c].step = "none"
  BY <1>0, <1>2 DEF CancelIn, Goes, Refused, At, Staged, CancelStage, Undoing, Standing, WorkTyped, Cancellation
<1>4. /\ pc'[c].create = "total" => pc[c].create = "total"
      /\ pc'[c].create = "moneyDone" => pc[c].create = "moneyDone"
      /\ pc'[c].cancel = "finish" => pc[c].cancel = "finish"
  BY <1>0 DEF CancelIn, Goes, Refused, At, Resumes, WorkTyped
<1> QED
  BY <1>1, <1>2, <1>3, <1>4 DEF MoneyQuiet

\* The step of CancelOut leaves the books and the quantities alone.
LEMMA CancelOutNoMoney == ASSUME CoreInv, NEW c \in Exchanges, CancelOut(c) PROVE MoneyQuiet(c)
<1>0. Staged(c) /\ WorkTyped /\ made[c] \in Exchange /\ undo[c] \in Cancellation /\ pc[c] \in [create : CreatePlaces, cancel : CancelPlaces]
  BY DEF CoreInv, Typed, WorkTyped
<1>1. UNCHANGED <<qty, total, paid>> /\ Only(c)
  BY <1>0 DEF CancelOut, Goes, Refused, Releases, lineVars, bookVars, Only, WorkTyped
<1>2. /\ made'[c].status = made[c].status /\ made'[c].plan = made[c].plan
      /\ made'[c].money = made[c].money /\ made'[c].linked = made[c].linked
      /\ made'[c].step = "validated" => made[c].step = "validated"
      /\ made'[c].step \in Midway <=> made[c].step \in Midway
      /\ made'[c].step = "finances_done" => made[c].step = "finances_done" \/ pc[c].create = "moneyDone"
      /\ made'[c].step = "completed" => made[c].step = "completed"
  BY <1>0 DEF CancelOut, Goes, Refused, At, Staged, CreateStage, StepAt, Midway, WorkTyped, Exchange
<1>3. /\ Undoing(c)' <=> Undoing(c)
      /\ Undoing(c) => undo'[c].projected = undo[c].projected
      /\ undo'[c].step = "none" => undo[c].step = "none"
  BY <1>0, <1>2 DEF CancelOut, Goes, Refused, At, Staged, CancelStage, Undoing, Standing, WorkTyped, Cancellation
<1>4. /\ pc'[c].create = "total" => pc[c].create = "total"
      /\ pc'[c].create = "moneyDone" => pc[c].create = "moneyDone"
      /\ pc'[c].cancel = "finish" => pc[c].cancel = "finish"
  BY <1>0 DEF CancelOut, Goes, Refused, At, Resumes, WorkTyped
<1> QED
  BY <1>1, <1>2, <1>3, <1>4 DEF MoneyQuiet

\* The step of ReleaseNew leaves the books and the quantities alone.
LEMMA ReleaseNewNoMoney == ASSUME CoreInv, NEW c \in Exchanges, ReleaseNew(c) PROVE MoneyQuiet(c)
<1>0. Staged(c) /\ WorkTyped /\ made[c] \in Exchange /\ undo[c] \in Cancellation /\ pc[c] \in [create : CreatePlaces, cancel : CancelPlaces]
  BY DEF CoreInv, Typed, WorkTyped
<1>1. UNCHANGED <<qty, total, paid>> /\ Only(c)
  BY <1>0 DEF ReleaseNew, Goes, Refused, Releases, lineVars, bookVars, Only, WorkTyped
<1>2. /\ made'[c].status = made[c].status /\ made'[c].plan = made[c].plan
      /\ made'[c].money = made[c].money /\ made'[c].linked = made[c].linked
      /\ made'[c].step = "validated" => made[c].step = "validated"
      /\ made'[c].step \in Midway <=> made[c].step \in Midway
      /\ made'[c].step = "finances_done" => made[c].step = "finances_done" \/ pc[c].create = "moneyDone"
      /\ made'[c].step = "completed" => made[c].step = "completed"
  BY <1>0 DEF ReleaseNew, Goes, Refused, At, Staged, CreateStage, StepAt, Midway, WorkTyped, Exchange
<1>3. /\ Undoing(c)' <=> Undoing(c)
      /\ Undoing(c) => undo'[c].projected = undo[c].projected
      /\ undo'[c].step = "none" => undo[c].step = "none"
  BY <1>0, <1>2 DEF ReleaseNew, Goes, Refused, At, Staged, CancelStage, Undoing, Standing, WorkTyped, Cancellation
<1>4. /\ pc'[c].create = "total" => pc[c].create = "total"
      /\ pc'[c].create = "moneyDone" => pc[c].create = "moneyDone"
      /\ pc'[c].cancel = "finish" => pc[c].cancel = "finish"
  BY <1>0 DEF ReleaseNew, Goes, Refused, At, Resumes, WorkTyped
<1> QED
  BY <1>1, <1>2, <1>3, <1>4 DEF MoneyQuiet

\* The step of RestoreResv leaves the books and the quantities alone.
LEMMA RestoreResvNoMoney == ASSUME CoreInv, NEW c \in Exchanges, RestoreResv(c) PROVE MoneyQuiet(c)
<1>0. Staged(c) /\ WorkTyped /\ made[c] \in Exchange /\ undo[c] \in Cancellation /\ pc[c] \in [create : CreatePlaces, cancel : CancelPlaces]
  BY DEF CoreInv, Typed, WorkTyped
<1>1. UNCHANGED <<qty, total, paid>> /\ Only(c)
  BY <1>0 DEF RestoreResv, Goes, Refused, Releases, lineVars, bookVars, Only, WorkTyped
<1>2. /\ made'[c].status = made[c].status /\ made'[c].plan = made[c].plan
      /\ made'[c].money = made[c].money /\ made'[c].linked = made[c].linked
      /\ made'[c].step = "validated" => made[c].step = "validated"
      /\ made'[c].step \in Midway <=> made[c].step \in Midway
      /\ made'[c].step = "finances_done" => made[c].step = "finances_done" \/ pc[c].create = "moneyDone"
      /\ made'[c].step = "completed" => made[c].step = "completed"
  BY <1>0 DEF RestoreResv, Goes, Refused, At, Staged, CreateStage, StepAt, Midway, WorkTyped, Exchange
<1>3. /\ Undoing(c)' <=> Undoing(c)
      /\ Undoing(c) => undo'[c].projected = undo[c].projected
      /\ undo'[c].step = "none" => undo[c].step = "none"
  BY <1>0, <1>2 DEF RestoreResv, Goes, Refused, At, Staged, CancelStage, Undoing, Standing, WorkTyped, Cancellation
<1>4. /\ pc'[c].create = "total" => pc[c].create = "total"
      /\ pc'[c].create = "moneyDone" => pc[c].create = "moneyDone"
      /\ pc'[c].cancel = "finish" => pc[c].cancel = "finish"
  BY <1>0 DEF RestoreResv, Goes, Refused, At, Resumes, WorkTyped
<1> QED
  BY <1>1, <1>2, <1>3, <1>4 DEF MoneyQuiet

\* The step of CompleteCancel leaves the books and the quantities alone.
LEMMA CompleteCancelNoMoney == ASSUME CoreInv, NEW c \in Exchanges, CompleteCancel(c) PROVE MoneyQuiet(c)
<1>0. Staged(c) /\ WorkTyped /\ made[c] \in Exchange /\ undo[c] \in Cancellation /\ pc[c] \in [create : CreatePlaces, cancel : CancelPlaces]
  BY DEF CoreInv, Typed, WorkTyped
<1>1. UNCHANGED <<qty, total, paid>> /\ Only(c)
  BY <1>0 DEF CompleteCancel, Goes, Refused, Releases, lineVars, bookVars, Only, WorkTyped
<1>2. /\ made'[c].status = made[c].status /\ made'[c].plan = made[c].plan
      /\ made'[c].money = made[c].money /\ made'[c].linked = made[c].linked
      /\ made'[c].step = "validated" => made[c].step = "validated"
      /\ made'[c].step \in Midway <=> made[c].step \in Midway
      /\ made'[c].step = "finances_done" => made[c].step = "finances_done" \/ pc[c].create = "moneyDone"
      /\ made'[c].step = "completed" => made[c].step = "completed"
  BY <1>0 DEF CompleteCancel, Goes, Refused, At, Staged, CreateStage, StepAt, Midway, WorkTyped, Exchange
<1>3. /\ Undoing(c)' <=> Undoing(c)
      /\ Undoing(c) => undo'[c].projected = undo[c].projected
      /\ undo'[c].step = "none" => undo[c].step = "none"
  BY <1>0, <1>2 DEF CompleteCancel, Goes, Refused, At, Staged, CancelStage, Undoing, Standing, WorkTyped, Cancellation
<1>4. /\ pc'[c].create = "total" => pc[c].create = "total"
      /\ pc'[c].create = "moneyDone" => pc[c].create = "moneyDone"
      /\ pc'[c].cancel = "finish" => pc[c].cancel = "finish"
  BY <1>0 DEF CompleteCancel, Goes, Refused, At, Resumes, WorkTyped
<1> QED
  BY <1>1, <1>2, <1>3, <1>4 DEF MoneyQuiet

\* The step that ends the old line leaves the books and the quantities alone.
LEMMA AdvanceOldNoMoney == ASSUME CoreInv, NEW c \in Exchanges, Advance(c, "oldDone", "old_done", "content") PROVE MoneyQuiet(c)
<1>0. Staged(c) /\ WorkTyped /\ made[c] \in Exchange /\ undo[c] \in Cancellation /\ pc[c] \in [create : CreatePlaces, cancel : CancelPlaces]
  BY DEF CoreInv, Typed, WorkTyped
<1>1. UNCHANGED <<qty, total, paid>> /\ Only(c)
  BY <1>0 DEF Advance, Goes, Refused, Releases, lineVars, bookVars, Only, WorkTyped
<1>2. /\ made'[c].status = made[c].status /\ made'[c].plan = made[c].plan
      /\ made'[c].money = made[c].money /\ made'[c].linked = made[c].linked
      /\ made'[c].step = "validated" => made[c].step = "validated"
      /\ made'[c].step \in Midway <=> made[c].step \in Midway
      /\ made'[c].step = "finances_done" => made[c].step = "finances_done" \/ pc[c].create = "moneyDone"
      /\ made'[c].step = "completed" => made[c].step = "completed"
  BY <1>0 DEF Advance, Goes, Refused, At, Staged, CreateStage, StepAt, Midway, WorkTyped, Exchange
<1>3. /\ Undoing(c)' <=> Undoing(c)
      /\ Undoing(c) => undo'[c].projected = undo[c].projected
      /\ undo'[c].step = "none" => undo[c].step = "none"
  BY <1>0, <1>2 DEF Advance, Goes, Refused, At, Staged, CancelStage, Undoing, Standing, WorkTyped, Cancellation
<1>4. /\ pc'[c].create = "total" => pc[c].create = "total"
      /\ pc'[c].create = "moneyDone" => pc[c].create = "moneyDone"
      /\ pc'[c].cancel = "finish" => pc[c].cancel = "finish"
  BY <1>0 DEF Advance, Goes, Refused, At, Resumes, WorkTyped
<1> QED
  BY <1>1, <1>2, <1>3, <1>4 DEF MoneyQuiet

\* The step that ends the insertion of the content leaves the books and the quantities alone.
LEMMA AdvanceContentNoMoney == ASSUME CoreInv, NEW c \in Exchanges, Advance(c, "contentDone", "content_inserted", "newRow") PROVE MoneyQuiet(c)
<1>0. Staged(c) /\ WorkTyped /\ made[c] \in Exchange /\ undo[c] \in Cancellation /\ pc[c] \in [create : CreatePlaces, cancel : CancelPlaces]
  BY DEF CoreInv, Typed, WorkTyped
<1>1. UNCHANGED <<qty, total, paid>> /\ Only(c)
  BY <1>0 DEF Advance, Goes, Refused, Releases, lineVars, bookVars, Only, WorkTyped
<1>2. /\ made'[c].status = made[c].status /\ made'[c].plan = made[c].plan
      /\ made'[c].money = made[c].money /\ made'[c].linked = made[c].linked
      /\ made'[c].step = "validated" => made[c].step = "validated"
      /\ made'[c].step \in Midway <=> made[c].step \in Midway
      /\ made'[c].step = "finances_done" => made[c].step = "finances_done" \/ pc[c].create = "moneyDone"
      /\ made'[c].step = "completed" => made[c].step = "completed"
  BY <1>0 DEF Advance, Goes, Refused, At, Staged, CreateStage, StepAt, Midway, WorkTyped, Exchange
<1>3. /\ Undoing(c)' <=> Undoing(c)
      /\ Undoing(c) => undo'[c].projected = undo[c].projected
      /\ undo'[c].step = "none" => undo[c].step = "none"
  BY <1>0, <1>2 DEF Advance, Goes, Refused, At, Staged, CancelStage, Undoing, Standing, WorkTyped, Cancellation
<1>4. /\ pc'[c].create = "total" => pc[c].create = "total"
      /\ pc'[c].create = "moneyDone" => pc[c].create = "moneyDone"
      /\ pc'[c].cancel = "finish" => pc[c].cancel = "finish"
  BY <1>0 DEF Advance, Goes, Refused, At, Resumes, WorkTyped
<1> QED
  BY <1>1, <1>2, <1>3, <1>4 DEF MoneyQuiet

\* The step that ends the new line leaves the books and the quantities alone.
LEMMA AdvanceNewNoMoney == ASSUME CoreInv, NEW c \in Exchanges, Advance(c, "newDone", "new_done", "money") PROVE MoneyQuiet(c)
<1>0. Staged(c) /\ WorkTyped /\ made[c] \in Exchange /\ undo[c] \in Cancellation /\ pc[c] \in [create : CreatePlaces, cancel : CancelPlaces]
  BY DEF CoreInv, Typed, WorkTyped
<1>1. UNCHANGED <<qty, total, paid>> /\ Only(c)
  BY <1>0 DEF Advance, Goes, Refused, Releases, lineVars, bookVars, Only, WorkTyped
<1>2. /\ made'[c].status = made[c].status /\ made'[c].plan = made[c].plan
      /\ made'[c].money = made[c].money /\ made'[c].linked = made[c].linked
      /\ made'[c].step = "validated" => made[c].step = "validated"
      /\ made'[c].step \in Midway <=> made[c].step \in Midway
      /\ made'[c].step = "finances_done" => made[c].step = "finances_done" \/ pc[c].create = "moneyDone"
      /\ made'[c].step = "completed" => made[c].step = "completed"
  BY <1>0 DEF Advance, Goes, Refused, At, Staged, CreateStage, StepAt, Midway, WorkTyped, Exchange
<1>3. /\ Undoing(c)' <=> Undoing(c)
      /\ Undoing(c) => undo'[c].projected = undo[c].projected
      /\ undo'[c].step = "none" => undo[c].step = "none"
  BY <1>0, <1>2 DEF Advance, Goes, Refused, At, Staged, CancelStage, Undoing, Standing, WorkTyped, Cancellation
<1>4. /\ pc'[c].create = "total" => pc[c].create = "total"
      /\ pc'[c].create = "moneyDone" => pc[c].create = "moneyDone"
      /\ pc'[c].cancel = "finish" => pc[c].cancel = "finish"
  BY <1>0 DEF Advance, Goes, Refused, At, Resumes, WorkTyped
<1> QED
  BY <1>1, <1>2, <1>3, <1>4 DEF MoneyQuiet

\* The step that ends the money leaves the books and the quantities alone.
LEMMA AdvanceMoneyNoMoney == ASSUME CoreInv, NEW c \in Exchanges, Advance(c, "moneyDone", "finances_done", "complete") PROVE MoneyQuiet(c)
<1>0. Staged(c) /\ WorkTyped /\ made[c] \in Exchange /\ undo[c] \in Cancellation /\ pc[c] \in [create : CreatePlaces, cancel : CancelPlaces]
  BY DEF CoreInv, Typed, WorkTyped
<1>1. UNCHANGED <<qty, total, paid>> /\ Only(c)
  BY <1>0 DEF Advance, Goes, Refused, Releases, lineVars, bookVars, Only, WorkTyped
<1>2. /\ made'[c].status = made[c].status /\ made'[c].plan = made[c].plan
      /\ made'[c].money = made[c].money /\ made'[c].linked = made[c].linked
      /\ made'[c].step = "validated" => made[c].step = "validated"
      /\ made'[c].step \in Midway <=> made[c].step \in Midway
      /\ made'[c].step = "finances_done" => made[c].step = "finances_done" \/ pc[c].create = "moneyDone"
      /\ made'[c].step = "completed" => made[c].step = "completed"
  BY <1>0 DEF Advance, Goes, Refused, At, Staged, CreateStage, StepAt, Midway, WorkTyped, Exchange
<1>3. /\ Undoing(c)' <=> Undoing(c)
      /\ Undoing(c) => undo'[c].projected = undo[c].projected
      /\ undo'[c].step = "none" => undo[c].step = "none"
  BY <1>0, <1>2 DEF Advance, Goes, Refused, At, Staged, CancelStage, Undoing, Standing, WorkTyped, Cancellation
<1>4. /\ pc'[c].create = "total" => pc[c].create = "total"
      /\ pc'[c].create = "moneyDone" => pc[c].create = "moneyDone"
      /\ pc'[c].cancel = "finish" => pc[c].cancel = "finish"
  BY <1>0 DEF Advance, Goes, Refused, At, Resumes, WorkTyped
<1> QED
  BY <1>1, <1>2, <1>3, <1>4 DEF MoneyQuiet

\* A call that dies leaves the books and the quantities alone.
LEMMA CrashNoMoney == ASSUME CoreInv, NEW c \in Exchanges, NEW op \in {"create", "cancel"}, Crash(c, op) PROVE MoneyQuiet(c)
<1>0. Staged(c) /\ WorkTyped /\ made[c] \in Exchange /\ undo[c] \in Cancellation /\ pc[c] \in [create : CreatePlaces, cancel : CancelPlaces]
  BY DEF CoreInv, Typed, WorkTyped
<1>1. UNCHANGED <<qty, total, paid>> /\ Only(c)
  BY <1>0 DEF Crash, Goes, Refused, Releases, lineVars, bookVars, Only, WorkTyped
<1>2. /\ made'[c].status = made[c].status /\ made'[c].plan = made[c].plan
      /\ made'[c].money = made[c].money /\ made'[c].linked = made[c].linked
      /\ made'[c].step = "validated" => made[c].step = "validated"
      /\ made'[c].step \in Midway <=> made[c].step \in Midway
      /\ made'[c].step = "finances_done" => made[c].step = "finances_done" \/ pc[c].create = "moneyDone"
      /\ made'[c].step = "completed" => made[c].step = "completed"
  BY <1>0 DEF Crash, Goes, Refused, At, Staged, CreateStage, StepAt, Midway, WorkTyped, Exchange
<1>3. /\ Undoing(c)' <=> Undoing(c)
      /\ Undoing(c) => undo'[c].projected = undo[c].projected
      /\ undo'[c].step = "none" => undo[c].step = "none"
  BY <1>0, <1>2 DEF Crash, Goes, Refused, At, Staged, CancelStage, Undoing, Standing, WorkTyped, Cancellation
<1>4. /\ pc'[c].create = "total" => pc[c].create = "total"
      /\ pc'[c].create = "moneyDone" => pc[c].create = "moneyDone"
      /\ pc'[c].cancel = "finish" => pc[c].cancel = "finish"
  BY <1>0 DEF Crash, Goes, Refused, At, Resumes, WorkTyped
<1> QED
  BY <1>1, <1>2, <1>3, <1>4 DEF MoneyQuiet

\* A request that is refused leaves the books and the quantities alone.
LEMMA RefusedNoMoney == ASSUME CoreInv, NEW c \in Exchanges, NEW op \in {"create", "cancel"}, Refused(c, op) PROVE MoneyQuiet(c)
<1>0. Staged(c) /\ WorkTyped /\ made[c] \in Exchange /\ undo[c] \in Cancellation /\ pc[c] \in [create : CreatePlaces, cancel : CancelPlaces]
  BY DEF CoreInv, Typed, WorkTyped
<1>1. UNCHANGED <<qty, total, paid>> /\ Only(c)
  BY <1>0 DEF Refused, Goes, Releases, lineVars, bookVars, Only, WorkTyped
<1>2. /\ made'[c].status = made[c].status /\ made'[c].plan = made[c].plan
      /\ made'[c].money = made[c].money /\ made'[c].linked = made[c].linked
      /\ made'[c].step = "validated" => made[c].step = "validated"
      /\ made'[c].step \in Midway <=> made[c].step \in Midway
      /\ made'[c].step = "finances_done" => made[c].step = "finances_done" \/ pc[c].create = "moneyDone"
      /\ made'[c].step = "completed" => made[c].step = "completed"
  BY <1>0 DEF Refused, Goes, At, Staged, CreateStage, StepAt, Midway, WorkTyped, Exchange
<1>3. /\ Undoing(c)' <=> Undoing(c)
      /\ Undoing(c) => undo'[c].projected = undo[c].projected
      /\ undo'[c].step = "none" => undo[c].step = "none"
  BY <1>0, <1>2 DEF Refused, Goes, At, Staged, CancelStage, Undoing, Standing, WorkTyped, Cancellation
<1>4. /\ pc'[c].create = "total" => pc[c].create = "total"
      /\ pc'[c].create = "moneyDone" => pc[c].create = "moneyDone"
      /\ pc'[c].cancel = "finish" => pc[c].cancel = "finish"
  BY <1>0 DEF Refused, Goes, At, Resumes, WorkTyped
<1> QED
  BY <1>1, <1>2, <1>3, <1>4 DEF MoneyQuiet

\* The step of Plan keeps the books.
LEMMA PlanMoney ==
  ASSUME UnitInv, MoneyInv, ShelfInv, ExchangesApart, NEW c \in Exchanges, Plan(c)
  PROVE  MoneyInv'
<1>0. /\ CoreInv /\ WorkTyped /\ LinesTyped /\ BooksTyped /\ Staged(c) /\ made[c].step = "none" /\ made[c] \in Exchange
      /\ Alone(c, "create") /\ total = Worth /\ pc[c].create = "idle"
  BY WorthIs DEF UnitInv, CoreInv, Typed, WorkTyped, Plan, At
<1>1. Nobody(c)
  BY <1>0, NobodyElse
<1>2. UNCHANGED <<qty, total, paid, undo>> /\ pc' = [pc EXCEPT ![c].create = "claim"]
  BY DEF Plan, Goes, lineVars, bookVars
<1>3. ~Under(c, "create") /\ ~Under(c, "cancel") /\ ~Standing(c) /\ made[c].id = 0
  BY <1>0 DEF Plan, At, Under, Alone, Staged, CancelStage, Claimed, CreateStage, Standing
<1>4. PICK l \in Lines, take \in Takes, give \in Gives, physical \in {"not_issued", "warehouse"},
           shipped \in BOOLEAN, pay \in 0..1 :
        /\ Fits(c, l, take, give, physical, pay)
        /\ Validated(c, PlanOf(c, l, take, give, physical, shipped, pay))
  BY <1>0, PlanMakes
<1> DEFINE p == PlanOf(c, l, take, give, physical, shipped, pay)
<1>5. /\ made'[c].step = "validated" /\ made'[c].plan = p /\ made'[c].status = made[c].status
      /\ made'[c].money = made[c].money /\ made'[c].linked = made[c].linked
      /\ \A d \in Exchanges \ {c} : made'[d] = made[d]
  BY <1>0, <1>4 DEF Validated, Exchange
<1>6. /\ p.take = take /\ p.give = give /\ p.final = total - take + give
      /\ p.money = Settlement(total - take + give, pay)
  BY DEF PlanOf
<1> HIDE DEF p
<1>7. Only(c) /\ pc'[c].create = "claim"
  BY <1>0, <1>2, <1>5 DEF Only, WorkTyped
<1>8. ~Undoing(c)' /\ ~Undoing(c)
  BY <1>3, <1>5 DEF Undoing, Standing
<1>9. total = Worth /\ 0 <= paid /\ paid <= total /\ Worth' = Worth
  <2>1. AllQuiet
    BY <1>0, <1>1, <1>8 DEF AllQuiet, Nobody, Midway
  <2> QED
    BY <1>2, <2>1 DEF MoneyInv, QuietMoney, Worth
<1>10. ~made[c].money
  BY <1>3 DEF ShelfInv, EventRows, Orderly
<1>11. PlannedMoney(c)'
  <2>1. /\ take \in Nat /\ give \in Nat /\ total \in Int /\ paid \in Int /\ pay \in {0, 1}
        /\ take <= total
    <3>1. take \in Nat /\ give \in Nat /\ returned[l] \in Nat /\ qty[l] \in Nat /\ take + returned[l] <= qty[l]
      BY <1>0, <1>4, ExchangeAssumption DEF Fits, Available, LinesTyped
    <3>2. qty[l] <= total /\ total \in Nat
      BY <1>0, WorthNat
    <3> QED
      BY <1>0, <3>1, <3>2 DEF BooksTyped
  <2>2. pay <= Floor((total - take + give) - paid)
    BY <1>4 DEF Fits
  <2>3. 0 <= paid + p.money /\ paid + p.money <= p.final
    BY <1>6, <1>9, <2>1, <2>2 DEF Settlement, Floor
  <2> QED
    BY <1>2, <1>5, <1>6, <2>3 DEF PlannedMoney
<1>12. MoneyRow(c)'
  BY <1>5, <1>7, <1>8, <1>10, <1>11 DEF MoneyRow, MidwayMoney, Midway, SettledMoney, Settled, Finished, UndoingMoney
<1> QED
  BY <1>1, <1>2, <1>7, <1>9, <1>12, MoneyStep

\* The step of Claim keeps the books.
LEMMA ClaimMoney ==
  ASSUME UnitInv, MoneyInv, ShelfInv, NEW c \in Exchanges, Claim(c)
  PROVE  MoneyInv'
<1>0. /\ CoreInv /\ WorkTyped /\ LinesTyped /\ BooksTyped /\ Staged(c) /\ made[c] \in Exchange /\ c \in Lines
      /\ made[c].step = "validated" /\ made[c].plan \in Plans /\ Under(c, "create") /\ made[c].plan.line \in Lines
  <2>1. made[c].step = "validated" /\ CoreInv
    BY DEF UnitInv, CoreInv, Staged, CreateStage, StepAt, Claim, At
  <2> QED
    BY <2>1, PlansOf DEF CoreInv, Typed, WorkTyped, Under, Plans, Lines
<1>1. CASE Refused(c, "create")
  BY <1>0, <1>1, RefusedNoMoney, QuietBooks
<1>2. CASE ~Refused(c, "create")
  <2> PICK l \in Lines : l = made[c].plan.line
    BY <1>0
  <2> PICK p \in Plans : p = made[c].plan
    BY <1>0
  <2>0. l = made[c].plan.line /\ p = made[c].plan
    OBVIOUS
  <2>1. /\ qty[l] = p.initial /\ qty' = [qty EXCEPT ![l] = p.target] /\ undo' = undo /\ total' = total /\ paid' = paid
        /\ \E n : made' = [made EXCEPT ![c].step = "exchange_created", ![c].status = "completed", ![c].id = n]
        /\ pc' = [pc EXCEPT ![c].create = "reserve"]
    BY <1>2, <2>0, Zenon DEF Claim, Goes, bookVars
  <2>2. /\ p.target \in Nat /\ p.take \in Nat /\ p.initial = p.target + p.take /\ l # c
        /\ p.give \in Nat /\ p.final \in Int /\ p.money \in Int
    BY <1>0, <2>0, ExchangeAssumption DEF Plans, Staged, PlanOK
  <2>3. /\ made'[c].plan = p /\ made'[c].step = "exchange_created" /\ made'[c].money = made[c].money
        /\ made'[c].linked = made[c].linked
    BY <1>0, <2>0, <2>1 DEF WorkTyped, Exchange
  <2>4. Only(c) /\ pc'[c].create = "reserve"
    BY <1>0, <2>1 DEF Only, WorkTyped
  <2>5. Nobody(c) /\ ~Undoing(c) /\ undo[c].step # "validated"
    BY <1>0, NobodyElse, CreatesOnly
  <2>6. ~Undoing(c)'
    BY <2>1, <2>5 DEF Undoing
  <2>7. Worth' = Worth - p.take /\ Worth \in Nat
    <3>1. qty'[l] = p.target /\ \A k \in Lines \ {l} : qty'[k] = qty[k]
      BY <1>0, <2>1 DEF LinesTyped
    <3>2. Worth' = Worth - qty[l] + qty'[l] /\ Worth \in Nat
      BY <1>0, <2>2, <3>1, WorthPoint, WorthNat
    <3> QED
      BY <2>1, <2>2, <3>1, <3>2
  <2>8. qty'[c] = 0 /\ ~made[c].money
    <3>1. qty[c] = 0 /\ made[c].id = 0
      BY <1>0 DEF Staged, CreateStage, NewLineOK, Midway
    <3> QED
      BY <1>0, <2>1, <2>2, <3>1 DEF LinesTyped, ShelfInv, EventRows, Orderly
  <2>9. total = Worth
    BY <1>0, <2>5 DEF MoneyInv, QuietMoney, AllQuiet, Nobody, Midway
  <2>10. p.final = total - p.take + p.give /\ 0 <= paid + p.money /\ paid + p.money <= p.final
    BY <1>0, <2>0 DEF MoneyInv, MoneyRow, PlannedMoney
  <2>11. MidwayMoney(c)'
    <3>1. Worth' = p.final - p.give + qty'[c]
      BY <2>2, <2>7, <2>8, <2>9, <2>10
    <3>2. Pending(c)' = p.money
      BY <2>3, <2>8 DEF Pending
    <3> QED
      BY <2>1, <2>3, <2>10, <3>1, <3>2 DEF MidwayMoney
  <2>12. MoneyRow(c)'
    BY <2>3, <2>4, <2>6, <2>8, <2>11 DEF MoneyRow, PlannedMoney, SettledMoney, Settled, Finished, UndoingMoney
  <2> QED
    BY <2>3, <2>4, <2>5, <2>12, MoneyStep DEF Midway
<1> QED
  BY <1>1, <1>2

\* The step of SetQty keeps the books.
LEMMA SetQtyMoney == ASSUME UnitInv, MoneyInv, NEW c \in Exchanges, SetQty(c) PROVE MoneyInv'
<1>1. pc[c].create = "setQty" /\ total' = total /\ paid' = paid
  BY DEF SetQty, At, Refused, bookVars
<1>2. MoneyQuiet(c)
  BY <1>1, SetQtyNoFit DEF MoneyQuiet, Undoing, Standing
<1> QED
  BY <1>2, QuietBooks

\* The step of InsertContent keeps the books.
LEMMA InsertContentMoney ==
  ASSUME UnitInv, MoneyInv, NEW c \in Exchanges, InsertContent(c)
  PROVE  MoneyInv'
<1>0. /\ CoreInv /\ WorkTyped /\ LinesTyped /\ BooksTyped /\ Staged(c) /\ made[c].step = "old_done" /\ c \in Lines
      /\ Under(c, "create") /\ made[c].plan \in Plans
  BY PlansOf DEF UnitInv, CoreInv, Typed, Staged, CreateStage, StepAt, InsertContent, At, Lines, Under
<1>1. UNCHANGED <<total, paid, made, undo>> /\ pc' = [pc EXCEPT ![c].create = "promise"]
  BY DEF InsertContent, Goes, bookVars
<1>2. Only(c) /\ pc'[c].create = "promise"
  BY <1>0, <1>1 DEF Only, WorkTyped
<1>3. Nobody(c) /\ ~Undoing(c) /\ ~Undoing(c)'
  BY <1>0, <1>1, NobodyElse, CreatesOnly DEF Undoing
<1>4. MoneyRow(c) /\ Pending(c)' = Pending(c)
  BY <1>1 DEF MoneyInv, Pending
<1>5. Worth' = Worth - qty[c] + qty'[c] /\ qty[c] \in Nat /\ qty'[c] \in Nat /\ Worth \in Nat
  <2>1. qty'[c] \in Nat /\ qty[c] \in Nat /\ \A k \in Lines \ {c} : qty'[k] = qty[k]
    BY <1>0, ExchangeAssumption DEF InsertContent, LinesTyped, Plans
  <2> QED
    BY <1>0, <2>1, WorthPoint, WorthNat
<1>6. MidwayMoney(c)'
  <2>1. Worth = made[c].plan.final - made[c].plan.give + qty[c] /\ 0 <= paid + Pending(c)
        /\ paid + Pending(c) <= made[c].plan.final /\ made[c].plan.final \in Int /\ made[c].plan.give \in Nat
    BY <1>0, <1>4, ExchangeAssumption DEF MoneyRow, MidwayMoney, Midway, Plans
  <2>2. Worth' = made[c].plan.final - made[c].plan.give + qty'[c]
    BY <1>5, <2>1
  <2> QED
    BY <1>1, <1>4, <2>1, <2>2 DEF MidwayMoney
<1>7. MoneyRow(c)'
  BY <1>0, <1>1, <1>2, <1>3, <1>4, <1>6
     DEF MoneyRow, PlannedMoney, SettledMoney, Settled, Finished, UndoingMoney
<1> QED
  BY <1>0, <1>1, <1>2, <1>3, <1>7, MoneyStep DEF Midway

\* The step of BookMoney keeps the books.
LEMMA BookMoneyMoney ==
  ASSUME UnitInv, MoneyInv, NEW c \in Exchanges, BookMoney(c)
  PROVE  MoneyInv'
<1>0. /\ CoreInv /\ WorkTyped /\ BooksTyped /\ Staged(c) /\ made[c].step = "new_done" /\ made[c] \in Exchange
      /\ Under(c, "create") /\ made[c].plan \in Plans
  <2>1. made[c].step = "new_done" /\ CoreInv
    BY DEF UnitInv, CoreInv, Staged, CreateStage, StepAt, BookMoney, At
  <2> QED
    BY <2>1, PlansOf DEF CoreInv, Typed, WorkTyped, BookMoney, At, Under
<1> PICK p \in Plans : p = made[c].plan
  BY <1>0
<1>1. p = made[c].plan /\ p.money \in Int /\ p.final \in Int
  BY DEF Plans
<1>2. /\ UNCHANGED <<qty, total, undo>> /\ pc' = [pc EXCEPT ![c].create = "total"]
      /\ \/ p.money # 0 /\ ~made[c].money /\ paid' = paid + p.money /\ made' = [made EXCEPT ![c].money = TRUE]
         \/ ~(p.money # 0 /\ ~made[c].money) /\ UNCHANGED <<paid, made>>
  BY <1>1 DEF BookMoney, NotBooked, Goes, lineVars
<1>3. /\ Only(c) /\ pc'[c].create = "total" /\ made'[c].step = "new_done" /\ made'[c].plan = p
      /\ made'[c].money = (p.money # 0) /\ made'[c].linked = made[c].linked
  <2>0. made[c].money \in BOOLEAN /\ (made[c].money => p.money # 0)
    BY <1>0, <1>1 DEF Exchange, MoneyInv, MoneyRow, SettledMoney
  <2>1. CASE p.money # 0 /\ ~made[c].money /\ paid' = paid + p.money /\ made' = [made EXCEPT ![c].money = TRUE]
    BY <1>0, <1>1, <1>2, <2>1 DEF Only, WorkTyped, Exchange
  <2>2. CASE ~(p.money # 0 /\ ~made[c].money) /\ UNCHANGED <<paid, made>>
    BY <1>0, <1>1, <1>2, <2>0, <2>2 DEF Only, WorkTyped
  <2> QED
    BY <1>2, <2>1, <2>2
<1>4. Nobody(c) /\ ~Undoing(c) /\ ~Undoing(c)'
  BY <1>0, <1>2, NobodyElse, CreatesOnly DEF Undoing
<1>5. paid' + Pending(c)' = paid + Pending(c) /\ paid' \in Int /\ Pending(c)' \in Int /\ Worth' = Worth
  <2>1. Worth' = Worth /\ paid \in Int
    BY <1>0, <1>2 DEF BooksTyped, Worth
  <2>2. Pending(c)' = 0
    BY <1>1, <1>3 DEF Pending
  <2>3. CASE p.money # 0 /\ ~made[c].money /\ paid' = paid + p.money
    <3>1. Pending(c) = p.money
      BY <1>1, <2>3 DEF Pending
    <3> QED
      BY <1>1, <2>1, <2>2, <2>3, <3>1
  <2>4. CASE ~(p.money # 0 /\ ~made[c].money) /\ UNCHANGED paid
    <3>1. Pending(c) = 0
      BY <1>1, <2>4 DEF Pending
    <3> QED
      BY <2>1, <2>2, <2>4, <3>1
  <2> QED
    BY <1>2, <2>3, <2>4
<1>6. MidwayMoney(c)'
  <2>1. Worth = p.final - p.give + qty[c] /\ 0 <= paid + Pending(c) /\ paid + Pending(c) <= p.final
    BY <1>0, <1>1 DEF MoneyInv, MoneyRow, MidwayMoney, Midway
  <2>2. /\ Worth' = p.final - p.give + qty'[c]
        /\ 0 <= paid' + Pending(c)' /\ paid' + Pending(c)' <= p.final
    BY <1>2, <1>5, <2>1
  <2> QED
    BY <1>3, <2>2 DEF MidwayMoney
<1>7. MoneyRow(c)'
  BY <1>3, <1>4, <1>6 DEF MoneyRow, PlannedMoney, SettledMoney, Settled, Finished, UndoingMoney
<1> QED
  BY <1>3, <1>4, <1>7, MoneyStep DEF Midway

\* The step of SetTotal keeps the books.
LEMMA SetTotalMoney ==
  ASSUME UnitInv, MoneyInv, NEW c \in Exchanges, SetTotal(c)
  PROVE  MoneyInv'
<1>0. /\ CoreInv /\ WorkTyped /\ BooksTyped /\ Staged(c) /\ made[c].step = "new_done" /\ made[c] \in Exchange
      /\ Under(c, "create") /\ pc[c].create = "total"
  BY DEF UnitInv, CoreInv, Typed, WorkTyped, Staged, CreateStage, StepAt, SetTotal, At, Under
<1>2. /\ UNCHANGED <<qty, paid, undo>> /\ pc' = [pc EXCEPT ![c].create = "moneyDone"]
      /\ total' = made[c].plan.final /\ made' = [made EXCEPT ![c].linked = made[c].money]
  BY DEF SetTotal, Goes, lineVars
<1>3. /\ Only(c) /\ pc'[c].create = "moneyDone" /\ made'[c].step = "new_done" /\ made'[c].plan = made[c].plan
      /\ made'[c].money = made[c].money /\ made'[c].linked = made[c].money
  BY <1>0, <1>2 DEF Only, WorkTyped, Exchange
<1>4. Nobody(c) /\ ~Undoing(c) /\ ~Undoing(c)'
  BY <1>0, <1>2, NobodyElse, CreatesOnly DEF Undoing
<1>5. MoneyRow(c) /\ Pending(c)' = Pending(c) /\ Worth' = Worth
  BY <1>2, <1>3 DEF MoneyInv, Pending, Worth
<1>6. MidwayMoney(c)' /\ SettledMoney(c)'
  BY <1>0, <1>2, <1>3, <1>5 DEF MoneyRow, MidwayMoney, SettledMoney, Midway, Settled, Finished
<1>7. MoneyRow(c)'
  BY <1>3, <1>4, <1>6 DEF MoneyRow, PlannedMoney, UndoingMoney
<1> QED
  BY <1>3, <1>4, <1>7, MoneyStep DEF Midway

\* A new line of an exchange nothing else was made of holds what was given.
LEMMA GivenWhole ==
  ASSUME UnitInv, BalanceInv, NEW c \in Exchanges, Standing(c), mark[c] # "absent",
         \A d \in Exchanges : ~Rests(d, c), Calm(c)
  PROVE  qty[c] = made[c].plan.give
<1>0. CoreInv /\ LinesTyped /\ c \in Lines /\ c \notin First
  BY ExchangeAssumption DEF UnitInv, CoreInv, Typed, Lines
<1>1. qty[c] + Back(c) = Held(c) /\ Back(c) = 0
  BY <1>0, NoBack DEF BalanceInv, LinesBalance, Balanced
<1>2. Held(c) = made[c].plan.give
  BY <1>0 DEF Held
<1>3. qty[c] \in Nat
  BY <1>0 DEF LinesTyped
<1> QED
  BY <1>1, <1>2, <1>3

\* The step of Complete keeps the books.
LEMMA CompleteMoney ==
  ASSUME UnitInv, MoneyInv, BalanceInv, ExchangesApart, NEW c \in Exchanges, Complete(c)
  PROVE  MoneyInv'
<1>0. /\ CoreInv /\ WorkTyped /\ BooksTyped /\ LinesTyped /\ Staged(c) /\ made[c].step = "finances_done"
      /\ made[c] \in Exchange /\ Under(c, "create") /\ made[c].plan \in Plans
  <2>1. made[c].step = "finances_done" /\ CoreInv
    BY DEF UnitInv, CoreInv, Staged, CreateStage, StepAt, Complete, At
  <2> QED
    BY <2>1, PlansOf DEF CoreInv, Typed, WorkTyped, Complete, At, Under
<1> PICK p \in Plans : p = made[c].plan
  BY <1>0
<1>1. p = made[c].plan /\ p.money \in Int /\ p.final \in Int /\ p.give \in Nat
  BY ExchangeAssumption DEF Plans
<1>2. /\ UNCHANGED <<qty, total, paid, undo>> /\ pc' = [pc EXCEPT ![c].create = "idle"]
      /\ made' = [made EXCEPT ![c].step = "completed"]
  BY DEF Complete, Goes, lineVars, bookVars
<1>3. /\ Only(c) /\ pc'[c].create = "idle" /\ made'[c].step = "completed" /\ made'[c].plan = p
      /\ made'[c].money = made[c].money /\ made'[c].linked = made[c].linked
  BY <1>0, <1>1, <1>2 DEF Only, WorkTyped, Exchange
<1>4. Nobody(c) /\ ~Undoing(c) /\ ~Undoing(c)'
  BY <1>0, <1>2, NobodyElse, CreatesOnly DEF Undoing
<1>5. SettledMoney(c) /\ MidwayMoney(c) /\ made[c].money \in BOOLEAN
  BY <1>0 DEF MoneyInv, MoneyRow, Exchange
<1>6. total = p.final /\ (made[c].money <=> p.money # 0) /\ made[c].linked = made[c].money
  BY <1>0, <1>1, <1>5 DEF SettledMoney, Settled
<1>7. Pending(c) = 0
  BY <1>1, <1>6 DEF Pending
<1>8. qty[c] = p.give
  <2>1. Standing(c) /\ mark[c] # "absent"
    BY <1>0, MidwayStands DEF Midway, Staged, NewLineOK
  <2>2. (\A d \in Exchanges : ~Rests(d, c)) /\ Calm(c)
    BY <1>0, OneUndone DEF BalanceInv, NothingRests, Midway, Calm
  <2> QED
    BY <1>1, <2>1, <2>2, GivenWhole
<1>9. total' = Worth' /\ 0 <= paid' /\ paid' <= total'
  <2>1. Worth = p.final - p.give + qty[c] /\ 0 <= paid + Pending(c) /\ paid + Pending(c) <= p.final
    BY <1>0, <1>1, <1>5 DEF MidwayMoney, Midway
  <2>2. Worth = p.final /\ 0 <= paid /\ paid <= p.final
    BY <1>0, <1>1, <1>7, <1>8, <2>1 DEF BooksTyped
  <2> QED
    BY <1>2, <1>6, <2>2 DEF Worth
<1>10. SettledMoney(c)'
  <2>1. ~Settled(c)'
    BY <1>3 DEF Settled
  <2> QED
    BY <1>3, <1>5, <1>6, <2>1 DEF SettledMoney
<1>11. MoneyRow(c)'
  BY <1>3, <1>4, <1>10 DEF MoneyRow, PlannedMoney, MidwayMoney, Midway, UndoingMoney
<1> QED
  BY <1>3, <1>4, <1>9, <1>11, MoneyStep

\* The step of Freeze keeps the books.
LEMMA FreezeMoney ==
  ASSUME UnitInv, MoneyInv, ExchangesApart, NEW c \in Exchanges, Freeze(c)
  PROVE  MoneyInv'
<1>0. /\ CoreInv /\ WorkTyped /\ BooksTyped /\ LinesTyped /\ Staged(c) /\ c \in Lines /\ pc[c].cancel = "freeze"
      /\ Under(c, "cancel") /\ undo[c].step = "none" /\ Standing(c) /\ made[c].step = "completed" /\ Claimed(c)
  BY StandingClaimed
     DEF UnitInv, CoreInv, Typed, Freeze, At, Lines, Under, Staged, CancelStage, ReadyStage, Ready
<1>1. CASE Refused(c, "cancel")
  BY <1>0, <1>1, RefusedNoMoney, QuietBooks
<1>2. CASE ~Refused(c, "cancel")
  <2>0. made[c].plan \in Plans
    BY <1>0, StandingPlan
  <2> PICK p \in Plans : p = made[c].plan
    BY <2>0
  <2>1. p = made[c].plan /\ p.money \in Int /\ p.final \in Int /\ p.take \in Nat
    BY ExchangeAssumption DEF Plans
  <2>2. /\ UNCHANGED <<qty, total, paid, made>> /\ pc' = [pc EXCEPT ![c].cancel = "in"]
        /\ 0 <= paid - p.money /\ paid - p.money <= undo'[c].projected
        /\ \A d \in Exchanges \ {c} : undo'[d] = undo[d]
    BY <1>0, <1>2, <2>1 DEF Freeze, Goes, WorkTyped, Cancellation, lineVars, bookVars, BooksTyped, LinesTyped
  <2>3. Only(c) /\ pc'[c].cancel = "in" /\ pc'[c].create = pc[c].create /\ undo'[c].step = "validated"
    BY <1>0, <1>2, <2>2 DEF Only, WorkTyped, Freeze, Cancellation
  <2>4. Nobody(c) /\ Undoing(c)'
    BY <1>0, <2>2, <2>3, NobodyElse DEF Undoing, Standing
  <2>5. SettledMoney(c) /\ Finished(c)
    BY <1>0 DEF MoneyInv, MoneyRow, Finished
  <2>6. (made[c].money <=> p.money # 0) /\ made[c].linked = made[c].money
    BY <2>1, <2>5 DEF SettledMoney
  <2>7. Booked(c)' = p.money
    BY <2>1, <2>2, <2>6 DEF Booked
  <2>8. UndoingMoney(c)'
    BY <2>2, <2>3, <2>6, <2>7 DEF UndoingMoney
  <2>9. pc[c].create = "idle"
    <3>1. ~Under(c, "create")
      BY <1>0 DEF UnitInv, Exclusive
    <3> QED
      BY <3>1 DEF Under
  <2>10. SettledMoney(c)'
    BY <2>1, <2>2, <2>3, <2>6, <2>9, <1>0 DEF SettledMoney, Settled, Finished
  <2>11. MoneyRow(c)'
    BY <1>0, <2>2, <2>8, <2>10 DEF MoneyRow, PlannedMoney, MidwayMoney, Midway
  <2> QED
    BY <2>3, <2>4, <2>11, MoneyStep
<1> QED
  BY <1>1, <1>2

\* A step of a cancellation that touches the goods alone.
LEMMA UndoneGoods ==
  ASSUME UnitInv, BalanceInv, MoneyInv, NEW c \in Exchanges, Undoing(c), Only(c),
         UNCHANGED <<total, paid, made, undo>>, pc'[c].create = pc[c].create, pc'[c].cancel # "finish"
  PROVE  MoneyInv'
<1>1. Nobody(c) /\ made[c].step \notin Midway \cup {"validated"} /\ Undoing(c)'
  BY UndoingOnly DEF Undoing, Standing
<1>2. MoneyRow(c) /\ Booked(c)' = Booked(c)
  BY DEF MoneyInv, Booked
<1>3. SettledMoney(c)' /\ UndoingMoney(c)'
  BY <1>1, <1>2 DEF MoneyRow, SettledMoney, Settled, Finished, UndoingMoney
<1>4. MoneyRow(c)'
  BY <1>1, <1>3 DEF MoneyRow, PlannedMoney, MidwayMoney
<1> QED
  BY <1>1, <1>4, MoneyStep

\* The step of EmptyNew keeps the books.
LEMMA EmptyNewMoney ==
  ASSUME UnitInv, BalanceInv, MoneyInv, NEW c \in Exchanges, EmptyNew(c)
  PROVE  MoneyInv'
<1>0. WorkTyped /\ Undoing(c)
  BY CancelPlacesUndone DEF UnitInv, CoreInv, Typed, EmptyNew, At
<1>1. /\ UNCHANGED <<total, paid, made, undo>> /\ pc' = [pc EXCEPT ![c].cancel = "oldQty"]
  BY DEF EmptyNew, Goes, bookVars
<1>2. Only(c) /\ pc'[c].cancel = "oldQty" /\ pc'[c].create = pc[c].create
  BY <1>0, <1>1 DEF Only, WorkTyped
<1> QED
  BY <1>0, <1>1, <1>2, UndoneGoods

\* The step of RestoreQty keeps the books.
LEMMA RestoreQtyMoney ==
  ASSUME UnitInv, BalanceInv, MoneyInv, NEW c \in Exchanges, RestoreQty(c)
  PROVE  MoneyInv'
<1>0. CoreInv /\ WorkTyped /\ Undoing(c)
  BY CancelPlacesUndone DEF UnitInv, CoreInv, Typed, RestoreQty, At
<1>1. CASE Refused(c, "cancel")
  BY <1>0, <1>1, RefusedNoMoney, QuietBooks
<1>2. CASE ~Refused(c, "cancel")
  <2>1. UNCHANGED <<total, paid, made, undo>> /\ pc' = [pc EXCEPT ![c].cancel = "oldResv"]
    BY <1>2 DEF RestoreQty, Goes, bookVars
  <2>2. Only(c) /\ pc'[c].cancel = "oldResv" /\ pc'[c].create = pc[c].create
    BY <1>0, <2>1 DEF Only, WorkTyped
  <2> QED
    BY <1>0, <2>1, <2>2, UndoneGoods
<1> QED
  BY <1>1, <1>2

\* The step of MoneyBack keeps the books.
LEMMA MoneyBackMoney ==
  ASSUME UnitInv, BalanceInv, MoneyInv, NEW c \in Exchanges, MoneyBack(c)
  PROVE  MoneyInv'
<1>0. /\ CoreInv /\ WorkTyped /\ BooksTyped /\ Staged(c) /\ Undoing(c) /\ Nobody(c) /\ made[c] \in Exchange
      /\ made[c].step \notin Midway \cup {"validated"} /\ made[c].plan \in Plans
  <2>1. CoreInv /\ Undoing(c)
    BY CancelPlacesUndone DEF UnitInv, MoneyBack, At
  <2> QED
    BY <2>1, UndoingOnly DEF CoreInv, Typed, WorkTyped
<1> PICK p \in Plans : p = made[c].plan
  BY <1>0
<1>1. p = made[c].plan /\ p.money \in Int
  BY DEF Plans
<1>2. /\ MoneyRow(c) /\ (made[c].money => made[c].linked) /\ made[c].money \in BOOLEAN
      /\ 0 <= paid - Booked(c) /\ paid - Booked(c) <= undo[c].projected
  BY <1>0 DEF MoneyInv, MoneyRow, UndoingMoney, Exchange
<1>3. /\ UNCHANGED <<qty, total, undo>> /\ pc' = [pc EXCEPT ![c].cancel = "finish"]
      /\ \/ made[c].money /\ paid' = paid - p.money /\ made' = [made EXCEPT ![c].money = FALSE]
         \/ ~made[c].money /\ UNCHANGED <<paid, made>>
  BY <1>1, <1>2 DEF MoneyBack, Goes, lineVars
<1>4. /\ Only(c) /\ pc'[c].cancel = "finish" /\ pc'[c].create = pc[c].create /\ made'[c].step = made[c].step
      /\ made'[c].plan = p /\ made'[c].linked = made[c].linked /\ made'[c].status = made[c].status /\ ~made'[c].money
  <2>1. CASE made[c].money /\ made' = [made EXCEPT ![c].money = FALSE]
    BY <1>0, <1>1, <1>3, <2>1 DEF Only, WorkTyped, Exchange
  <2>2. CASE ~made[c].money /\ made' = made
    BY <1>0, <1>1, <1>3, <2>2 DEF Only, WorkTyped
  <2> QED
    BY <1>3, <2>1, <2>2
<1>5. Undoing(c)' /\ undo'[c] = undo[c] /\ undo[c].step = "validated"
  BY <1>0, <1>3, <1>4 DEF Undoing, Standing
<1>6. paid' - Booked(c)' = paid - Booked(c)
  <2>1. Booked(c)' = 0 /\ paid \in Int
    BY <1>0, <1>4 DEF Booked, BooksTyped
  <2>2. CASE made[c].money /\ paid' = paid - p.money
    <3>1. Booked(c) = p.money
      BY <1>1, <2>2 DEF Booked
    <3> QED
      BY <1>1, <2>1, <2>2, <3>1
  <2>3. CASE ~made[c].money /\ paid' = paid
    <3>1. Booked(c) = 0
      BY <2>3 DEF Booked
    <3> QED
      BY <2>1, <2>3, <3>1
  <2> QED
    BY <1>3, <2>2, <2>3
<1>7. UndoingMoney(c)'
  BY <1>2, <1>4, <1>5, <1>6 DEF UndoingMoney
<1>8. SettledMoney(c)'
  <2>1. pc[c].create = "idle" /\ made[c].step # "finances_done"
    <3>1. ~Under(c, "create")
      BY <1>0 DEF UnitInv, Exclusive, Under, Undoing
    <3> QED
      BY <3>1 DEF Under
  <2> QED
    BY <1>4, <1>5, <2>1 DEF SettledMoney, Settled, Finished
<1>9. MoneyRow(c)'
  BY <1>0, <1>4, <1>7, <1>8 DEF MoneyRow, PlannedMoney, MidwayMoney
<1> QED
  BY <1>0, <1>4, <1>5, <1>9, MoneyStep

\* The step of Finish keeps the books.
LEMMA FinishMoney ==
  ASSUME UnitInv, BalanceInv, MoneyInv, NEW c \in Exchanges, Finish(c)
  PROVE  MoneyInv'
<1>0. /\ CoreInv /\ WorkTyped /\ BooksTyped /\ Staged(c) /\ Undoing(c) /\ Nobody(c) /\ made[c] \in Exchange
      /\ made[c].step \notin Midway \cup {"validated"} /\ pc[c].cancel = "finish"
  <2>1. CoreInv /\ Undoing(c) /\ pc[c].cancel = "finish"
    BY CancelPlacesUndone DEF UnitInv, Finish, At
  <2> QED
    BY <2>1, UndoingOnly DEF CoreInv, Typed, WorkTyped
<1>1. CASE Refused(c, "cancel")
  BY <1>0, <1>1, RefusedNoMoney, QuietBooks
<1>2. CASE ~Refused(c, "cancel")
  <2>1. /\ Worth = undo[c].projected /\ total' = undo[c].projected
        /\ made' = [made EXCEPT ![c].status = "cancelled"]
        /\ UNCHANGED <<qty, paid, undo>> /\ pc' = [pc EXCEPT ![c].cancel = "complete"]
    BY <1>2, WorthIs, Zenon DEF Finish, Goes, lineVars
  <2>2. /\ Only(c) /\ made'[c].status = "cancelled" /\ made'[c].step = made[c].step /\ pc'[c].create = pc[c].create
        /\ made'[c].plan = made[c].plan /\ made'[c].money = made[c].money
    BY <1>0, <2>1 DEF Only, WorkTyped, Exchange
  <2>3. ~Undoing(c)'
    BY <2>2 DEF Undoing, Standing
  <2>4. ~made[c].money /\ 0 <= paid - Booked(c) /\ paid - Booked(c) <= undo[c].projected /\ SettledMoney(c)
    BY <1>0 DEF MoneyInv, MoneyRow, UndoingMoney
  <2>5. total' = Worth' /\ 0 <= paid' /\ paid' <= total'
    <3>1. Booked(c) = 0
      BY <2>4 DEF Booked
    <3> QED
      BY <1>0, <2>1, <2>4, <3>1 DEF Worth, BooksTyped
  <2>6. SettledMoney(c)'
    <3>1. pc[c].create = "idle" /\ made[c].step # "finances_done" /\ undo[c].step # "none"
      <4>1. ~Under(c, "create")
        BY <1>0 DEF UnitInv, Exclusive, Under, Undoing
      <4> QED
        BY <1>0, <4>1 DEF Under, Undoing
    <3> QED
      BY <2>1, <2>2, <2>4, <3>1 DEF SettledMoney, Settled, Finished
  <2>7. MoneyRow(c)'
    BY <1>0, <2>2, <2>3, <2>6 DEF MoneyRow, PlannedMoney, MidwayMoney, UndoingMoney
  <2> QED
    BY <1>0, <2>2, <2>5, <2>7, MoneyStep
<1> QED
  BY <1>1, <1>2

\* A return of units, or its cancellation, keeps the books.
LEMMA ReturnsMoney ==
  ASSUME MoneyInv, UNCHANGED <<qty, total, paid, made, undo, pc>>
  PROVE  MoneyInv'
<1>1. QuietMoney'
  BY DEF MoneyInv, QuietMoney, AllQuiet, Undoing, Standing, Worth
<1>2. ASSUME NEW d \in Exchanges PROVE MoneyRow(d)'
  <2>1. MoneyRow(d) /\ Pending(d)' = Pending(d) /\ Booked(d)' = Booked(d) /\ Worth' = Worth
    BY DEF MoneyInv, Pending, Booked, Worth
  <2>2. (Undoing(d)' <=> Undoing(d)) /\ (Settled(d)' <=> Settled(d)) /\ (Finished(d)' <=> Finished(d))
    BY DEF Undoing, Standing, Settled, Finished
  <2> QED
    BY <2>1, <2>2 DEF MoneyRow, PlannedMoney, MidwayMoney, SettledMoney, UndoingMoney
<1> QED
  BY <1>1, <1>2 DEF MoneyInv

\* At first the total is the worth of the lines, paid in full or not at all.
LEMMA MoneyInit == Init => MoneyInv
<1> SUFFICES ASSUME Init PROVE MoneyInv
  OBVIOUS
<1>1. \A d \in Exchanges : /\ made[d].step = "none" /\ undo[d].step = "none" /\ ~made[d].money
                           /\ pc[d] = [create |-> "idle", cancel |-> "idle"]
  BY DEF Init
<1>2. Worth = OrderedUnits(First) /\ OrderedUnits(First) \in Nat
  <2> DEFINE f == qty
             g == Ordered
  <2>1. /\ \A l \in Lines : f[l] \in Int
        /\ \A l \in Lines \ First : f[l] = 0
        /\ \A l \in First : g[l] = f[l]
        /\ First \in SUBSET Lines
    BY ExchangeAssumption DEF Init, Lines
  <2>2. Worth = Sum(f, Lines) /\ OrderedUnits(First) = Sum(g, First)
    BY OrderedIs DEF Worth
  <2> HIDE DEF f, g
  <2>3. Sum(f, Lines) = Sum(g, First)
    BY <2>1, LinesFinite, SumCounted
  <2> QED
    BY <2>2, <2>3, OrderedNat
<1>3. QuietMoney
  <2>1. total = OrderedUnits(First) /\ paid \in {0, total}
    BY DEF Init
  <2> QED
    BY <1>2, <2>1 DEF QuietMoney
<1>4. \A d \in Exchanges : MoneyRow(d)
  BY <1>1 DEF MoneyRow, PlannedMoney, MidwayMoney, SettledMoney, UndoingMoney, Settled, Finished, Undoing, Midway
<1> QED
  BY <1>3, <1>4 DEF MoneyInv

\* Every step keeps the books.
LEMMA MoneysStep ==
  ASSUME UnitInv, ShelfInv, BalanceInv, MoneyInv, ExchangesApart, [Next]_vars
  PROVE  MoneyInv'
<1>0. CoreInv
  BY DEF UnitInv
<1>1. ASSUME NEW c \in Exchanges, Creates(c) PROVE MoneyInv'
  BY <1>0, <1>1, ClaimMoney, ReserveNoMoney, SetQtyMoney, OldRowNoMoney, InsertInNoMoney, ApplyInNoMoney,
     AdvanceOldNoMoney, InsertContentMoney, PromiseNoMoney, AdvanceContentNoMoney, NewRowNoMoney, InsertOutNoMoney,
     ApplyOutNoMoney, LinkOutNoMoney, AdvanceNewNoMoney, BookMoneyMoney, SetTotalMoney, AdvanceMoneyNoMoney, CompleteMoney,
     QuietBooks DEF Creates
<1>2. ASSUME NEW c \in Exchanges, Cancels(c) PROVE MoneyInv'
  BY <1>0, <1>2, FreezeMoney, CancelInNoMoney, CancelOutNoMoney, ReleaseNewNoMoney, EmptyNewMoney, RestoreQtyMoney,
     RestoreResvNoMoney, MoneyBackMoney, FinishMoney, CompleteCancelNoMoney, QuietBooks DEF Cancels
<1>3. ASSUME NEW c \in Exchanges, Plan(c) \/ Retry(c) \/ Drop(c) \/ BeginCancel(c)
             \/ \E op \in {"create", "cancel"} : Crash(c, op)
      PROVE  MoneyInv'
  BY <1>0, <1>3, PlanMoney, RetryNoMoney, DropNoMoney, CrashNoMoney, BeginCancelNoMoney, QuietBooks
<1>4. ASSUME NEW l \in Lines, TakeReturn(l) \/ CancelReturn(l) PROVE MoneyInv'
  BY <1>4, ReturnsMoney DEF TakeReturn, CancelReturn, bookVars
<1>5. CASE UNCHANGED vars
  BY <1>5, ReturnsMoney DEF vars, lineVars, bookVars
<1> QED
  BY <1>1, <1>2, <1>3, <1>4, <1>5 DEF Next

-----------------------------------------------------------------------------
(* The order at rest *)

\* The units given back of a line are those its account takes off.
LEMMA GivenBackIs ==
  ASSUME CoreInv, NEW l \in Lines
  PROVE  GivenBack(l) = Back(l)
<1> DEFINE T == {c \in Exchanges : Standing(c) /\ made[c].plan.line = l}
           f == [c \in Exchanges |-> Share(c, l)]
           g == [c \in T |-> made[c].plan.take]
<1>1. \A c \in Exchanges : f[c] = (IF c \in T THEN made[c].plan.take ELSE 0) /\ f[c] \in Int
  BY SharesNat DEF Share, Rests
<1>2. T \in SUBSET Exchanges /\ IsFiniteSet(T) /\ \A c \in T : made[c].plan.take \in Int /\ made[c].plan.take = f[c]
  BY <1>1, LinesFinite, FS_Subset
<1>3. GivenBack(l) = TakesOf(made, T)
  BY DEF GivenBack, TakesOf
<1>4. TakesOf(made, T) = Sum(g, T)
  BY <1>2, TakesAre
<1>5. (\A c \in Exchanges : f[c] \in Int) /\ (\A c \in Exchanges \ T : f[c] = 0) /\ \A c \in T : g[c] = f[c]
  BY <1>1, <1>2
<1>6. Back(l) = Sum(f, Exchanges)
  BY DEF Back
<1> HIDE DEF T, f, g
<1>7. Sum(f, Exchanges) = Sum(g, T)
  BY <1>2, <1>5, LinesFinite, SumCounted
<1> QED
  BY <1>3, <1>4, <1>6, <1>7

\* At rest an exchange that stands is finished, and its new line is there.
LEMMA RestingExchange ==
  ASSUME CoreInv, AtRest, NEW c \in Exchanges
  PROVE  /\ ~Undoing(c) /\ made[c].step \notin Midway
         /\ Standing(c) => made[c].step = "completed" /\ mark[c] # "absent"
<1>1. ~Under(c, "create") /\ ~Under(c, "cancel") /\ Staged(c)
  BY DEF AtRest, CoreInv
<1>2. ~Undoing(c) /\ made[c].step \in {"none", "dropped", "completed"}
  BY <1>1 DEF Under, Undoing
<1>3. Standing(c) => made[c].step = "completed"
  BY <1>1, <1>2 DEF Staged, CreateStage, Standing
<1> QED
  BY <1>1, <1>2, <1>3 DEF Staged, NewLineOK, Midway

\* The accounts say that an order at rest adds up.
LEMMA RestingOrder ==
  ASSUME UnitInv, ShelfInv, BalanceInv, FitInv, MoneyInv
  PROVE  OrderAddsUp
<1> SUFFICES ASSUME AtRest
             PROVE  /\ total = LinesWorth
                    /\ \A l \in First : qty[l] + GivenBack(l) = Ordered[l]
                    /\ \A c \in Exchanges : qty[c] + GivenBack(c) = IF Standing(c) THEN made[c].plan.give ELSE 0
                    /\ \A l \in Lines : qty[l] > 0 => /\ Issued(l) <=> resv[l].status = "fulfilled"
                                                      /\ resv[l].status = "active" => resv[l].qty = qty[l]
                    /\ stock.reserved = Having("active")
                    /\ stock.quantity = InStock - Having("fulfilled") + Received - Lost
                    /\ 0 <= paid /\ paid <= total
  BY DEF OrderAddsUp
<1>0. CoreInv
  BY DEF UnitInv
<1>1. \A c \in Exchanges : /\ ~Undoing(c) /\ made[c].step \notin Midway
                           /\ Standing(c) => made[c].step = "completed" /\ mark[c] # "absent"
  BY <1>0, RestingExchange
<1>2. total = LinesWorth /\ 0 <= paid /\ paid <= total
  BY <1>1, WorthIs DEF MoneyInv, QuietMoney, AllQuiet
<1>3. \A l \in Lines : qty[l] + GivenBack(l) = Held(l)
  <2>1. \A l \in Lines : Calm(l)
    BY <1>1 DEF Calm
  <2>2. \A l \in Lines : GivenBack(l) = Back(l)
    BY <1>0, GivenBackIs
  <2> QED
    BY <2>1, <2>2 DEF BalanceInv, LinesBalance, Balanced
<1>4. \A l \in First : qty[l] + GivenBack(l) = Ordered[l]
  BY <1>3 DEF Lines, Held
<1>5. \A c \in Exchanges : qty[c] + GivenBack(c) = IF Standing(c) THEN made[c].plan.give ELSE 0
  BY <1>1, <1>3, ExchangeAssumption DEF Lines, Held
<1>6. ASSUME NEW l \in Lines, qty[l] > 0
      PROVE  (Issued(l) <=> resv[l].status = "fulfilled") /\ (resv[l].status = "active" => resv[l].qty = qty[l])
  <2>1. \A c \in Exchanges : ~Changing(c, l)
    BY <1>1 DEF Changing, Midway
  <2>2. Fit(l)
    BY <2>1 DEF FitInv, LinesFit
  <2> QED
    BY <1>6, <2>2 DEF Fit
<1>7. stock.reserved = Having("active") /\ stock.quantity = InStock - Having("fulfilled") + Received - Lost
  BY <1>0, HavingIs, ReceivedIs, LostIs DEF CoreInv, Typed, ShelfInv, Counted, EventRows, Active, Shipped
<1> QED
  BY <1>2, <1>4, <1>5, <1>6, <1>7

\* The program's own measure of an exchange that worked, for every number of lines,
\* exchanges, quantities and dying calls: whenever no operation is unfinished, the
\* total is the worth of the lines, no line has lost or gained a unit, what is
\* promised and what left the shelf is what the lines say (the shelf misses the
\* goods of cancelled exchanges whose movement no event names, lifecycle.ts:585-593,
\* 787-790) and the client has not paid more than the total.  It is a promise to a shop that works on one exchange
\* of the order at a time, cancels those of a line from the latest on and leaves
\* those that recorded a handover (returns-exchanges.ts:3731, 4537-4664, 4784-4792).
THEOREM OrdersAddUp ==
  ASSUME ExchangesApart, LatestFirst, HandoversStay
  PROVE  Spec => []OrderAddsUp
<1> DEFINE Inv == UnitInv /\ ShelfInv /\ BalanceInv /\ FitInv /\ MoneyInv
<1>1. Init => Inv
  BY CoreInit, UnitsInit, ShelfInit, BalanceInit, FitInit, MoneyInit
<1>2. Inv /\ [Next]_vars => Inv'
  BY UnitsStep, ShelfStep, BalanceStep, FitsStep, MoneysStep DEF UnitInv
<1>3. Inv => OrderAddsUp
  BY RestingOrder
<1> HIDE DEF Inv
<1> QED
  BY <1>1, <1>2, <1>3, PTL DEF Spec

=============================================================================
