------------------------- MODULE MCCriticalOperation -------------------------
(***************************************************************************)
(* Small instances of CriticalOperation for TLC.                           *)
(***************************************************************************)
EXTENDS CriticalOperation

CONSTANTS a, b, c, order, exchange, payment, body, other, t1, t2, t3, t4

\* Two tabs repeat one request; a third client uses its id for another body.
SharedPayment == [x \in Callers |-> payment]
SharedOrder == [x \in Callers |-> order]
SameBody == [x \in Callers |-> body]
OneMisuse == [x \in Callers |-> IF x = c THEN other ELSE body]
=============================================================================
