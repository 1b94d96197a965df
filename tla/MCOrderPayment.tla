--------------------------- MODULE MCOrderPayment ---------------------------
(***************************************************************************)
(* Small instances of OrderPayment for TLC: an order of 3, payments of 2.  *)
(***************************************************************************)
EXTENDS OrderPayment, TLC

CONSTANTS a, b, first, second, body, s, t1, t2, t3, t4

\* Two employees close the same debt, or one payment is sent from two tabs.
TwoPayments == a :> first @@ b :> second
OnePayment == [x \in Callers |-> first]
SameBody == [x \in Callers |-> body]
AmountTwo == [p \in Payloads |-> 2]
=============================================================================
