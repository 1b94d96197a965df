--------------------------- MODULE MCCashRegister ---------------------------
(* One order with two payments and a refund, and two requests of clerks. *)
EXTENDS CashRegister, TLC

Symmetry == Permutations(Payments) \cup Permutations(Requests) \cup Permutations(Clerks)
=============================================================================
