---------------------------- MODULE MCStocktake ----------------------------
(* A warehouse and a boutique; the books of the warehouse are one unit off. *)
EXTENDS Stocktake, TLC

CONSTANTS warehouse, boutique, v1, v2

Symmetry == Permutations(Handlers) \cup Permutations(Requests)

MCInStock == [s \in Places \X Variants |-> IF s = <<warehouse, v1>> THEN 1 ELSE 0]
MCOnShelf == [s \in Places \X Variants |-> IF s[1] = warehouse THEN 1 ELSE 0]
=============================================================================
