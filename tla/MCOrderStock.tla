---------------------------- MODULE MCOrderStock ----------------------------
(* Two orders on one shelf: a line of two units that a dispatch may split and *)
(* a line of one unit; a line of the other order competes for the same units. *)
EXTENDS OrderStock, TLC

CONSTANTS o1, o2, s1

Symmetry == Permutations(Handlers) \cup Permutations(Requests)

MCRemainder == (1 :> 4) @@ (2 :> 0) @@ (3 :> 0)
MCOrderOf == (1 :> o1) @@ (2 :> o1) @@ (3 :> o2) @@ (4 :> o1)
MCShelfOf == [l \in 1 .. 4 |-> s1]
MCOrdered == (1 :> 2) @@ (2 :> 1) @@ (3 :> 1)
MCInStock == [s \in {s1} |-> 3]
=============================================================================
