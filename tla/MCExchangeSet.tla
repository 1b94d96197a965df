--------------------------- MODULE MCExchangeSet ---------------------------
(* One line of two units and two exchanges, the second one of the same line *)
(* or of the goods the first one gave.                                      *)
EXTENDS ExchangeSet

CONSTANT a
Two == [l \in {a} |-> 2]
=============================================================================
