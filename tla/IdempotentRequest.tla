-------------------------- MODULE IdempotentRequest --------------------------
(***************************************************************************)
(* What a user of the operation journal is promised: a request id takes    *)
(* effect at most once, with one body, and every successful answer to it   *)
(* names that one effect.                                                  *)
(***************************************************************************)
EXTENDS Naturals, FiniteSets

CONSTANTS Requests, Payloads

VARIABLES
    performed,  \* the effects, each with the request and body that caused it
    answered    \* the successful answers given

EffectType == [request : Requests, payload : Payloads, target : Nat]

Init == performed = {} /\ answered = {}

Perform(r, p) ==
    /\ \A e \in performed : e.request # r
    /\ performed' = performed \cup
         {[request |-> r, payload |-> p, target |-> Cardinality(performed) + 1]}
    /\ UNCHANGED answered

Reply(e) ==
    /\ answered' = answered \cup {e}
    /\ UNCHANGED performed

Next == \/ \E r \in Requests, p \in Payloads : Perform(r, p)
        \/ \E e \in performed : Reply(e)

Spec == Init /\ [][Next]_<<performed, answered>>
=============================================================================
