----------------------------- MODULE MCGateway -------------------------------
(***************************************************************************)
(* Small instance of Gateway for TLC: two processes, two tenants and their *)
(* one event, a key that submits more often than its limit allows.         *)
(***************************************************************************)
EXTENDS Gateway, TLC

CONSTANTS c1, c2, c3, hackingly, other, p1, p2

Busy == {c1, c2}      \* calls of one key, more than its limit
AllCalls == Busy \cup {c3}
MCKeyOf == [c \in AllCalls |-> IF c \in Busy THEN "platform" ELSE "reviewer"]
MCPrincipal ==
    [c \in AllCalls |-> [tenant |-> hackingly, role |-> MCKeyOf[c], event |-> "event",
                         process |-> IF c \in Busy THEN p1 ELSE p2]]
MCDelays == {35, 85}
Symmetry == Permutations(Busy)
==============================================================================
