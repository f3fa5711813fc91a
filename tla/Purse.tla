--------------------------------- MODULE Purse ---------------------------------
(***************************************************************************)
(* What withdrawing promises: earnings wait out the settlement window,     *)
(* what is free can be asked for once, and a request is decided once, paid *)
(* in full or given back.                                                  *)
(***************************************************************************)
EXTENDS Integers

CONSTANTS Publishers, Ids

VARIABLES held, free, out, request

vars == <<held, free, out, request>>

Earn(p) ==
    /\ held' = [held EXCEPT ![p] = @ + 1]
    /\ UNCHANGED <<free, out, request>>

Settle(p) ==
    /\ held[p] > 0
    /\ held' = [held EXCEPT ![p] = @ - 1]
    /\ free' = [free EXCEPT ![p] = @ + 1]
    /\ UNCHANGED <<out, request>>

Ask(id, p) ==
    LET coins == free[p] - free'[p] IN
    /\ request[id].status = "none"
    /\ coins > 0 /\ free'[p] >= 0
    /\ free' = [free EXCEPT ![p] = @ - coins]
    /\ request' = [request EXCEPT ![id] = [status |-> "requested", publisher |-> p, coins |-> coins]]
    /\ UNCHANGED <<held, out>>

Decide(id, p, status) ==
    /\ request[id].status = "requested" /\ request[id].publisher = p
    /\ request' = [request EXCEPT ![id].status = status]
    /\ \/ status = "paid" /\ out' = out + request[id].coins /\ UNCHANGED free
       \/ status = "rejected" /\ free' = [free EXCEPT ![p] = @ + request[id].coins] /\ UNCHANGED out
    /\ UNCHANGED held

Init ==
    /\ held = [p \in Publishers |-> 0]
    /\ free = [p \in Publishers |-> 0]
    /\ out = 0
    /\ request = [id \in Ids |-> [status |-> "none"]]

Next ==
    \E p \in Publishers :
        \/ Earn(p) \/ Settle(p)
        \/ \E id \in Ids : Ask(id, p) \/ Decide(id, p, "paid") \/ Decide(id, p, "rejected")

Spec == Init /\ [][Next]_vars
===============================================================================
