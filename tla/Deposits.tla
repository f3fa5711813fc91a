------------------------------- MODULE Deposits -------------------------------
(***************************************************************************)
(* What funding promises: a movement between the outside world and a       *)
(* budget has an identity, lands whole, lands once, and never takes out    *)
(* more than is there.                                                     *)
(***************************************************************************)
EXTENDS Integers

CONSTANTS Campaigns, Ids

VARIABLES budget, outside, done

vars == <<budget, outside, done>>

Deposit(id, c) ==
    LET coins == budget'[c] - budget[c] IN
    /\ id \notin done
    /\ budget[c] + coins >= 0
    /\ budget' = [budget EXCEPT ![c] = @ + coins]
    /\ outside' = outside - coins
    /\ done' = done \cup {id}

Init ==
    /\ budget = [c \in Campaigns |-> 0]
    /\ outside = 0
    /\ done = {}

Next == \E id \in Ids, c \in Campaigns : Deposit(id, c)

Spec == Init /\ [][Next]_vars
===============================================================================
