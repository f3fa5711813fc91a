---------------------------- MODULE MCNegotiation -----------------------------
(* Small worlds for Negotiation. *)
EXTENDS Negotiation, TLC

Symmetric == Permutations(Workers)
===============================================================================
