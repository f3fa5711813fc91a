------------------------------ MODULE MCIssuance ------------------------------
(* Small worlds for Issuance: orders, coupons and requests are alike. *)
EXTENDS Issuance, TLC

Symmetry == Permutations(Orders) \cup Permutations(Coupons) \cup Permutations(Requests)
===============================================================================
