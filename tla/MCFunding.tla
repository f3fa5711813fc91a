------------------------------ MODULE MCFunding -------------------------------
(* Small worlds for Funding. *)
EXTENDS Funding

NoAdjustments == {}
Clawback == {-2}
===============================================================================
