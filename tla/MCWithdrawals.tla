----------------------------- MODULE MCWithdrawals -----------------------------
(* Small worlds for Withdrawals. *)
EXTENDS Withdrawals
===============================================================================
