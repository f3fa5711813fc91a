------------------------------ MODULE MCAccounts ------------------------------
(* Small worlds for Accounts. *)
EXTENDS Accounts
===============================================================================
