------------------------------- MODULE MCConsole -------------------------------
(* Small worlds for Console. *)
EXTENDS Console
===============================================================================
