------------------------------ MODULE MCRecovery ------------------------------
(* Two identity numbers with two credentials each, a search next to one    *)
(* that was given up, and up to two lookups that fail.                     *)
EXTENDS Recovery
===============================================================================
