-------------------------- MODULE MCLedgerConnection --------------------------
(* Two submissions and three changes of the device.                        *)
EXTENDS LedgerConnection
===============================================================================
