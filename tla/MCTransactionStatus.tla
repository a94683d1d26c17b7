------------------------- MODULE MCTransactionStatus -------------------------
(* Small instances of TransactionStatus: t1, t2, ... are model values. *)
EXTENDS TransactionStatus
=============================================================================
