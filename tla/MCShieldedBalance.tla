-------------------------- MODULE MCShieldedBalance --------------------------
(* Small instances of ShieldedBalance: t1, r1, p1 and f1 are model values.   *)
EXTENDS ShieldedBalance
=============================================================================
