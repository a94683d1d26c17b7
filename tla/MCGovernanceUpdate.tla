-------------------------- MODULE MCGovernanceUpdate --------------------------
(* Three custodians, two new keys, two structures to edit. *)
EXTENDS GovernanceUpdate
===============================================================================
