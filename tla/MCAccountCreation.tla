------------------------- MODULE MCAccountCreation -------------------------
(* Instances of AccountCreation: the user knows the address of an account   *)
(* of the identity, or of its initial account, before the wallet names it.  *)
EXTENDS AccountCreation

FirstDeployed == {<<0, 1>>}
InitialAccount == {<<0, 0>>}
=============================================================================
