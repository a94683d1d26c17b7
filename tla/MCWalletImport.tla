---------------------------- MODULE MCWalletImport ----------------------------
(* The first identity of one Ledger, with two accounts, and the first two  *)
(* of another, of which file and database know any two.                    *)
EXTENDS WalletImport

First == [wallet |-> "nano", number |-> 0]
Twin == [wallet |-> "plus", number |-> 0]
Second == [wallet |-> "plus", number |-> 1]

MCIdentity == {First, Twin, Second}

MCAccounts ==
  {[of |-> i, credentialNumber |-> 0] : i \in MCIdentity}
    \union {[of |-> First, credentialNumber |-> 1]}

MCHeldOrders ==
  {<<>>, <<"plus">>, <<"nano", "plus">>, <<"plus", "nano">>, <<"nano", "other", "plus">>}
MCFileOrders == {<<"nano">>, <<"nano", "plus">>}
===============================================================================
