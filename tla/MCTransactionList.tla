-------------------------- MODULE MCTransactionList --------------------------
(* Instances of TransactionList: two accounts with alternate transactions,   *)
(* of which the last is an incoming shielded transfer; a public list, and    *)
(* one that is filtered or shows the shielded balance.                       *)
EXTENDS TransactionList

MCOwner == [i \in 1..MaxId |-> "a"]
MCFilter == [v \in Variant |-> CASE v = "all" -> 1..MaxId
                                 [] v = "shielded" -> Incoming
                                 [] v = "filtered" -> {i \in 1..MaxId : i # 1}]
=============================================================================
