-------------------------- MODULE TransactionRecord --------------------------
(***************************************************************************)
(* What the wallet promises about the record it keeps of a transaction it  *)
(* sent: the record is made after the node has the transaction, it is      *)
(* either given up on or removed, and it is removed only when the chain    *)
(* has finalized the transaction, whose result the wallet proxy then       *)
(* serves.  Nothing here knows of monitors, connections, restarts or the   *)
(* list on the screen: TransactionStatus implements this specification.    *)
(***************************************************************************)
CONSTANT Tx         \* the transactions, by hash

VARIABLES
  chain,            \* chain[t]: what the network has done with t
  record            \* record[t]: the wallet's record of t

vars == <<chain, record>>

Finalized == {"success", "failure"}

Init ==
  /\ chain = [t \in Tx |-> "unsent"]
  /\ record = [t \in Tx |-> "absent"]

\* The network receives t, and later puts it in a finalized block.
Receive(t) ==
  /\ chain[t] = "unsent"
  /\ chain' = [chain EXCEPT ![t] = "received"]
  /\ UNCHANGED record

Finalize(t) ==
  /\ chain[t] = "received"
  /\ \E result \in Finalized : chain' = [chain EXCEPT ![t] = result]
  /\ UNCHANGED record

\* A record is made at most once, of a transaction the network has received.
Make(t) ==
  /\ record[t] = "absent"
  /\ chain[t] # "unsent"
  /\ record' = [record EXCEPT ![t] = "pending"]
  /\ UNCHANGED chain

\* The wallet stops waiting for t.
GiveUp(t) ==
  /\ record[t] = "pending"
  /\ record' = [record EXCEPT ![t] = "rejected"]
  /\ UNCHANGED chain

\* The record is replaced by the result on the chain, for good.
Settle(t) ==
  /\ record[t] \in {"pending", "rejected"}
  /\ chain[t] \in Finalized
  /\ record' = [record EXCEPT ![t] = "settled"]
  /\ UNCHANGED chain

Next == \E t \in Tx : Receive(t) \/ Finalize(t) \/ Make(t) \/ GiveUp(t) \/ Settle(t)

Spec == Init /\ [][Next]_vars
=============================================================================
