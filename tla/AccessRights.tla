----------------------------- MODULE AccessRights -----------------------------
(***************************************************************************)
(* What the editors of the governance keys promise.  For each access       *)
(* structure there are the keys that may sign and how many of them must.   *)
(* Somebody works on a draft of them, which starts with what the chain     *)
(* has; what is proposed is the draft, and every structure of it can still *)
(* be satisfied.                                                           *)
(***************************************************************************)
EXTENDS Integers, FiniteSets

VARIABLES
  current,   \* the rights the editor was opened with
  draft,     \* what has been made of them
  proposed   \* the updates that have been created

Satisfiable(r) ==
  \A s \in DOMAIN r.keys : r.threshold[s] \in 1 .. Cardinality(r.keys[s])

Init ==
  /\ draft = current
  /\ proposed = {}

(* The editor is opened with what the chain has at that time, or closed. *)
Open ==
  /\ draft' = current'
  /\ UNCHANGED proposed

(* A key is authorized for some of the structures. *)
Grant ==
  /\ DOMAIN draft'.keys = DOMAIN draft.keys
  /\ \E k \in UNION {draft'.keys[s] : s \in DOMAIN draft'.keys} :
       \A s \in DOMAIN draft.keys :
         draft'.keys[s] \in {draft.keys[s], draft.keys[s] \union {k}}
  /\ draft'.threshold = draft.threshold
  /\ UNCHANGED <<current, proposed>>

(* A key is no longer authorized for one structure; nothing else changes. *)
Revoke ==
  /\ \E s \in DOMAIN draft.keys : \E k \in draft.keys[s] :
       draft'.keys = [draft.keys EXCEPT ![s] = @ \ {k}]
  /\ draft'.threshold = draft.threshold
  /\ UNCHANGED <<current, proposed>>

Choose ==
  /\ draft'.keys = draft.keys
  /\ \E s \in DOMAIN draft.keys :
       draft'.threshold = [draft.threshold EXCEPT ![s] = draft'.threshold[s]]
  /\ UNCHANGED <<current, proposed>>

(* The draft is proposed, and the editor is done with it. *)
Propose ==
  /\ Satisfiable(draft)
  /\ proposed' = proposed \union {draft}
  /\ draft' = current'

Next == Open \/ Grant \/ Revoke \/ Choose \/ Propose

Spec == Init /\ [][Next]_<<current, draft, proposed>>
===============================================================================
