-------------------------- MODULE TransactionStatus --------------------------
(***************************************************************************)
(* How the wallet follows a transaction it has sent.  SubmitTransaction    *)
(* sends it to the node, inserts it as a pending row of the database and   *)
(* starts monitorTransactionStatus on it.  Every startClient, that is every *)
(* unlock and every change of the node connection, reads the pending rows  *)
(* and starts one more monitor for each, while the earlier monitors go on. *)
(* A monitor waits for the finalization of its transaction: if the wait    *)
(* returns, the row is deleted and the entry in the list of the store is   *)
(* updated; if it throws, both are marked rejected.                        *)
(*                                                                         *)
(* One step is what runs between two awaits, or one statement executed by  *)
(* SQLite.  A database statement that is not awaited lands in a step of    *)
(* its own.                                                                *)
(***************************************************************************)
EXTENDS Naturals

CONSTANTS
  Tx,               \* the transactions the user submits, by hash
  MaxConnections    \* bound: how often startClient is called

ASSUME ConnectionsAssumption == MaxConnections \in Nat

Connection == 1 .. MaxConnections

\* A monitor is known by who started it: the submission or a connection.
Submission == 0
Origin == {Submission} \union Connection

VARIABLES
  chain,            \* chain[t]: what the network has done with t
  row,              \* row[t]: the status in the transaction table, or "none"
  session,          \* "unlocked" while the application runs
  submit,           \* submit[t]: how far SubmitTransaction got with t
  connections,      \* how many times startClient has been called
  listener,         \* listener[c]: the listenForTransactionStatus of call c
  monitor,          \* monitor[t][o]: the monitorTransactionStatus of t from o
  entry             \* entry[t]: the status in the store's list, or "none"

vars == <<chain, row, session, submit, connections, listener, monitor, entry>>

Finalized == {"success", "failure"}
EntryState == {"none", "pending", "rejected", "finalized", "failed"}

running == session = "unlocked"

\* The status a finalized transaction is given in the list.
Outcome(t) == IF chain[t] = "failure" THEN "failed" ELSE "finalized"

NoListener == [pc |-> "idle", txs |-> {}]
NoMonitors == [t \in Tx |-> [o \in Origin |-> "none"]]
NoEntries == [t \in Tx |-> "none"]

Init ==
  /\ chain = [t \in Tx |-> "unsent"]
  /\ row = [t \in Tx |-> "none"]
  /\ session = "locked"
  /\ submit = [t \in Tx |-> "idle"]
  /\ connections = 0
  /\ listener = [c \in Connection |-> NoListener]
  /\ monitor = NoMonitors
  /\ entry = NoEntries

-----------------------------------------------------------------------------
(* The network. *)

Finalize(t) ==
  /\ chain[t] = "received"
  /\ \E result \in Finalized : chain' = [chain EXCEPT ![t] = result]
  /\ UNCHANGED <<row, session, submit, connections, listener, monitor, entry>>

-----------------------------------------------------------------------------
(* SubmitTransaction. *)

\* sendAccountTransaction returns: the node has accepted t.
Send(t) ==
  /\ running
  /\ submit[t] = "idle"
  /\ submit' = [submit EXCEPT ![t] = "sent"]
  /\ chain' = [chain EXCEPT ![t] = "received"]
  /\ UNCHANGED <<row, session, connections, listener, monitor, entry>>

\* sendAccountTransaction throws; the node may have accepted t all the same.
SendFails(t) ==
  /\ running
  /\ submit[t] = "idle"
  /\ submit' = [submit EXCEPT ![t] = "lost"]
  /\ \/ chain' = [chain EXCEPT ![t] = "received"]
     \/ UNCHANGED chain
  /\ UNCHANGED <<row, session, connections, listener, monitor, entry>>

\* addPendingTransaction: the pending row is inserted ...
Record(t) ==
  /\ running
  /\ submit[t] = "sent"
  /\ submit' = [submit EXCEPT ![t] = "recorded"]
  /\ row' = [row EXCEPT ![t] = "pending"]
  /\ UNCHANGED <<chain, session, connections, listener, monitor, entry>>

\* ... or saving throws, which the user is not told about.
RecordFails(t) ==
  /\ running
  /\ submit[t] = "sent"
  /\ submit' = [submit EXCEPT ![t] = "lost"]
  /\ UNCHANGED <<chain, row, session, connections, listener, monitor, entry>>

StartMonitor(t) ==
  /\ running
  /\ submit[t] = "recorded"
  /\ submit' = [submit EXCEPT ![t] = "done"]
  /\ monitor' = [monitor EXCEPT ![t][Submission] = "waiting"]
  /\ UNCHANGED <<chain, row, session, connections, listener, entry>>

-----------------------------------------------------------------------------
(* startClient and listenForTransactionStatus. *)

\* Mutant: the new connection does not listen for what is pending already.
startClientSilently ==
  /\ connections < MaxConnections
  /\ connections' = connections + 1
  /\ session' = "unlocked"
  /\ UNCHANGED <<chain, row, submit, listener, monitor, entry>>

startClient ==
  /\ connections < MaxConnections
  /\ connections' = connections + 1
  /\ listener' = [listener EXCEPT ![connections + 1].pc = "reading"]
  /\ session' = "unlocked"
  /\ UNCHANGED <<chain, row, submit, monitor, entry>>

Unlock == ~running /\ startClient

ChangeConnection == running /\ startClient

PendingRows == {t \in Tx : row[t] = "pending"}

getPendingTransactions(c) ==
  /\ listener[c].pc = "reading"
  /\ listener' = [listener EXCEPT ![c] = [pc |-> "read", txs |-> PendingRows]]
  /\ UNCHANGED <<chain, row, session, submit, connections, monitor, entry>>

listenForTransactionStatus(c) ==
  /\ listener[c].pc = "read"
  /\ listener' = [listener EXCEPT ![c] = NoListener]
  /\ monitor' = [t \in Tx |->
                   IF t \in listener[c].txs
                     THEN [monitor[t] EXCEPT ![c] = "waiting"]
                     ELSE monitor[t]]
  /\ UNCHANGED <<chain, row, session, submit, connections, entry>>

-----------------------------------------------------------------------------
(* monitorTransactionStatus, confirmTransaction and rejectTransaction. *)

Move(t, o, from, to) ==
  /\ monitor[t][o] = from
  /\ monitor' = [monitor EXCEPT ![t][o] = to]

\* updateTransactionFields changes the entry of t if the list has one.
SetEntry(t, status) ==
  entry' = IF entry[t] = "none" THEN entry ELSE [entry EXCEPT ![t] = status]

\* Mutant: a wait that ended is taken for a finalization.
WaitEnds(t, o) ==
  /\ Move(t, o, "waiting", "deleting")
  /\ UNCHANGED <<chain, row, session, submit, connections, listener, entry>>

\* The wait returns, and confirmTransaction asks for the row to be deleted.
WaitReturns(t, o) ==
  /\ chain[t] \in Finalized
  /\ Move(t, o, "waiting", "deleting")
  /\ UNCHANGED <<chain, row, session, submit, connections, listener, entry>>

\* Mutant: the list is not told of the deletion.
deleteTransactionQuietly(t, o) ==
  /\ Move(t, o, "deleting", "none")
  /\ row' = [row EXCEPT ![t] = "none"]
  /\ UNCHANGED <<chain, session, submit, connections, listener, entry>>

deleteTransaction(t, o) ==
  /\ Move(t, o, "deleting", "deleted")
  /\ row' = [row EXCEPT ![t] = "none"]
  /\ UNCHANGED <<chain, session, submit, connections, listener, entry>>

confirmTransaction(t, o) ==
  /\ Move(t, o, "deleted", "none")
  /\ SetEntry(t, Outcome(t))
  /\ UNCHANGED <<chain, row, session, submit, connections, listener>>

\* Mutant: only the list is told of the rejection.
rejectTransactionInStore(t, o) ==
  /\ Move(t, o, "waiting", "none")
  /\ SetEntry(t, "rejected")
  /\ UNCHANGED <<chain, row, session, submit, connections, listener>>

\* The wait throws, for whatever reason: rejectTransaction dispatches at once
\* and does not await the update of the row.
rejectTransaction(t, o) ==
  /\ Move(t, o, "waiting", "rejecting")
  /\ SetEntry(t, "rejected")
  /\ UNCHANGED <<chain, row, session, submit, connections, listener>>

\* Mutant: the update inserts the row if there is none.
upsertTransaction(t, o) ==
  /\ Move(t, o, "rejecting", "none")
  /\ row' = [row EXCEPT ![t] = "rejected"]
  /\ UNCHANGED <<chain, session, submit, connections, listener, entry>>

updateTransaction(t, o) ==
  /\ Move(t, o, "rejecting", "none")
  /\ row' = IF row[t] = "none" THEN row ELSE [row EXCEPT ![t] = "rejected"]
  /\ UNCHANGED <<chain, session, submit, connections, listener, entry>>

-----------------------------------------------------------------------------
(* The list of transactions in the store. *)

\* What a load may show of t: nothing if the filter of the account holds t
\* back, what the wallet proxy returned, or else the pending row.  The proxy
\* answered earlier, and may lag behind the chain: it returned some of the
\* transactions that are finalized by now.
Loaded(t) ==
  {"none"}
    \union (IF chain[t] \in Finalized THEN {Outcome(t)} ELSE {})
    \union (IF row[t] = "pending" THEN {"pending"} ELSE {})

\* A load replaces the list.
loadTransactions ==
  /\ running
  /\ entry' \in {list \in [Tx -> EntryState] : \A t \in Tx : list[t] \in Loaded(t)}
  /\ UNCHANGED <<chain, row, session, submit, connections, listener, monitor>>

\* loadNewTransactions adds what the proxy has and the list does not.
loadNewTransactions(t) ==
  /\ running
  /\ chain[t] \in Finalized
  /\ entry[t] = "none"
  /\ entry' = [entry EXCEPT ![t] = Outcome(t)]
  /\ UNCHANGED <<chain, row, session, submit, connections, listener, monitor>>

-----------------------------------------------------------------------------
\* The application stops: everything but the database is gone.  (Bound: only
\* while another startClient is within MaxConnections.)
Stop ==
  /\ running
  /\ connections < MaxConnections
  /\ session' = "locked"
  /\ submit' = [t \in Tx |-> CASE submit[t] = "sent" -> "lost"
                               [] submit[t] = "recorded" -> "done"
                               [] OTHER -> submit[t]]
  /\ listener' = [c \in Connection |-> NoListener]
  /\ monitor' = NoMonitors
  /\ entry' = NoEntries
  /\ UNCHANGED <<chain, row, connections>>

Monitoring(t, o) ==
  \/ WaitReturns(t, o)
  \/ deleteTransaction(t, o)
  \/ confirmTransaction(t, o)
  \/ rejectTransaction(t, o)
  \/ updateTransaction(t, o)

Submitting(t) ==
  \/ Send(t)
  \/ SendFails(t)
  \/ Record(t)
  \/ RecordFails(t)
  \/ StartMonitor(t)

Next ==
  \/ \E t \in Tx : Finalize(t) \/ Submitting(t) \/ loadNewTransactions(t)
  \/ \E c \in Connection : getPendingTransactions(c) \/ listenForTransactionStatus(c)
  \/ \E t \in Tx, o \in Origin : Monitoring(t, o)
  \/ Unlock
  \/ ChangeConnection
  \/ loadTransactions
  \/ Stop

Spec == Init /\ [][Next]_vars

(***************************************************************************)
(* The runtime delivers results and runs continuations, and a gRPC call    *)
(* carries a deadline (defaultDeadlineMs), so a wait does not last for     *)
(* ever: it returns or throws.  The user is assumed to unlock the wallet   *)
(* again.  Nothing is assumed of the chain, of submissions or of loads.    *)
(***************************************************************************)
Fairness ==
  /\ WF_vars(Unlock)
  /\ \A t \in Tx : WF_vars(StartMonitor(t))
  /\ \A c \in Connection : WF_vars(getPendingTransactions(c) \/ listenForTransactionStatus(c))
  /\ \A t \in Tx, o \in Origin : WF_vars(Monitoring(t, o))

FairSpec == Spec /\ Fairness

-----------------------------------------------------------------------------
(* Properties. *)

SubmitState == {"idle", "sent", "recorded", "done", "lost"}
MonitorState == {"none", "waiting", "deleting", "deleted", "rejecting"}

TypeOK ==
  /\ chain \in [Tx -> {"unsent", "received"} \union Finalized]
  /\ row \in [Tx -> {"none", "pending", "rejected"}]
  /\ session \in {"locked", "unlocked"}
  /\ submit \in [Tx -> SubmitState]
  /\ connections \in 0 .. MaxConnections
  /\ listener \in [Connection -> [pc : {"idle", "reading", "read"}, txs : SUBSET Tx]]
  /\ monitor \in [Tx -> [Origin -> MonitorState]]
  /\ entry \in [Tx -> EntryState]

\* Someone will still act on the pending row of t.
Watched(t) ==
  \/ submit[t] = "recorded"
  \/ \E o \in Origin : monitor[t][o] \in {"waiting", "deleting", "rejecting"}
  \/ \E c \in Connection : \/ listener[c].pc = "reading"
                           \/ listener[c].pc = "read" /\ t \in listener[c].txs

\* While the wallet runs, no pending row is forgotten, whichever of the
\* submission, the listeners and the monitors has handed it to which.
PendingIsWatched ==
  running => \A t \in PendingRows : Watched(t)

\* A row is deleted for good: when a monitor has deleted it, no late
\* rejection, restart or second monitor has brought it back by the time the
\* monitor updates the list.
DeletedStaysDeleted ==
  \A t \in Tx, o \in Origin : monitor[t][o] = "deleted" => row[t] = "none"

\* An entry shown as pending whose row is gone is about to be corrected: the
\* list is never left showing as pending a transaction the wallet has settled.
SettledIsNotShownPending ==
  \A t \in Tx :
    entry[t] = "pending" /\ row[t] = "none"
      => \E o \in Origin : monitor[t][o] = "deleted"

\* What the invariants above rest on.  Until the row of t is inserted there is
\* none, and nobody has heard of t; the submission and each listener start a
\* monitor of t once; the row is inserted only once the node has
\* t; a monitor deletes the row only when the chain has finalized t.
UnrecordedIsUnknown ==
  \A t \in Tx : submit[t] \in {"idle", "sent", "lost"} =>
    /\ row[t] = "none"
    /\ \A o \in Origin : monitor[t][o] = "none"
    /\ \A c \in Connection : t \notin listener[c].txs

StartsOnce ==
  /\ \A t \in Tx : submit[t] = "recorded" => monitor[t][Submission] = "none"
  /\ \A c \in Connection : listener[c].pc # "idle" => c <= connections
  /\ \A c \in Connection :
       c > connections \/ listener[c].pc # "idle"
         => \A t \in Tx : monitor[t][c] = "none"

RecordedIsReceived ==
  \A t \in Tx : submit[t] \in {"sent", "recorded", "done"} => chain[t] # "unsent"

IdleIsUnsent ==
  \A t \in Tx : submit[t] = "idle" => chain[t] = "unsent"

ConfirmingIsFinalized ==
  \A t \in Tx, o \in Origin :
    monitor[t][o] \in {"deleting", "deleted"} => chain[t] \in Finalized

\* The inductive invariant.
IInv ==
  /\ UnrecordedIsUnknown
  /\ StartsOnce
  /\ IdleIsUnsent
  /\ RecordedIsReceived
  /\ ConfirmingIsFinalized
  /\ PendingIsWatched
  /\ DeletedStaysDeleted
  /\ SettledIsNotShownPending

\* Every pending row is settled or given up on in the end, through restarts
\* and changes of the connection.
PendingIsSettled ==
  \A t \in Tx : row[t] = "pending" ~> row[t] # "pending"

\* "Wait for the transaction to be finalized (or rejected)": a transaction is
\* marked rejected only if the chain never finalizes it.  The monitor takes
\* any exception of the wait, a lost connection too, for a rejection.
RejectedIsNotFinalized ==
  \A t \in Tx : row[t] = "rejected" => chain[t] \notin Finalized

(***************************************************************************)
(* The record of a transaction as TransactionRecord sees it.               *)
(***************************************************************************)
recordOf ==
  [t \in Tx |-> IF row[t] # "none" THEN row[t]
                ELSE IF submit[t] \in {"recorded", "done"} THEN "settled"
                ELSE "absent"]

Abstract == INSTANCE TransactionRecord WITH record <- recordOf

\* Through lost results, restarts and several monitors of one transaction, the
\* table keeps the promise of TransactionRecord: a record is made once, it is
\* removed only when the chain has the result, and it never comes back.
ImplementsRecord == Abstract!Spec
=============================================================================
