----------------------- MODULE TransactionStatusProofs -----------------------
(***************************************************************************)
(* For every set of transactions and any number of connections: the types  *)
(* of TransactionStatus, its safety invariants, and that it implements     *)
(* TransactionRecord.                                                      *)
(***************************************************************************)
EXTENDS TransactionStatus, TLAPS

\* The type invariant holds of every reachable state.
THEOREM TypeCorrect == Spec => []TypeOK
<1>1. Init => TypeOK
  BY ConnectionsAssumption
     DEF Init, TypeOK, EntryState, NoListener, NoMonitors, NoEntries, SubmitState,
         MonitorState, Connection, Origin, Submission
<1>2. TypeOK /\ [Next]_vars => TypeOK'
  <2> SUFFICES ASSUME TypeOK, [Next]_vars PROVE TypeOK'
    OBVIOUS
  <2> USE DEF TypeOK, EntryState, SubmitState, MonitorState, Finalized
  <2>1. ASSUME NEW t \in Tx, Finalize(t) PROVE TypeOK'
    BY <2>1 DEF Finalize
  <2>2. ASSUME NEW t \in Tx, Submitting(t) PROVE TypeOK'
    <3>1. CASE Send(t)
      BY <3>1 DEF Send
    <3>2. CASE SendFails(t)
      BY <3>2 DEF SendFails
    <3>3. CASE Record(t)
      BY <3>3 DEF Record
    <3>4. CASE RecordFails(t)
      BY <3>4 DEF RecordFails
    <3>5. CASE StartMonitor(t)
      <4>1. Submission \in Origin
        BY DEF Submission, Origin
      <4> QED
        BY <3>5, <4>1 DEF StartMonitor
    <3> QED
      BY <2>2, <3>1, <3>2, <3>3, <3>4, <3>5 DEF Submitting
  <2>3. ASSUME NEW t \in Tx, loadNewTransactions(t) PROVE TypeOK'
    BY <2>3 DEF loadNewTransactions, Outcome
  <2>4. ASSUME NEW c \in Connection, getPendingTransactions(c) PROVE TypeOK'
    BY <2>4 DEF getPendingTransactions, PendingRows
  <2>5. ASSUME NEW c \in Connection, listenForTransactionStatus(c) PROVE TypeOK'
    BY <2>5 DEF listenForTransactionStatus, NoListener
  <2>6. ASSUME NEW t \in Tx, NEW o \in Origin, Monitoring(t, o) PROVE TypeOK'
    <3>1. CASE WaitReturns(t, o)
      BY <3>1 DEF WaitReturns, Move
    <3>2. CASE deleteTransaction(t, o)
      BY <3>2 DEF deleteTransaction, Move
    <3>3. CASE confirmTransaction(t, o)
      BY <3>3 DEF confirmTransaction, Move, SetEntry, Outcome
    <3>4. CASE rejectTransaction(t, o)
      BY <3>4 DEF rejectTransaction, Move, SetEntry
    <3>5. CASE updateTransaction(t, o)
      BY <3>5 DEF updateTransaction, Move
    <3> QED
      BY <2>6, <3>1, <3>2, <3>3, <3>4, <3>5 DEF Monitoring
  <2>7. CASE startClient
    BY <2>7, ConnectionsAssumption DEF startClient, Connection
  <2>8. CASE loadTransactions
    BY <2>8 DEF loadTransactions, Loaded, Outcome
  <2>9. CASE Stop
    BY <2>9 DEF Stop, NoListener, NoMonitors, NoEntries
  <2>10. CASE UNCHANGED vars
    BY <2>10 DEF vars
  <2> QED
    BY <2>1, <2>2, <2>3, <2>4, <2>5, <2>6, <2>7, <2>8, <2>9, <2>10
       DEF Next, Unlock, ChangeConnection
<1> QED
  BY <1>1, <1>2, PTL DEF Spec

-----------------------------------------------------------------------------
\* No other step touches what a conjunct of IInv speaks of: one theorem per
\* kind of step, each from the types and the whole of IInv before the step.

USE DEF running

\* A submission and a connection never share a monitor.
LEMMA Origins ==
  /\ Submission \in Origin
  /\ Connection \subseteq Origin
  /\ \A c \in Connection : c \in Nat /\ c # Submission
  BY ConnectionsAssumption DEF Connection, Origin, Submission

LEMMA InitIInv == Init => IInv
  BY Origins DEF Init, IInv, NoListener, NoMonitors, NoEntries, UnrecordedIsUnknown,
         IdleIsUnsent, RecordedIsReceived, ConfirmingIsFinalized, PendingIsWatched,
         PendingRows, DeletedStaysDeleted, SettledIsNotShownPending,
         StartsOnce

LEMMA FinalizeIInv ==
  ASSUME TypeOK, IInv, NEW t \in Tx, Finalize(t)
  PROVE  IInv'
  BY DEF TypeOK, EntryState, IInv, Finalize, Finalized, UnrecordedIsUnknown,
         IdleIsUnsent, RecordedIsReceived, ConfirmingIsFinalized, PendingIsWatched,
         PendingRows, Watched, DeletedStaysDeleted, SettledIsNotShownPending,
         StartsOnce

LEMMA SubmittingIInv ==
  ASSUME TypeOK, IInv, NEW t \in Tx, Submitting(t)
  PROVE  IInv'
<1> USE DEF TypeOK, EntryState, SubmitState
<1>1. UnrecordedIsUnknown'
  BY DEF IInv, Submitting, Send, SendFails, Record, RecordFails, StartMonitor,
         UnrecordedIsUnknown
<1>2. IdleIsUnsent'
  BY DEF IInv, Submitting, Send, SendFails, Record, RecordFails, StartMonitor,
         IdleIsUnsent
<1>8. RecordedIsReceived'
  BY DEF IInv, Submitting, Send, SendFails, Record, RecordFails, StartMonitor,
         RecordedIsReceived
<1>3. ConfirmingIsFinalized'
  BY DEF IInv, Submitting, Send, SendFails, Record, RecordFails, StartMonitor,
         ConfirmingIsFinalized, Finalized, UnrecordedIsUnknown
<1>4. PendingIsWatched'
  <2> SUFFICES ASSUME running', NEW u \in PendingRows' PROVE Watched(u)'
    BY DEF PendingIsWatched
  <2>1. CASE u = t /\ Record(t)
    BY <2>1 DEF Record, Watched
  <2>2. CASE u = t /\ StartMonitor(t)
    BY <2>2 DEF StartMonitor, Watched, Submission, Origin
  <2>3. CASE u # t
    <3>1. u \in PendingRows /\ running
      BY <2>3 DEF PendingRows, Submitting, Send, SendFails, Record, RecordFails,
                  StartMonitor
    <3>2. monitor'[u] = monitor[u] /\ listener' = listener /\ submit'[u] = submit[u]
      BY <2>3 DEF PendingRows, Submitting, Send, SendFails, Record, RecordFails,
                  StartMonitor
    <3>3. Watched(u)
      BY <3>1 DEF IInv, PendingIsWatched
    <3> QED
      BY <3>2, <3>3 DEF Watched
  <2>4. CASE u = t /\ (Send(t) \/ SendFails(t) \/ RecordFails(t))
    BY <2>4 DEF IInv, UnrecordedIsUnknown, PendingRows, Send, SendFails, RecordFails
  <2> QED
    BY <2>1, <2>2, <2>3, <2>4 DEF Submitting
<1>5. DeletedStaysDeleted'
  BY DEF IInv, Submitting, Send, SendFails, Record, RecordFails, StartMonitor,
         DeletedStaysDeleted, UnrecordedIsUnknown
<1>6. SettledIsNotShownPending'
  BY DEF IInv, Submitting, Send, SendFails, Record, RecordFails, StartMonitor,
         SettledIsNotShownPending, UnrecordedIsUnknown, StartsOnce
<1>7. StartsOnce'
  <2>1. \A c \in Connection, u \in Tx : monitor'[u][c] = monitor[u][c]
    BY Origins DEF Submitting, Send, SendFails, Record, RecordFails, StartMonitor
  <2>2. ASSUME NEW u \in Tx, submit'[u] = "recorded"
        PROVE  monitor'[u][Submission] = "none"
    <3>1. monitor'[u] = monitor[u]
      BY <2>2 DEF Submitting, Send, SendFails, Record, RecordFails, StartMonitor
    <3>2. submit[u] \in {"sent", "recorded"}
      BY <2>2 DEF Submitting, Send, SendFails, Record, RecordFails, StartMonitor
    <3> QED
      BY <3>1, <3>2, Origins DEF IInv, StartsOnce, UnrecordedIsUnknown
  <2>3. listener' = listener /\ connections' = connections
    BY DEF Submitting, Send, SendFails, Record, RecordFails, StartMonitor
  <2> QED
    BY <2>1, <2>2, <2>3 DEF IInv, StartsOnce
<1> QED
  BY <1>1, <1>2, <1>3, <1>4, <1>5, <1>6, <1>7, <1>8 DEF IInv

LEMMA ListeningIInv ==
  ASSUME TypeOK, IInv, NEW c \in Connection,
         getPendingTransactions(c) \/ listenForTransactionStatus(c)
  PROVE  IInv'
<1> USE DEF TypeOK, EntryState
<1>1. CASE getPendingTransactions(c)
  <2>1. PendingIsWatched'
    BY <1>1 DEF IInv, getPendingTransactions, PendingIsWatched, PendingRows, Watched
  <2>2. UnrecordedIsUnknown'
    BY <1>1 DEF IInv, getPendingTransactions, UnrecordedIsUnknown, PendingRows
  <2> QED
    BY <1>1, <2>1, <2>2 DEF IInv, getPendingTransactions, StartsOnce,
       IdleIsUnsent, RecordedIsReceived, ConfirmingIsFinalized, DeletedStaysDeleted,
       SettledIsNotShownPending
<1>2. CASE listenForTransactionStatus(c)
  <2> USE <1>2 DEF listenForTransactionStatus
  <2>1. PendingIsWatched'
    <3> SUFFICES ASSUME running', NEW u \in PendingRows' PROVE Watched(u)'
      BY DEF PendingIsWatched
    <3>1. Watched(u)
      BY DEF IInv, PendingIsWatched, PendingRows
    <3>2. CASE u \in listener[c].txs
      BY <3>2, Origins DEF Watched
    <3>3. CASE u \notin listener[c].txs
      <4>1. monitor'[u] = monitor[u] /\ submit' = submit
        BY <3>3 DEF PendingRows
      <4>2. \A d \in Connection : d # c => listener'[d] = listener[d]
        OBVIOUS
      <4> QED
        BY <3>1, <3>3, <4>1, <4>2 DEF Watched
    <3> QED
      BY <3>2, <3>3
  <2>2. UnrecordedIsUnknown'
    BY DEF IInv, UnrecordedIsUnknown, NoListener
  <2>3. StartsOnce'
    <3>1. \A t \in Tx : monitor'[t][Submission] = monitor[t][Submission]
      BY Origins
    <3>2. \A d \in Connection, t \in Tx : d # c => monitor'[t][d] = monitor[t][d]
      BY Origins
    <3>3. \A d \in Connection : d # c => listener'[d] = listener[d]
      OBVIOUS
    <3>4. listener'[c].pc = "idle" /\ ~(c > connections')
      BY Origins DEF IInv, StartsOnce, NoListener
    <3> QED
      BY <3>1, <3>2, <3>3, <3>4 DEF IInv, StartsOnce
  <2>4. ConfirmingIsFinalized' /\ DeletedStaysDeleted'
    BY DEF IInv, ConfirmingIsFinalized, DeletedStaysDeleted
  <2>5. SettledIsNotShownPending'
    BY Origins DEF IInv, SettledIsNotShownPending, StartsOnce
  <2> QED
    BY <2>1, <2>2, <2>3, <2>4, <2>5 DEF IInv, IdleIsUnsent, RecordedIsReceived
<1> QED
  BY <1>1, <1>2

\* Monitors of one transaction disturb each other only through its row and
\* its entry; the row is gone once one of them has deleted it.
LEMMA MonitoringIInv ==
  ASSUME TypeOK, IInv, NEW t \in Tx, NEW o \in Origin, Monitoring(t, o)
  PROVE  IInv'
<1> USE DEF TypeOK, EntryState
<1>0. monitor[t][o] # "none"
  BY DEF Monitoring, WaitReturns, deleteTransaction, confirmTransaction,
         rejectTransaction, updateTransaction, Move
<1>1. /\ UNCHANGED <<chain, session, submit, connections, listener>>
      /\ \A u \in Tx, p \in Origin : <<u, p>> # <<t, o>> => monitor'[u][p] = monitor[u][p]
      /\ \A u \in Tx : u # t => row'[u] = row[u] /\ entry'[u] = entry[u]
      /\ row[t] = "none" => row'[t] = "none"
  BY DEF Monitoring, WaitReturns, deleteTransaction, confirmTransaction,
         rejectTransaction, updateTransaction, Move, SetEntry
<1>2. submit[t] \in {"recorded", "done"}
  BY <1>0 DEF IInv, UnrecordedIsUnknown, SubmitState
<1>3. UnrecordedIsUnknown'
  BY <1>1, <1>2 DEF IInv, UnrecordedIsUnknown
<1>4. StartsOnce'
  BY <1>0, <1>1, Origins DEF IInv, StartsOnce
<1>5. ConfirmingIsFinalized'
  <2>1. monitor'[t][o] \in {"deleting", "deleted"} => chain[t] \in Finalized
    BY DEF IInv, ConfirmingIsFinalized, Monitoring, WaitReturns, deleteTransaction,
       confirmTransaction, rejectTransaction, updateTransaction, Move
  <2> QED
    BY <1>1, <2>1 DEF IInv, ConfirmingIsFinalized
<1>6. DeletedStaysDeleted'
  <2>1. monitor'[t][o] = "deleted" => row'[t] = "none"
    BY DEF Monitoring, WaitReturns, deleteTransaction, confirmTransaction,
           rejectTransaction, updateTransaction, Move
  <2> QED
    BY <1>1, <2>1 DEF IInv, DeletedStaysDeleted
<1>7. PendingIsWatched'
  <2> SUFFICES ASSUME running', NEW u \in PendingRows' PROVE Watched(u)'
    BY DEF PendingIsWatched
  <2>1. u \in PendingRows /\ running
    BY <1>1 DEF PendingRows, Monitoring, WaitReturns, deleteTransaction,
       confirmTransaction, rejectTransaction, updateTransaction, Move
  <2>2. Watched(u)
    BY <2>1 DEF IInv, PendingIsWatched
  <2>3. CASE u # t
    <3>1. \A p \in Origin : monitor'[u][p] = monitor[u][p]
      BY <1>1, <2>3 DEF PendingRows
    <3>2. submit' = submit /\ listener' = listener
      BY <1>1
    <3> QED
      BY <2>2, <3>1, <3>2 DEF Watched
  <2>4. CASE u = t
    <3>1. monitor'[t][o] \in {"deleting", "rejecting"}
          \/ monitor[t][o] = "deleted"
      BY <2>4 DEF PendingRows, Monitoring, WaitReturns, deleteTransaction,
         confirmTransaction, rejectTransaction, updateTransaction, Move
    <3>2. monitor[t][o] # "deleted"
      BY <2>1, <2>4 DEF IInv, DeletedStaysDeleted, PendingRows
    <3>3. monitor'[u][o] \in {"waiting", "deleting", "rejecting"}
      BY <2>4, <3>1, <3>2
    <3> QED
      BY <3>3 DEF Watched
  <2> QED
    BY <2>3, <2>4
<1>8. SettledIsNotShownPending'
  <2> SUFFICES ASSUME NEW u \in Tx, entry'[u] = "pending", row'[u] = "none"
               PROVE  \E p \in Origin : monitor'[u][p] = "deleted"
    BY DEF SettledIsNotShownPending
  <2>1. CASE u # t
    BY <1>1, <2>1 DEF IInv, SettledIsNotShownPending
  <2>2. CASE u = t /\ deleteTransaction(t, o)
    BY <2>2 DEF deleteTransaction, Move
  <2>3. CASE u = t /\ (WaitReturns(t, o) \/ updateTransaction(t, o))
    BY <1>1, <2>3 DEF IInv, SettledIsNotShownPending, WaitReturns, updateTransaction, Move
  <2>4. CASE u = t /\ (confirmTransaction(t, o) \/ rejectTransaction(t, o))
    BY <2>4 DEF confirmTransaction, rejectTransaction, SetEntry, Outcome
  <2> QED
    BY <2>1, <2>2, <2>3, <2>4 DEF Monitoring
<1> QED
  BY <1>1, <1>3, <1>4, <1>5, <1>6, <1>7, <1>8 DEF IInv, IdleIsUnsent, RecordedIsReceived

LEMMA SessionIInv ==
  ASSUME TypeOK, IInv, startClient \/ Stop
  PROVE  IInv'
<1> USE DEF TypeOK, EntryState
<1>1. CASE startClient
  <2> USE <1>1, ConnectionsAssumption DEF startClient
  <2>1. connections + 1 \in Connection
    BY DEF Connection
  <2>2. \A c \in Connection : /\ listener'[c].txs = listener[c].txs
                             /\ c # connections + 1 => listener'[c] = listener[c]
    BY <2>1
  <2>3. listener'[connections + 1].pc = "reading"
    BY <2>1
  <2>4. PendingIsWatched'
    BY <2>1, <2>3 DEF PendingIsWatched, PendingRows, Watched
  <2>5. UnrecordedIsUnknown'
    BY <2>2 DEF IInv, UnrecordedIsUnknown
  <2>6. StartsOnce'
    <3>1. ASSUME NEW c \in Connection, listener'[c].pc # "idle"
          PROVE  c <= connections' /\ \A t \in Tx : monitor'[t][c] = "none"
      <4>1. CASE c = connections + 1
        BY <4>1, Origins DEF IInv, StartsOnce
      <4>2. CASE c # connections + 1
        BY <2>2, <3>1, <4>2, Origins DEF IInv, StartsOnce
      <4> QED
        BY <4>1, <4>2
    <3>2. ASSUME NEW c \in Connection, c > connections'
          PROVE  \A t \in Tx : monitor'[t][c] = "none"
      BY <3>2, Origins DEF IInv, StartsOnce
    <3>3. \A t \in Tx : submit'[t] = "recorded" => monitor'[t][Submission] = "none"
      BY DEF IInv, StartsOnce
    <3> QED
      BY <3>1, <3>2, <3>3 DEF StartsOnce
  <2> QED
    BY <2>4, <2>5, <2>6 DEF IInv, IdleIsUnsent, RecordedIsReceived, ConfirmingIsFinalized,
       DeletedStaysDeleted, SettledIsNotShownPending
<1>2. CASE Stop
  BY <1>2, Origins DEF Stop, NoListener, NoMonitors, NoEntries, IInv,
     UnrecordedIsUnknown, StartsOnce, IdleIsUnsent, RecordedIsReceived, ConfirmingIsFinalized,
     PendingIsWatched, DeletedStaysDeleted, SettledIsNotShownPending, SubmitState
<1> QED
  BY <1>1, <1>2

LEMMA ListIInv ==
  ASSUME TypeOK, IInv, loadTransactions \/ \E t \in Tx : loadNewTransactions(t)
  PROVE  IInv'
<1>1. SettledIsNotShownPending'
  BY DEF TypeOK, EntryState, IInv, loadTransactions, Loaded, loadNewTransactions, Outcome,
         SettledIsNotShownPending
<1>2. UNCHANGED <<chain, row, session, submit, connections, listener, monitor>>
  BY DEF loadTransactions, loadNewTransactions
<1> QED
  BY <1>1, <1>2 DEF IInv, UnrecordedIsUnknown, StartsOnce, IdleIsUnsent, RecordedIsReceived,
     ConfirmingIsFinalized, PendingIsWatched, PendingRows, Watched,
     DeletedStaysDeleted

LEMMA NextIInv == TypeOK /\ IInv /\ [Next]_vars => IInv'
<1> SUFFICES ASSUME TypeOK, IInv, [Next]_vars PROVE IInv'
  OBVIOUS
<1>1. CASE UNCHANGED vars
  BY <1>1 DEF vars, IInv, UnrecordedIsUnknown, StartsOnce, IdleIsUnsent, RecordedIsReceived,
     ConfirmingIsFinalized, PendingIsWatched, PendingRows, Watched,
     DeletedStaysDeleted, SettledIsNotShownPending
<1>2. CASE Next
  BY <1>2, FinalizeIInv, SubmittingIInv, ListeningIInv, MonitoringIInv,
     SessionIInv, ListIInv DEF Next, Unlock, ChangeConnection
<1> QED
  BY <1>1, <1>2

LEMMA Inductive == Spec => []IInv
  BY InitIInv, NextIInv, TypeCorrect, PTL DEF Spec

\* No pending row is ever without a submission, a listener or a monitor that
\* will act on it, however often the connection changes or the wallet stops.
THEOREM PendingNeverForgotten == Spec => []PendingIsWatched
  BY Inductive, PTL DEF IInv

\* No order of the monitors' database statements brings a deleted row back.
THEOREM DeletionIsFinal == Spec => []DeletedStaysDeleted
  BY Inductive, PTL DEF IInv

\* The list never goes on showing as pending what the wallet has settled.
THEOREM SettledIsShown == Spec => []SettledIsNotShownPending
  BY Inductive, PTL DEF IInv

-----------------------------------------------------------------------------
\* Every step of the wallet is a step of TransactionRecord or leaves what it
\* speaks of unchanged.
THEOREM Implementation == Spec => ImplementsRecord
<1> USE DEF Finalized, Abstract!Finalized
<1>1. Init => Abstract!Init
  BY DEF Init, Abstract!Init, recordOf
<1>2. TypeOK /\ TypeOK' /\ IInv /\ [Next]_vars => [Abstract!Next]_(Abstract!vars)
  <2> SUFFICES ASSUME TypeOK, TypeOK', IInv, [Next]_vars
               PROVE  Abstract!Next \/ UNCHANGED Abstract!vars
    OBVIOUS
  <2> USE DEF TypeOK, EntryState
  <2>1. ASSUME NEW t \in Tx, Finalize(t) PROVE Abstract!Finalize(t)
    BY <2>1 DEF Finalize, Abstract!Finalize, recordOf
  <2>2. ASSUME NEW t \in Tx, Send(t) \/ SendFails(t)
        PROVE  Abstract!Receive(t) \/ UNCHANGED Abstract!vars
    <3>1. submit[t] = "idle" /\ submit'[t] \in {"sent", "lost"} /\ row' = row
          /\ \A u \in Tx : u # t => submit'[u] = submit[u]
      BY <2>2 DEF Send, SendFails
    <3>2. recordOf' = recordOf
      BY <3>1 DEF recordOf
    <3>3. chain' = chain \/ chain' = [chain EXCEPT ![t] = "received"]
      BY <2>2 DEF Send, SendFails
    <3>4. chain[t] = "unsent"
      BY <3>1 DEF IInv, IdleIsUnsent
    <3> QED
      BY <3>2, <3>3, <3>4 DEF Abstract!Receive, Abstract!vars
  <2>3. ASSUME NEW t \in Tx, Record(t) PROVE Abstract!Make(t)
    <3>1. recordOf' = [recordOf EXCEPT ![t] = "pending"]
      BY <2>3 DEF Record, recordOf
    <3>2. recordOf[t] = "absent" /\ chain[t] # "unsent"
      BY <2>3 DEF Record, recordOf, IInv, UnrecordedIsUnknown, RecordedIsReceived
    <3> QED
      BY <2>3, <3>1, <3>2 DEF Record, Abstract!Make
  <2>4. ASSUME NEW t \in Tx, RecordFails(t) \/ StartMonitor(t)
        PROVE  UNCHANGED Abstract!vars
    <3>1. recordOf' = recordOf
      BY <2>4 DEF RecordFails, StartMonitor, recordOf
    <3> QED
      BY <2>4, <3>1 DEF RecordFails, StartMonitor, Abstract!vars
  <2>5. ASSUME NEW t \in Tx, NEW o \in Origin, deleteTransaction(t, o)
        PROVE  Abstract!Settle(t) \/ UNCHANGED Abstract!vars
    <3>1. submit[t] \in {"recorded", "done"} /\ chain[t] \in Finalized
      BY <2>5 DEF deleteTransaction, Move, IInv, UnrecordedIsUnknown,
                  ConfirmingIsFinalized, SubmitState
    <3>2. recordOf' = [recordOf EXCEPT ![t] = "settled"]
      BY <2>5, <3>1 DEF deleteTransaction, recordOf
    <3>3. chain' = chain
      BY <2>5 DEF deleteTransaction
    <3>4. recordOf[t] \in {"pending", "rejected", "settled"}
      BY <3>1 DEF recordOf
    <3>5. CASE recordOf[t] = "settled"
      <4>1. recordOf' = recordOf
        BY <3>2, <3>5 DEF recordOf
      <4> QED
        BY <3>3, <4>1 DEF Abstract!vars
    <3>6. CASE recordOf[t] # "settled"
      BY <3>1, <3>2, <3>3, <3>4, <3>6 DEF Abstract!Settle
    <3> QED
      BY <3>5, <3>6
  <2>6. ASSUME NEW t \in Tx, NEW o \in Origin, updateTransaction(t, o)
        PROVE  Abstract!GiveUp(t) \/ UNCHANGED Abstract!vars
    <3>1. CASE row[t] = "pending"
      <4>1. recordOf' = [recordOf EXCEPT ![t] = "rejected"]
        BY <2>6, <3>1 DEF updateTransaction, recordOf
      <4>2. recordOf[t] = "pending" /\ chain' = chain
        BY <2>6, <3>1 DEF updateTransaction, recordOf
      <4> QED
        BY <4>1, <4>2 DEF Abstract!GiveUp
    <3>2. CASE row[t] # "pending"
      <4>1. row' = row
        BY <2>6, <3>2 DEF updateTransaction
      <4> QED
        BY <2>6, <4>1 DEF updateTransaction, Abstract!vars, recordOf
    <3> QED
      BY <3>1, <3>2
  <2>7. ASSUME NEW t \in Tx, NEW o \in Origin,
               WaitReturns(t, o) \/ confirmTransaction(t, o) \/ rejectTransaction(t, o)
        PROVE  UNCHANGED Abstract!vars
    BY <2>7 DEF WaitReturns, confirmTransaction, rejectTransaction,
                Abstract!vars, recordOf
  <2>8. CASE Stop
    <3>1. \A t \in Tx : submit'[t] \in {"recorded", "done"}
                           <=> submit[t] \in {"recorded", "done"}
      BY <2>8 DEF Stop, SubmitState
    <3>2. recordOf' = recordOf
      BY <2>8, <3>1 DEF Stop, recordOf
    <3> QED
      BY <2>8, <3>2 DEF Stop, Abstract!vars
  <2>9. ASSUME UNCHANGED <<chain, row, submit>> PROVE UNCHANGED Abstract!vars
    BY <2>9 DEF Abstract!vars, recordOf
  <2>10. CASE startClient \/ loadTransactions \/ (\E t \in Tx : loadNewTransactions(t))
              \/ (\E c \in Connection : getPendingTransactions(c)
                                       \/ listenForTransactionStatus(c))
    BY <2>9, <2>10 DEF startClient, loadTransactions, loadNewTransactions,
       getPendingTransactions, listenForTransactionStatus
  <2>11. CASE UNCHANGED vars
    BY <2>9, <2>11 DEF vars
  <2> QED
    BY <2>1, <2>2, <2>3, <2>4, <2>5, <2>6, <2>7, <2>8, <2>10, <2>11
       DEF Next, Submitting, Monitoring, Unlock, ChangeConnection, Abstract!Next
<1> QED
  BY <1>1, <1>2, TypeCorrect, Inductive, PTL DEF Spec, ImplementsRecord, Abstract!Spec

=============================================================================
