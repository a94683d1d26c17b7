----------------------- MODULE MultiSignatureProposal -----------------------
(***************************************************************************)
(* How a multi signature proposal is signed, submitted, cancelled, expired *)
(* and followed.  The proposals are rows of the database and entries of the *)
(* store.  updateCurrentProposal replaces both, with whatever version of the *)
(* proposal its caller has had in hand since the page was rendered or the  *)
(* request was sent: a signature file that is being verified, a submission  *)
(* that waits for the node and a monitor that waits for the finalization   *)
(* each carry a version of their own.                                      *)
(*                                                                         *)
(* One step is what runs between two awaits, or one statement of SQLite.   *)
(* There is one connection to SQLite, which executes the statements in the *)
(* order in which they were issued; the caller does not await them, and    *)
(* the rows a SELECT returns reach the store some time later.              *)
(***************************************************************************)
EXTENDS Naturals, Sequences, FiniteSets

CONSTANTS
  AccountProposal,      \* the proposals of account transactions, by id
  UpdateProposal,       \* the proposals of chain updates, by id
  Credential,           \* who can sign
  Threshold,            \* how many signatures the chain asks for
  MaxVisits,            \* bound: how often a page of a proposal is opened
  MaxConnections,       \* bound: how often startClient is called
  MaxPending            \* bound: how much may be under way when the user acts

Proposal == AccountProposal \union UpdateProposal

ASSUME ProposalAssumption == "none" \notin Proposal
ASSUME CredentialAssumption == IsFiniteSet(Credential)
ASSUME ThresholdAssumption == Threshold \in Nat
ASSUME BoundAssumption == {MaxVisits, MaxConnections, MaxPending} \subseteq Nat

VARIABLES
  chain,            \* chain[p]: what the network has done with p
  expired,          \* the proposals whose expiry time has passed
  table,            \* table[p]: the row of p
  store,            \* store[p]: the entry of p in the store
  session,          \* "unlocked" while the application runs
  connections,      \* how many times startClient has been called
  statements,       \* the statements issued to SQLite and not executed yet
  answers,          \* what SELECTs returned and the store has not been given
  page,             \* what the user sees
  visits,           \* how many times a page of a proposal was opened
  loads,            \* the signature files being verified
  submissions,      \* the submissions under way
  monitors,         \* the running getMultiSignatureTransactionStatus
  waited,           \* history: the proposals a monitor of this session has
                    \* ended for, and none was started for since
  crossed           \* history: the proposals the last load brought back as
                    \* they were before a write that was issued meanwhile

database == <<table, statements, answers>>
network == <<chain, expired>>
work == <<loads, submissions, monitors>>
history == <<waited, crossed>>
vars == <<network, database, store, session, connections, page, visits, work, history>>

Settled == {"Finalized", "Failed", "Rejected"}
Status == {"Open", "Closed", "Expired", "Submitted"} \union Settled

Absent == [status |-> "none", sigs |-> {}]
NoRows == [p \in Proposal |-> Absent]

running == session = "unlocked"

(* The user awaits nothing: statements, answers, files and submissions may be *)
(* under way whenever the user acts.  (Bound: at most MaxPending of them.)   *)
UserMayAct ==
  /\ running
  /\ Len(statements) + Len(answers) + Cardinality(loads) + Cardinality(submissions) <= MaxPending

Elsewhere == [view |-> "elsewhere", p |-> "none", ticked |-> 0]
List == [Elsewhere EXCEPT !.view = "list"]

Init ==
  /\ chain = [p \in Proposal |-> "unsent"]
  /\ expired = {}
  /\ table = NoRows
  /\ store = table
  /\ session = "locked"
  /\ connections = 0
  /\ statements = <<>>
  /\ answers = <<>>
  /\ page = Elsewhere
  /\ visits = 0
  /\ loads = {}
  /\ submissions = {}
  /\ monitors = {}
  /\ waited = {}
  /\ crossed = {}

-----------------------------------------------------------------------------
(* The network and the clock. *)

Finalize(p) ==
  /\ chain[p] = "received"
  /\ \E result \in {"success", "failure"} : chain' = [chain EXCEPT ![p] = result]
  /\ UNCHANGED <<expired, database, store, session, connections, page, visits, work, history>>

\* Another transaction takes the nonce of p.
Overtake(p) ==
  /\ chain[p] = "unsent"
  /\ chain' = [chain EXCEPT ![p] = "overtaken"]
  /\ UNCHANGED <<expired, database, store, session, connections, page, visits, work, history>>

ExpiryPasses(p) ==
  /\ p \notin expired
  /\ expired' = expired \union {p}
  /\ UNCHANGED <<chain, database, store, session, connections, page, visits, work, history>>

-----------------------------------------------------------------------------
(* MultiSignatureSlice and the database. *)

\* A statement is an update of a row or, if its p is "none", a query; then is
\* what the wallet does when it is answered, call the startClient that asked.
Update(p, entry) == [p |-> p, entry |-> entry, then |-> "nothing", call |-> 0]
UpdateAndLoad(p, entry) == [Update(p, entry) EXCEPT !.then = "loadProposals"]
Query(then, call) == [p |-> "none", entry |-> Absent, then |-> then, call |-> call]

\* Queries for all proposals; the others are not asked for their rows.
SelectAll == {"setProposals", "startMonitors"}

Issue(statement) == statements' = Append(statements, statement)

Expire(entry) == [entry EXCEPT !.status = "Expired"]

\* The form of the proposal on the screen ticks a box for each signature and
\* never unticks one.
Rendered(newStore) ==
  IF page.view = "proposal" /\ Cardinality(newStore[page.p].sigs) > page.ticked
    THEN [page EXCEPT !.ticked = Cardinality(newStore[page.p].sigs)]
    ELSE page

\* Mutant: only the store is updated.
updateStoreOnly(p, entry) ==
  /\ UNCHANGED statements
  /\ store' = [store EXCEPT ![p] = entry]

\* Issue an update of the row, and update the store at once.
updateCurrentProposal(p, entry) ==
  /\ Issue(Update(p, entry))
  /\ store' = [store EXCEPT ![p] = entry]

Answer(s) ==
  [then |-> s.then, call |-> s.call,
   rows |-> IF s.then \in SelectAll THEN table ELSE NoRows]

\* SQLite executes the oldest statement.
execute ==
  /\ statements # <<>>
  /\ LET s == Head(statements) IN
       /\ table' = IF s.p = "none" THEN table ELSE [table EXCEPT ![s.p] = s.entry]
       /\ answers' = IF s.then = "nothing" THEN answers ELSE Append(answers, Answer(s))
  /\ statements' = Tail(statements)
  /\ UNCHANGED <<network, store, session, connections, page, visits, work, history>>

\* The oldest answer reaches the caller that awaits it.
Answered(then) ==
  /\ answers # <<>>
  /\ Head(answers).then = then
  /\ answers' = Tail(answers)

loadProposals ==
  /\ Answered("loadProposals")
  /\ Issue(Query("setProposals", 0))
  /\ UNCHANGED <<network, table, store, session, connections, page, visits, work, history>>

\* The pending updates of p, and what its row will be when SQLite has executed
\* them.
Writes(p) == {i \in 1 .. Len(statements) : statements[i].p = p}

WillBe(p, entry) ==
  IF Writes(p) = {}
    THEN entry = table[p]
    ELSE \E i \in Writes(p) : entry = statements[i].entry /\ \A j \in Writes(p) : j <= i

\* The store is set to be exactly what was loaded.
setProposals ==
  /\ Answered("setProposals")
  /\ store' = Head(answers).rows
  /\ page' = Rendered(store')
  /\ crossed' = {p \in Proposal : ~WillBe(p, store'[p])}
  /\ UNCHANGED <<network, table, statements, session, connections, visits, work, waited>>

-----------------------------------------------------------------------------
(* startClient, listenForTransactionStatus and the monitors. *)

Monitor(origin, p, entry) == [origin |-> origin, p |-> p, entry |-> entry]

\* listenForTransactionStatus asks for the pending transfers first.
startClient ==
  /\ connections < MaxConnections
  /\ connections' = connections + 1
  /\ session' = "unlocked"
  /\ Issue(Query("listen", connections'))

\* The application reads the proposals and connects to a node.
Unlock ==
  /\ ~running
  /\ startClient
  /\ store' = table
  /\ UNCHANGED <<network, table, answers, page, visits, work, history>>

ChangeConnection ==
  /\ UserMayAct
  /\ startClient
  /\ UNCHANGED <<network, table, answers, store, page, visits, work, history>>

\* ... then for the proposals, and starts a monitor for each submitted one.
listenForTransactionStatus ==
  /\ Answered("listen")
  /\ Issue(Query("startMonitors", Head(answers).call))
  /\ UNCHANGED <<network, table, store, session, connections, page, visits, work, history>>

\* Mutant: the proposals that are still open get a monitor.
startMonitorsOfOpen ==
  /\ Answered("startMonitors")
  /\ LET a == Head(answers) IN
       monitors' = monitors \union
         {Monitor(<<"connection", a.call>>, p, a.rows[p]) : p \in {q \in Proposal : a.rows[q].status = "Open"}}
  /\ UNCHANGED <<network, table, statements, store, session, connections, page, visits, loads, submissions, history>>

startMonitors ==
  /\ Answered("startMonitors")
  /\ LET a == Head(answers)
         submitted == {p \in Proposal : a.rows[p].status = "Submitted"} IN
       /\ monitors' = monitors \union
            {Monitor(<<"connection", a.call>>, p, a.rows[p]) : p \in submitted}
       /\ waited' = waited \ submitted
  /\ UNCHANGED <<network, table, statements, store, session, connections, page, visits, loads, submissions, crossed>>

\* The wait of the monitor is over: the version of the proposal it was started
\* with is written back with the status, and the proposals are loaded.
Settle(m, status) ==
  /\ m \in monitors
  /\ monitors' = monitors \ {m}
  /\ Issue(UpdateAndLoad(m.p, [m.entry EXCEPT !.status = status]))
  /\ waited' = waited \union {m.p}
  /\ UNCHANGED <<network, table, answers, store, session, connections, page, visits, loads, submissions, crossed>>

\* Mutant: whatever is finalized has succeeded.
WaitReturnsSuccess(m) ==
  /\ chain[m.p] \in {"success", "failure"}
  /\ Settle(m, "Finalized")

WaitReturns(m) ==
  \/ chain[m.p] = "success" /\ Settle(m, "Finalized")
  \/ chain[m.p] = "failure" /\ Settle(m, "Failed")

\* Mutant: an exception ends the monitor.
WaitThrowsUnhandled(m) ==
  /\ m \in monitors
  /\ monitors' = monitors \ {m}
  /\ UNCHANGED <<network, database, store, session, connections, page, visits, loads, submissions, history>>

\* Whatever the exception of the wait.
WaitThrows(m) == Settle(m, "Rejected")

-----------------------------------------------------------------------------
(* ProposalView. *)

Viewing(p) == page.view = "proposal" /\ page.p = p

\* Opening the page runs its effect for signature files with no files, which
\* writes the proposal as it is.  If the proposal has expired meanwhile, the
\* effect that expires it has run just before.
Opened(p, entry) ==
  /\ visits < MaxVisits
  /\ visits' = visits + 1
  /\ page' = [view |-> "proposal", p |-> p, ticked |-> Cardinality(entry.sigs)]
  /\ statements' = IF entry.status = "Open" /\ p \in expired
                      THEN statements \o <<Update(p, Expire(entry)), Update(p, entry)>>
                      ELSE Append(statements, Update(p, entry))

OpenProposal(p) ==
  /\ UserMayAct
  /\ page.view = "list"
  /\ store[p] # Absent
  /\ Opened(p, store[p])
  /\ UNCHANGED <<network, table, answers, store, session, connections, work, history>>

\* A new proposal, which its author may have signed: the row is inserted, the
\* proposal added to the store and its page opened.
addProposal(p) ==
  /\ UserMayAct
  /\ table[p] = Absent
  /\ \E sigs \in SUBSET Credential :
       LET entry == [status |-> "Open", sigs |-> sigs] IN
         /\ Cardinality(sigs) <= 1
         /\ table' = [table EXCEPT ![p] = entry]
         /\ store' = [store EXCEPT ![p] = entry]
         /\ Opened(p, entry)
  /\ UNCHANGED <<network, answers, session, connections, work, history>>

\* A signature file is dropped on the page, which accepts one at a time, and
\* only while signatures are missing if it is an account transaction.
dropFile ==
  /\ UserMayAct
  /\ page.view = "proposal"
  /\ \A l \in loads : l.visit # visits
  /\ LET entry == store[page.p] IN
       /\ entry.status = "Open"
       /\ page.p \in AccountProposal => Cardinality(entry.sigs) # Threshold
       /\ \E c \in Credential \ entry.sigs :
            loads' = loads \union {[visit |-> visits, p |-> page.p, entry |-> entry, sig |-> c]}
  /\ UNCHANGED <<network, database, store, session, connections, page, visits, submissions, monitors, history>>

\* Mutant: the new signature replaces the others.
ReplaceSignatures(l) ==
  /\ l \in loads
  /\ loads' = loads \ {l}
  /\ updateCurrentProposal(l.p, [l.entry EXCEPT !.sigs = {l.sig}])
  /\ page' = Rendered(store')
  /\ UNCHANGED <<network, table, answers, session, connections, visits, submissions, monitors, history>>

\* The node has been asked for the keys and the signature is valid: it is added
\* to the version of the proposal the file was dropped on.
HandleSignatureFiles(l) ==
  /\ l \in loads
  /\ loads' = loads \ {l}
  /\ updateCurrentProposal(l.p, [l.entry EXCEPT !.sigs = @ \union {l.sig}])
  /\ page' = Rendered(store')
  /\ UNCHANGED <<network, table, answers, session, connections, visits, submissions, monitors, history>>

\* The signature is not valid, or the node does not answer.
RefuseSignature(l) ==
  /\ l \in loads
  /\ loads' = loads \ {l}
  /\ UNCHANGED <<network, database, store, session, connections, page, visits, submissions, monitors, history>>

\* Mutant: any proposal can be cancelled.
closeAnyProposal ==
  /\ UserMayAct
  /\ page.view = "proposal"
  /\ updateCurrentProposal(page.p, [store[page.p] EXCEPT !.status = "Closed"])
  /\ page' = List
  /\ UNCHANGED <<network, table, answers, session, connections, visits, work, history>>

closeProposal ==
  /\ UserMayAct
  /\ page.view = "proposal"
  /\ store[page.p].status = "Open"
  /\ updateCurrentProposal(page.p, [store[page.p] EXCEPT !.status = "Closed"])
  /\ page' = List
  /\ UNCHANGED <<network, table, answers, session, connections, visits, work, history>>

\* The user goes to another page.
Leave ==
  /\ UserMayAct
  /\ page' \in {List, Elsewhere}
  /\ UNCHANGED <<network, database, store, session, connections, visits, work, history>>

\* The list and the page of a proposal check the time every second.
expire(p) ==
  /\ running
  /\ page.view = "list" \/ Viewing(p)
  /\ store[p].status = "Open"
  /\ p \in expired
  /\ updateCurrentProposal(p, Expire(store[p]))
  /\ UNCHANGED <<network, table, answers, session, connections, page, visits, work, history>>

-----------------------------------------------------------------------------
(* SubmittedProposal. *)

\* The form can be sent when every box is ticked; the submission carries the
\* proposal as it is when its page opens.
submitTransaction ==
  /\ UserMayAct
  /\ page.view = "proposal"
  /\ store[page.p].status = "Open"
  /\ page.ticked >= Threshold
  /\ visits < MaxVisits
  /\ visits' = visits + 1
  /\ page' = [page EXCEPT !.view = "submitted", !.ticked = 0]
  /\ submissions' = submissions \union
       {[visit |-> visits', p |-> page.p, entry |-> store[page.p], pc |-> "mounted"]}
  /\ UNCHANGED <<network, database, store, session, connections, loads, monitors, history>>

Moved(s, pc) == submissions' = (submissions \ {s}) \union {[s EXCEPT !.pc = pc]}
Ended(s) == submissions' = submissions \ {s}

\* The chain parameters arrive, which the page awaits to begin.
begin(s) ==
  /\ s \in submissions
  /\ s.pc = "mounted"
  /\ page.view = "submitted" /\ visits = s.visit
  /\ Moved(s, IF s.p \in AccountProposal THEN "nonce" ELSE "sending")
  /\ UNCHANGED <<network, database, store, session, connections, page, visits, loads, monitors, history>>

\* The page is left before they arrive.
Unmounted(s) ==
  /\ s \in submissions
  /\ s.pc = "mounted"
  /\ page.view # "submitted" \/ visits # s.visit
  /\ Ended(s)
  /\ UNCHANGED <<network, database, store, session, connections, page, visits, loads, monitors, history>>

\* getNextAccountNonce returns the nonce of p.  A node that has not heard of p
\* yet says so even if another has it.
NonceIsNext(s) ==
  /\ s \in submissions
  /\ s.pc = "nonce"
  /\ chain[s.p] \in {"unsent", "received"}
  /\ Moved(s, "sending")
  /\ UNCHANGED <<network, database, store, session, connections, page, visits, loads, monitors, history>>

\* It returns a later one: "Transaction contains an already used nonce, the
\* transaction has been cancelled."
NonceIsUsed(s) ==
  /\ s \in submissions
  /\ s.pc = "nonce"
  /\ chain[s.p] # "unsent"
  /\ Ended(s)
  /\ updateCurrentProposal(s.p, [s.entry EXCEPT !.status = "Closed"])
  /\ page' = Rendered(store')
  /\ UNCHANGED <<network, table, answers, session, connections, visits, loads, monitors, history>>

\* It returns an earlier one, or throws.
NonceIsAhead(s) ==
  /\ s \in submissions
  /\ s.pc = "nonce"
  /\ Ended(s)
  /\ UNCHANGED <<network, database, store, session, connections, page, visits, loads, monitors, history>>

\* A node takes p if it is signed by enough credentials.
Acceptable(s) ==
  /\ chain[s.p] \in {"unsent", "received"}
  /\ Cardinality(s.entry.sigs) >= Threshold

\* Mutant: what becomes submitted is the proposal as it is now.
SendReturnsLate(s) ==
  /\ s \in submissions
  /\ s.pc = "sending"
  /\ Acceptable(s)
  /\ chain' = [chain EXCEPT ![s.p] = "received"]
  /\ Ended(s)
  /\ LET entry == [store[s.p] EXCEPT !.status = "Submitted"] IN
       /\ updateCurrentProposal(s.p, entry)
       /\ monitors' = monitors \union {Monitor(<<"visit", s.visit>>, s.p, entry)}
  /\ page' = Rendered(store')
  /\ waited' = waited \ {s.p}
  /\ UNCHANGED <<expired, table, answers, session, connections, visits, loads, crossed>>

\* The node accepts p: the proposal becomes submitted and is monitored.
SendReturns(s) ==
  /\ s \in submissions
  /\ s.pc = "sending"
  /\ Acceptable(s)
  /\ chain' = [chain EXCEPT ![s.p] = "received"]
  /\ Ended(s)
  /\ LET entry == [s.entry EXCEPT !.status = "Submitted"] IN
       /\ updateCurrentProposal(s.p, entry)
       /\ monitors' = monitors \union {Monitor(<<"visit", s.visit>>, s.p, entry)}
  /\ page' = Rendered(store')
  /\ waited' = waited \ {s.p}
  /\ UNCHANGED <<expired, table, answers, session, connections, visits, loads, crossed>>

\* The call throws, and nothing is written.  The node may have accepted p.
SendThrows(s) ==
  /\ s \in submissions
  /\ s.pc = "sending"
  /\ Ended(s)
  /\ \/ UNCHANGED chain
     \/ Acceptable(s) /\ chain' = [chain EXCEPT ![s.p] = "received"]
  /\ UNCHANGED <<expired, database, store, session, connections, page, visits, loads, monitors, history>>

-----------------------------------------------------------------------------
\* The application stops; statements that were not executed are lost.  (Bound:
\* only while another startClient is within MaxConnections.)
Stop ==
  /\ running
  /\ connections < MaxConnections
  /\ session' = "locked"
  /\ store' = NoRows
  /\ statements' = <<>>
  /\ answers' = <<>>
  /\ page' = Elsewhere
  /\ loads' = {}
  /\ submissions' = {}
  /\ monitors' = {}
  /\ waited' = {}
  /\ crossed' = {}
  /\ UNCHANGED <<network, table, connections, visits>>

Network == \E p \in Proposal : Finalize(p) \/ Overtake(p) \/ ExpiryPasses(p)

Answering ==
  \/ loadProposals
  \/ setProposals
  \/ listenForTransactionStatus
  \/ startMonitors

Monitoring == \E m \in monitors : WaitReturns(m) \/ WaitThrows(m)

Loading == \E l \in loads : HandleSignatureFiles(l) \/ RefuseSignature(l)

Submitting ==
  \E s \in submissions :
    \/ begin(s) \/ Unmounted(s)
    \/ NonceIsNext(s) \/ NonceIsUsed(s) \/ NonceIsAhead(s)
    \/ SendReturns(s) \/ SendThrows(s)

Expiring == \E p \in Proposal : expire(p)

User ==
  \/ \E p \in Proposal : addProposal(p) \/ OpenProposal(p)
  \/ dropFile
  \/ closeProposal
  \/ submitTransaction
  \/ Leave
  \/ ChangeConnection

Next ==
  \/ Network \/ execute \/ Answering \/ Monitoring \/ Loading \/ Submitting \/ Expiring
  \/ User \/ Unlock \/ Stop

Spec == Init /\ [][Next]_vars

\* SQLite executes what it is given, answers arrive, a wait or a request ends
\* at its deadline, and the user unlocks the wallet again.
Fairness ==
  /\ WF_vars(execute)
  /\ WF_vars(Answering)
  /\ WF_vars(Monitoring)
  /\ WF_vars(Loading)
  /\ WF_vars(Submitting)
  /\ WF_vars(Unlock)

FairSpec == Spec /\ Fairness

-----------------------------------------------------------------------------
(* Properties. *)

Entry == [status : Status \union {"none"}, sigs : SUBSET Credential]
Rows == [Proposal -> Entry]
Then == {"nothing", "loadProposals", "listen"} \union SelectAll
Visit == 0 .. MaxVisits

StatementType ==
  [p : Proposal \union {"none"}, entry : Entry, then : Then, call : 0 .. MaxConnections]
AnswerType == [then : Then, call : 0 .. MaxConnections, rows : Rows]
PageType ==
  [view : {"elsewhere", "list", "proposal", "submitted"},
   p : Proposal \union {"none"}, ticked : Nat]
LoadType == [visit : Visit, p : Proposal, entry : Entry, sig : Credential]
SubmissionType ==
  [visit : Visit, p : Proposal, entry : Entry, pc : {"mounted", "nonce", "sending"}]
MonitorType == [origin : {"visit", "connection"} \X Nat, p : Proposal, entry : Entry]

TypeOK ==
  /\ chain \in [Proposal -> {"unsent", "overtaken", "received", "success", "failure"}]
  /\ expired \subseteq Proposal
  /\ table \in Rows
  /\ store \in Rows
  /\ session \in {"locked", "unlocked"}
  /\ connections \in 0 .. MaxConnections
  /\ statements \in Seq(StatementType)
  /\ answers \in Seq(AnswerType)
  /\ page \in PageType
  /\ page.view = "proposal" => page.p # "none"
  /\ visits \in 0 .. MaxVisits
  /\ loads \subseteq LoadType
  /\ submissions \subseteq SubmissionType
  /\ monitors \subseteq MonitorType
  /\ waited \subseteq Proposal
  /\ crossed \subseteq Proposal

\* A status claims something of what the network has done.
Holds(word, status) ==
  /\ status = "Finalized" => word = "success"
  /\ status = "Failed" => word = "failure"
  /\ status = "Submitted" => word \in {"received", "success", "failure"}

IsTrue(p, entry) == Holds(chain[p], entry.status)

\* Through every version of a proposal that is written back late, by a page,
\* a signature file, a submission, a monitor or a load, the database and the
\* store never claim what the chain has not done.
StatusIsTrue ==
  \A p \in Proposal : IsTrue(p, table[p]) /\ IsTrue(p, store[p])

\* What it rests on: every version on its way to the database, on its way from
\* it or in anybody's hand is true.
StatementsAreTrue ==
  \A i \in 1 .. Len(statements) :
    statements[i].p # "none" => IsTrue(statements[i].p, statements[i].entry)

AnswersAreTrue ==
  \A i \in 1 .. Len(answers) : \A p \in Proposal : IsTrue(p, answers[i].rows[p])

VersionsAreTrue ==
  /\ \A l \in loads : IsTrue(l.p, l.entry)
  /\ \A s \in submissions : IsTrue(s.p, s.entry)
  /\ \A m \in monitors : IsTrue(m.p, m.entry)

\* The inductive invariant.
IInv == StatusIsTrue /\ StatementsAreTrue /\ AnswersAreTrue /\ VersionsAreTrue

\* Somebody will still act on p.
Followed(p) ==
  \/ \E m \in monitors : m.p = p
  \/ \E i \in 1 .. Len(statements) :
       \/ statements[i].p = p /\ statements[i].entry.status # "Submitted"
       \/ statements[i].then \in {"listen", "startMonitors"}
  \/ \E i \in 1 .. Len(answers) :
       \/ answers[i].then = "listen"
       \/ answers[i].then = "startMonitors" /\ answers[i].rows[p].status = "Submitted"

\* While the wallet runs, a proposal the database has as submitted is followed:
\* by the monitor of its submission or of a connection, by a listener that will
\* see it, or by an update on its way.  Only a proposal whose monitor has ended
\* may be left without: a page writes it back as submitted.
SubmittedIsFollowed ==
  \A p \in Proposal :
    running /\ table[p].status = "Submitted" /\ p \notin waited => Followed(p)

\* When nothing is under way, the store shows what the database holds, as the
\* comments of updateCurrentProposal and loadProposals say, but for a proposal
\* that was written while the rows of the last load were on their way.
StoreIsTable ==
  running /\ statements = <<>> /\ answers = <<>> =>
    \A p \in Proposal \ crossed : store[p] = table[p]

\* All there is of p: what the store has, the row, what is on its way to it or
\* from it, and what a signature file, a submission or a monitor has in hand.
Versions(p) ==
  {table[p]}
    \union (IF running THEN {store[p]} ELSE {})
    \union {statements[i].entry : i \in Writes(p)}
    \union {answers[i].rows[p] : i \in {j \in 1 .. Len(answers) : answers[j].then \in SelectAll}}
    \union {v.entry : v \in {w \in loads \union submissions \union monitors : w.p = p}}

\* "if the signature threshold has been reached, then the proposal can be
\* submitted": whichever version of a proposal becomes submitted or settled, the
\* signatures it was accepted with are there, whatever a signature file that was
\* still being verified has written since.
SubmittedIsSigned ==
  \A p \in Proposal : \A v \in Versions(p) :
    v.status \in {"Submitted"} \union Settled => Cardinality(v.sigs) >= Threshold

Statuses(p) == {v.status : v \in Versions(p)}

\* A cancelled proposal stays cancelled, a submitted one is not opened, expired
\* or cancelled, and a settled one stays settled, unless by somebody who has
\* had it in hand since before: once no earlier version is left.
StatusMovesOn ==
  [][\A p \in Proposal :
       /\ Statuses(p) = {"Closed"} => Statuses(p)' = {"Closed"}
       /\ Statuses(p) \subseteq {"Submitted"} \union Settled =>
            Statuses(p)' \subseteq {"Submitted"} \union Settled
       /\ Statuses(p) \subseteq Settled => Statuses(p)' \subseteq Settled]_vars

\* "If the incoming signature is valid, it will be added": a signature is lost
\* only to somebody who has had the proposal in hand since before it was added.
SignaturesStay ==
  [][\A p \in Proposal : \A c \in Credential :
       (\A v \in Versions(p) : c \in v.sigs) => (\A v \in Versions(p)' : c \in v.sigs)]_vars

\* Every submitted proposal whose monitor has not ended is settled in the end,
\* through restarts, changes of the connection and waits that throw.
SubmittedIsSettled ==
  \A p \in Proposal :
    table[p].status = "Submitted" /\ p \notin waited ~> table[p].status # "Submitted"

(* What the comments of the code say beyond that, and what does not hold. *)

\* "update the status of the proposal in the database and state accordingly":
\* a submitted proposal is followed whatever its pages write back.
NoneIsForgotten ==
  \A p \in Proposal : running /\ table[p].status = "Submitted" => Followed(p)

\* "Load all proposals from the database": when nothing is under way, the store
\* shows what the database holds.
LoadedIsCurrent ==
  running /\ statements = <<>> /\ answers = <<>> => store = table

\* "if the signature threshold has been reached, then the proposal can be
\* submitted": a submission carries that many signatures.
TickedIsSigned ==
  \A s \in submissions : Cardinality(s.entry.sigs) >= Threshold

\* In the database, a cancelled proposal stays cancelled.
ClosedStays ==
  [][\A p \in Proposal : table[p].status = "Closed" => table'[p].status = "Closed"]_table

\* In the database, a signature that was added to a proposal is not lost.
AddedStays ==
  [][\A p \in Proposal : table[p].sigs \subseteq table'[p].sigs]_table

\* "update the status of the proposal in the database and state accordingly":
\* when the wait of a monitor has returned, no other monitor of the proposal
\* takes the outcome back.
FinalizedStays ==
  [][\A p \in Proposal :
       table[p].status = "Finalized" => table'[p].status = "Finalized"]_table

\* "Transaction contains an already used nonce, the transaction has been
\* cancelled.": it was not the transaction itself that used the nonce.
UsedNonceIsAnothers ==
  [][\A s \in submissions : NonceIsUsed(s) => chain[s.p] = "overtaken"]_vars
=============================================================================
