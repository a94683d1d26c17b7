-------------------- MODULE MultiSignatureProposalProofs --------------------
(***************************************************************************)
(* Proofs about MultiSignatureProposal for every set of proposals and of   *)
(* credentials, every threshold and any number of visits, connections and  *)
(* things under way at once.                                               *)
(***************************************************************************)
EXTENDS MultiSignatureProposal, FiniteSetTheorems, SequenceTheorems, TLAPS

\* The signatures of a row are counted by a number.
LEMMA EntryIsSigned ==
  ASSUME NEW rows \in Rows, NEW p \in Proposal
  PROVE  Cardinality(rows[p].sigs) \in Nat
<1>1. IsFiniteSet(rows[p].sigs)
  BY CredentialAssumption, FS_Subset DEF Rows, Entry
<1> QED
  BY <1>1, FS_CardinalityType

LEMMA RenderedType ==
  ASSUME TypeOK, NEW rows \in Rows
  PROVE  /\ Rendered(rows) \in PageType
         /\ Rendered(rows).view = "proposal" => Rendered(rows).p # "none"
<1>1. CASE Rendered(rows) = page
  BY <1>1 DEF TypeOK
<1>2. CASE page.view = "proposal" /\ Rendered(rows) = [page EXCEPT !.ticked = Cardinality(rows[page.p].sigs)]
  <2>1. page.p \in Proposal
    BY <1>2 DEF TypeOK, PageType
  <2>2. Cardinality(rows[page.p].sigs) \in Nat
    BY <2>1, EntryIsSigned
  <2> QED
    BY <1>2, <2>2 DEF TypeOK, PageType
<1> QED
  BY <1>1, <1>2 DEF Rendered

LEMMA InitType == Init => TypeOK
<1> SUFFICES ASSUME Init PROVE TypeOK
  OBVIOUS
<1>1. NoRows \in Rows
  BY DEF NoRows, Rows, Entry, Absent
<1>2. Elsewhere \in PageType
  BY DEF Elsewhere, PageType
<1> QED
  BY <1>1, <1>2, BoundAssumption, ProposalAssumption DEF Init, TypeOK, Elsewhere

LEMMA NetworkType == TypeOK /\ Network => TypeOK'
<1> SUFFICES ASSUME TypeOK, NEW p \in Proposal, Finalize(p) \/ Overtake(p) \/ ExpiryPasses(p)
             PROVE  TypeOK'
  BY DEF Network
<1>1. chain' \in [Proposal -> {"unsent", "overtaken", "received", "success", "failure"}] /\ expired' \subseteq Proposal
  BY DEF TypeOK, Finalize, Overtake, ExpiryPasses
<1> QED
  BY <1>1 DEF TypeOK, Finalize, Overtake, ExpiryPasses, database, work, history

LEMMA ExecuteType == TypeOK /\ execute => TypeOK'
<1> SUFFICES ASSUME TypeOK, execute PROVE TypeOK'
  OBVIOUS
<1> DEFINE s == Head(statements)
<1>1. s \in StatementType /\ Tail(statements) \in Seq(StatementType)
  BY DEF TypeOK, execute
<1>2. table' \in Rows
  BY <1>1 DEF TypeOK, execute, StatementType, Rows
<1>3. NoRows \in Rows
  BY DEF NoRows, Rows, Entry, Absent
<1>4. Answer(s) \in AnswerType
  BY <1>1, <1>3 DEF TypeOK, Answer, StatementType, AnswerType
<1>5. answers' \in Seq(AnswerType)
  BY <1>4 DEF TypeOK, execute
<1> QED
  BY <1>1, <1>2, <1>5 DEF TypeOK, execute, network, work, history

LEMMA AnsweringType == TypeOK /\ Answering => TypeOK'
<1> SUFFICES ASSUME TypeOK, Answering PROVE TypeOK'
  OBVIOUS
<1>1. /\ Head(answers) \in AnswerType
      /\ answers' \in Seq(AnswerType)
  <2>1. answers # <<>> /\ answers' = Tail(answers)
    BY DEF Answering, Answered, loadProposals, setProposals, listenForTransactionStatus, startMonitors
  <2>2. answers \in Seq(AnswerType)
    BY DEF TypeOK
  <2> HIDE DEF AnswerType
  <2> QED
    BY <2>1, <2>2, HeadTailProperties
<1>2. \A then \in Then, call \in 0 .. MaxConnections : Query(then, call) \in StatementType
  BY DEF Query, StatementType, Entry, Absent
<1>3. CASE loadProposals
  <2>1. statements' \in Seq(StatementType)
    BY <1>2, <1>3, BoundAssumption DEF TypeOK, loadProposals, Issue, Then, SelectAll
  <2> QED
    BY <1>1, <1>3, <2>1 DEF TypeOK, loadProposals, network, work, history
<1>4. CASE setProposals
  <2>1. store' \in Rows
    BY <1>1, <1>4 DEF setProposals, AnswerType
  <2>2. page' \in PageType /\ (page'.view = "proposal" => page'.p # "none")
    BY <1>4, <2>1, RenderedType DEF setProposals
  <2> QED
    BY <1>1, <1>4, <2>1, <2>2 DEF TypeOK, setProposals, network, work
<1>5. CASE listenForTransactionStatus
  <2>1. statements' \in Seq(StatementType)
    BY <1>1, <1>2, <1>5 DEF TypeOK, listenForTransactionStatus, Issue, Then, SelectAll, AnswerType
  <2> QED
    BY <1>1, <1>5, <2>1 DEF TypeOK, listenForTransactionStatus, network, work, history
<1>6. CASE startMonitors
  <2>1. \A p \in Proposal : Monitor(<<"connection", Head(answers).call>>, p, Head(answers).rows[p]) \in MonitorType
    BY <1>1 DEF Monitor, MonitorType, AnswerType, Rows
  <2>2. monitors' \subseteq MonitorType
    BY <1>6, <2>1 DEF TypeOK, startMonitors
  <2> QED
    BY <1>1, <1>6, <2>2 DEF TypeOK, startMonitors, network
<1> QED
  BY <1>3, <1>4, <1>5, <1>6 DEF Answering

\* What is issued, and what it is issued for, has its type.
LEMMA UpdateType ==
  ASSUME NEW p \in Proposal, NEW entry \in Entry
  PROVE  /\ Update(p, entry) \in StatementType
         /\ UpdateAndLoad(p, entry) \in StatementType
BY BoundAssumption DEF Update, UpdateAndLoad, StatementType, Then

LEMMA CurrentType ==
  ASSUME TypeOK, NEW p \in Proposal, NEW entry \in Entry, updateCurrentProposal(p, entry)
  PROVE  statements' \in Seq(StatementType) /\ store' \in Rows
<1>1. Update(p, entry) \in StatementType
  BY UpdateType
<1>2. statements' \in Seq(StatementType)
  BY <1>1, AppendProperties DEF TypeOK, updateCurrentProposal, Issue
<1>3. store' \in Rows
  BY DEF TypeOK, updateCurrentProposal, Rows
<1> QED
  BY <1>2, <1>3

\* An entry of which one field is replaced by a value of its type is an entry.
LEMMA EntryExcept ==
  ASSUME NEW entry \in Entry
  PROVE  /\ \A status \in Status : /\ [entry EXCEPT !.status = status] \in Entry
                                  /\ [entry EXCEPT !.status = status].status = status
         /\ Expire(entry) \in Entry
         /\ \A sigs \in SUBSET Credential : /\ [entry EXCEPT !.sigs = sigs] \in Entry
                                          /\ [entry EXCEPT !.sigs = sigs].status = entry.status
BY DEF Entry, Expire, Status, Settled

LEMMA MonitoringType == TypeOK /\ Monitoring => TypeOK'
<1> SUFFICES ASSUME TypeOK, NEW m \in monitors, NEW status \in Settled, Settle(m, status)
             PROVE  TypeOK'
  BY DEF Monitoring, WaitReturns, WaitThrows, Settled
<1>1. m.p \in Proposal /\ m.entry \in Entry
  BY DEF TypeOK, MonitorType
<1>2. UpdateAndLoad(m.p, [m.entry EXCEPT !.status = status]) \in StatementType
  BY <1>1, EntryExcept, UpdateType DEF Status
<1>3. statements' \in Seq(StatementType)
  BY <1>2, AppendProperties DEF TypeOK, Settle, Issue
<1>4. monitors' \subseteq MonitorType /\ waited' \subseteq Proposal
  BY <1>1 DEF TypeOK, Settle
<1> QED
  BY <1>3, <1>4 DEF TypeOK, Settle, network

LEMMA LoadingType == TypeOK /\ Loading => TypeOK'
<1> SUFFICES ASSUME TypeOK, NEW l \in loads, HandleSignatureFiles(l) \/ RefuseSignature(l)
             PROVE  TypeOK'
  BY DEF Loading
<1>1. CASE RefuseSignature(l)
  BY <1>1 DEF TypeOK, RefuseSignature, network, database, history
<1>2. CASE HandleSignatureFiles(l)
  <2>1. l.p \in Proposal /\ l.entry \in Entry /\ l.sig \in Credential
    BY DEF TypeOK, LoadType
  <2>2. l.entry.sigs \union {l.sig} \in SUBSET Credential
    BY <2>1 DEF Entry
  <2>3. [l.entry EXCEPT !.sigs = @ \union {l.sig}] \in Entry
    BY <2>1, <2>2, EntryExcept
  <2>4. statements' \in Seq(StatementType) /\ store' \in Rows
    BY <1>2, <2>1, <2>3, CurrentType DEF HandleSignatureFiles
  <2>5. page' \in PageType /\ (page'.view = "proposal" => page'.p # "none")
    BY <1>2, <2>4, RenderedType DEF HandleSignatureFiles
  <2>6. loads' \subseteq LoadType
    BY <1>2 DEF TypeOK, HandleSignatureFiles
  <2> QED
    BY <1>2, <2>4, <2>5, <2>6 DEF TypeOK, HandleSignatureFiles, network, history
<1> QED
  BY <1>1, <1>2

LEMMA SubmittingType == TypeOK /\ Submitting => TypeOK'
<1> SUFFICES ASSUME TypeOK, NEW s \in submissions,
                    \/ begin(s) \/ Unmounted(s)
                    \/ NonceIsNext(s) \/ NonceIsUsed(s) \/ NonceIsAhead(s)
                    \/ SendReturns(s) \/ SendThrows(s)
             PROVE  TypeOK'
  BY DEF Submitting
<1>1. s \in SubmissionType /\ s.p \in Proposal /\ s.entry \in Entry /\ s.visit \in Visit
  BY DEF TypeOK, SubmissionType
<1>2. \A pc \in {"nonce", "sending"} : [s EXCEPT !.pc = pc] \in SubmissionType
  BY <1>1 DEF SubmissionType
<1>3. submissions' \subseteq SubmissionType
  BY <1>2 DEF TypeOK, Moved, Ended, begin, Unmounted, NonceIsNext, NonceIsUsed, NonceIsAhead, SendReturns, SendThrows
<1>4. CASE begin(s) \/ Unmounted(s) \/ NonceIsNext(s) \/ NonceIsAhead(s)
  BY <1>3, <1>4 DEF TypeOK, begin, Unmounted, NonceIsNext, NonceIsAhead, network, database, history
<1>5. CASE NonceIsUsed(s)
  <2>1. [s.entry EXCEPT !.status = "Closed"] \in Entry
    BY <1>1, EntryExcept DEF Status
  <2>2. statements' \in Seq(StatementType) /\ store' \in Rows
    BY <1>1, <1>5, <2>1, CurrentType DEF NonceIsUsed
  <2>3. page' \in PageType /\ (page'.view = "proposal" => page'.p # "none")
    BY <1>5, <2>2, RenderedType DEF NonceIsUsed
  <2> QED
    BY <1>3, <1>5, <2>2, <2>3 DEF TypeOK, NonceIsUsed, network, history
<1>6. CASE SendReturns(s)
  <2> DEFINE entry == [s.entry EXCEPT !.status = "Submitted"]
  <2>1. entry \in Entry
    BY <1>1, EntryExcept DEF Status
  <2>2. statements' \in Seq(StatementType) /\ store' \in Rows
    BY <1>1, <1>6, <2>1, CurrentType DEF SendReturns
  <2>3. page' \in PageType /\ (page'.view = "proposal" => page'.p # "none")
    BY <1>6, <2>2, RenderedType DEF SendReturns
  <2>4. Monitor(<<"visit", s.visit>>, s.p, entry) \in MonitorType
    BY <1>1, <2>1, BoundAssumption DEF Monitor, MonitorType, Visit
  <2>5. monitors' \subseteq MonitorType
    BY <1>6, <2>4 DEF TypeOK, SendReturns
  <2>6. chain' \in [Proposal -> {"unsent", "overtaken", "received", "success", "failure"}]
    BY <1>1, <1>6 DEF TypeOK, SendReturns
  <2> QED
    BY <1>3, <1>6, <2>2, <2>3, <2>5, <2>6 DEF TypeOK, SendReturns
<1>7. CASE SendThrows(s)
  <2>1. chain' \in [Proposal -> {"unsent", "overtaken", "received", "success", "failure"}]
    BY <1>1, <1>7 DEF TypeOK, SendThrows
  <2> QED
    BY <1>3, <1>7, <2>1 DEF TypeOK, SendThrows, database, history
<1> QED
  BY <1>4, <1>5, <1>6, <1>7

LEMMA ExpiringType == TypeOK /\ Expiring => TypeOK'
<1> SUFFICES ASSUME TypeOK, NEW p \in Proposal, expire(p) PROVE TypeOK'
  BY DEF Expiring
<1>1. Expire(store[p]) \in Entry
  BY EntryExcept DEF TypeOK, Rows
<1>2. statements' \in Seq(StatementType) /\ store' \in Rows
  BY <1>1, CurrentType DEF expire
<1> QED
  BY <1>2 DEF TypeOK, expire, network, work, history

\* A page is opened with the statements its effects issue.
LEMMA OpenedType ==
  ASSUME TypeOK, NEW p \in Proposal, NEW entry \in Entry, Opened(p, entry)
  PROVE  /\ visits' \in 0 .. MaxVisits
         /\ page' \in PageType
         /\ page'.p # "none"
         /\ statements' \in Seq(StatementType)
<1>1. visits' \in 0 .. MaxVisits
  BY BoundAssumption DEF TypeOK, Opened
<1>2. Cardinality(entry.sigs) \in Nat
  BY CredentialAssumption, FS_Subset, FS_CardinalityType DEF Entry
<1>3. page' \in PageType /\ page'.p # "none"
  BY <1>2, ProposalAssumption DEF Opened, PageType
<1>4. Update(p, entry) \in StatementType /\ Update(p, Expire(entry)) \in StatementType
  BY EntryExcept, UpdateType
<1>5. statements \in Seq(StatementType)
  BY DEF TypeOK
<1>6. Append(statements, Update(p, entry)) \in Seq(StatementType)
  BY <1>4, <1>5, AppendProperties
<1>7. statements \o <<Update(p, Expire(entry)), Update(p, entry)>> \in Seq(StatementType)
  <2>1. <<Update(p, Expire(entry)), Update(p, entry)>> \in Seq(StatementType)
    BY <1>4
  <2> QED
    BY <1>5, <2>1, ConcatProperties
<1> QED
  BY <1>1, <1>3, <1>6, <1>7 DEF Opened

LEMMA QueryType ==
  \A then \in Then, call \in 0 .. MaxConnections : Query(then, call) \in StatementType
BY DEF Query, StatementType, Entry, Absent

LEMMA StartType ==
  ASSUME TypeOK, startClient
  PROVE  /\ connections' \in 0 .. MaxConnections
         /\ session' \in {"locked", "unlocked"}
         /\ statements' \in Seq(StatementType)
<1>1. connections' \in 0 .. MaxConnections
  BY BoundAssumption DEF TypeOK, startClient
<1>2. Query("listen", connections') \in StatementType
  BY <1>1, QueryType DEF Then
<1>3. statements' \in Seq(StatementType)
  BY <1>2, AppendProperties DEF TypeOK, startClient, Issue
<1> QED
  BY <1>1, <1>3 DEF startClient

LEMMA UserType == TypeOK /\ User => TypeOK'
<1> SUFFICES ASSUME TypeOK, User PROVE TypeOK'
  OBVIOUS
<1>0. List \in PageType /\ Elsewhere \in PageType
      /\ List.view # "proposal" /\ Elsewhere.view # "proposal"
  BY DEF List, Elsewhere, PageType
<1>1. ASSUME NEW p \in Proposal, addProposal(p) PROVE TypeOK'
  <2>1. PICK sigs \in SUBSET Credential :
          LET entry == [status |-> "Open", sigs |-> sigs] IN
            /\ table' = [table EXCEPT ![p] = entry]
            /\ store' = [store EXCEPT ![p] = entry]
            /\ Opened(p, entry)
    BY <1>1 DEF addProposal
  <2> DEFINE entry == [status |-> "Open", sigs |-> sigs]
  <2>2. entry \in Entry
    BY DEF Entry, Status
  <2>3. table' \in Rows /\ store' \in Rows
    BY <2>1, <2>2 DEF TypeOK, Rows
  <2>4. /\ visits' \in 0 .. MaxVisits
        /\ page' \in PageType
        /\ page'.p # "none"
        /\ statements' \in Seq(StatementType)
    BY <2>1, <2>2, OpenedType
  <2> QED
    BY <1>1, <2>3, <2>4 DEF TypeOK, addProposal, network, work, history
<1>2. ASSUME NEW p \in Proposal, OpenProposal(p) PROVE TypeOK'
  <2>1. store[p] \in Entry
    BY DEF TypeOK, Rows
  <2>2. /\ visits' \in 0 .. MaxVisits
        /\ page' \in PageType
        /\ page'.p # "none"
        /\ statements' \in Seq(StatementType)
    BY <1>2, <2>1, OpenedType DEF OpenProposal
  <2> QED
    BY <1>2, <2>2 DEF TypeOK, OpenProposal, network, work, history
<1>3. page.view = "proposal" => page.p \in Proposal /\ store[page.p] \in Entry
  BY DEF TypeOK, PageType, Rows
<1>4. CASE dropFile
  <2>1. visits \in Visit
    BY <1>3, <1>4 DEF TypeOK, dropFile, Visit
  <2>2. loads' \subseteq LoadType
    BY <1>3, <1>4, <2>1 DEF TypeOK, dropFile, LoadType
  <2> QED
    BY <1>4, <2>2 DEF TypeOK, dropFile, network, database, history
<1>5. CASE closeProposal
  <2>1. [store[page.p] EXCEPT !.status = "Closed"] \in Entry
    BY <1>3, <1>5, EntryExcept DEF closeProposal, Status
  <2>2. statements' \in Seq(StatementType) /\ store' \in Rows
    BY <1>3, <1>5, <2>1, CurrentType DEF closeProposal
  <2> QED
    BY <1>0, <1>5, <2>2 DEF TypeOK, closeProposal, network, work, history
<1>6. CASE submitTransaction
  <2>1. visits' \in Visit /\ visits' \in 0 .. MaxVisits
    BY <1>6, BoundAssumption DEF TypeOK, submitTransaction, Visit
  <2>2. [visit |-> visits', p |-> page.p, entry |-> store[page.p], pc |-> "mounted"] \in SubmissionType
    BY <1>3, <1>6, <2>1 DEF submitTransaction, SubmissionType
  <2>3. submissions' \subseteq SubmissionType
    BY <1>6, <2>2 DEF TypeOK, submitTransaction
  <2>4. page' \in PageType /\ page'.view # "proposal"
    BY <1>6 DEF TypeOK, PageType, submitTransaction
  <2> QED
    BY <1>6, <2>1, <2>3, <2>4 DEF TypeOK, submitTransaction, network, database, history
<1>7. CASE Leave
  BY <1>0, <1>7 DEF TypeOK, Leave, network, database, work, history
<1>8. CASE ChangeConnection
  BY <1>8, StartType DEF TypeOK, ChangeConnection, network, work, history
<1> QED
  BY <1>1, <1>2, <1>4, <1>5, <1>6, <1>7, <1>8 DEF User

LEMMA SessionType == TypeOK /\ (Unlock \/ Stop) => TypeOK'
<1> SUFFICES ASSUME TypeOK, Unlock \/ Stop PROVE TypeOK'
  OBVIOUS
<1>1. CASE Unlock
  BY <1>1, StartType DEF TypeOK, Unlock, network, work, history
<1>2. CASE Stop
  <2>1. Elsewhere \in PageType /\ Elsewhere.view # "proposal"
    BY DEF Elsewhere, PageType
  <2>2. NoRows \in Rows
    BY DEF NoRows, Rows, Entry, Absent
  <2> QED
    BY <1>2, <2>1, <2>2 DEF TypeOK, Stop, network
<1> QED
  BY <1>1, <1>2

LEMMA NextType == TypeOK /\ [Next]_vars => TypeOK'
<1> SUFFICES ASSUME TypeOK, [Next]_vars PROVE TypeOK'
  OBVIOUS
<1>1. CASE UNCHANGED vars
  BY <1>1 DEF TypeOK, vars, network, database, work, history
<1> QED
  BY <1>1, NetworkType, ExecuteType, AnsweringType, MonitoringType, LoadingType,
     SubmittingType, ExpiringType, UserType, SessionType DEF Next

\* In every reachable state each variable has its type; among others the
\* statements, answers and versions in flight are of proposals there are.
THEOREM TypeCorrect == Spec => []TypeOK
<1>1. Init => TypeOK
  BY InitType
<1>2. TypeOK /\ [Next]_vars => TypeOK'
  BY NextType
<1> QED
  BY <1>1, <1>2, PTL DEF Spec

-----------------------------------------------------------------------------
(* What the database and the store claim of the chain. *)

\* The network only moves on.
ChainMovesOn ==
  \A p \in Proposal :
    \/ chain'[p] = chain[p]
    \/ chain[p] = "unsent"
    \/ chain[p] = "received" /\ chain'[p] \in {"success", "failure"}

\* What was true of p stays true of p.
LEMMA TruthStays ==
  ASSUME ChainMovesOn, NEW p \in Proposal
  PROVE  \A status : Holds(chain[p], status) => Holds(chain'[p], status)
BY DEF ChainMovesOn, Holds

LEMMA StatusStays ==
  ASSUME TypeOK, IInv, ChainMovesOn, UNCHANGED <<table, store>>
  PROVE  StatusIsTrue'
BY TruthStays DEF IInv, StatusIsTrue, IsTrue

LEMMA StatementParts ==
  ASSUME TypeOK
  PROVE  \A i \in 1 .. Len(statements) :
           statements[i].p # "none" => statements[i].p \in Proposal
<1>1. \A i \in 1 .. Len(statements) : statements[i] \in StatementType
  BY LenProperties DEF TypeOK
<1> QED
  BY <1>1 DEF StatementType

LEMMA StatementsStay ==
  ASSUME TypeOK, IInv, ChainMovesOn, UNCHANGED statements
  PROVE  StatementsAreTrue'
BY StatementParts, TruthStays DEF IInv, StatementsAreTrue, IsTrue

LEMMA AnswersStay ==
  ASSUME TypeOK, IInv, ChainMovesOn, UNCHANGED answers
  PROVE  AnswersAreTrue'
BY TruthStays DEF IInv, AnswersAreTrue, IsTrue

\* Versions that are dropped, or kept with their entry, stay true.
LEMMA VersionsStay ==
  ASSUME TypeOK, IInv, ChainMovesOn,
         \A l \in loads' : l \in loads,
         \A s \in submissions' : \E r \in submissions : s.p = r.p /\ s.entry = r.entry,
         \A m \in monitors' : m \in monitors
  PROVE  VersionsAreTrue'
<1>1. \A l \in loads : l.p \in Proposal
  BY DEF TypeOK, LoadType
<1>2. \A s \in submissions : s.p \in Proposal
  BY DEF TypeOK, SubmissionType
<1>3. \A m \in monitors : m.p \in Proposal
  BY DEF TypeOK, MonitorType
<1>4. \A l \in loads' : Holds(chain'[l.p], l.entry.status)
  BY <1>1, TruthStays DEF IInv, VersionsAreTrue, IsTrue
<1>5. \A s \in submissions' : Holds(chain'[s.p], s.entry.status)
  BY <1>2, TruthStays DEF IInv, VersionsAreTrue, IsTrue
<1>6. \A m \in monitors' : Holds(chain'[m.p], m.entry.status)
  BY <1>3, TruthStays DEF IInv, VersionsAreTrue, IsTrue
<1> QED
  BY <1>4, <1>5, <1>6 DEF VersionsAreTrue, IsTrue

\* A true statement is issued.
LEMMA IssueTrue ==
  ASSUME TypeOK, IInv, ChainMovesOn,
         NEW s \in StatementType, Issue(s),
         s.p # "none" => Holds(chain'[s.p], s.entry.status)
  PROVE  StatementsAreTrue'
<1>1. \A i \in 1 .. Len(statements) :
        statements[i].p # "none" => Holds(chain'[statements[i].p], statements[i].entry.status)
  BY StatementParts, TruthStays DEF IInv, StatementsAreTrue, IsTrue
<1>2. /\ Len(statements') = Len(statements) + 1
      /\ \A i \in 1 .. Len(statements) : statements'[i] = statements[i]
      /\ statements'[Len(statements) + 1] = s
  BY AppendProperties DEF TypeOK, Issue
<1>3. \A i \in 1 .. Len(statements') : i \in 1 .. Len(statements) \/ i = Len(statements) + 1
  BY <1>2 DEF TypeOK
<1> QED
  BY <1>1, <1>2, <1>3 DEF StatementsAreTrue, IsTrue

\* A true version is written.
LEMMA CurrentTrue ==
  ASSUME TypeOK, IInv, ChainMovesOn,
         NEW p \in Proposal, NEW entry \in Entry,
         updateCurrentProposal(p, entry), UNCHANGED table,
         Holds(chain'[p], entry.status)
  PROVE  StatusIsTrue' /\ StatementsAreTrue'
<1>1. StatementsAreTrue'
  <2>1. Update(p, entry) \in StatementType /\ Update(p, entry).p = p /\ Update(p, entry).entry = entry
    BY UpdateType DEF Update
  <2>2. Issue(Update(p, entry))
    BY DEF updateCurrentProposal
  <2> QED
    BY <2>1, <2>2, IssueTrue
<1>2. \A q \in Proposal : Holds(chain'[q], table'[q].status)
  BY TruthStays DEF IInv, StatusIsTrue, IsTrue
<1>3. \A q \in Proposal : Holds(chain'[q], store'[q].status)
  <2>1. \A q \in Proposal : store'[q] = IF q = p THEN entry ELSE store[q]
    BY DEF updateCurrentProposal, TypeOK, Rows
  <2> QED
    BY <2>1, TruthStays DEF IInv, StatusIsTrue, IsTrue
<1> QED
  BY <1>1, <1>2, <1>3 DEF StatusIsTrue, IsTrue

LEMMA InitTrue == Init => IInv
<1> SUFFICES ASSUME Init PROVE IInv
  OBVIOUS
<1>1. \A p \in Proposal : NoRows[p].status = "none"
  BY DEF NoRows, Absent
<1> QED
  BY <1>1 DEF Init, IInv, StatusIsTrue, StatementsAreTrue, AnswersAreTrue, VersionsAreTrue, IsTrue, Holds

LEMMA NetworkTrue == TypeOK /\ IInv /\ Network => IInv'
<1> SUFFICES ASSUME TypeOK, IInv, NEW p \in Proposal, Finalize(p) \/ Overtake(p) \/ ExpiryPasses(p)
             PROVE  IInv'
  BY DEF Network
<1>1. ChainMovesOn
  BY DEF TypeOK, Finalize, Overtake, ExpiryPasses, ChainMovesOn
<1>2. UNCHANGED <<table, store, statements, answers, loads, submissions, monitors>>
  BY DEF Finalize, Overtake, ExpiryPasses, database, work
<1> QED
  BY <1>1, <1>2, StatusStays, StatementsStay, AnswersStay, VersionsStay DEF IInv

LEMMA ExecuteTrue == TypeOK /\ IInv /\ execute => IInv'
<1> SUFFICES ASSUME TypeOK, IInv, execute PROVE IInv'
  OBVIOUS
<1> DEFINE s == Head(statements)
<1>1. /\ chain' = chain /\ store' = store
      /\ loads' = loads /\ submissions' = submissions /\ monitors' = monitors
  BY DEF execute, network, work
<1>2. ChainMovesOn
  BY <1>1 DEF ChainMovesOn
<1>3. /\ s = statements[1] /\ 1 \in 1 .. Len(statements) /\ s \in StatementType
      /\ Len(Tail(statements)) = Len(statements) - 1
      /\ \A i \in 1 .. Len(Tail(statements)) :
           i + 1 \in 1 .. Len(statements) /\ Tail(statements)[i] = statements[i + 1]
  BY HeadTailProperties, LenProperties, EmptySeq DEF TypeOK, execute
<1>4. StatementsAreTrue'
  BY <1>1, <1>3 DEF IInv, StatementsAreTrue, IsTrue, execute
<1>5. \A p \in Proposal : IsTrue(p, table'[p])
  <2>1. CASE s.p = "none"
    BY <2>1 DEF execute, IInv, StatusIsTrue
  <2>2. CASE s.p # "none"
    <3>1. s.p \in Proposal /\ IsTrue(s.p, s.entry)
      BY <1>3, <2>2 DEF StatementType, IInv, StatementsAreTrue
    <3>2. \A p \in Proposal : table'[p] = IF p = s.p THEN s.entry ELSE table[p]
      BY <2>2 DEF execute, TypeOK, Rows
    <3> QED
      BY <3>1, <3>2 DEF IInv, StatusIsTrue
  <2> QED
    BY <2>1, <2>2
<1>6. StatusIsTrue'
  BY <1>1, <1>5 DEF IInv, StatusIsTrue, IsTrue
<1>7. AnswersAreTrue'
  <2>1. CASE answers' = answers
    BY <1>2, <2>1, AnswersStay
  <2>2. CASE answers' = Append(answers, Answer(s))
    <3>1. \A p \in Proposal : Holds(chain[p], Answer(s).rows[p].status)
      BY DEF Answer, NoRows, Absent, Holds, IInv, StatusIsTrue, IsTrue
    <3>2. /\ Len(answers') = Len(answers) + 1
          /\ \A i \in 1 .. Len(answers) : answers'[i] = answers[i]
          /\ answers'[Len(answers) + 1] = Answer(s)
          /\ Len(answers) \in Nat
      BY <2>2, AppendProperties, LenProperties DEF TypeOK
    <3>3. \A i \in 1 .. Len(answers') : i \in 1 .. Len(answers) \/ i = Len(answers) + 1
      BY <3>2
    <3> QED
      BY <1>1, <3>1, <3>2, <3>3 DEF IInv, AnswersAreTrue, IsTrue
  <2> QED
    BY <2>1, <2>2 DEF execute
<1>8. VersionsAreTrue'
  BY <1>1, <1>2, VersionsStay
<1> QED
  BY <1>4, <1>6, <1>7, <1>8 DEF IInv

\* An answer is taken: what it brings is true.
LEMMA AnsweredTrue ==
  ASSUME TypeOK, IInv, UNCHANGED chain, answers # <<>>, answers' = Tail(answers)
  PROVE  /\ AnswersAreTrue'
         /\ Head(answers) \in AnswerType
         /\ \A p \in Proposal : IsTrue(p, Head(answers).rows[p])
<1>1. /\ Head(answers) = answers[1] /\ 1 \in 1 .. Len(answers)
      /\ Head(answers) \in AnswerType
      /\ \A i \in 1 .. Len(Tail(answers)) :
           i + 1 \in 1 .. Len(answers) /\ Tail(answers)[i] = answers[i + 1]
  BY HeadTailProperties, LenProperties, EmptySeq DEF TypeOK
<1> QED
  BY <1>1 DEF IInv, AnswersAreTrue, IsTrue

LEMMA AnsweringTrue == TypeOK /\ IInv /\ Answering => IInv'
<1> SUFFICES ASSUME TypeOK, IInv, Answering PROVE IInv'
  OBVIOUS
<1>1. /\ chain' = chain /\ table' = table
      /\ loads' = loads /\ submissions' = submissions
      /\ answers # <<>> /\ answers' = Tail(answers)
  BY DEF Answering, Answered, loadProposals, setProposals, listenForTransactionStatus, startMonitors, network, work
<1>2. ChainMovesOn
  BY <1>1 DEF ChainMovesOn
<1>3. /\ AnswersAreTrue'
      /\ Head(answers) \in AnswerType
      /\ \A p \in Proposal : IsTrue(p, Head(answers).rows[p])
  BY <1>1, AnsweredTrue
<1>4. CASE loadProposals \/ listenForTransactionStatus
  <2>1. PICK then \in Then, call \in 0 .. MaxConnections : Issue(Query(then, call))
    BY <1>3, <1>4, BoundAssumption
       DEF loadProposals, listenForTransactionStatus, Then, SelectAll, AnswerType
  <2>2. Query(then, call) \in StatementType /\ Query(then, call).p = "none"
    BY QueryType DEF Query
  <2>3. StatementsAreTrue'
    BY <1>2, <2>1, <2>2, IssueTrue
  <2>4. UNCHANGED <<store, monitors>>
    BY <1>4 DEF loadProposals, listenForTransactionStatus, work
  <2> QED
    BY <1>1, <1>2, <1>3, <2>3, <2>4, StatusStays, VersionsStay DEF IInv
<1>5. CASE setProposals
  <2>1. store' = Head(answers).rows /\ UNCHANGED <<statements, monitors>>
    BY <1>5 DEF setProposals, work
  <2>2. StatusIsTrue'
    BY <1>1, <1>3, <2>1 DEF IInv, StatusIsTrue, IsTrue
  <2> QED
    BY <1>1, <1>2, <1>3, <2>1, <2>2, StatementsStay, VersionsStay DEF IInv
<1>6. CASE startMonitors
  <2>1. UNCHANGED <<store, statements>>
    BY <1>6 DEF startMonitors
  <2>2. \A m \in monitors' : m \in monitors \/ \E p \in Proposal : m.p = p /\ m.entry = Head(answers).rows[p]
    BY <1>6 DEF startMonitors, Monitor
  <2>3. \A m \in monitors' : IsTrue(m.p, m.entry)
    BY <1>3, <2>2 DEF IInv, VersionsAreTrue
  <2>4. VersionsAreTrue'
    BY <1>1, <2>3 DEF IInv, VersionsAreTrue, IsTrue
  <2> QED
    BY <1>1, <1>2, <1>3, <2>1, <2>4, StatusStays, StatementsStay DEF IInv
<1> QED
  BY <1>4, <1>5, <1>6 DEF Answering

LEMMA MonitoringTrue == TypeOK /\ IInv /\ Monitoring => IInv'
<1> SUFFICES ASSUME TypeOK, IInv, NEW m \in monitors, NEW status \in Settled, Settle(m, status),
                    Holds(chain[m.p], status)
             PROVE  IInv'
  BY DEF Monitoring, WaitReturns, WaitThrows, Settled, Holds
<1>1. m.p \in Proposal /\ m.entry \in Entry
  BY DEF TypeOK, MonitorType
<1> DEFINE s == UpdateAndLoad(m.p, [m.entry EXCEPT !.status = status])
<1>2. s \in StatementType /\ s.p = m.p /\ s.entry.status = status
  <2>1. [m.entry EXCEPT !.status = status] \in Entry /\ [m.entry EXCEPT !.status = status].status = status
    BY <1>1, EntryExcept DEF Status
  <2> QED
    BY <1>1, <2>1, UpdateType DEF UpdateAndLoad, Update
<1>3. UNCHANGED <<chain, table, store, answers, loads, submissions>> /\ Issue(s) /\ monitors' \subseteq monitors
  BY DEF Settle, network
<1>4. ChainMovesOn
  BY <1>3 DEF ChainMovesOn
<1>5. StatementsAreTrue'
  BY <1>2, <1>3, <1>4, IssueTrue
<1> QED
  BY <1>3, <1>4, <1>5, StatusStays, AnswersStay, VersionsStay DEF IInv

LEMMA LoadingTrue == TypeOK /\ IInv /\ Loading => IInv'
<1> SUFFICES ASSUME TypeOK, IInv, NEW l \in loads, HandleSignatureFiles(l) \/ RefuseSignature(l)
             PROVE  IInv'
  BY DEF Loading
<1>1. UNCHANGED <<chain, table, answers, submissions, monitors>> /\ loads' \subseteq loads
  BY DEF HandleSignatureFiles, RefuseSignature, network, database
<1>2. ChainMovesOn
  BY <1>1 DEF ChainMovesOn
<1>3. CASE RefuseSignature(l)
  BY <1>1, <1>2, <1>3, StatusStays, StatementsStay, AnswersStay, VersionsStay
     DEF IInv, RefuseSignature, database
<1>4. CASE HandleSignatureFiles(l)
  <2>1. l.p \in Proposal /\ l.entry \in Entry /\ l.sig \in Credential
    BY DEF TypeOK, LoadType
  <2> DEFINE entry == [l.entry EXCEPT !.sigs = @ \union {l.sig}]
  <2>2. entry \in Entry /\ entry.status = l.entry.status
    <3>1. l.entry.sigs \union {l.sig} \in SUBSET Credential
      BY <2>1 DEF Entry
    <3> QED
      BY <2>1, <3>1, EntryExcept
  <2>3. Holds(chain'[l.p], entry.status)
    BY <1>1, <2>2 DEF IInv, VersionsAreTrue, IsTrue
  <2>4. updateCurrentProposal(l.p, entry)
    BY <1>4 DEF HandleSignatureFiles
  <2>5. StatusIsTrue' /\ StatementsAreTrue'
    BY <1>1, <1>2, <2>1, <2>2, <2>3, <2>4, CurrentTrue
  <2> QED
    BY <1>1, <1>2, <2>5, AnswersStay, VersionsStay DEF IInv
<1> QED
  BY <1>3, <1>4

LEMMA SubmittingTrue == TypeOK /\ IInv /\ Submitting => IInv'
<1> SUFFICES ASSUME TypeOK, IInv, NEW s \in submissions,
                    \/ begin(s) \/ Unmounted(s)
                    \/ NonceIsNext(s) \/ NonceIsUsed(s) \/ NonceIsAhead(s)
                    \/ SendReturns(s) \/ SendThrows(s)
             PROVE  IInv'
  BY DEF Submitting
<1>1. s \in SubmissionType /\ s.p \in Proposal /\ s.entry \in Entry
  BY DEF TypeOK, SubmissionType
<1>2. ChainMovesOn
  BY DEF TypeOK, ChainMovesOn, network, Acceptable,
     begin, Unmounted, NonceIsNext, NonceIsUsed, NonceIsAhead, SendReturns, SendThrows
<1>3. UNCHANGED <<table, answers, loads>>
  BY DEF database, begin, Unmounted, NonceIsNext, NonceIsUsed, NonceIsAhead, SendReturns, SendThrows
<1>4. \A pc \in {"nonce", "sending"} : [s EXCEPT !.pc = pc].p = s.p /\ [s EXCEPT !.pc = pc].entry = s.entry
  BY <1>1 DEF SubmissionType
<1>5. \A q \in submissions' : \E r \in submissions : q.p = r.p /\ q.entry = r.entry
  BY <1>4 DEF Moved, Ended, begin, Unmounted, NonceIsNext, NonceIsUsed, NonceIsAhead, SendReturns, SendThrows
<1>6. CASE begin(s) \/ Unmounted(s) \/ NonceIsNext(s) \/ NonceIsAhead(s) \/ SendThrows(s)
  <2>1. UNCHANGED <<store, statements, monitors>>
    BY <1>6 DEF database, begin, Unmounted, NonceIsNext, NonceIsAhead, SendThrows
  <2> QED
    BY <1>2, <1>3, <1>5, <2>1, StatusStays, StatementsStay, AnswersStay, VersionsStay DEF IInv
<1>7. CASE NonceIsUsed(s)
  <2> DEFINE entry == [s.entry EXCEPT !.status = "Closed"]
  <2>1. entry \in Entry /\ entry.status = "Closed"
    BY <1>1, EntryExcept DEF Status
  <2>2. Holds(chain'[s.p], entry.status)
    BY <2>1 DEF Holds
  <2>3. updateCurrentProposal(s.p, entry) /\ UNCHANGED monitors
    BY <1>7 DEF NonceIsUsed
  <2>4. StatusIsTrue' /\ StatementsAreTrue'
    BY <1>1, <1>2, <1>3, <2>1, <2>2, <2>3, CurrentTrue
  <2> QED
    BY <1>2, <1>3, <1>5, <2>3, <2>4, AnswersStay, VersionsStay DEF IInv
<1>8. CASE SendReturns(s)
  <2> DEFINE entry == [s.entry EXCEPT !.status = "Submitted"]
  <2>1. entry \in Entry /\ entry.status = "Submitted"
    BY <1>1, EntryExcept DEF Status
  <2>2. chain'[s.p] = "received"
    BY <1>1, <1>8 DEF SendReturns, TypeOK
  <2>3. Holds(chain'[s.p], entry.status)
    BY <2>1, <2>2 DEF Holds
  <2>4. updateCurrentProposal(s.p, entry)
    BY <1>8 DEF SendReturns
  <2>5. StatusIsTrue' /\ StatementsAreTrue'
    BY <1>1, <1>2, <1>3, <2>1, <2>3, <2>4, CurrentTrue
  <2>6. VersionsAreTrue'
    <3>1. \A l \in loads' : IsTrue(l.p, l.entry)'
      BY <1>2, <1>3, TruthStays DEF TypeOK, LoadType, IInv, VersionsAreTrue, IsTrue
    <3>2. \A q \in submissions : Holds(chain'[q.p], q.entry.status)
      BY <1>2, TruthStays DEF TypeOK, SubmissionType, IInv, VersionsAreTrue, IsTrue
    <3>3. \A q \in submissions' : IsTrue(q.p, q.entry)'
      BY <1>5, <3>2 DEF IsTrue
    <3>4. \A m \in monitors : Holds(chain'[m.p], m.entry.status)
      BY <1>2, TruthStays DEF TypeOK, MonitorType, IInv, VersionsAreTrue, IsTrue
    <3>5. \A m \in monitors' : m \in monitors \/ (m.p = s.p /\ m.entry = entry)
      BY <1>8 DEF SendReturns, Monitor
    <3>6. \A m \in monitors' : IsTrue(m.p, m.entry)'
      BY <2>3, <3>4, <3>5 DEF IsTrue
    <3> QED
      BY <3>1, <3>3, <3>6 DEF VersionsAreTrue
  <2> QED
    BY <1>2, <1>3, <2>5, <2>6, AnswersStay DEF IInv
<1> QED
  BY <1>6, <1>7, <1>8

LEMMA ExpiringTrue == TypeOK /\ IInv /\ Expiring => IInv'
<1> SUFFICES ASSUME TypeOK, IInv, NEW p \in Proposal, expire(p) PROVE IInv'
  BY DEF Expiring
<1>1. UNCHANGED <<chain, table, answers, loads, submissions, monitors>>
  BY DEF expire, network, work
<1>2. ChainMovesOn
  BY <1>1 DEF ChainMovesOn
<1>3. Expire(store[p]) \in Entry /\ Expire(store[p]).status = "Expired"
  BY EntryExcept DEF TypeOK, Rows, Expire, Status
<1>4. StatusIsTrue' /\ StatementsAreTrue'
  <2>1. Holds(chain'[p], Expire(store[p]).status)
    BY <1>3 DEF Holds
  <2> QED
    BY <1>1, <1>2, <1>3, <2>1, CurrentTrue DEF expire
<1> QED
  BY <1>1, <1>2, <1>4, AnswersStay, VersionsStay DEF IInv

\* The statements of a page that is opened are true.
LEMMA OpenedTrue ==
  ASSUME TypeOK, IInv, UNCHANGED chain, NEW p \in Proposal, NEW entry \in Entry,
         Opened(p, entry), IsTrue(p, entry)
  PROVE  StatementsAreTrue'
<1>1. ChainMovesOn
  BY DEF ChainMovesOn
<1> DEFINE s == Update(p, entry)
           x == Update(p, Expire(entry))
<1>2. s \in StatementType /\ s.p = p /\ Holds(chain'[s.p], s.entry.status)
  BY UpdateType DEF Update, IsTrue
<1>3. CASE statements' = Append(statements, s)
  BY <1>1, <1>2, <1>3, IssueTrue DEF Issue
<1>4. CASE statements' = statements \o <<x, s>>
  <2>1. Expire(entry).status = "Expired"
    BY EntryExcept DEF Expire, Status
  <2>2. x.p = p /\ Holds(chain'[p], x.entry.status)
    BY <2>1 DEF Update, Holds
  <2>3. Len(statements) \in Nat
    BY LenProperties DEF TypeOK
  <2>4. /\ Len(statements') = Len(statements) + 2
        /\ \A i \in 1 .. Len(statements) : statements'[i] = statements[i]
        /\ statements'[Len(statements) + 1] = x
        /\ statements'[Len(statements) + 2] = s
    <3>1. <<x, s>> \in Seq(StatementType)
      BY EntryExcept, UpdateType
    <3>2. statements \in Seq(StatementType)
      BY DEF TypeOK
    <3> HIDE DEF x, s
    <3> QED
      BY <1>4, <3>1, <3>2, <2>3, ConcatProperties
  <2>5. \A i \in 1 .. Len(statements') :
          i \in 1 .. Len(statements) \/ i = Len(statements) + 1 \/ i = Len(statements) + 2
    BY <2>3, <2>4
  <2> HIDE DEF x, s
  <2> QED
    BY <1>2, <2>2, <2>4, <2>5 DEF IInv, StatementsAreTrue, IsTrue
<1> QED
  BY <1>3, <1>4 DEF Opened

LEMMA StartTrue ==
  ASSUME TypeOK, IInv, ChainMovesOn, startClient
  PROVE  StatementsAreTrue'
<1>1. Query("listen", connections') \in StatementType /\ Query("listen", connections').p = "none"
  BY StartType, QueryType DEF Then, Query
<1> QED
  BY <1>1, IssueTrue DEF startClient

LEMMA UserTrue == TypeOK /\ IInv /\ User => IInv'
<1> SUFFICES ASSUME TypeOK, IInv, User PROVE IInv'
  OBVIOUS
<1>1. UNCHANGED <<chain, answers, monitors>>
  BY DEF User, addProposal, OpenProposal, dropFile, closeProposal, submitTransaction, Leave, ChangeConnection,
     network, database, work
<1>2. ChainMovesOn
  BY <1>1 DEF ChainMovesOn
<1>3. page.view = "proposal" => page.p \in Proposal /\ store[page.p] \in Entry
  BY DEF TypeOK, PageType, Rows
<1>4. ASSUME NEW p \in Proposal, addProposal(p) PROVE IInv'
  <2>1. PICK sigs \in SUBSET Credential :
          LET entry == [status |-> "Open", sigs |-> sigs] IN
            /\ table' = [table EXCEPT ![p] = entry]
            /\ store' = [store EXCEPT ![p] = entry]
            /\ Opened(p, entry)
    BY <1>4 DEF addProposal
  <2> DEFINE entry == [status |-> "Open", sigs |-> sigs]
  <2>2. entry \in Entry /\ IsTrue(p, entry)
    BY DEF Entry, Status, IsTrue, Holds
  <2>3. \A q \in Proposal : /\ table'[q] = IF q = p THEN entry ELSE table[q]
                           /\ store'[q] = IF q = p THEN entry ELSE store[q]
    BY <2>1 DEF TypeOK, Rows
  <2> HIDE DEF entry
  <2>4. StatusIsTrue'
    BY <1>1, <2>2, <2>3 DEF IInv, StatusIsTrue, IsTrue
  <2>5. StatementsAreTrue'
    BY <1>1, <2>1, <2>2, OpenedTrue DEF entry
  <2>6. UNCHANGED <<loads, submissions>>
    BY <1>4 DEF addProposal, work
  <2> QED
    BY <1>1, <1>2, <2>4, <2>5, <2>6, AnswersStay, VersionsStay DEF IInv
<1>5. ASSUME NEW p \in Proposal, OpenProposal(p) PROVE IInv'
  <2>1. UNCHANGED <<table, store, loads, submissions>>
    BY <1>5 DEF OpenProposal, work
  <2>2. store[p] \in Entry /\ IsTrue(p, store[p])
    BY DEF TypeOK, Rows, IInv, StatusIsTrue
  <2>3. StatementsAreTrue'
    BY <1>1, <1>5, <2>2, OpenedTrue DEF OpenProposal
  <2> QED
    BY <1>1, <1>2, <2>1, <2>3, StatusStays, AnswersStay, VersionsStay DEF IInv
<1>6. CASE dropFile
  <2>1. UNCHANGED <<table, store, statements, submissions>>
    BY <1>6 DEF dropFile, database
  <2>2. \A l \in loads' : l \in loads \/ (l.p = page.p /\ l.entry = store[page.p])
    BY <1>6 DEF dropFile
  <2>3. IsTrue(page.p, store[page.p])
    BY <1>3, <1>6 DEF dropFile, IInv, StatusIsTrue
  <2>4. \A l \in loads' : IsTrue(l.p, l.entry)
    BY <2>2, <2>3 DEF IInv, VersionsAreTrue
  <2>5. VersionsAreTrue'
    BY <1>1, <2>1, <2>4 DEF IInv, VersionsAreTrue, IsTrue
  <2> QED
    BY <1>1, <1>2, <2>1, <2>5, StatusStays, StatementsStay, AnswersStay DEF IInv
<1>7. CASE closeProposal
  <2> DEFINE entry == [store[page.p] EXCEPT !.status = "Closed"]
  <2>1. page.p \in Proposal /\ entry \in Entry /\ entry.status = "Closed"
    BY <1>3, <1>7, EntryExcept DEF closeProposal, Status
  <2>2. Holds(chain'[page.p], entry.status)
    BY <2>1 DEF Holds
  <2>3. updateCurrentProposal(page.p, entry) /\ UNCHANGED <<table, loads, submissions>>
    BY <1>7 DEF closeProposal, work
  <2>4. StatusIsTrue' /\ StatementsAreTrue'
    BY <1>2, <2>1, <2>2, <2>3, CurrentTrue
  <2> QED
    BY <1>1, <1>2, <2>3, <2>4, AnswersStay, VersionsStay DEF IInv
<1>8. CASE submitTransaction
  <2>1. UNCHANGED <<table, store, statements, loads>>
    BY <1>8 DEF submitTransaction, database
  <2>2. \A s \in submissions' : s \in submissions \/ (s.p = page.p /\ s.entry = store[page.p])
    BY <1>8 DEF submitTransaction
  <2>3. IsTrue(page.p, store[page.p])
    BY <1>3, <1>8 DEF submitTransaction, IInv, StatusIsTrue
  <2>4. \A s \in submissions' : IsTrue(s.p, s.entry)
    BY <2>2, <2>3 DEF IInv, VersionsAreTrue
  <2>5. VersionsAreTrue'
    BY <1>1, <2>1, <2>4 DEF IInv, VersionsAreTrue, IsTrue
  <2> QED
    BY <1>1, <1>2, <2>1, <2>5, StatusStays, StatementsStay, AnswersStay DEF IInv
<1>9. CASE Leave
  <2>1. UNCHANGED <<table, store, statements, loads, submissions>>
    BY <1>9 DEF Leave, database, work
  <2> QED
    BY <1>1, <1>2, <2>1, StatusStays, StatementsStay, AnswersStay, VersionsStay DEF IInv
<1>10. CASE ChangeConnection
  <2>1. UNCHANGED <<table, store, loads, submissions>>
    BY <1>10 DEF ChangeConnection, work
  <2>2. StatementsAreTrue'
    BY <1>2, <1>10, StartTrue DEF ChangeConnection
  <2> QED
    BY <1>1, <1>2, <2>1, <2>2, StatusStays, AnswersStay, VersionsStay DEF IInv
<1> QED
  BY <1>4, <1>5, <1>6, <1>7, <1>8, <1>9, <1>10 DEF User

LEMMA SessionTrue == TypeOK /\ IInv /\ (Unlock \/ Stop) => IInv'
<1> SUFFICES ASSUME TypeOK, IInv, Unlock \/ Stop PROVE IInv'
  OBVIOUS
<1>1. CASE Unlock
  <2>1. UNCHANGED <<chain, table, answers, loads, submissions, monitors>> /\ store' = table
    BY <1>1 DEF Unlock, network, work
  <2>2. ChainMovesOn
    BY <2>1 DEF ChainMovesOn
  <2>3. StatementsAreTrue'
    BY <1>1, <2>2, StartTrue DEF Unlock
  <2>4. StatusIsTrue'
    BY <2>1 DEF IInv, StatusIsTrue, IsTrue
  <2> QED
    BY <2>1, <2>2, <2>3, <2>4, AnswersStay, VersionsStay DEF IInv
<1>2. CASE Stop
  <2>1. \A p \in Proposal : NoRows[p].status = "none"
    BY DEF NoRows, Absent
  <2>2. StatusIsTrue'
    BY <1>2, <2>1 DEF Stop, network, IInv, StatusIsTrue, IsTrue, Holds
  <2> QED
    BY <1>2, <2>2 DEF Stop, IInv, StatementsAreTrue, AnswersAreTrue, VersionsAreTrue
<1> QED
  BY <1>1, <1>2

LEMMA NextTrue == TypeOK /\ IInv /\ [Next]_vars => IInv'
<1> SUFFICES ASSUME TypeOK, IInv, [Next]_vars PROVE IInv'
  OBVIOUS
<1>1. CASE UNCHANGED vars
  BY <1>1 DEF vars, network, database, work,
     IInv, StatusIsTrue, StatementsAreTrue, AnswersAreTrue, VersionsAreTrue, IsTrue
<1> QED
  BY <1>1, NetworkTrue, ExecuteTrue, AnsweringTrue, MonitoringTrue, LoadingTrue,
     SubmittingTrue, ExpiringTrue, UserTrue, SessionTrue DEF Next

\* However many pages, files, submissions, monitors and loads write back the
\* versions they have had in hand, a proposal that is shown or recorded as
\* finalized, failed or submitted is so on the chain.
THEOREM StatusIsAlwaysTrue == Spec => []StatusIsTrue
<1>1. Init => IInv
  BY InitTrue
<1>2. TypeOK /\ IInv /\ [Next]_vars => IInv'
  BY NextTrue
<1>3. IInv => StatusIsTrue
  BY DEF IInv
<1> QED
  BY <1>1, <1>2, <1>3, TypeCorrect, PTL DEF Spec

-----------------------------------------------------------------------------
(* What becomes of the versions of a proposal. *)

\* A file and a submission were given an open proposal, a monitor a submitted
\* one.
InHandIsRight ==
  /\ \A l \in loads : l.entry.status = "Open"
  /\ \A s \in submissions : s.entry.status = "Open"
  /\ \A m \in monitors : m.entry.status = "Submitted"

LockedIsIdle ==
  ~running =>
    /\ statements = <<>> /\ answers = <<>>
    /\ loads = {} /\ submissions = {} /\ monitors = {}

\* The versions of p that a step may make out of the version v.
Made(p, v, w) ==
  \/ v = Absent /\ w.status \in {"Open", "Expired"}
  \/ v.status = "Open" /\ w.status \in {"Open", "Expired", "Closed"} /\ v.sigs \subseteq w.sigs
  \/ /\ v.status = "Open" /\ w.status = "Submitted" /\ w.sigs = v.sigs
     /\ Cardinality(w.sigs) >= Threshold
     /\ \E m \in monitors' : m.p = p
  \/ /\ v.status = "Submitted" /\ w.status \in Settled /\ w.sigs = v.sigs
     /\ \E m \in monitors : m.p = p

\* A version there was, or one made from it.
Comes(p, w) == w \in Versions(p) \/ \E v \in Versions(p) : Made(p, v, w)

\* An appended statement and a statement that has been executed, in terms of
\* positions.
LEMMA AppendParts ==
  ASSUME NEW S, NEW seq \in Seq(S), NEW e \in S
  PROVE  /\ Len(seq) \in Nat
         /\ Append(seq, e) # <<>>
         /\ Len(Append(seq, e)) = Len(seq) + 1
         /\ \A i \in 1 .. Len(seq) : Append(seq, e)[i] = seq[i]
         /\ Append(seq, e)[Len(seq) + 1] = e
BY AppendProperties, LenProperties

LEMMA TailParts ==
  ASSUME NEW S, NEW seq \in Seq(S), seq # <<>>
  PROVE  /\ Len(seq) \in Nat \ {0}
         /\ Head(seq) = seq[1] /\ Head(seq) \in S
         /\ Len(Tail(seq)) = Len(seq) - 1
         /\ \A i \in 1 .. Len(seq) - 1 : Tail(seq)[i] = seq[i + 1]
BY HeadTailProperties, LenProperties, EmptySeq

LEMMA Positions ==
  ASSUME TypeOK
  PROVE  /\ Len(statements) \in Nat /\ Len(answers) \in Nat
         /\ \A i \in 1 .. Len(statements) : statements[i] \in StatementType
         /\ \A i \in 1 .. Len(answers) : answers[i] \in AnswerType
<1>1. statements \in Seq(StatementType) /\ answers \in Seq(AnswerType)
  BY DEF TypeOK
<1> HIDE DEF StatementType, AnswerType
<1> QED
  BY <1>1, LenProperties, ElementOfSeq

LEMMA Issued ==
  ASSUME TypeOK, NEW s \in StatementType, Issue(s)
  PROVE  /\ Len(statements) \in Nat
         /\ Len(statements') = Len(statements) + 1
         /\ \A i \in 1 .. Len(statements) : statements'[i] = statements[i]
         /\ statements'[Len(statements) + 1] = s
         /\ 1 .. Len(statements') = 1 .. Len(statements) \union {Len(statements) + 1}
<1>1. /\ Len(statements) \in Nat
      /\ Len(statements') = Len(statements) + 1
      /\ \A i \in 1 .. Len(statements) : statements'[i] = statements[i]
      /\ statements'[Len(statements) + 1] = s
  <2>1. statements \in Seq(StatementType) /\ statements' = Append(statements, s)
    BY DEF TypeOK, Issue
  <2> HIDE DEF StatementType
  <2> QED
    BY <2>1, AppendParts
<1> QED
  BY <1>1

\* The oldest statement is executed.
LEMMA Executed ==
  ASSUME TypeOK, execute
  PROVE  /\ Len(statements) \in Nat \ {0}
         /\ Head(statements) = statements[1] /\ statements[1] \in StatementType
         /\ Len(statements') = Len(statements) - 1
         /\ \A i \in 1 .. Len(statements') : i + 1 \in 1 .. Len(statements) /\ statements'[i] = statements[i + 1]
         /\ \A i \in 1 .. Len(statements) : i = 1 \/ (i - 1 \in 1 .. Len(statements') /\ statements'[i - 1] = statements[i])
<1>1. /\ Len(statements) \in Nat \ {0}
      /\ Head(statements) = statements[1] /\ statements[1] \in StatementType
      /\ Len(statements') = Len(statements) - 1
      /\ \A i \in 1 .. Len(statements) - 1 : statements'[i] = statements[i + 1]
  <2>1. statements \in Seq(StatementType) /\ statements # <<>> /\ statements' = Tail(statements)
    BY DEF TypeOK, execute
  <2> HIDE DEF StatementType
  <2> QED
    BY <2>1, TailParts
<1>2. /\ \A i \in 1 .. Len(statements') : i + 1 \in 1 .. Len(statements) /\ statements'[i] = statements[i + 1]
      /\ \A i \in 1 .. Len(statements) : i = 1 \/ (i - 1 \in 1 .. Len(statements') /\ statements'[i - 1] = statements[i])
  BY <1>1
<1> QED
  BY <1>1, <1>2

\* The oldest answer is taken.
LEMMA Taken ==
  ASSUME TypeOK, NEW then, Answered(then)
  PROVE  /\ Len(answers) \in Nat \ {0}
         /\ answers # <<>>
         /\ Head(answers) = answers[1] /\ answers[1] \in AnswerType /\ answers[1].then = then
         /\ Len(answers') = Len(answers) - 1
         /\ \A i \in 1 .. Len(answers') : i + 1 \in 1 .. Len(answers) /\ answers'[i] = answers[i + 1]
         /\ \A i \in 1 .. Len(answers) : i = 1 \/ (i - 1 \in 1 .. Len(answers') /\ answers'[i - 1] = answers[i])
<1>1. /\ Len(answers) \in Nat \ {0}
      /\ Head(answers) = answers[1] /\ answers[1] \in AnswerType
      /\ Len(answers') = Len(answers) - 1
      /\ \A i \in 1 .. Len(answers) - 1 : answers'[i] = answers[i + 1]
  <2>1. answers \in Seq(AnswerType) /\ answers # <<>> /\ answers' = Tail(answers)
    BY DEF TypeOK, Answered
  <2> HIDE DEF AnswerType
  <2> QED
    BY <2>1, TailParts
<1> QED
  BY <1>1 DEF Answered

\* What a statement that was executed does to the answers.
LEMMA ExecutedAnswers ==
  ASSUME TypeOK, execute
  PROVE  /\ Len(answers) \in Nat
         /\ Len(answers') \in {Len(answers), Len(answers) + 1}
         /\ Len(answers') = Len(answers) <=> statements[1].then = "nothing"
         /\ \A i \in 1 .. Len(answers) : answers'[i] = answers[i]
         /\ statements[1].then # "nothing" =>
              /\ answers'[Len(answers) + 1].then = statements[1].then
              /\ statements[1].then \in SelectAll => answers'[Len(answers) + 1].rows = table
<1>0. Head(statements) = statements[1]
  BY Executed
<1>1. Len(answers) \in Nat
  BY Positions
<1>2. CASE statements[1].then = "nothing"
  BY <1>0, <1>1, <1>2 DEF execute
<1>3. CASE statements[1].then # "nothing"
  <2>1. answers' = Append(answers, Answer(statements[1]))
    BY <1>0, <1>3 DEF execute
  <2>2. answers \in Seq(AnswerType) /\ answers' \in Seq(AnswerType)
    BY ExecuteType DEF TypeOK
  <2> DEFINE a == Answer(statements[1])
  <2>3. /\ Len(answers') = Len(answers) + 1
        /\ \A i \in 1 .. Len(answers) : answers'[i] = answers[i]
        /\ answers'[Len(answers) + 1] = a
    <3>1. statements[1] \in StatementType
      BY Executed
    <3>2. a \in AnswerType
      <4>1. NoRows \in Rows
        BY DEF NoRows, Rows, Entry, Absent
      <4> QED
        BY <3>1, <4>1 DEF TypeOK, Answer, StatementType, AnswerType
    <3> HIDE DEF a, AnswerType
    <3> QED
      BY <2>1, <2>2, <3>2, AppendParts DEF a
  <2>4. a.then = statements[1].then /\ (statements[1].then \in SelectAll => a.rows = table)
    BY DEF Answer
  <2> HIDE DEF a
  <2> QED
    BY <1>1, <1>3, <2>3, <2>4
<1> QED
  BY <1>2, <1>3

\* Every version there is is one.
LEMMA Old ==
  ASSUME NEW p \in Proposal
  PROVE  /\ Comes(p, table[p])
         /\ running => Comes(p, store[p])
         /\ \A i \in 1 .. Len(statements) : statements[i].p = p => Comes(p, statements[i].entry)
         /\ \A i \in 1 .. Len(answers) : answers[i].then \in SelectAll => Comes(p, answers[i].rows[p])
         /\ \A v \in loads \union submissions \union monitors : v.p = p => Comes(p, v.entry)
BY DEF Comes, Versions, Writes

\* ... and these are all of the next state.
LEMMA Parts ==
  ASSUME NEW p \in Proposal,
         Comes(p, table'[p]),
         running' => Comes(p, store'[p]),
         \A i \in 1 .. Len(statements') : statements'[i].p = p => Comes(p, statements'[i].entry),
         \A i \in 1 .. Len(answers') : answers'[i].then \in SelectAll => Comes(p, answers'[i].rows[p]),
         \A v \in loads' \union submissions' \union monitors' : v.p = p => Comes(p, v.entry)
  PROVE  \A w \in Versions(p)' : Comes(p, w)
BY DEF Versions, Writes

\* What is made of a version comes of it.
LEMMA MadeComes ==
  ASSUME NEW p, NEW v \in Versions(p), NEW w, Made(p, v, w)
  PROVE  Comes(p, w)
BY DEF Comes

LEMMA IssuedComes ==
  ASSUME TypeOK, NEW s \in StatementType, Issue(s), NEW p \in Proposal,
         s.p = p => Comes(p, s.entry)
  PROVE  \A i \in 1 .. Len(statements') : statements'[i].p = p => Comes(p, statements'[i].entry)
BY Issued, Old

LEMMA TakenComes ==
  ASSUME TypeOK, NEW then, Answered(then), NEW p \in Proposal
  PROVE  \A i \in 1 .. Len(answers') : answers'[i].then \in SelectAll => Comes(p, answers'[i].rows[p])
BY Taken, Old

\* A proposal is replaced, in the store and in the database.
LEMMA CurrentComes ==
  ASSUME TypeOK, running, NEW q \in Proposal, NEW entry \in Entry, updateCurrentProposal(q, entry),
         Comes(q, entry), UNCHANGED <<table, answers>>,
         loads' \subseteq loads, submissions' \subseteq submissions,
         \A m \in monitors' : m \in monitors \/ (m.p = q /\ m.entry = entry),
         NEW p \in Proposal
  PROVE  \A w \in Versions(p)' : Comes(p, w)
<1> DEFINE s == Update(q, entry)
<1>1. s \in StatementType /\ Issue(s) /\ s.p = q /\ s.entry = entry
  BY UpdateType DEF updateCurrentProposal, Update
<1>2. store'[p] = IF p = q THEN entry ELSE store[p]
  BY DEF updateCurrentProposal, TypeOK, Rows
<1> HIDE DEF s
<1>3. \A i \in 1 .. Len(statements') : statements'[i].p = p => Comes(p, statements'[i].entry)
  BY <1>1, IssuedComes
<1>4. \A v \in loads' \union submissions' \union monitors' : v.p = p => Comes(p, v.entry)
  BY Old
<1> QED
  BY <1>2, <1>3, <1>4, Old, Parts

LEMMA ExecuteComes ==
  ASSUME TypeOK, execute, NEW p \in Proposal
  PROVE  \A w \in Versions(p)' : Comes(p, w)
<1>1. /\ Head(statements) = statements[1] /\ statements[1] \in StatementType
      /\ 1 \in 1 .. Len(statements)
      /\ \A i \in 1 .. Len(statements') : i + 1 \in 1 .. Len(statements) /\ statements'[i] = statements[i + 1]
  BY Executed
<1>2. Comes(p, table'[p])
  <2>1. table'[p] = table[p] \/ (statements[1].p = p /\ table'[p] = statements[1].entry)
    BY <1>1 DEF execute, TypeOK, Rows
  <2> QED
    BY <1>1, <2>1, Old
<1>3. \A i \in 1 .. Len(statements') : statements'[i].p = p => Comes(p, statements'[i].entry)
  BY <1>1, Old
<1>4. \A i \in 1 .. Len(answers') : answers'[i].then \in SelectAll => Comes(p, answers'[i].rows[p])
  <2>1. \A i \in 1 .. Len(answers') :
          \/ i \in 1 .. Len(answers) /\ answers'[i] = answers[i]
          \/ answers'[i].then \in SelectAll => answers'[i].rows = table
    BY ExecutedAnswers
  <2> QED
    BY <2>1, Old
<1>5. UNCHANGED <<store, session, loads, submissions, monitors>>
  BY DEF execute, work
<1>6. running' => running
  BY <1>5 DEF running
<1> QED
  BY <1>2, <1>3, <1>4, <1>5, <1>6, Old, Parts

LEMMA AnsweringComes ==
  ASSUME TypeOK, LockedIsIdle, Answering, NEW p \in Proposal
  PROVE  \A w \in Versions(p)' : Comes(p, w)
<1>1. PICK then : Answered(then)
  BY DEF Answering, loadProposals, setProposals, listenForTransactionStatus, startMonitors
<1>2. \A i \in 1 .. Len(answers') : answers'[i].then \in SelectAll => Comes(p, answers'[i].rows[p])
  BY <1>1, TakenComes
<1>3. running /\ UNCHANGED <<table, session, loads, submissions>>
  BY <1>1 DEF Answering, loadProposals, setProposals, listenForTransactionStatus, startMonitors, Answered,
     work, LockedIsIdle
<1>4. \A i \in 1 .. Len(statements') : statements'[i].p = p => Comes(p, statements'[i].entry)
  <2>1. CASE UNCHANGED statements
    BY <2>1, Old
  <2>2. ASSUME NEW words \in SelectAll, NEW call \in 0 .. MaxConnections, Issue(Query(words, call))
        PROVE  \A i \in 1 .. Len(statements') : statements'[i].p = p => Comes(p, statements'[i].entry)
    <3> DEFINE s == Query(words, call)
    <3>1. s \in StatementType /\ Issue(s) /\ s.p # p
      BY <2>2, QueryType, ProposalAssumption DEF Then, Query
    <3> HIDE DEF s
    <3> QED
      BY <3>1, IssuedComes
  <2>3. \/ UNCHANGED statements
        \/ \E words \in SelectAll : \E call \in 0 .. MaxConnections : Issue(Query(words, call))
    <3>1. CASE loadProposals
      BY <3>1, BoundAssumption DEF loadProposals, SelectAll
    <3>2. CASE listenForTransactionStatus
      <4>1. Head(answers).call \in 0 .. MaxConnections
        BY <3>2, Taken DEF listenForTransactionStatus, AnswerType
      <4> QED
        BY <3>2, <4>1 DEF listenForTransactionStatus, SelectAll
    <3> QED
      BY <3>1, <3>2 DEF Answering, setProposals, startMonitors
  <2> QED
    BY <2>1, <2>2, <2>3
<1>5. Comes(p, store'[p])
  <2>1. CASE setProposals
    <3>1. answers[1].then = "setProposals" /\ Head(answers) = answers[1] /\ 1 \in 1 .. Len(answers)
      BY <2>1, Taken DEF setProposals
    <3> QED
      BY <2>1, <3>1, Old DEF setProposals, SelectAll
  <2>2. CASE UNCHANGED store
    BY <1>3, <2>2, Old
  <2> QED
    BY <2>1, <2>2 DEF Answering, loadProposals, listenForTransactionStatus, startMonitors
<1>6. \A m \in monitors' : m.p = p => Comes(p, m.entry)
  <2>1. CASE startMonitors
    <3>1. /\ answers[1].then = "startMonitors" /\ Head(answers) = answers[1] /\ 1 \in 1 .. Len(answers)
      BY <2>1, Taken DEF startMonitors
    <3>2. \A m \in monitors' : m \in monitors \/ m.entry = answers[1].rows[m.p]
      BY <2>1, <3>1 DEF startMonitors, Monitor
    <3> QED
      BY <3>1, <3>2, Old DEF SelectAll
  <2>2. CASE UNCHANGED monitors
    BY <2>2, Old
  <2> QED
    BY <2>1, <2>2 DEF Answering, loadProposals, listenForTransactionStatus, setProposals, work
<1> QED
  BY <1>2, <1>3, <1>4, <1>5, <1>6, Old, Parts

LEMMA MonitoringComes ==
  ASSUME TypeOK, InHandIsRight, Monitoring, NEW p \in Proposal
  PROVE  \A w \in Versions(p)' : Comes(p, w)
<1>1. PICK m \in monitors, status \in Settled : Settle(m, status)
  BY DEF Monitoring, WaitReturns, WaitThrows, Settled
<1> DEFINE entry == [m.entry EXCEPT !.status = status]
           s == UpdateAndLoad(m.p, entry)
<1>2. m.p \in Proposal /\ m.entry \in Entry /\ m.entry.status = "Submitted"
  BY DEF TypeOK, MonitorType, InHandIsRight
<1>3. entry \in Entry /\ entry.status = status /\ entry.sigs = m.entry.sigs
  BY <1>2 DEF Entry, Settled, Status
<1>4. m.p = p => Comes(p, entry)
  <2>1. ASSUME m.p = p PROVE m.entry \in Versions(p) /\ Made(p, m.entry, entry)
    BY <1>2, <1>3, <2>1 DEF Versions, Made
  <2> HIDE DEF entry
  <2> QED
    BY <2>1, MadeComes
<1>5. s \in StatementType /\ Issue(s) /\ s.p = m.p /\ s.entry = entry
  <2>1. Issue(s) /\ s.p = m.p /\ s.entry = entry
    BY <1>1 DEF Settle, UpdateAndLoad, Update
  <2> HIDE DEF entry
  <2> QED
    BY <1>2, <1>3, <2>1, UpdateType
<1> HIDE DEF s, entry
<1>6. \A i \in 1 .. Len(statements') : statements'[i].p = p => Comes(p, statements'[i].entry)
  BY <1>4, <1>5, IssuedComes
<1>7. UNCHANGED <<table, answers, store, session, loads, submissions>> /\ monitors' \subseteq monitors
  BY <1>1 DEF Settle
<1>8. running' => running
  BY <1>7 DEF running
<1> QED
  BY <1>6, <1>7, <1>8, Old, Parts

LEMMA LoadingComes ==
  ASSUME TypeOK, InHandIsRight, LockedIsIdle, Loading, NEW p \in Proposal
  PROVE  \A w \in Versions(p)' : Comes(p, w)
<1>1. PICK l \in loads : HandleSignatureFiles(l) \/ RefuseSignature(l)
  BY DEF Loading
<1>2. l.p \in Proposal /\ l.entry \in Entry /\ l.entry.status = "Open" /\ l.sig \in Credential /\ running
  BY DEF TypeOK, LoadType, InHandIsRight, LockedIsIdle
<1>3. CASE RefuseSignature(l)
  <2>1. UNCHANGED <<table, statements, answers, store, session, submissions, monitors>> /\ loads' \subseteq loads
    BY <1>3 DEF RefuseSignature, database
  <2>2. running' => running
    BY <2>1 DEF running
  <2> QED
    BY <2>1, <2>2, Old, Parts
<1>4. CASE HandleSignatureFiles(l)
  <2> DEFINE entry == [l.entry EXCEPT !.sigs = @ \union {l.sig}]
  <2>1. entry \in Entry /\ entry.status = "Open" /\ l.entry.sigs \subseteq entry.sigs
    BY <1>2 DEF Entry
  <2>2. Comes(l.p, entry)
    <3>1. l.entry \in Versions(l.p) /\ Made(l.p, l.entry, entry)
      BY <1>2, <2>1 DEF Versions, Made
    <3> HIDE DEF entry
    <3> QED
      BY <3>1, MadeComes
  <2>3. updateCurrentProposal(l.p, entry)
    BY <1>4 DEF HandleSignatureFiles
  <2> HIDE DEF entry
  <2>4. UNCHANGED <<table, answers, submissions, monitors>> /\ loads' \subseteq loads
    BY <1>4 DEF HandleSignatureFiles
  <2> QED
    BY <1>2, <2>1, <2>2, <2>3, <2>4, CurrentComes
<1> QED
  BY <1>1, <1>3, <1>4

LEMMA ExpiringComes ==
  ASSUME TypeOK, Expiring, NEW p \in Proposal
  PROVE  \A w \in Versions(p)' : Comes(p, w)
<1>1. PICK q \in Proposal : expire(q)
  BY DEF Expiring
<1> DEFINE entry == Expire(store[q])
<1>2. entry \in Entry /\ entry.status = "Expired" /\ entry.sigs = store[q].sigs
  BY EntryExcept DEF TypeOK, Rows, Entry, Expire, Status
<1>3. Comes(q, entry)
  <2>1. store[q] \in Versions(q) /\ Made(q, store[q], entry)
    BY <1>1, <1>2 DEF expire, Versions, Made
  <2> HIDE DEF entry
  <2> QED
    BY <2>1, MadeComes
<1>4. updateCurrentProposal(q, entry) /\ running
  BY <1>1 DEF expire
<1> HIDE DEF entry
<1>5. UNCHANGED <<table, answers, loads, submissions, monitors>>
  BY <1>1 DEF expire, work
<1> QED
  BY <1>2, <1>3, <1>4, <1>5, CurrentComes

LEMMA SubmittingComes ==
  ASSUME TypeOK, InHandIsRight, LockedIsIdle, Submitting, NEW p \in Proposal
  PROVE  \A w \in Versions(p)' : Comes(p, w)
<1>1. PICK s \in submissions :
        \/ begin(s) \/ Unmounted(s)
        \/ NonceIsNext(s) \/ NonceIsUsed(s) \/ NonceIsAhead(s)
        \/ SendReturns(s) \/ SendThrows(s)
  BY DEF Submitting
<1>2. s.p \in Proposal /\ s.entry \in Entry /\ s.entry.status = "Open" /\ running /\ s.entry \in Versions(s.p)
  BY DEF TypeOK, SubmissionType, InHandIsRight, LockedIsIdle, Versions
<1>3. CASE begin(s) \/ Unmounted(s) \/ NonceIsNext(s) \/ NonceIsAhead(s) \/ SendThrows(s)
  <2>1. UNCHANGED <<table, statements, answers, store, session, loads, monitors>>
    BY <1>3 DEF begin, Unmounted, NonceIsNext, NonceIsAhead, SendThrows, database
  <2>2. \A r \in submissions' : r \in submissions \/ (r.p = s.p /\ r.entry = s.entry)
    BY <1>3 DEF begin, Unmounted, NonceIsNext, NonceIsAhead, SendThrows, Moved, Ended, TypeOK, SubmissionType
  <2>3. \A r \in submissions' : r.p = p => Comes(p, r.entry)
    BY <1>2, <2>2, Old
  <2> QED
    BY <1>2, <2>1, <2>3, Old, Parts
<1>4. CASE NonceIsUsed(s)
  <2> DEFINE entry == [s.entry EXCEPT !.status = "Closed"]
  <2>1. entry \in Entry /\ entry.status = "Closed" /\ entry.sigs = s.entry.sigs
    BY <1>2 DEF Entry, Status
  <2>2. Comes(s.p, entry)
    <3>1. Made(s.p, s.entry, entry)
      BY <1>2, <2>1 DEF Made
    <3> HIDE DEF entry
    <3> QED
      BY <1>2, <3>1, MadeComes
  <2>3. updateCurrentProposal(s.p, entry)
    BY <1>4 DEF NonceIsUsed
  <2> HIDE DEF entry
  <2>4. UNCHANGED <<table, answers, loads, monitors>> /\ submissions' \subseteq submissions
    BY <1>4 DEF NonceIsUsed, Ended
  <2> QED
    BY <1>2, <2>1, <2>2, <2>3, <2>4, CurrentComes
<1>5. CASE SendReturns(s)
  <2> DEFINE entry == [s.entry EXCEPT !.status = "Submitted"]
  <2>1. entry \in Entry /\ entry.status = "Submitted" /\ entry.sigs = s.entry.sigs
    BY <1>2 DEF Entry, Status
  <2>2. /\ updateCurrentProposal(s.p, entry)
        /\ monitors' = monitors \union {Monitor(<<"visit", s.visit>>, s.p, entry)}
        /\ Cardinality(s.entry.sigs) >= Threshold
    BY <1>5 DEF SendReturns, Acceptable
  <2> HIDE DEF entry
  <2>3. \A m \in monitors' : m \in monitors \/ (m.p = s.p /\ m.entry = entry)
    BY <2>2 DEF Monitor
  <2>4. \E m \in monitors' : m.p = s.p
    <3> DEFINE n == Monitor(<<"visit", s.visit>>, s.p, entry)
    <3>1. n \in monitors' /\ n.p = s.p
      BY <2>2 DEF Monitor
    <3> QED
      BY <3>1
  <2>5. Comes(s.p, entry)
    <3>1. Made(s.p, s.entry, entry)
      BY <1>2, <2>1, <2>2, <2>4 DEF Made
    <3> QED
      BY <1>2, <3>1, MadeComes
  <2>6. UNCHANGED <<table, answers, loads>> /\ submissions' \subseteq submissions
    BY <1>5 DEF SendReturns, Ended
  <2> QED
    BY <1>2, <2>1, <2>2, <2>3, <2>5, <2>6, CurrentComes
<1> QED
  BY <1>1, <1>3, <1>4, <1>5

\* The statements of a page that is opened, in terms of positions.
LEMMA OpenedWrites ==
  ASSUME TypeOK, NEW p \in Proposal, NEW entry \in Entry, Opened(p, entry)
  PROVE  /\ Len(statements) \in Nat /\ Len(statements') \in Nat
         /\ Len(statements) < Len(statements')
         /\ \A i \in 1 .. Len(statements) : statements'[i] = statements[i]
         /\ statements'[Len(statements')] = Update(p, entry)
         /\ \A i \in 1 .. Len(statements') :
              \/ i \in 1 .. Len(statements)
              \/ statements'[i] = Update(p, entry)
              \/ entry.status = "Open" /\ statements'[i] = Update(p, Expire(entry))
<1> DEFINE u == Update(p, entry)
           x == Update(p, Expire(entry))
<1>1. u \in StatementType /\ x \in StatementType
  BY UpdateType, EntryExcept
<1>2. statements \in Seq(StatementType) /\ Len(statements) \in Nat
  BY Positions DEF TypeOK
<1>3. \/ statements' = Append(statements, u)
      \/ entry.status = "Open" /\ statements' = statements \o <<x, u>>
  BY DEF Opened
<1> HIDE DEF u, x, StatementType
<1>4. CASE statements' = Append(statements, u)
  <2>1. /\ Len(statements') = Len(statements) + 1
        /\ \A i \in 1 .. Len(statements) : statements'[i] = statements[i]
        /\ statements'[Len(statements) + 1] = u
    BY <1>1, <1>2, <1>4, AppendParts
  <2> QED
    BY <1>2, <2>1 DEF u
<1>5. CASE entry.status = "Open" /\ statements' = statements \o <<x, u>>
  <2>1. <<x, u>> \in Seq(StatementType) /\ Len(<<x, u>>) = 2
    BY <1>1
  <2>2. /\ Len(statements') = Len(statements) + 2
        /\ \A i \in 1 .. Len(statements) : statements'[i] = statements[i]
        /\ statements'[Len(statements) + 1] = x
        /\ statements'[Len(statements) + 2] = u
    BY <1>2, <1>5, <2>1, ConcatProperties
  <2> QED
    BY <1>2, <1>5, <2>2 DEF u, x
<1> QED
  BY <1>3, <1>4, <1>5

LEMMA OpenedComes ==
  ASSUME TypeOK, running, NEW q \in Proposal, NEW entry \in Entry, Opened(q, entry),
         Comes(q, entry), Comes(q, Expire(entry)) \/ entry.status # "Open",
         UNCHANGED <<answers, work>>,
         \A r \in Proposal : r # q => table'[r] = table[r] /\ store'[r] = store[r],
         Comes(q, table'[q]), Comes(q, store'[q]),
         NEW p \in Proposal
  PROVE  \A w \in Versions(p)' : Comes(p, w)
<1>1. \A i \in 1 .. Len(statements') : statements'[i].p = p => Comes(p, statements'[i].entry)
  <2>1. \A i \in 1 .. Len(statements') :
          \/ i \in 1 .. Len(statements) /\ statements'[i] = statements[i]
          \/ statements'[i] = Update(q, entry)
          \/ entry.status = "Open" /\ statements'[i] = Update(q, Expire(entry))
    BY OpenedWrites
  <2>2. /\ Update(q, entry).p = q /\ Update(q, entry).entry = entry
        /\ Update(q, Expire(entry)).p = q /\ Update(q, Expire(entry)).entry = Expire(entry)
    BY DEF Update
  <2>3. \A i \in 1 .. Len(statements) : statements[i].p = p => Comes(p, statements[i].entry)
    BY Old
  <2>4. ASSUME NEW i \in 1 .. Len(statements'), statements'[i].p = p PROVE Comes(p, statements'[i].entry)
    <3>1. CASE i \in 1 .. Len(statements) /\ statements'[i] = statements[i]
      BY <2>3, <2>4, <3>1
    <3>2. CASE statements'[i] = Update(q, entry)
      BY <2>2, <2>4, <3>2
    <3>3. CASE entry.status = "Open" /\ statements'[i] = Update(q, Expire(entry))
      BY <2>2, <2>4, <3>3
    <3> QED
      BY <2>1, <3>1, <3>2, <3>3
  <2> QED
    BY <2>4
<1> QED
  BY <1>1, Old, Parts DEF work

LEMMA UserComes ==
  ASSUME TypeOK, LockedIsIdle, User, NEW p \in Proposal
  PROVE  \A w \in Versions(p)' : Comes(p, w)
<1>0. running
  BY DEF User, addProposal, OpenProposal, dropFile, closeProposal, submitTransaction, Leave, ChangeConnection, UserMayAct
<1>1. ASSUME NEW q \in Proposal, addProposal(q) PROVE \A w \in Versions(p)' : Comes(p, w)
  <2>1. PICK sigs \in SUBSET Credential :
          LET entry == [status |-> "Open", sigs |-> sigs] IN
            /\ table' = [table EXCEPT ![q] = entry]
            /\ store' = [store EXCEPT ![q] = entry]
            /\ Opened(q, entry)
    BY <1>1 DEF addProposal
  <2> DEFINE entry == [status |-> "Open", sigs |-> sigs]
  <2>2. entry \in Entry /\ entry.status = "Open"
    BY DEF Entry, Status
  <2>3. Expire(entry).status = "Expired"
    BY <2>2, EntryExcept DEF Expire, Status
  <2>4. table[q] = Absent /\ UNCHANGED <<answers, work>>
    BY <1>1 DEF addProposal
  <2>5. /\ \A r \in Proposal : r # q => table'[r] = table[r] /\ store'[r] = store[r]
        /\ table'[q] = entry /\ store'[q] = entry
    BY <2>1 DEF TypeOK, Rows
  <2>6. Comes(q, entry)
    <3>1. table[q] \in Versions(q) /\ Made(q, table[q], entry)
      BY <2>2, <2>4 DEF Versions, Made
    <3> HIDE DEF entry
    <3> QED
      BY <3>1, MadeComes
  <2>7. Comes(q, Expire(entry))
    <3> DEFINE x == Expire(entry)
    <3>1. table[q] \in Versions(q) /\ Made(q, table[q], x)
      BY <2>3, <2>4 DEF Versions, Made
    <3> HIDE DEF x
    <3>2. Comes(q, x)
      BY <3>1, MadeComes
    <3> QED
      BY <3>2 DEF x
  <2>8. Opened(q, entry)
    BY <2>1
  <2> HIDE DEF entry
  <2>9. Comes(q, table'[q]) /\ Comes(q, store'[q])
    BY <2>5, <2>6
  <2> QED
    BY <1>0, <2>2, <2>4, <2>5, <2>6, <2>7, <2>8, <2>9, OpenedComes
<1>2. ASSUME NEW q \in Proposal, OpenProposal(q) PROVE \A w \in Versions(p)' : Comes(p, w)
  <2>1. store[q] \in Entry /\ store[q] \in Versions(q) /\ Comes(q, store[q])
    BY <1>0, Old DEF TypeOK, Rows, Versions
  <2>2. Comes(q, Expire(store[q])) \/ store[q].status # "Open"
    <3> DEFINE entry == Expire(store[q])
    <3>1. entry.status = "Expired" /\ entry.sigs = store[q].sigs
      BY <2>1 DEF Expire, Entry
    <3>2. store[q].status = "Open" => Made(q, store[q], entry)
      BY <3>1 DEF Made
    <3> HIDE DEF entry
    <3>3. store[q].status = "Open" => Comes(q, entry)
      BY <2>1, <3>2, MadeComes
    <3> QED
      BY <3>3 DEF entry
  <2>3. Opened(q, store[q]) /\ UNCHANGED <<table, answers, store, session, work>>
    BY <1>2 DEF OpenProposal
  <2> QED
    BY <1>0, <2>1, <2>2, <2>3, OpenedComes, Old
<1>3. CASE dropFile
  <2>1. UNCHANGED <<table, statements, answers, store, submissions, monitors>>
    BY <1>3 DEF dropFile, database
  <2>2. \A l \in loads' : l \in loads \/ (l.p = page.p /\ l.entry = store[page.p])
    BY <1>3 DEF dropFile
  <2>3. \A l \in loads' : l.p = p => Comes(p, l.entry)
    BY <1>0, <2>2, Old
  <2> QED
    BY <1>0, <2>1, <2>3, Old, Parts
<1>4. CASE closeProposal
  <2> DEFINE entry == [store[page.p] EXCEPT !.status = "Closed"]
  <2>1. page.p \in Proposal /\ store[page.p] \in Entry /\ store[page.p].status = "Open"
    BY <1>4 DEF closeProposal, TypeOK, PageType, Rows
  <2>2. entry \in Entry /\ entry.status = "Closed" /\ entry.sigs = store[page.p].sigs
    BY <2>1 DEF Entry, Status
  <2>3. Comes(page.p, entry)
    <3>1. store[page.p] \in Versions(page.p) /\ Made(page.p, store[page.p], entry)
      BY <1>0, <2>1, <2>2 DEF Versions, Made
    <3> HIDE DEF entry
    <3> QED
      BY <3>1, MadeComes
  <2>4. updateCurrentProposal(page.p, entry)
    BY <1>4 DEF closeProposal
  <2> HIDE DEF entry
  <2>5. UNCHANGED <<table, answers, loads, submissions, monitors>>
    BY <1>4 DEF closeProposal, work
  <2> QED
    BY <1>0, <2>1, <2>2, <2>3, <2>4, <2>5, CurrentComes
<1>5. CASE submitTransaction
  <2>1. UNCHANGED <<table, statements, answers, store, loads, monitors>>
    BY <1>5 DEF submitTransaction, database
  <2>2. \A s \in submissions' : s \in submissions \/ (s.p = page.p /\ s.entry = store[page.p])
    BY <1>5 DEF submitTransaction
  <2>3. \A s \in submissions' : s.p = p => Comes(p, s.entry)
    BY <1>0, <2>2, Old
  <2> QED
    BY <1>0, <2>1, <2>3, Old, Parts
<1>6. CASE Leave
  BY <1>0, <1>6, Old, Parts DEF Leave, database, work
<1>7. CASE ChangeConnection
  <2> DEFINE s == Query("listen", connections')
  <2>1. s \in StatementType /\ Issue(s) /\ s.p # p
    BY <1>7, StartType, QueryType, ProposalAssumption DEF ChangeConnection, startClient, Then, Query
  <2> HIDE DEF s
  <2>2. \A i \in 1 .. Len(statements') : statements'[i].p = p => Comes(p, statements'[i].entry)
    BY <2>1, IssuedComes
  <2>3. UNCHANGED <<table, answers, store, loads, submissions, monitors>>
    BY <1>7 DEF ChangeConnection, work
  <2> QED
    BY <1>0, <2>2, <2>3, Old, Parts
<1> QED
  BY <1>1, <1>2, <1>3, <1>4, <1>5, <1>6, <1>7 DEF User

LEMMA SessionComes ==
  ASSUME TypeOK, Unlock \/ Stop, NEW p \in Proposal
  PROVE  \A w \in Versions(p)' : Comes(p, w)
<1>1. CASE Unlock
  <2> DEFINE s == Query("listen", connections')
  <2>1. s \in StatementType /\ Issue(s) /\ s.p # p
    BY <1>1, StartType, QueryType, ProposalAssumption DEF Unlock, startClient, Then, Query
  <2> HIDE DEF s
  <2>2. \A i \in 1 .. Len(statements') : statements'[i].p = p => Comes(p, statements'[i].entry)
    BY <2>1, IssuedComes
  <2>3. UNCHANGED <<table, answers, loads, submissions, monitors>> /\ store' = table
    BY <1>1 DEF Unlock, work
  <2> QED
    BY <2>2, <2>3, Old, Parts
<1>2. CASE Stop
  <2>1. /\ table' = table /\ ~running'
        /\ loads' = {} /\ submissions' = {} /\ monitors' = {}
        /\ 1 .. Len(statements') = {} /\ 1 .. Len(answers') = {}
    BY <1>2 DEF Stop, running
  <2> QED
    BY <2>1, Old, Parts
<1> QED
  BY <1>1, <1>2

\* Every version of a proposal is one there was before, or made from one.
LEMMA NextComes ==
  ASSUME TypeOK, InHandIsRight, LockedIsIdle, [Next]_vars, NEW p \in Proposal
  PROVE  \A w \in Versions(p)' : Comes(p, w)
<1>1. CASE Network \/ UNCHANGED vars
  <2>1. UNCHANGED <<table, statements, answers, store, session, loads, submissions, monitors>>
    BY <1>1 DEF Network, Finalize, Overtake, ExpiryPasses, vars, database, work
  <2>2. running' => running
    BY <2>1 DEF running
  <2> QED
    BY <2>1, <2>2, Old, Parts
<1> QED
  BY <1>1, ExecuteComes, AnsweringComes, MonitoringComes, LoadingComes, SubmittingComes, ExpiringComes,
     UserComes, SessionComes DEF Next

LEMMA NextInHand == TypeOK /\ InHandIsRight /\ LockedIsIdle /\ [Next]_vars => InHandIsRight' /\ LockedIsIdle'
<1> SUFFICES ASSUME TypeOK, InHandIsRight, LockedIsIdle, [Next]_vars PROVE InHandIsRight' /\ LockedIsIdle'
  OBVIOUS
<1>1. CASE Network \/ UNCHANGED vars
  BY <1>1 DEF Network, Finalize, Overtake, ExpiryPasses, vars, database, work, InHandIsRight, LockedIsIdle, running
<1>2. CASE execute \/ Expiring
  <2>1. UNCHANGED <<session, work>> /\ running
    BY <1>2 DEF execute, Expiring, expire, LockedIsIdle
  <2> QED
    BY <2>1 DEF work, InHandIsRight, LockedIsIdle, running
<1>3. CASE Answering
  <2>1. UNCHANGED <<session, loads, submissions>> /\ running
    BY <1>3 DEF Answering, loadProposals, setProposals, listenForTransactionStatus, startMonitors, Answered,
       work, LockedIsIdle
  <2>2. \A m \in monitors' : m.entry.status = "Submitted"
    BY <1>3 DEF Answering, loadProposals, setProposals, listenForTransactionStatus, startMonitors, work,
       InHandIsRight, Monitor
  <2> QED
    BY <2>1, <2>2 DEF InHandIsRight, LockedIsIdle, running
<1>4. CASE Monitoring \/ Loading
  <2>1. /\ UNCHANGED <<session, submissions>> /\ running
        /\ loads' \subseteq loads /\ monitors' \subseteq monitors
    BY <1>4 DEF Monitoring, WaitReturns, WaitThrows, Settle, Loading, HandleSignatureFiles, RefuseSignature,
       LockedIsIdle
  <2> QED
    BY <2>1 DEF InHandIsRight, LockedIsIdle, running
<1>5. CASE Submitting
  <2>1. PICK s \in submissions :
          \/ begin(s) \/ Unmounted(s)
          \/ NonceIsNext(s) \/ NonceIsUsed(s) \/ NonceIsAhead(s)
          \/ SendReturns(s) \/ SendThrows(s)
    BY <1>5 DEF Submitting
  <2>2. /\ UNCHANGED <<session, loads>> /\ running
        /\ \A r \in submissions' : r \in submissions \/ r.entry = s.entry
    BY <2>1 DEF begin, Unmounted, NonceIsNext, NonceIsUsed, NonceIsAhead, SendReturns, SendThrows, Moved, Ended,
       LockedIsIdle, TypeOK, SubmissionType
  <2>3. \A m \in monitors' : m.entry.status = "Submitted"
    <3>1. [s.entry EXCEPT !.status = "Submitted"].status = "Submitted"
      BY DEF TypeOK, SubmissionType, Entry
    <3>2. CASE SendReturns(s)
      <4> DEFINE n == Monitor(<<"visit", s.visit>>, s.p, [s.entry EXCEPT !.status = "Submitted"])
      <4>1. monitors' = monitors \union {n}
        BY <3>2 DEF SendReturns
      <4>2. n.entry.status = "Submitted"
        BY <3>1 DEF Monitor
      <4> HIDE DEF n
      <4> QED
        BY <4>1, <4>2 DEF InHandIsRight
    <3>3. CASE UNCHANGED monitors
      BY <3>3 DEF InHandIsRight
    <3> QED
      BY <2>1, <3>2, <3>3 DEF begin, Unmounted, NonceIsNext, NonceIsUsed, NonceIsAhead, SendThrows
  <2> QED
    BY <2>2, <2>3 DEF InHandIsRight, LockedIsIdle, running
<1>6. CASE User
  <2>1. running /\ running' /\ UNCHANGED monitors
    BY <1>6 DEF User, addProposal, OpenProposal, dropFile, closeProposal, submitTransaction, Leave,
       ChangeConnection, UserMayAct, startClient, running, work
  <2>2. /\ \A l \in loads' : l \in loads \/ l.entry.status = "Open"
        /\ \A s \in submissions' : s \in submissions \/ s.entry.status = "Open"
    BY <1>6 DEF User, addProposal, OpenProposal, dropFile, closeProposal, submitTransaction, Leave,
       ChangeConnection, work
  <2> QED
    BY <2>1, <2>2 DEF InHandIsRight, LockedIsIdle
<1>7. CASE Unlock \/ Stop
  BY <1>7 DEF Unlock, Stop, startClient, work, InHandIsRight, LockedIsIdle, running
<1> QED
  BY <1>1, <1>2, <1>3, <1>4, <1>5, <1>6, <1>7 DEF Next

LEMMA InHandIsAlwaysRight == Spec => [](InHandIsRight /\ LockedIsIdle)
<1>1. Init => InHandIsRight /\ LockedIsIdle
  BY DEF Init, InHandIsRight, LockedIsIdle
<1> QED
  BY <1>1, NextInHand, TypeCorrect, PTL DEF Spec

\* The signatures of a version are counted by a number.
LEMMA VersionIsSigned ==
  ASSUME TypeOK, NEW p \in Proposal, NEW v \in Versions(p)
  PROVE  v \in Entry /\ Cardinality(v.sigs) \in Nat
<1>1. v \in Entry
  <2>1. \A i \in 1 .. Len(statements) : statements[i].entry \in Entry
    BY Positions DEF StatementType
  <2>2. \A i \in 1 .. Len(answers) : answers[i].rows[p] \in Entry
    BY Positions DEF AnswerType, Rows
  <2>3. table[p] \in Entry /\ store[p] \in Entry
    BY DEF TypeOK, Rows
  <2>4. \A w \in loads \union submissions \union monitors : w.entry \in Entry
    BY DEF TypeOK, LoadType, SubmissionType, MonitorType
  <2> QED
    BY <2>1, <2>2, <2>3, <2>4 DEF Versions, Writes
<1>2. IsFiniteSet(v.sigs)
  BY <1>1, CredentialAssumption, FS_Subset DEF Entry
<1> QED
  BY <1>1, <1>2, FS_CardinalityType

\* Whatever signature files are dropped, verified and written back in whatever
\* order, and whichever boxes are ticked, what the database and the store have
\* as submitted, finalized, failed or rejected carries the signatures the chain
\* asks for.
THEOREM SubmittedIsAlwaysSigned == Spec => []SubmittedIsSigned
<1>1. Init => SubmittedIsSigned
  <2> SUFFICES ASSUME Init, NEW p \in Proposal, NEW v \in Versions(p)
               PROVE  v.status \notin {"Submitted"} \union Settled
    BY DEF SubmittedIsSigned
  <2>1. v = Absent
    <3>1. 1 .. Len(statements) = {} /\ 1 .. Len(answers) = {}
      BY DEF Init
    <3> QED
      BY <3>1 DEF Init, Versions, Writes, NoRows, running
  <2> QED
    BY <2>1 DEF Absent, Settled
<1>2. TypeOK /\ InHandIsRight /\ LockedIsIdle /\ SubmittedIsSigned /\ [Next]_vars => SubmittedIsSigned'
  <2> SUFFICES ASSUME TypeOK, InHandIsRight, LockedIsIdle, SubmittedIsSigned, [Next]_vars,
                      NEW p \in Proposal, NEW w \in Versions(p)',
                      w.status \in {"Submitted"} \union Settled
               PROVE  Cardinality(w.sigs) >= Threshold
    BY DEF SubmittedIsSigned
  <2>1. Comes(p, w)
    BY NextComes
  <2>2. CASE w \in Versions(p)
    BY <2>2 DEF SubmittedIsSigned
  <2>3. ASSUME NEW v \in Versions(p), Made(p, v, w) PROVE Cardinality(w.sigs) >= Threshold
    <3>1. w.status \notin {"Open", "Expired", "Closed"}
      BY DEF Settled
    <3>2. CASE v.status = "Submitted" /\ w.sigs = v.sigs
      BY <3>2 DEF SubmittedIsSigned
    <3> QED
      BY <2>3, <3>1, <3>2 DEF Made
  <2> QED
    BY <2>1, <2>2, <2>3 DEF Comes
<1> QED
  BY <1>1, <1>2, InHandIsAlwaysRight, TypeCorrect, PTL DEF Spec

\* Among any number of proposals and of writers, a proposal all of whose
\* versions are cancelled, settled, or submitted or settled, stays so: nobody
\* who takes it in hand afterwards reopens, expires or cancels it.
THEOREM StatusAlwaysMovesOn == Spec => StatusMovesOn
<1> DEFINE Moves ==
      \A p \in Proposal :
        /\ Statuses(p) = {"Closed"} => Statuses(p)' = {"Closed"}
        /\ Statuses(p) \subseteq {"Submitted"} \union Settled =>
             Statuses(p)' \subseteq {"Submitted"} \union Settled
        /\ Statuses(p) \subseteq Settled => Statuses(p)' \subseteq Settled
<1>1. TypeOK /\ InHandIsRight /\ LockedIsIdle /\ [Next]_vars => [Moves]_vars
  <2> SUFFICES ASSUME TypeOK, InHandIsRight, LockedIsIdle, [Next]_vars, NEW p \in Proposal
               PROVE  /\ Statuses(p) = {"Closed"} => Statuses(p)' = {"Closed"}
                      /\ Statuses(p) \subseteq {"Submitted"} \union Settled =>
                           Statuses(p)' \subseteq {"Submitted"} \union Settled
                      /\ Statuses(p) \subseteq Settled => Statuses(p)' \subseteq Settled
    OBVIOUS
  <2>1. \A w \in Versions(p)' : w \in Versions(p) \/ \E v \in Versions(p) : Made(p, v, w)
    BY NextComes DEF Comes
  <2>2. \A v \in Versions(p) : v.status \in Statuses(p)
    BY DEF Statuses
  <2>3. \A status \in Statuses(p)' : \E w \in Versions(p)' : status = w.status
    BY DEF Statuses
  <2>4. table'[p].status \in Statuses(p)'
    BY DEF Statuses, Versions
  <2>5. \A v \in Versions(p) : \A w : Made(p, v, w) =>
          \/ v.status \in {"none", "Open"}
          \/ v.status = "Submitted" /\ w.status \in Settled
    BY DEF Made, Absent
  <2>6. "none" \notin Settled /\ "Open" \notin Settled /\ "Submitted" \notin Settled
    BY DEF Settled
  <2>7. ASSUME Statuses(p) = {"Closed"} PROVE Statuses(p)' = {"Closed"}
    <3>1. \A w \in Versions(p)' : w.status = "Closed"
      BY <2>1, <2>2, <2>5, <2>7
    <3> QED
      BY <2>3, <2>4, <3>1
  <2>8. ASSUME Statuses(p) \subseteq {"Submitted"} \union Settled
        PROVE  Statuses(p)' \subseteq {"Submitted"} \union Settled
    <3>1. \A w \in Versions(p)' : w.status \in {"Submitted"} \union Settled
      BY <2>1, <2>2, <2>5, <2>6, <2>8
    <3> QED
      BY <2>3, <3>1
  <2>9. ASSUME Statuses(p) \subseteq Settled PROVE Statuses(p)' \subseteq Settled
    <3>1. \A w \in Versions(p)' : w.status \in Settled
      BY <2>1, <2>2, <2>5, <2>6, <2>9
    <3> QED
      BY <2>3, <3>1
  <2> QED
    BY <2>7, <2>8, <2>9
<1> QED
  BY <1>1, InHandIsAlwaysRight, TypeCorrect, PTL DEF Spec, StatusMovesOn

\* Among any number of proposals and of writers, a signature that every version
\* of a proposal carries is never lost.
THEOREM SignaturesAlwaysStay == Spec => SignaturesStay
<1> DEFINE Stay ==
      \A p \in Proposal : \A c \in Credential :
        (\A v \in Versions(p) : c \in v.sigs) => (\A v \in Versions(p)' : c \in v.sigs)
<1>1. TypeOK /\ InHandIsRight /\ LockedIsIdle /\ [Next]_vars => [Stay]_vars
  <2> SUFFICES ASSUME TypeOK, InHandIsRight, LockedIsIdle, [Next]_vars, NEW p \in Proposal, NEW c \in Credential,
                      \A v \in Versions(p) : c \in v.sigs, NEW w \in Versions(p)'
               PROVE  c \in w.sigs
    OBVIOUS
  <2>1. w \in Versions(p) \/ \E v \in Versions(p) : Made(p, v, w)
    BY NextComes DEF Comes
  <2> QED
    BY <2>1 DEF Made, Absent
<1> QED
  BY <1>1, InHandIsAlwaysRight, TypeCorrect, PTL DEF Spec, SignaturesStay

-----------------------------------------------------------------------------
(* Who follows a submitted proposal, and what the store shows. *)

\* Somebody asked, or awaits the answer, of a query.
Asked(words) == \E i \in 1 .. Len(statements) : statements[i].then \in words
Awaited(words) == \E i \in 1 .. Len(answers) : answers[i].then \in words
Load == {"loadProposals", "setProposals"}
Listening == {"listen", "startMonitors"}

\* A proposal has a monitor, or no version of it is submitted, or all of them
\* are and a listener will see one.
IsWatched(p) ==
  running /\ p \notin waited =>
    \/ \E m \in monitors : m.p = p
    \/ \A v \in Versions(p) : v.status # "Submitted"
    \/ /\ \A v \in Versions(p) : v.status = "Submitted"
       /\ Asked(Listening) \/ Awaited(Listening)

\* The store shows what the row will be, or will be loaded.
IsShown ==
  running /\ ~Asked(Load) /\ ~Awaited(Load) =>
    \A p \in Proposal \ crossed : WillBe(p, store[p])

\* A statement is appended, or executed.
LEMMA AskedIssued ==
  ASSUME TypeOK, NEW s \in StatementType, Issue(s), NEW words
  PROVE  Asked(words)' <=> Asked(words) \/ s.then \in words
<1>1. /\ Len(statements) \in Nat
      /\ Len(statements') = Len(statements) + 1
      /\ \A i \in 1 .. Len(statements) : statements'[i] = statements[i]
      /\ statements'[Len(statements) + 1] = s
  BY Issued
<1>2. 1 .. Len(statements') = 1 .. Len(statements) \union {Len(statements) + 1}
  BY Issued
<1> QED
  BY <1>1, <1>2 DEF Asked

LEMMA AskedExecuted ==
  ASSUME TypeOK, execute, NEW words, "nothing" \notin words
  PROVE  /\ Asked(words) <=> Asked(words)' \/ statements[1].then \in words
         /\ Awaited(words)' <=> Awaited(words) \/ statements[1].then \in words
<1>1. Asked(words) <=> Asked(words)' \/ statements[1].then \in words
  <2>1. /\ 1 \in 1 .. Len(statements)
        /\ \A i \in 1 .. Len(statements') : i + 1 \in 1 .. Len(statements) /\ statements'[i] = statements[i + 1]
        /\ \A i \in 1 .. Len(statements) : i = 1 \/ (i - 1 \in 1 .. Len(statements') /\ statements'[i - 1] = statements[i])
    BY Executed
  <2> QED
    BY <2>1 DEF Asked
<1>2. Awaited(words)' <=> Awaited(words) \/ statements[1].then \in words
  <2>1. /\ Len(answers) \in Nat
        /\ Len(answers') \in {Len(answers), Len(answers) + 1}
        /\ Len(answers') = Len(answers) <=> statements[1].then = "nothing"
        /\ \A i \in 1 .. Len(answers) : answers'[i] = answers[i]
        /\ statements[1].then # "nothing" => answers'[Len(answers) + 1].then = statements[1].then
    BY ExecutedAnswers
  <2>2. CASE statements[1].then = "nothing"
    BY <2>1, <2>2 DEF Awaited
  <2>3. CASE statements[1].then # "nothing"
    <3>1. 1 .. Len(answers') = 1 .. Len(answers) \union {Len(answers) + 1}
      BY <2>1, <2>3
    <3> QED
      BY <2>1, <2>3, <3>1 DEF Awaited
  <2> QED
    BY <2>2, <2>3
<1> QED
  BY <1>1, <1>2

\* An answer is taken.
LEMMA AwaitedTaken ==
  ASSUME TypeOK, NEW then, Answered(then), NEW words
  PROVE  /\ Awaited(words)' => Awaited(words)
         /\ then \notin words => (Awaited(words) => Awaited(words)')
<1>1. /\ answers[1].then = then
      /\ \A i \in 1 .. Len(answers') : i + 1 \in 1 .. Len(answers) /\ answers'[i] = answers[i + 1]
      /\ \A i \in 1 .. Len(answers) : i = 1 \/ (i - 1 \in 1 .. Len(answers') /\ answers'[i - 1] = answers[i])
  BY Taken
<1> QED
  BY <1>1 DEF Awaited

\* A statement is appended: what the rows will be.
LEMMA IssuedWillBe ==
  ASSUME TypeOK, NEW s \in StatementType, Issue(s), UNCHANGED table, NEW p \in Proposal
  PROVE  /\ s.p = p => WillBe(p, s.entry)'
         /\ s.p # p => \A entry : WillBe(p, entry) => WillBe(p, entry)'
<1>1. /\ Len(statements) \in Nat
      /\ Len(statements') = Len(statements) + 1
      /\ \A i \in 1 .. Len(statements) : statements'[i] = statements[i]
      /\ statements'[Len(statements) + 1] = s
      /\ 1 .. Len(statements') = 1 .. Len(statements) \union {Len(statements) + 1}
  BY Issued
<1>2. Writes(p)' = IF s.p = p THEN Writes(p) \union {Len(statements) + 1} ELSE Writes(p)
  BY <1>1 DEF Writes
<1>3. Writes(p) \subseteq 1 .. Len(statements)
  BY DEF Writes
<1>4. ASSUME s.p = p PROVE WillBe(p, s.entry)'
  <2>1. Len(statements) + 1 \in Writes(p)' /\ \A j \in Writes(p)' : j <= Len(statements) + 1
    BY <1>1, <1>2, <1>3, <1>4
  <2>2. s.entry = statements'[Len(statements) + 1].entry
    BY <1>1
  <2> QED
    BY <2>1, <2>2 DEF WillBe
<1>5. ASSUME s.p # p, NEW entry, WillBe(p, entry) PROVE WillBe(p, entry)'
  <2>1. Writes(p)' = Writes(p) /\ \A i \in Writes(p) : statements'[i] = statements[i]
    BY <1>1, <1>2, <1>3, <1>5
  <2> QED
    BY <1>5, <2>1 DEF WillBe
<1> QED
  BY <1>4, <1>5

\* ... and a statement is executed.
LEMMA ExecutedWillBe ==
  ASSUME TypeOK, execute, NEW p \in Proposal, NEW entry, WillBe(p, entry)
  PROVE  WillBe(p, entry)'
<1>1. /\ Len(statements) \in Nat \ {0}
      /\ Head(statements) = statements[1] /\ statements[1] \in StatementType
      /\ Len(statements') = Len(statements) - 1
      /\ \A i \in 1 .. Len(statements') : i + 1 \in 1 .. Len(statements) /\ statements'[i] = statements[i + 1]
      /\ \A i \in 1 .. Len(statements) : i = 1 \/ (i - 1 \in 1 .. Len(statements') /\ statements'[i - 1] = statements[i])
  BY Executed
<1>2. /\ Writes(p) \subseteq Nat \ {0} /\ Writes(p)' \subseteq Nat \ {0}
      /\ \A i \in Writes(p)' : i + 1 \in Writes(p) /\ statements'[i] = statements[i + 1]
      /\ \A i \in Writes(p) : i = 1 \/ (i - 1 \in Writes(p)' /\ statements'[i - 1] = statements[i])
  BY <1>1 DEF Writes
<1>3. table'[p] = IF statements[1].p = p THEN statements[1].entry ELSE table[p]
  BY <1>1, ProposalAssumption DEF execute, TypeOK, Rows, StatementType
<1>4. 1 \in Writes(p) <=> statements[1].p = p
  BY <1>1 DEF Writes
<1>5. CASE Writes(p) = {}
  BY <1>2, <1>3, <1>4, <1>5 DEF WillBe
<1>6. CASE Writes(p) # {}
  <2>1. PICK i \in Writes(p) : entry = statements[i].entry /\ \A j \in Writes(p) : j <= i
    BY <1>6 DEF WillBe
  <2>2. CASE i = 1
    <3>1. Writes(p)' = {}
      BY <1>2, <2>1, <2>2
    <3> QED
      BY <1>3, <1>4, <2>1, <2>2, <3>1 DEF WillBe
  <2>3. CASE i # 1
    <3>1. i - 1 \in Writes(p)' /\ statements'[i - 1] = statements[i]
      BY <1>2, <2>1, <2>3
    <3>2. \A j \in Writes(p)' : j <= i - 1
      BY <1>2, <2>1
    <3> QED
      BY <2>1, <3>1, <3>2 DEF WillBe
  <2> QED
    BY <2>2, <2>3
<1> QED
  BY <1>5, <1>6

\* A page is opened.
LEMMA OpenedWillBe ==
  ASSUME TypeOK, NEW q \in Proposal, NEW entry \in Entry, Opened(q, entry),
         \A r \in Proposal : r # q => table'[r] = table[r],
         NEW p \in Proposal
  PROVE  /\ WillBe(q, entry)'
         /\ p # q => \A e : WillBe(p, e) => WillBe(p, e)'
         /\ \A words : "nothing" \notin words => (Asked(words)' <=> Asked(words))
<1>1. /\ Len(statements) \in Nat /\ Len(statements') \in Nat
      /\ Len(statements) < Len(statements')
      /\ \A i \in 1 .. Len(statements) : statements'[i] = statements[i]
      /\ statements'[Len(statements')] = Update(q, entry)
      /\ \A i \in 1 .. Len(statements') :
           \/ i \in 1 .. Len(statements)
           \/ statements'[i] = Update(q, entry)
           \/ entry.status = "Open" /\ statements'[i] = Update(q, Expire(entry))
  BY OpenedWrites
<1>2. \A i \in 1 .. Len(statements') :
        i \in 1 .. Len(statements) \/ (statements'[i].p = q /\ statements'[i].then = "nothing")
  BY <1>1 DEF Update
<1>3. statements'[Len(statements')].p = q /\ statements'[Len(statements')].entry = entry
  BY <1>1 DEF Update
<1>4. WillBe(q, entry)'
  <2>1. Len(statements') \in Writes(q)' /\ \A j \in Writes(q)' : j <= Len(statements')
    BY <1>1, <1>3 DEF Writes
  <2> QED
    BY <1>3, <2>1 DEF WillBe
<1>5. ASSUME p # q, NEW e, WillBe(p, e) PROVE WillBe(p, e)'
  <2>1. Writes(p)' = Writes(p)
    BY <1>1, <1>2, <1>5 DEF Writes
  <2>2. \A i \in Writes(p) : statements'[i] = statements[i]
    BY <1>1 DEF Writes
  <2> QED
    BY <1>5, <2>1, <2>2 DEF WillBe
<1>6. ASSUME NEW words, "nothing" \notin words PROVE Asked(words)' <=> Asked(words)
  <2>1. 1 .. Len(statements) \subseteq 1 .. Len(statements')
    BY <1>1
  <2> QED
    BY <1>1, <1>2, <1>6, <2>1 DEF Asked
<1> QED
  BY <1>4, <1>5, <1>6

\* A monitor goes only when its wait has ended or the application stops, and
\* forgetting that a wait has ended takes a new one.
LEMMA MonitorsStay ==
  ASSUME TypeOK, LockedIsIdle, [Next]_vars, running'
  PROVE  /\ \A m \in monitors : m \in monitors' \/ m.p \in waited'
         /\ \A p \in Proposal : p \in waited /\ p \notin waited' => \E m \in monitors' : m.p = p
<1>1. CASE Network \/ execute \/ Expiring \/ Loading \/ User \/ Unlock \/ UNCHANGED vars
  <2>1. UNCHANGED <<monitors, waited>>
    BY <1>1 DEF Network, Finalize, Overtake, ExpiryPasses, execute, Expiring, expire,
       Loading, HandleSignatureFiles, RefuseSignature, User, addProposal, OpenProposal, dropFile, closeProposal,
       submitTransaction, Leave, ChangeConnection, Unlock, vars, work, history
  <2> QED
    BY <2>1
<1>2. CASE Answering
  <2>1. CASE startMonitors
    <3> DEFINE a == Head(answers)
    <3>1. /\ monitors' = monitors \union
               {Monitor(<<"connection", a.call>>, p, a.rows[p]) : p \in {q \in Proposal : a.rows[q].status = "Submitted"}}
          /\ waited' = waited \ {q \in Proposal : a.rows[q].status = "Submitted"}
      BY <2>1 DEF startMonitors
    <3>2. ASSUME NEW p \in Proposal, a.rows[p].status = "Submitted" PROVE \E m \in monitors' : m.p = p
      <4> DEFINE n == Monitor(<<"connection", a.call>>, p, a.rows[p])
      <4>1. n \in monitors' /\ n.p = p
        BY <3>1, <3>2 DEF Monitor
      <4> QED
        BY <4>1
    <3> QED
      BY <3>1, <3>2
  <2>2. CASE UNCHANGED <<monitors, waited>>
    BY <2>2
  <2> QED
    BY <1>2, <2>1, <2>2 DEF Answering, loadProposals, setProposals, listenForTransactionStatus, work, history
<1>3. CASE Monitoring
  <2>1. PICK m \in monitors, status \in Settled : Settle(m, status)
    BY <1>3 DEF Monitoring, WaitReturns, WaitThrows, Settled
  <2> QED
    BY <2>1 DEF Settle
<1>4. CASE Submitting
  <2>1. PICK s \in submissions :
          \/ begin(s) \/ Unmounted(s)
          \/ NonceIsNext(s) \/ NonceIsUsed(s) \/ NonceIsAhead(s)
          \/ SendReturns(s) \/ SendThrows(s)
    BY <1>4 DEF Submitting
  <2>2. CASE SendReturns(s)
    <3> DEFINE n == Monitor(<<"visit", s.visit>>, s.p, [s.entry EXCEPT !.status = "Submitted"])
    <3>1. monitors' = monitors \union {n} /\ waited' = waited \ {s.p}
      BY <2>2 DEF SendReturns
    <3>2. n.p = s.p
      BY DEF Monitor
    <3> HIDE DEF n
    <3> QED
      BY <3>1, <3>2
  <2>3. CASE UNCHANGED <<monitors, waited>>
    BY <2>3
  <2> QED
    BY <2>1, <2>2, <2>3 DEF begin, Unmounted, NonceIsNext, NonceIsUsed, NonceIsAhead, SendThrows, history
<1>5. ~Stop
  BY DEF Stop, running
<1> QED
  BY <1>1, <1>2, <1>3, <1>4, <1>5 DEF Next

\* A listener that is ahead stays ahead until it starts the monitors.
LEMMA ListenerStays ==
  ASSUME TypeOK, LockedIsIdle, [Next]_vars, running', Asked(Listening) \/ Awaited(Listening), ~startMonitors
  PROVE  Asked(Listening)' \/ Awaited(Listening)'
<1>0. "nothing" \notin Listening /\ "loadProposals" \notin Listening /\ "setProposals" \notin Listening
  BY DEF Listening
<1>1. CASE UNCHANGED <<statements, answers>>
  BY <1>1 DEF Asked, Awaited
<1>2. CASE execute
  BY <1>0, <1>2, AskedExecuted
<1>3. ASSUME NEW s \in StatementType, Issue(s), UNCHANGED answers PROVE Asked(Listening)' \/ Awaited(Listening)'
  <2>1. Asked(Listening) => Asked(Listening)'
    BY <1>3, AskedIssued
  <2>2. Awaited(Listening) => Awaited(Listening)'
    BY <1>3 DEF Awaited
  <2> QED
    BY <2>1, <2>2
<1>4. ASSUME NEW q \in Proposal, NEW entry \in Entry, updateCurrentProposal(q, entry), UNCHANGED answers
      PROVE Asked(Listening)' \/ Awaited(Listening)'
  <2> DEFINE s == Update(q, entry)
  <2>1. s \in StatementType /\ Issue(s)
    BY <1>4, UpdateType DEF updateCurrentProposal
  <2> HIDE DEF s
  <2> QED
    BY <1>3, <1>4, <2>1
<1>5. CASE loadProposals
  <2> DEFINE s == Query("setProposals", 0)
  <2>1. s \in StatementType /\ Issue(s)
    BY <1>5, QueryType, BoundAssumption DEF loadProposals, Then, SelectAll
  <2> HIDE DEF s
  <2>2. Asked(Listening) => Asked(Listening)'
    BY <2>1, AskedIssued
  <2>3. Awaited(Listening) => Awaited(Listening)'
    BY <1>0, <1>5, AwaitedTaken DEF loadProposals
  <2> QED
    BY <2>2, <2>3
<1>6. CASE setProposals
  <2>1. Asked(Listening) => Asked(Listening)'
    BY <1>6 DEF setProposals, Asked
  <2>2. Awaited(Listening) => Awaited(Listening)'
    BY <1>0, <1>6, AwaitedTaken DEF setProposals
  <2> QED
    BY <2>1, <2>2
<1>7. CASE listenForTransactionStatus
  <2> DEFINE s == Query("startMonitors", Head(answers).call)
  <2>1. s \in StatementType /\ Issue(s) /\ s.then \in Listening
    <3>1. Head(answers).call \in 0 .. MaxConnections
      BY <1>7, Taken DEF listenForTransactionStatus, AnswerType
    <3> QED
      BY <1>7, <3>1, QueryType DEF listenForTransactionStatus, Then, SelectAll, Query, Listening
  <2> HIDE DEF s
  <2> QED
    BY <2>1, AskedIssued
<1>8. CASE Monitoring
  <2>1. PICK m \in monitors, status \in Settled : Settle(m, status)
    BY <1>8 DEF Monitoring, WaitReturns, WaitThrows, Settled
  <2> DEFINE s == UpdateAndLoad(m.p, [m.entry EXCEPT !.status = status])
  <2>2. s \in StatementType
    <3>1. m.p \in Proposal /\ [m.entry EXCEPT !.status = status] \in Entry
      BY EntryExcept DEF TypeOK, MonitorType, Status
    <3> QED
      BY <3>1, UpdateType
  <2>3. Issue(s) /\ UNCHANGED answers
    BY <2>1 DEF Settle
  <2> HIDE DEF s
  <2> QED
    BY <1>3, <2>2, <2>3
<1>9. CASE Loading
  <2>1. PICK l \in loads : HandleSignatureFiles(l) \/ RefuseSignature(l)
    BY <1>9 DEF Loading
  <2> DEFINE entry == [l.entry EXCEPT !.sigs = @ \union {l.sig}]
  <2>2. l.p \in Proposal /\ entry \in Entry
    BY DEF TypeOK, LoadType, Entry
  <2>3. CASE HandleSignatureFiles(l)
    <3>1. updateCurrentProposal(l.p, entry) /\ UNCHANGED answers
      BY <2>3 DEF HandleSignatureFiles
    <3> HIDE DEF entry
    <3> QED
      BY <1>4, <2>2, <3>1
  <2> QED
    BY <1>1, <2>1, <2>3 DEF RefuseSignature, database
<1>10. CASE Expiring
  <2>1. PICK q \in Proposal : expire(q)
    BY <1>10 DEF Expiring
  <2>2. Expire(store[q]) \in Entry
    BY EntryExcept DEF TypeOK, Rows
  <2>3. updateCurrentProposal(q, Expire(store[q])) /\ UNCHANGED answers
    BY <2>1 DEF expire
  <2> QED
    BY <1>4, <2>2, <2>3
<1>11. CASE Submitting
  <2>1. PICK s \in submissions :
          \/ begin(s) \/ Unmounted(s)
          \/ NonceIsNext(s) \/ NonceIsUsed(s) \/ NonceIsAhead(s)
          \/ SendReturns(s) \/ SendThrows(s)
    BY <1>11 DEF Submitting
  <2>2. s.p \in Proposal /\ \A status \in Status : [s.entry EXCEPT !.status = status] \in Entry
    BY EntryExcept DEF TypeOK, SubmissionType
  <2>3. \/ UNCHANGED <<statements, answers>>
        \/ \E entry \in Entry : updateCurrentProposal(s.p, entry) /\ UNCHANGED answers
    <3>1. CASE NonceIsUsed(s)
      BY <2>2, <3>1 DEF NonceIsUsed, Status
    <3>2. CASE SendReturns(s)
      BY <2>2, <3>2 DEF SendReturns, Status
    <3> QED
      BY <2>1, <3>1, <3>2 DEF begin, Unmounted, NonceIsNext, NonceIsAhead, SendThrows, database
  <2> QED
    BY <1>1, <1>4, <2>2, <2>3
<1>12. CASE User
  <2>1. ASSUME NEW q \in Proposal, addProposal(q) \/ OpenProposal(q)
        PROVE  Asked(Listening)' \/ Awaited(Listening)'
    <3>1. PICK entry \in Entry : Opened(q, entry)
      <4>1. CASE addProposal(q)
        <5>1. \A sigs \in SUBSET Credential : [status |-> "Open", sigs |-> sigs] \in Entry
          BY DEF Entry, Status
        <5> QED
          BY <4>1, <5>1 DEF addProposal
      <4>2. CASE OpenProposal(q)
        BY <4>2 DEF OpenProposal, TypeOK, Rows
      <4> QED
        BY <2>1, <4>1, <4>2
    <3>2. UNCHANGED answers
      BY <2>1 DEF addProposal, OpenProposal
    <3>3. Asked(Listening) => Asked(Listening)'
      <4>1. \A i \in 1 .. Len(statements) : i \in 1 .. Len(statements') /\ statements'[i] = statements[i]
        BY <3>1, OpenedWrites
      <4> QED
        BY <4>1 DEF Asked
    <3>4. Awaited(Listening) => Awaited(Listening)'
      BY <3>2 DEF Awaited
    <3> QED
      BY <3>3, <3>4
  <2>2. CASE closeProposal
    <3>1. page.p \in Proposal /\ [store[page.p] EXCEPT !.status = "Closed"] \in Entry
      BY <2>2, EntryExcept DEF closeProposal, TypeOK, PageType, Rows, Status
    <3> QED
      BY <1>4, <2>2, <3>1 DEF closeProposal
  <2>3. CASE ChangeConnection
    <3> DEFINE s == Query("listen", connections')
    <3>1. s \in StatementType /\ Issue(s) /\ UNCHANGED answers
      BY <2>3, StartType, QueryType DEF ChangeConnection, startClient, Then
    <3> HIDE DEF s
    <3> QED
      BY <1>3, <3>1
  <2> QED
    BY <1>1, <1>12, <2>1, <2>2, <2>3 DEF User, dropFile, submitTransaction, Leave, database
<1>13. CASE Unlock
  <2> DEFINE s == Query("listen", connections')
  <2>1. s \in StatementType /\ Issue(s) /\ UNCHANGED answers
    BY <1>13, StartType, QueryType DEF Unlock, startClient, Then
  <2> HIDE DEF s
  <2> QED
    BY <1>3, <2>1
<1>14. ~Stop
  BY DEF Stop, running
<1>15. CASE Network \/ UNCHANGED vars
  BY <1>1, <1>15 DEF Network, Finalize, Overtake, ExpiryPasses, vars, database
<1> QED
  BY <1>2, <1>5, <1>6, <1>7, <1>8, <1>9, <1>10, <1>11, <1>12, <1>13, <1>14, <1>15 DEF Next, Answering

LEMMA NextWatched ==
  ASSUME TypeOK, InHandIsRight, LockedIsIdle, [Next]_vars, NEW p \in Proposal, IsWatched(p)
  PROVE  IsWatched(p)'
<1> SUFFICES ASSUME running', p \notin waited', \A m \in monitors' : m.p # p
             PROVE  \/ \A v \in Versions(p)' : v.status # "Submitted"
                    \/ /\ \A v \in Versions(p)' : v.status = "Submitted"
                       /\ Asked(Listening)' \/ Awaited(Listening)'
  BY DEF IsWatched
<1>1. \A w \in Versions(p)' : w \in Versions(p) \/ \E v \in Versions(p) : Made(p, v, w)
  BY NextComes DEF Comes
<1>2. p \notin waited /\ \A m \in monitors : m.p # p
  BY MonitorsStay
<1>3. CASE \A v \in Versions(p) : v.status # "Submitted"
  <2>1. \A v \in Versions(p) : \A w : Made(p, v, w) => w.status # "Submitted"
    BY <1>2 DEF Made, Settled
  <2> QED
    BY <1>1, <1>3, <2>1
<1>4. ASSUME \A v \in Versions(p) : v.status = "Submitted"
      PROVE  \A v \in Versions(p)' : v.status = "Submitted"
  <2>1. \A v \in Versions(p) : \A w : ~Made(p, v, w)
    BY <1>2, <1>4 DEF Made, Absent
  <2> QED
    BY <1>1, <1>4, <2>1
<1>5. CASE running
  <2>1. CASE /\ \A v \in Versions(p) : v.status = "Submitted"
             /\ Asked(Listening) \/ Awaited(Listening)
    <3>1. ~startMonitors
      <4>1. SUFFICES ASSUME startMonitors PROVE FALSE
        OBVIOUS
      <4>2. answers[1].then = "startMonitors" /\ Head(answers) = answers[1] /\ 1 \in 1 .. Len(answers)
        BY <4>1, Taken DEF startMonitors
      <4>3. answers[1].rows[p].status = "Submitted"
        BY <2>1, <4>2 DEF Versions, SelectAll
      <4> DEFINE n == Monitor(<<"connection", answers[1].call>>, p, answers[1].rows[p])
      <4>4. n \in monitors' /\ n.p = p
        BY <4>1, <4>2, <4>3 DEF startMonitors, Monitor
      <4> QED
        BY <4>4
    <3>2. Asked(Listening)' \/ Awaited(Listening)'
      BY <2>1, <3>1, ListenerStays
    <3> QED
      BY <1>4, <2>1, <3>2
  <2> QED
    BY <1>2, <1>3, <1>5, <2>1 DEF IsWatched
<1>6. CASE ~running
  <2>1. Unlock
    <3>1. session' # session
      BY <1>6 DEF running
    <3> QED
      BY <1>6, <3>1 DEF Next, Network, Finalize, Overtake, ExpiryPasses, execute, Answering, loadProposals, setProposals,
         listenForTransactionStatus, startMonitors, Answered, Monitoring, Loading, Submitting, Expiring, expire,
         User, addProposal, OpenProposal, dropFile, closeProposal, submitTransaction, Leave, ChangeConnection,
         UserMayAct, Unlock, Stop, LockedIsIdle, vars
  <2>2. \A v \in Versions(p) : v = table[p]
    <3>1. 1 .. Len(statements) = {} /\ 1 .. Len(answers) = {}
      BY <1>6 DEF LockedIsIdle
    <3> QED
      BY <1>6, <3>1 DEF LockedIsIdle, Versions, Writes
  <2>3. Asked(Listening)'
    <3> DEFINE s == Query("listen", connections')
    <3>1. s \in StatementType /\ Issue(s) /\ s.then \in Listening
      BY <2>1, StartType, QueryType DEF Unlock, startClient, Then, Query, Listening
    <3> HIDE DEF s
    <3> QED
      BY <3>1, AskedIssued
  <2> QED
    BY <1>3, <1>4, <2>2, <2>3
<1> QED
  BY <1>5, <1>6

\* What it takes to show the rows after a proposal has been replaced.
LEMMA CurrentShown ==
  ASSUME TypeOK, IsShown, running, NEW q \in Proposal, NEW entry \in Entry, updateCurrentProposal(q, entry),
         UNCHANGED <<table, answers, crossed>>
  PROVE  IsShown'
<1> DEFINE s == Update(q, entry)
<1>1. s \in StatementType /\ Issue(s) /\ s.p = q /\ s.entry = entry /\ s.then = "nothing"
  BY UpdateType DEF updateCurrentProposal, Update
<1>2. \A r \in Proposal : store'[r] = IF r = q THEN entry ELSE store[r]
  BY DEF updateCurrentProposal, TypeOK, Rows
<1> HIDE DEF s
<1>3. Asked(Load)' <=> Asked(Load)
  BY <1>1, AskedIssued DEF Load
<1>4. Awaited(Load)' <=> Awaited(Load)
  BY DEF Awaited
<1>5. ASSUME NEW r \in Proposal, WillBe(r, store[r]) \/ r = q PROVE WillBe(r, store[r])'
  <2>1. CASE r = q
    <3>1. WillBe(q, entry)'
      BY <1>1, IssuedWillBe
    <3> QED
      BY <1>2, <2>1, <3>1 DEF WillBe
  <2>2. CASE r # q
    <3> DEFINE e == store[r]
    <3>1. WillBe(r, e) => WillBe(r, e)'
      <4>1. \A x : WillBe(r, x) => WillBe(r, x)'
        BY <1>1, <2>2, IssuedWillBe
      <4>2. e' = e
        BY <1>2, <2>2
      <4> QED
        BY <4>1, <4>2 DEF WillBe
    <3> QED
      BY <1>5, <2>2, <3>1
  <2> QED
    BY <2>1, <2>2
<1> QED
  BY <1>3, <1>4, <1>5 DEF IsShown

\* ... after a query,
LEMMA QueryShown ==
  ASSUME TypeOK, IsShown, running, NEW s \in StatementType, Issue(s), s.p = "none",
         Awaited(Load)' <=> Awaited(Load), UNCHANGED <<table, store, crossed>>
  PROVE  IsShown'
<1>1. Asked(Load) => Asked(Load)'
  BY AskedIssued
<1>2. \A p \in Proposal : WillBe(p, store[p]) => WillBe(p, store[p])'
  <2> SUFFICES ASSUME NEW p \in Proposal, WillBe(p, store[p]) PROVE WillBe(p, store[p])'
    OBVIOUS
  <2>1. s.p # p
    BY ProposalAssumption
  <2> DEFINE e == store[p]
  <2>2. WillBe(p, e)
    OBVIOUS
  <2>3. e' = e
    OBVIOUS
  <2> QED
    BY <2>1, <2>2, <2>3, IssuedWillBe DEF WillBe
<1> QED
  BY <1>1, <1>2 DEF IsShown

LEMMA QuietShown ==
  ASSUME IsShown, UNCHANGED <<table, statements, store, session, crossed>>, Awaited(Load) => Awaited(Load)'
  PROVE  IsShown'
<1>1. \A p \in Proposal : WillBe(p, store[p]) => WillBe(p, store[p])'
  BY DEF WillBe, Writes
<1>2. Asked(Load)' <=> Asked(Load)
  BY DEF Asked
<1> QED
  BY <1>1, <1>2 DEF IsShown, running

\* ... and after a page has been opened.
LEMMA OpenedShown ==
  ASSUME TypeOK, IsShown, running, NEW q \in Proposal, NEW entry \in Entry, Opened(q, entry),
         store'[q] = entry,
         \A r \in Proposal : r # q => table'[r] = table[r] /\ store'[r] = store[r],
         UNCHANGED <<answers, crossed>>
  PROVE  IsShown'
<1>1. Asked(Load)' <=> Asked(Load)
  <2>1. "nothing" \notin Load
    BY DEF Load
  <2> QED
    BY <2>1, OpenedWillBe
<1>2. Awaited(Load)' <=> Awaited(Load)
  BY DEF Awaited
<1>3. ASSUME NEW r \in Proposal, WillBe(r, store[r]) \/ r = q PROVE WillBe(r, store[r])'
  <2>1. CASE r = q
    <3>1. WillBe(q, entry)'
      BY OpenedWillBe
    <3> QED
      BY <2>1, <3>1 DEF WillBe
  <2>2. CASE r # q
    <3>1. \A x : WillBe(r, x) => WillBe(r, x)'
      BY <2>2, OpenedWillBe
    <3>2. store'[r] = store[r]
      BY <2>2
    <3> QED
      BY <1>3, <2>2, <3>1, <3>2 DEF WillBe
  <2> QED
    BY <2>1, <2>2
<1> QED
  BY <1>1, <1>2, <1>3 DEF IsShown

LEMMA NextShown == TypeOK /\ LockedIsIdle /\ IsShown /\ [Next]_vars => IsShown'
<1> SUFFICES ASSUME TypeOK, LockedIsIdle, IsShown, [Next]_vars PROVE IsShown'
  OBVIOUS
<1>0. "nothing" \notin Load /\ "listen" \notin Load /\ "startMonitors" \notin Load /\ "setProposals" \in Load
  BY DEF Load
<1>1. CASE Network \/ UNCHANGED vars
  <2>1. UNCHANGED <<table, statements, answers, store, session, crossed>>
    BY <1>1 DEF Network, Finalize, Overtake, ExpiryPasses, vars, database, history
  <2> QED
    BY <2>1, QuietShown DEF Awaited
<1>2. CASE execute
  <2>1. UNCHANGED <<store, session, crossed>>
    BY <1>2 DEF execute, history
  <2>2. ~Asked(Load)' /\ ~Awaited(Load)' => ~Asked(Load) /\ ~Awaited(Load)
    BY <1>0, <1>2, AskedExecuted
  <2>3. ASSUME NEW p \in Proposal, WillBe(p, store[p]) PROVE WillBe(p, store[p])'
    <3> DEFINE e == store[p]
    <3>1. e' = e
      BY <2>1
    <3>2. WillBe(p, e)
      BY <2>3
    <3>3. \A x : WillBe(p, x) => WillBe(p, x)'
      BY <1>2, ExecutedWillBe
    <3> QED
      BY <3>1, <3>2, <3>3 DEF WillBe
  <2> QED
    BY <2>1, <2>2, <2>3 DEF IsShown, running
<1>3. CASE loadProposals
  <2> DEFINE s == Query("setProposals", 0)
  <2>1. s \in StatementType /\ Issue(s) /\ s.then \in Load
    BY <1>3, QueryType, BoundAssumption DEF loadProposals, Then, SelectAll, Query, Load
  <2> HIDE DEF s
  <2>2. Asked(Load)'
    BY <2>1, AskedIssued
  <2> QED
    BY <2>2 DEF IsShown
<1>4. CASE setProposals
  <2>1. UNCHANGED <<table, statements>> /\ crossed' = {p \in Proposal : ~WillBe(p, store'[p])}
    BY <1>4 DEF setProposals
  <2>2. \A p \in Proposal \ crossed' : WillBe(p, store[p])'
    BY <2>1 DEF WillBe, Writes
  <2> QED
    BY <2>2 DEF IsShown
<1>5. CASE listenForTransactionStatus
  <2> DEFINE s == Query("startMonitors", Head(answers).call)
  <2>1. s \in StatementType /\ Issue(s) /\ s.p = "none"
    <3>1. Head(answers).call \in 0 .. MaxConnections
      BY <1>5, Taken DEF listenForTransactionStatus, AnswerType
    <3> QED
      BY <1>5, <3>1, QueryType DEF listenForTransactionStatus, Then, SelectAll, Query
  <2> HIDE DEF s
  <2>2. Awaited(Load)' <=> Awaited(Load)
    BY <1>0, <1>5, AwaitedTaken DEF listenForTransactionStatus
  <2>3. running /\ UNCHANGED <<table, store, crossed>>
    BY <1>5 DEF listenForTransactionStatus, Answered, LockedIsIdle, history
  <2> QED
    BY <2>1, <2>2, <2>3, QueryShown
<1>6. CASE startMonitors
  <2>1. UNCHANGED <<table, statements, store, session, crossed>>
    BY <1>6 DEF startMonitors
  <2>2. Awaited(Load) => Awaited(Load)'
    BY <1>0, <1>6, AwaitedTaken DEF startMonitors
  <2> QED
    BY <2>1, <2>2, QuietShown
<1>7. CASE Monitoring
  <2>1. PICK m \in monitors, status \in Settled : Settle(m, status)
    BY <1>7 DEF Monitoring, WaitReturns, WaitThrows, Settled
  <2> DEFINE s == UpdateAndLoad(m.p, [m.entry EXCEPT !.status = status])
  <2>2. s \in StatementType /\ s.then \in Load
    <3>1. m.p \in Proposal /\ [m.entry EXCEPT !.status = status] \in Entry
      BY EntryExcept DEF TypeOK, MonitorType, Status
    <3>2. s.then = "loadProposals"
      BY DEF UpdateAndLoad, Update
    <3> QED
      BY <3>1, <3>2, UpdateType DEF Load
  <2>3. Issue(s)
    BY <2>1 DEF Settle
  <2> HIDE DEF s
  <2>4. Asked(Load)'
    BY <2>2, <2>3, AskedIssued
  <2> QED
    BY <2>4 DEF IsShown
<1>8. CASE Loading
  <2>1. PICK l \in loads : HandleSignatureFiles(l) \/ RefuseSignature(l)
    BY <1>8 DEF Loading
  <2>2. CASE RefuseSignature(l)
    <3>1. UNCHANGED <<table, statements, answers, store, session, crossed>>
      BY <2>2 DEF RefuseSignature, database, history
    <3> QED
      BY <3>1, QuietShown DEF Awaited
  <2>3. CASE HandleSignatureFiles(l)
    <3> DEFINE entry == [l.entry EXCEPT !.sigs = @ \union {l.sig}]
    <3>1. l.p \in Proposal /\ entry \in Entry
      BY DEF TypeOK, LoadType, Entry
    <3>2. updateCurrentProposal(l.p, entry) /\ UNCHANGED <<table, answers, crossed>> /\ running
      BY <2>3 DEF HandleSignatureFiles, LockedIsIdle, history
    <3> HIDE DEF entry
    <3> QED
      BY <3>1, <3>2, CurrentShown
  <2> QED
    BY <2>1, <2>2, <2>3
<1>9. CASE Submitting
  <2>1. PICK s \in submissions :
          \/ begin(s) \/ Unmounted(s)
          \/ NonceIsNext(s) \/ NonceIsUsed(s) \/ NonceIsAhead(s)
          \/ SendReturns(s) \/ SendThrows(s)
    BY <1>9 DEF Submitting
  <2>2. s.p \in Proposal /\ \A status \in Status : [s.entry EXCEPT !.status = status] \in Entry
    BY EntryExcept DEF TypeOK, SubmissionType
  <2>3. running /\ UNCHANGED <<table, answers, session, crossed>>
    BY <2>1 DEF begin, Unmounted, NonceIsNext, NonceIsUsed, NonceIsAhead, SendReturns, SendThrows, database, history,
       LockedIsIdle
  <2>4. \/ UNCHANGED <<statements, store>>
        \/ \E entry \in Entry : updateCurrentProposal(s.p, entry)
    <3>1. CASE NonceIsUsed(s)
      BY <2>2, <3>1 DEF NonceIsUsed, Status
    <3>2. CASE SendReturns(s)
      BY <2>2, <3>2 DEF SendReturns, Status
    <3> QED
      BY <2>1, <3>1, <3>2 DEF begin, Unmounted, NonceIsNext, NonceIsAhead, SendThrows, database
  <2>5. CASE UNCHANGED <<statements, store>>
    BY <2>3, <2>5, QuietShown DEF Awaited
  <2> QED
    BY <2>2, <2>3, <2>4, <2>5, CurrentShown
<1>10. CASE Expiring
  <2>1. PICK q \in Proposal : expire(q)
    BY <1>10 DEF Expiring
  <2>2. Expire(store[q]) \in Entry
    BY EntryExcept DEF TypeOK, Rows
  <2>3. updateCurrentProposal(q, Expire(store[q])) /\ UNCHANGED <<table, answers, crossed>> /\ running
    BY <2>1 DEF expire, history
  <2> QED
    BY <2>2, <2>3, CurrentShown
<1>11. CASE User
  <2>0. running /\ running' /\ UNCHANGED <<answers, crossed>>
    BY <1>11 DEF User, addProposal, OpenProposal, dropFile, closeProposal, submitTransaction, Leave, ChangeConnection,
       UserMayAct, startClient, running, database, history
  <2>1. ASSUME NEW q \in Proposal, addProposal(q) PROVE IsShown'
    <3>1. PICK sigs \in SUBSET Credential :
            LET entry == [status |-> "Open", sigs |-> sigs] IN
              /\ table' = [table EXCEPT ![q] = entry]
              /\ store' = [store EXCEPT ![q] = entry]
              /\ Opened(q, entry)
      BY <2>1 DEF addProposal
    <3> DEFINE entry == [status |-> "Open", sigs |-> sigs]
    <3>2. entry \in Entry
      BY DEF Entry, Status
    <3>3. Opened(q, entry)
      BY <3>1
    <3>4. /\ \A r \in Proposal : r # q => table'[r] = table[r] /\ store'[r] = store[r]
          /\ store'[q] = entry
      BY <3>1 DEF TypeOK, Rows
    <3> HIDE DEF entry
    <3> QED
      BY <2>0, <3>2, <3>3, <3>4, OpenedShown
  <2>2. ASSUME NEW q \in Proposal, OpenProposal(q) PROVE IsShown'
    <3>1. store[q] \in Entry /\ Opened(q, store[q]) /\ UNCHANGED <<table, store>>
      BY <2>2 DEF OpenProposal, TypeOK, Rows
    <3> QED
      BY <2>0, <3>1, OpenedShown
  <2>3. CASE closeProposal
    <3>1. page.p \in Proposal /\ [store[page.p] EXCEPT !.status = "Closed"] \in Entry
      BY <2>3, EntryExcept DEF closeProposal, TypeOK, PageType, Rows, Status
    <3> QED
      BY <2>0, <2>3, <3>1, CurrentShown DEF closeProposal
  <2>4. CASE ChangeConnection
    <3> DEFINE s == Query("listen", connections')
    <3>1. s \in StatementType /\ Issue(s) /\ s.p = "none"
      BY <2>4, StartType, QueryType DEF ChangeConnection, startClient, Then, Query
    <3> HIDE DEF s
    <3>2. UNCHANGED <<table, store>>
      BY <2>4 DEF ChangeConnection
    <3> QED
      BY <2>0, <3>1, <3>2, QueryShown DEF Awaited
  <2>5. CASE dropFile \/ submitTransaction \/ Leave
    <3>1. UNCHANGED <<table, statements, answers, store, session, crossed>>
      BY <2>5 DEF dropFile, submitTransaction, Leave, database, history
    <3> QED
      BY <3>1, QuietShown DEF Awaited
  <2> QED
    BY <1>11, <2>1, <2>2, <2>3, <2>4, <2>5 DEF User
<1>12. CASE Unlock
  <2> DEFINE s == Query("listen", connections')
  <2>1. s \in StatementType /\ Issue(s) /\ s.p = "none"
    BY <1>12, StartType, QueryType DEF Unlock, startClient, Then, Query
  <2>2. ~running /\ store' = table /\ UNCHANGED table
    BY <1>12 DEF Unlock
  <2>3. \A p \in Proposal : Writes(p)' = {}
    <3>1. 1 .. Len(statements) = {}
      BY <2>2 DEF LockedIsIdle
    <3> HIDE DEF s
    <3> QED
      BY <2>1, <3>1, Issued, ProposalAssumption DEF Writes
  <2>4. \A p \in Proposal : WillBe(p, store[p])'
    BY <2>2, <2>3 DEF WillBe
  <2> QED
    BY <2>4 DEF IsShown
<1>13. CASE Stop
  BY <1>13 DEF Stop, IsShown, running
<1> QED
  BY <1>1, <1>2, <1>3, <1>4, <1>5, <1>6, <1>7, <1>8, <1>9, <1>10, <1>11, <1>12, <1>13 DEF Next, Answering

\* Whatever the user does meanwhile, and whatever a page writes back: while the
\* wallet runs, a submitted proposal is followed until its monitor has ended.
THEOREM SubmittedIsAlwaysFollowed == Spec => []SubmittedIsFollowed
<1> DEFINE W == \A p \in Proposal : IsWatched(p)
<1>1. Init => W
  BY DEF Init, IsWatched, running
<1>2. TypeOK /\ (InHandIsRight /\ LockedIsIdle) /\ W /\ [Next]_vars => W'
  BY NextWatched
<1>3. TypeOK /\ W => SubmittedIsFollowed
  <2> SUFFICES ASSUME TypeOK, NEW p \in Proposal, IsWatched(p),
                      running, table[p].status = "Submitted", p \notin waited
               PROVE  Followed(p)
    BY DEF SubmittedIsFollowed
  <2>1. table[p] \in Versions(p)
    BY DEF Versions
  <2>2. CASE \E m \in monitors : m.p = p
    BY <2>2 DEF Followed
  <2>3. CASE /\ \A v \in Versions(p) : v.status = "Submitted"
             /\ Asked(Listening) \/ Awaited(Listening)
    <3>1. \A i \in 1 .. Len(answers) : answers[i].then = "startMonitors" => answers[i].rows[p].status = "Submitted"
      BY <2>3 DEF Versions, SelectAll
    <3> QED
      BY <2>3, <3>1 DEF Followed, Asked, Awaited, Listening
  <2> QED
    BY <2>1, <2>2, <2>3 DEF IsWatched
<1> QED
  BY <1>1, <1>2, <1>3, InHandIsAlwaysRight, TypeCorrect, PTL DEF Spec

\* Among any number of proposals, loads and writers: when nothing is under way,
\* the store shows every row but those that were written while the rows of the
\* last load were on their way.
THEOREM StoreIsAlwaysTable == Spec => []StoreIsTable
<1>1. Init => IsShown
  BY DEF Init, IsShown, running
<1>2. TypeOK /\ (InHandIsRight /\ LockedIsIdle) /\ IsShown /\ [Next]_vars => IsShown'
  BY NextShown
<1>3. IsShown => StoreIsTable
  <2> SUFFICES ASSUME IsShown, running, statements = <<>>, answers = <<>>, NEW p \in Proposal \ crossed
               PROVE  store[p] = table[p]
    BY DEF StoreIsTable
  <2>1. 1 .. Len(statements) = {} /\ 1 .. Len(answers) = {}
    OBVIOUS
  <2>2. Writes(p) = {} /\ ~Asked(Load) /\ ~Awaited(Load)
    BY <2>1 DEF Writes, Asked, Awaited
  <2> QED
    BY <2>2 DEF IsShown, WillBe
<1> QED
  BY <1>1, <1>2, <1>3, InHandIsAlwaysRight, TypeCorrect, PTL DEF Spec
=============================================================================
