------------------------ MODULE AccountCreationProofs ------------------------
(***************************************************************************)
(* Proofs about AccountCreation for every number of identities, accounts,  *)
(* connections, requests and lost answers, and whatever accounts the user  *)
(* has in the address book before.                                         *)
(***************************************************************************)
EXTENDS AccountCreation, WellFoundedInduction, TLAPS

\* What TypeOK says of each variable, without the foreign keys, and
\* that the origins of later monitors are calls of startClient, not the page.
Types ==
  /\ provider \in [Identity -> {"none", "processing", "done", "error"}]
  /\ chain \in [Account -> {"none", "received", "created"}]
  /\ identity \in [Identity -> Status] /\ account \in [Account -> Status]
  /\ credential \subseteq Account /\ book \subseteq Account
  /\ session \in {"stopped", "unlocking", "running"}
  /\ issue \in [pc : {"idle", "picked", "located"}, i : Identity]
  /\ poll \in [Identity -> {"none", "polling"}]
  /\ create \in [pc : {"idle", "opened", "half", "saved", "failed", "removing"},
                 a : Account]
  /\ listening \subseteq Origin \ {Page}
  /\ monitor \in [Account -> [Origin -> {"none", "waiting", "naming"}]]
  /\ connections \in 0..MaxConnections /\ requests \in 0..MaxRequests
  /\ failures \in 0..MaxFailures
  /\ unsaved \subseteq Identity /\ halfSaved \subseteq Account
  /\ lost \subseteq Account /\ hasty \subseteq Account

\* The page works on an identity that is not there yet, a poll on a pending
\* one; what was rejected had an error at the provider, and what it has
\* accepted is written down or about to be.
IdentitiesAreHeld ==
  /\ issue.pc # "idle" => identity[issue.i] = "none"
  /\ \A i \in Identity :
       /\ poll[i] = "polling" => identity[i] = "pending"
       /\ identity[i] = "rejected" => provider[i] = "error"
       /\ provider[i] \in {"processing", "done"} /\ i \notin unsaved
            => identity[i] # "none" \/ (issue.pc = "located" /\ issue.i = i)
       /\ Initial(i) \in credential => identity[i] = "confirmed"

\* The page works on account a.
Creating(a) == create.pc # "idle" /\ create.a = a

\* The page takes the steps of saveAccount and removeFailed in their order, for
\* an account of a confirmed identity: its rows are there exactly between the
\* steps that write and remove them, and the network has not got it, unless its
\* answer was lost.
CreateIsInOrder ==
  create.pc # "idle" =>
    /\ create.a \in Deployed /\ identity[create.a[1]] = "confirmed"
    /\ create.a \in credential <=> create.pc \notin {"opened", "half"}
    /\ create.pc \in {"half", "saved", "failed"} => account[create.a] # "none"
    /\ create.pc = "removing" => account[create.a] = "none"
    /\ create.pc # "opened" => chain[create.a] = "none" \/ create.a \in lost

\* The identity of an account is confirmed; an account without a credential was
\* left half saved or is being saved; the page's monitor waits for what was
\* sent, and what is rejected before it was sent some monitor gave up too early.
RowsAreHeld ==
  \A a \in Deployed :
    /\ account[a] # "none" \/ a \in credential => identity[a[1]] = "confirmed"
    /\ account[a] # "none" => \/ a \in credential \union halfSaved
                              \/ create.pc = "half" /\ create.a = a
    /\ monitor[a][Page] # "none" => a \in credential /\ ~ Creating(a)
    /\ account[a] = "rejected" /\ create.a = a /\ create.pc \in {"half", "saved"}
         => a \in hasty \union lost

\* The inductive invariant, with Types.
IInv ==
  /\ IdentityIsWhole
  /\ NoAccountIsLost
  /\ IdentitiesAreHeld /\ CreateIsInOrder /\ RowsAreHeld

-----------------------------------------------------------------------------
\* A set of numbers up to a bound has a largest one, which Max returns.
LEMMA MaxOfNumbers ==
  ASSUME NEW n \in Nat, NEW S \in SUBSET (0..n), S # {}
  PROVE  Max(S) \in S /\ Max(S) + 1 \notin S
<1> DEFINE T == {n - k : k \in S}
<1>1. T \subseteq Nat
  OBVIOUS
<1>2. T # {}
  OBVIOUS
<1>3. PICK x \in T : \A y \in T : ~ (<<y, x>> \in OpToRel(<, Nat))
  <2> HIDE DEF T
  <2> QED
    BY <1>1, <1>2, NatLessThanWellFounded, WFMin
<1>4. \A y \in T : ~ (y < x)
  BY <1>1, <1>3 DEF OpToRel
<1>5. PICK m \in S : x = n - m
  BY <1>3
<1>6. ASSUME NEW k \in S PROVE m >= k
  <2>1. n - k \in T
    OBVIOUS
  <2>2. ~ (n - k < n - m)
    BY <1>4, <1>5, <2>1
  <2> QED
    BY <2>2
<1>7. Max(S) \in S /\ \A k \in S : Max(S) >= k
  BY <1>6 DEF Max
<1> QED
  <2> DEFINE max == Max(S)
  <2>1. max \in S /\ \A k \in S : max >= k
    BY <1>7
  <2> HIDE DEF max
  <2>2. max \in Nat /\ ~ (max >= max + 1)
    BY <2>1
  <2>3. max + 1 \notin S
    BY <2>1, <2>2
  <2> QED
    BY <2>1, <2>3 DEF max

\* The next identity number is nobody's.
LEMMA NextIdentityIsNew ==
  ASSUME Types, NextIdentityNumber \in Identity
  PROVE  identity[NextIdentityNumber] = "none"
<1> DEFINE numbers == {i \in Identity : identity[i] # "none"}
<1>1. CASE numbers = {}
  BY <1>1 DEF NextIdentityNumber, Identity
<1>2. CASE numbers # {}
  <2>1. Max(numbers) + 1 \notin numbers
    BY <1>2, MaxOfNumbers, BoundsAssumption DEF Identity
  <2>2. NextIdentityNumber = Max(numbers) + 1
    BY <1>2 DEF NextIdentityNumber
  <2> QED
    BY <2>1, <2>2
<1> QED
  BY <1>1, <1>2

\* Nor is the next credential number of an identity one of its credentials'.
LEMMA NextNumberIsNew ==
  ASSUME NEW i \in Identity
  PROVE  <<i, getNextCredentialNumber(i)>> \notin credential
           \/ getNextCredentialNumber(i) \notin 0..MaxNumber
<1> DEFINE numbers == {k \in 0..MaxNumber : <<i, k>> \in credential}
<1>1. CASE numbers = {}
  BY <1>1 DEF getNextCredentialNumber
<1>2. CASE numbers # {}
  <2>1. Max(numbers) + 1 \notin numbers
    BY <1>2, MaxOfNumbers, BoundsAssumption
  <2>2. getNextCredentialNumber(i) = Max(numbers) + 1
    BY <1>2 DEF getNextCredentialNumber
  <2> QED
    BY <2>1, <2>2
<1> QED
  BY <1>1, <1>2

\* An account is an identity's initial one or a deployed one.
LEMMA AccountsOfIdentities ==
  /\ \A i \in Identity : Initial(i) \in Account \ Deployed
  /\ \A a \in Account : a[1] \in Identity /\ (a \in Deployed \/ a = Initial(a[1]))
  /\ Deployed \subseteq Account
BY BoundsAssumption DEF Account, Initial, Deployed, Identity

\* The records of the closed pages are of their types.
LEMMA NothingOpen ==
  /\ NoIssue \in [pc : {"idle", "picked", "located"}, i : Identity]
  /\ NoCreate \in [pc : {"idle", "opened", "half", "saved", "failed", "removing"}, a : Account]
<1>1. 0 \in Identity /\ Initial(0) \in Account
  BY BoundsAssumption, AccountsOfIdentities DEF Identity
<1> QED
  BY <1>1 DEF NoIssue, NoCreate

\* The wallet starts empty.
LEMMA InitInv == Init => Types /\ IInv
<1> SUFFICES ASSUME Init PROVE Types /\ IInv
  OBVIOUS
<1> USE DEF Init, NoIssue, NoPolls, NoCreate, NoMonitors
<1>1. Types
  BY BoundsAssumption DEF Types, Identity, Account, Initial, Status
<1>2. IInv
  <2> USE AccountsOfIdentities
  <2>1. create.pc = "idle" /\ issue.pc = "idle"
    OBVIOUS
  <2>2. IdentityIsWhole
    BY DEF IdentityIsWhole
  <2>3. IdentitiesAreHeld /\ CreateIsInOrder
    BY DEF IdentitiesAreHeld, CreateIsInOrder
  <2>4. NoAccountIsLost
    BY DEF NoAccountIsLost
  <2>5. RowsAreHeld
    BY BoundsAssumption DEF RowsAreHeld, Origin, Page
  <2> QED
    BY <2>2, <2>3, <2>4, <2>5 DEF IInv
<1> QED
  BY <1>1, <1>2

-----------------------------------------------------------------------------
(* Every step keeps the types. *)

\* The steps of the provider, the network, the user and the application.
LEMMA WorldTypes ==
  ASSUME Types,
         \/ \E i \in Identity : Issue(i)
         \/ \E a \in Account : Deploy(a) \/ Note(a)
         \/ Unlock \/ ChangeConnection \/ listenForIdentityStatus \/ Stop
         \/ \E o \in Origin : listenForAccountStatus(o)
  PROVE  Types'
<1> USE DEF Types, world, rows, pages, bounds, history
<1>1. ASSUME NEW i \in Identity, Issue(i) PROVE Types'
  BY <1>1, AccountsOfIdentities DEF Issue
<1>2. ASSUME NEW a \in Account, Deploy(a) \/ Note(a) PROVE Types'
  BY <1>2 DEF Deploy, Note
<1>3. CASE Unlock \/ ChangeConnection
  <2>1. startClient /\ session' \in {"stopped", "unlocking", "running"}
    BY <1>3 DEF Unlock, ChangeConnection
  <2>2. connections' \in 0..MaxConnections
        /\ listening' \subseteq Origin \ {Page}
    BY <2>1, BoundsAssumption DEF startClient, Origin, Page
  <2> QED
    BY <2>1, <2>2 DEF startClient
<1>4. CASE listenForIdentityStatus
  BY <1>4 DEF listenForIdentityStatus
<1>5. CASE Stop
  <2>1. /\ poll' \in [Identity -> {"none", "polling"}]
        /\ monitor' \in [Account -> [Origin -> {"none", "waiting", "naming"}]]
    BY <1>5 DEF Stop, NoPolls, NoMonitors
  <2>2. unsaved' \subseteq Identity /\ halfSaved' \subseteq Account
    BY <1>5 DEF Stop
  <2> QED
    BY <1>5, <2>1, <2>2, NothingOpen DEF Stop
<1>6. ASSUME NEW o \in Origin, listenForAccountStatus(o) PROVE Types'
  BY <1>6 DEF listenForAccountStatus
<1> QED
  BY <1>1, <1>2, <1>3, <1>4, <1>5, <1>6

\* The steps of issuing an identity.
LEMMA IdentityTypes ==
  ASSUME Types,
         \/ PickProvider \/ Request \/ IssueFails
         \/ insertPendingIdentityAndInitialAccount
         \/ \E i \in Identity : PollStep(i) \/ removeIdentityAndInitialAccount(i)
  PROVE  Types'
<1> USE DEF Types, world, rows, pages, bounds, history, Status
<1>1. CASE PickProvider
  BY <1>1 DEF PickProvider
<1>2. CASE Request
  BY <1>2, BoundsAssumption DEF Request
<1>3. CASE IssueFails
  <2>1. unsaved' \subseteq Identity
    BY <1>3 DEF IssueFails
  <2> QED
    BY <1>3, <2>1, NothingOpen DEF IssueFails
<1>4. CASE insertPendingIdentityAndInitialAccount
  <2>1. issue.i \in Identity /\ Initial(issue.i) \in Account
    BY AccountsOfIdentities
  <2>2. /\ identity' \in [Identity -> Status] /\ account' \in [Account -> Status]
        /\ poll' \in [Identity -> {"none", "polling"}]
        /\ unsaved' \subseteq Identity
    BY <1>4, <2>1 DEF insertPendingIdentityAndInitialAccount
  <2> QED
    BY <1>4, <2>2, NothingOpen DEF insertPendingIdentityAndInitialAccount
<1>5. ASSUME NEW i \in Identity, PollStep(i) \/ removeIdentityAndInitialAccount(i) PROVE Types'
  <2>1. Initial(i) \in Account
    BY AccountsOfIdentities
  <2>2. CASE rejectIdentityAndInitialAccount(i)
    BY <2>1, <2>2 DEF rejectIdentityAndInitialAccount
  <2>3. CASE confirmIdentity(i)
    <3>1. CASE Initial(i) \in book \union credential
      BY <2>3, <3>1 DEF confirmIdentity
    <3>2. CASE Initial(i) \notin book \union credential
      <4>1. /\ identity' = [identity EXCEPT ![i] = "confirmed"]
            /\ account' = [account EXCEPT ![Initial(i)] = "confirmed"]
            /\ credential' = credential \union {Initial(i)}
            /\ book' = book \union {Initial(i)}
        BY <2>3, <3>2 DEF confirmIdentity
      <4>2. /\ identity' \in [Identity -> Status]
            /\ account' \in [Account -> Status]
            /\ credential' \subseteq Account /\ book' \subseteq Account
        BY <2>1, <4>1
      <4> QED
        BY <2>3, <4>2 DEF confirmIdentity
    <3> QED
      BY <3>1, <3>2
  <2>4. CASE removeIdentityAndInitialAccount(i)
    BY <2>1, <2>4 DEF removeIdentityAndInitialAccount
  <2> QED
    BY <1>5, <2>2, <2>3, <2>4 DEF PollStep
<1> QED
  BY <1>1, <1>2, <1>3, <1>4, <1>5

\* The steps of creating an account.
LEMMA AccountTypes ==
  ASSUME Types,
         \/ CreateStep \/ ClosePage
         \/ \E i \in Identity : OpenPage(i)
         \/ \E a \in Deployed, o \in Origin : MonitorStep(a, o)
  PROVE  Types'
<1> USE DEF Types, world, rows, pages, bounds, history, Status
<1>0. create.a \in Account
  OBVIOUS
<1>1. CASE addPendingAccount \/ insertNewCredential \/ ClosePage
  <2>1. CASE addPendingAccount
    BY <1>0, <2>1, NothingOpen DEF addPendingAccount
  <2>2. CASE insertNewCredential
    BY <1>0, <2>2 DEF insertNewCredential
  <2>3. CASE ClosePage
    BY <2>3, NothingOpen DEF ClosePage
  <2> QED
    BY <1>1, <2>1, <2>2, <2>3
<1>2. CASE sendCredential
  <2>1. Page \in Origin
    BY BoundsAssumption DEF Origin, Page
  <2> QED
    BY <1>0, <1>2, <2>1, NothingOpen DEF sendCredential
<1>3. CASE sendFails
  <2>1. failures' \in 0..MaxFailures
    BY <1>3, BoundsAssumption DEF sendFails
  <2>2. /\ chain' \in [Account -> {"none", "received", "created"}]
        /\ lost' \subseteq Account
    BY <1>0, <1>3 DEF sendFails
  <2> QED
    BY <1>0, <1>3, <2>1, <2>2 DEF sendFails
<1>4. CASE removeAccount \/ removeCredentialsOfAccount
  BY <1>0, <1>4, NothingOpen DEF removeAccount, removeCredentialsOfAccount
<1>5. ASSUME NEW i \in Identity, OpenPage(i) PROVE Types'
  BY <1>5, BoundsAssumption DEF OpenPage, Account
<1>6. ASSUME NEW a \in Deployed, NEW o \in Origin, MonitorStep(a, o) PROVE Types'
  <2>0. a \in Account
    BY AccountsOfIdentities
  <2>1. CASE Confirm(a, o)
    BY <2>0, <2>1 DEF Confirm, StatusIn
  <2>2. CASE Name(a, o)
    BY <2>0, <2>2 DEF Name
  <2>3. CASE GiveUp(a, o)
    BY <2>0, <2>3, BoundsAssumption DEF GiveUp, StatusIn
  <2> QED
    BY <1>6, <2>1, <2>2, <2>3 DEF MonitorStep
<1> QED
  BY <1>1, <1>2, <1>3, <1>4, <1>5, <1>6 DEF CreateStep

-----------------------------------------------------------------------------
(* Every step keeps the invariant. *)

\* The steps of the provider, the network, the user and the application.
LEMMA WorldInv ==
  ASSUME Types, IInv,
         \/ \E i \in Identity : Issue(i)
         \/ \E a \in Account : Deploy(a) \/ Note(a)
         \/ Unlock \/ ChangeConnection \/ listenForIdentityStatus \/ Stop
         \/ \E o \in Origin : listenForAccountStatus(o)
  PROVE  IInv'
<1> USE AccountsOfIdentities DEF IInv, Types, world, rows, pages, bounds, history, Creating
<1>1. ASSUME NEW i \in Identity, Issue(i) PROVE IInv'
  <2>1. IdentityIsWhole' /\ NoAccountIsLost'
    BY <1>1 DEF Issue, IdentityIsWhole, NoAccountIsLost, IdentitiesAreHeld
  <2>2. IdentitiesAreHeld'
    BY <1>1 DEF Issue, IdentitiesAreHeld
  <2>3. CreateIsInOrder' /\ RowsAreHeld'
    BY <1>1 DEF Issue, CreateIsInOrder, RowsAreHeld
  <2> QED
    BY <2>1, <2>2, <2>3
<1>2. ASSUME NEW a \in Account, Deploy(a) \/ Note(a) PROVE IInv'
  <2>1. IdentityIsWhole' /\ NoAccountIsLost'
    BY <1>2 DEF Deploy, Note, IdentityIsWhole, NoAccountIsLost
  <2>2. IdentitiesAreHeld'
    BY <1>2 DEF Deploy, Note, IdentitiesAreHeld
  <2>3. CreateIsInOrder' /\ RowsAreHeld'
    BY <1>2 DEF Deploy, Note, CreateIsInOrder, RowsAreHeld
  <2> QED
    BY <2>1, <2>2, <2>3
<1>3. CASE Unlock \/ ChangeConnection
  BY <1>3 DEF Unlock, ChangeConnection, startClient,
     IdentityIsWhole, NoAccountIsLost, IdentitiesAreHeld, CreateIsInOrder, RowsAreHeld
<1>4. CASE listenForIdentityStatus
  BY <1>4 DEF listenForIdentityStatus,
     IdentityIsWhole, NoAccountIsLost, IdentitiesAreHeld, CreateIsInOrder, RowsAreHeld
<1>5. CASE Stop
  <2>1. IdentityIsWhole' /\ NoAccountIsLost'
    BY <1>5 DEF Stop, IdentityIsWhole, NoAccountIsLost
  <2>2. IdentitiesAreHeld'
    BY <1>5 DEF Stop, NoIssue, NoPolls, IdentitiesAreHeld
  <2>3. CreateIsInOrder' /\ RowsAreHeld'
    BY <1>5, BoundsAssumption
    DEF Stop, NoCreate, NoMonitors, CreateIsInOrder, RowsAreHeld, Origin, Page
  <2> QED
    BY <2>1, <2>2, <2>3
<1>6. ASSUME NEW o \in Origin, listenForAccountStatus(o) PROVE IInv'
  <2>1. IdentityIsWhole' /\ NoAccountIsLost' /\ IdentitiesAreHeld' /\ CreateIsInOrder'
    BY <1>6 DEF listenForAccountStatus, IdentityIsWhole, NoAccountIsLost,
                IdentitiesAreHeld, CreateIsInOrder
  <2>2. RowsAreHeld'
    BY <1>6 DEF listenForAccountStatus, RowsAreHeld
  <2> QED
    BY <2>1, <2>2
<1> QED
  BY <1>1, <1>2, <1>3, <1>4, <1>5, <1>6

\* The steps of issuing an identity.
LEMMA IdentityInv ==
  ASSUME Types, IInv,
         \/ PickProvider \/ Request \/ IssueFails
         \/ insertPendingIdentityAndInitialAccount
         \/ \E i \in Identity : PollStep(i) \/ removeIdentityAndInitialAccount(i)
  PROVE  IInv'
<1> USE AccountsOfIdentities DEF IInv, Types, world, rows, pages, bounds, history, Creating
<1>1. CASE PickProvider
  <2>1. identity[NextIdentityNumber] = "none"
    BY <1>1, NextIdentityIsNew DEF PickProvider
  <2>2. IdentitiesAreHeld'
    BY <1>1, <2>1 DEF PickProvider, IdentitiesAreHeld
  <2>3. IdentityIsWhole' /\ NoAccountIsLost' /\ CreateIsInOrder' /\ RowsAreHeld'
    BY <1>1 DEF PickProvider, IdentityIsWhole, NoAccountIsLost, CreateIsInOrder, RowsAreHeld
  <2> QED
    BY <2>2, <2>3
<1>2. CASE Request
  <2>1. identity[issue.i] = "none"
    BY <1>2 DEF Request, IdentitiesAreHeld
  <2>2. IdentityIsWhole' /\ IdentitiesAreHeld'
    BY <1>2, <2>1 DEF Request, IdentityIsWhole, IdentitiesAreHeld
  <2>3. NoAccountIsLost' /\ CreateIsInOrder' /\ RowsAreHeld'
    BY <1>2 DEF Request, NoAccountIsLost, CreateIsInOrder, RowsAreHeld
  <2> QED
    BY <2>2, <2>3
<1>3. CASE IssueFails
  <2>1. IdentitiesAreHeld'
    BY <1>3 DEF IssueFails, NoIssue, IdentitiesAreHeld
  <2>2. IdentityIsWhole' /\ NoAccountIsLost' /\ CreateIsInOrder' /\ RowsAreHeld'
    BY <1>3 DEF IssueFails, IdentityIsWhole, NoAccountIsLost, CreateIsInOrder, RowsAreHeld
  <2> QED
    BY <2>1, <2>2
<1>4. CASE insertPendingIdentityAndInitialAccount
  <2>1. identity[issue.i] = "none" /\ issue.i \in Identity
    BY <1>4 DEF insertPendingIdentityAndInitialAccount, IdentitiesAreHeld
  <2>2. /\ identity' = [identity EXCEPT ![issue.i] = "pending"]
        /\ account' = [account EXCEPT ![Initial(issue.i)] = "pending"]
        /\ poll' = [poll EXCEPT ![issue.i] = "polling"]
        /\ unsaved' = unsaved \ {issue.i} /\ issue' = NoIssue
    BY <1>4 DEF insertPendingIdentityAndInitialAccount
  <2>3. UNCHANGED <<provider, chain, credential, book, create, monitor, halfSaved, lost, hasty, listening>>
    BY <1>4 DEF insertPendingIdentityAndInitialAccount
  <2>4. IdentityIsWhole'
    BY <2>1, <2>2, <2>3 DEF IdentityIsWhole, Initial
  <2>5. IdentitiesAreHeld'
    BY <2>1, <2>2, <2>3 DEF IdentitiesAreHeld, NoIssue
  <2>6. \A a \in Deployed : account'[a] = account[a]
    BY <2>1, <2>2
  <2>7. NoAccountIsLost' /\ CreateIsInOrder' /\ RowsAreHeld'
    BY <2>1, <2>2, <2>3, <2>6 DEF NoAccountIsLost, CreateIsInOrder, RowsAreHeld
  <2> QED
    BY <2>4, <2>5, <2>7
<1> DEFINE Leaves(i, status) ==
      /\ identity[i] \in {"pending", "rejected"} /\ provider[i] = "error"
      /\ identity' = [identity EXCEPT ![i] = status]
      /\ account' = [account EXCEPT ![Initial(i)] = status]
      /\ \/ poll' = [poll EXCEPT ![i] = "none"]
         \/ identity[i] = "rejected" /\ UNCHANGED poll
      /\ UNCHANGED <<provider, chain, credential, book, issue, create, monitor,
                     listening, unsaved, halfSaved, lost, hasty>>
<1>5. ASSUME NEW i \in Identity, Leaves(i, "none") \/ Leaves(i, "rejected")
      PROVE  IInv'
  <2>1. IdentityIsWhole'
    <3>1. CASE Leaves(i, "none")
      BY <3>1 DEF IdentityIsWhole, Initial
    <3>2. CASE Leaves(i, "rejected")
      BY <3>2 DEF IdentityIsWhole, Initial
    <3> QED
      BY <1>5, <3>1, <3>2
  <2>2. IdentitiesAreHeld'
    BY <1>5 DEF IdentitiesAreHeld
  <2>3. \A a \in Deployed : account'[a] = account[a]
    BY <1>5
  <2>4. NoAccountIsLost' /\ CreateIsInOrder' /\ RowsAreHeld'
    BY <1>5, <2>3 DEF NoAccountIsLost, CreateIsInOrder, RowsAreHeld
  <2> QED
    BY <2>1, <2>2, <2>4
<1>6. ASSUME NEW i \in Identity, rejectIdentityAndInitialAccount(i) PROVE IInv'
  <2>1. identity[i] = "pending" /\ account[Initial(i)] = "pending"
    BY <1>6 DEF rejectIdentityAndInitialAccount, IdentitiesAreHeld, IdentityIsWhole
  <2>2. account' = [account EXCEPT ![Initial(i)] = "rejected"]
    BY <1>6, <2>1 DEF rejectIdentityAndInitialAccount
  <2>3. Leaves(i, "rejected")
    BY <1>6, <2>1, <2>2 DEF rejectIdentityAndInitialAccount
  <2> HIDE DEF IInv, Leaves
  <2> QED
    BY <1>5, <2>3
<1>7. ASSUME NEW i \in Identity, removeIdentityAndInitialAccount(i) PROVE IInv'
  <2>1. Leaves(i, "none")
    BY <1>7 DEF removeIdentityAndInitialAccount, IdentitiesAreHeld
  <2> HIDE DEF IInv, Leaves
  <2> QED
    BY <1>5, <2>1
<1>8. ASSUME NEW i \in Identity, confirmIdentity(i) PROVE IInv'
  <2>1. identity[i] = "pending" /\ provider[i] = "done"
    BY <1>8 DEF confirmIdentity, IdentitiesAreHeld
  <2>2. UNCHANGED <<provider, chain, issue, create, monitor, listening, unsaved, halfSaved, lost, hasty>>
    BY <1>8 DEF confirmIdentity
  <2>3. poll' = [poll EXCEPT ![i] = "none"]
    BY <1>8 DEF confirmIdentity
  <2>4. CASE Initial(i) \in book \union credential
    <3>1. UNCHANGED <<identity, account, credential, book>>
      BY <1>8, <2>4 DEF confirmIdentity
    <3> QED
      BY <2>2, <2>3, <3>1 DEF IdentityIsWhole, IdentitiesAreHeld, NoAccountIsLost, CreateIsInOrder, RowsAreHeld
  <2>5. CASE Initial(i) \notin book \union credential
    <3>1. /\ identity' = [identity EXCEPT ![i] = "confirmed"]
          /\ account' = [account EXCEPT ![Initial(i)] = "confirmed"]
          /\ credential' = credential \union {Initial(i)}
          /\ book' = book \union {Initial(i)}
      BY <1>8, <2>5 DEF confirmIdentity
    <3>2. IdentityIsWhole'
      BY <2>1, <2>2, <3>1 DEF IdentityIsWhole, Initial
    <3>3. IdentitiesAreHeld'
      BY <2>1, <2>2, <2>3, <3>1 DEF IdentitiesAreHeld, Initial
    <3>4. \A a \in Deployed : account'[a] = account[a] /\ (a \in credential' <=> a \in credential)
      BY <3>1
    <3>5. NoAccountIsLost' /\ CreateIsInOrder' /\ RowsAreHeld'
      BY <2>1, <2>2, <3>1, <3>4 DEF NoAccountIsLost, CreateIsInOrder, RowsAreHeld
    <3> QED
      BY <3>2, <3>3, <3>5
  <2> QED
    BY <2>4, <2>5
<1> QED
  BY <1>1, <1>2, <1>3, <1>4, <1>6, <1>7, <1>8 DEF PollStep


\* The steps of creating an account.
LEMMA AccountInv ==
  ASSUME Types, IInv,
         \/ CreateStep \/ ClosePage
         \/ \E i \in Identity : OpenPage(i)
         \/ \E a \in Deployed, o \in Origin : MonitorStep(a, o)
  PROVE  IInv'
<1> USE AccountsOfIdentities DEF IInv, Types, world, rows, pages, bounds, history, Creating
<1>1. CASE ClosePage
  BY <1>1 DEF ClosePage, NoCreate, IdentityIsWhole, NoAccountIsLost,
              IdentitiesAreHeld, CreateIsInOrder, RowsAreHeld
<1>2. ASSUME NEW i \in Identity, OpenPage(i) PROVE IInv'
  <2> DEFINE n == getNextCredentialNumber(i)
             a == <<i, n>>
  <2>1. a \notin credential
    BY <1>2, NextNumberIsNew DEF OpenPage
  <2>2. a \in Deployed /\ a[1] = i
    BY <1>2, BoundsAssumption DEF OpenPage, Deployed, Account
  <2>3. create.pc = "idle" /\ create' = [pc |-> "opened", a |-> a]
    BY <1>2 DEF OpenPage
  <2>4. UNCHANGED <<provider, chain, identity, account, credential, book, issue, poll, monitor, listening, unsaved, halfSaved, lost, hasty>>
    BY <1>2 DEF OpenPage
  <2>5. identity[i] = "confirmed"
    BY <1>2 DEF OpenPage
  <2> HIDE DEF a
  <2>6. IdentityIsWhole' /\ NoAccountIsLost' /\ IdentitiesAreHeld'
    BY <2>4 DEF IdentityIsWhole, NoAccountIsLost, IdentitiesAreHeld
  <2>7. CreateIsInOrder'
    BY <2>1, <2>2, <2>3, <2>4, <2>5 DEF CreateIsInOrder
  <2>8. RowsAreHeld'
    BY <2>1, <2>2, <2>3, <2>4 DEF RowsAreHeld
  <2> QED
    BY <2>6, <2>7, <2>8
<1>3. CASE addPendingAccount
  <2>1. create.a \in Deployed /\ create.a \notin credential /\ identity[create.a[1]] = "confirmed"
    BY <1>3 DEF addPendingAccount, CreateIsInOrder
  <2>2. UNCHANGED <<provider, chain, identity, credential, book, issue, poll, monitor, listening, unsaved, halfSaved, lost, hasty>>
    BY <1>3 DEF addPendingAccount
  <2>3. CASE account[create.a] # "none"
    BY <1>3, <2>2, <2>3 DEF addPendingAccount, NoCreate, IdentityIsWhole, NoAccountIsLost,
              IdentitiesAreHeld, CreateIsInOrder, RowsAreHeld
  <2>4. CASE account[create.a] = "none"
    <3>1. /\ create' = [create EXCEPT !.pc = "half"]
          /\ account' = [account EXCEPT ![create.a] = "pending"]
      BY <1>3, <2>4 DEF addPendingAccount
    <3>2. IdentityIsWhole' /\ IdentitiesAreHeld'
      BY <2>1, <2>2, <3>1 DEF IdentityIsWhole, IdentitiesAreHeld
    <3>3. NoAccountIsLost'
      BY <2>1, <2>2, <2>4, <3>1 DEF NoAccountIsLost
    <3>4. CreateIsInOrder'
      BY <1>3, <2>1, <2>2, <2>4, <3>1 DEF addPendingAccount, CreateIsInOrder, NoAccountIsLost
    <3>5. RowsAreHeld'
      BY <1>3, <2>1, <2>2, <2>4, <3>1 DEF addPendingAccount, RowsAreHeld
    <3> QED
      BY <3>2, <3>3, <3>4, <3>5
  <2> QED
    BY <2>3, <2>4
<1>4. CASE insertNewCredential
  <2>1. create.a \in Deployed /\ identity[create.a[1]] = "confirmed"
    BY <1>4 DEF insertNewCredential, CreateIsInOrder
  <2>2. IdentityIsWhole' /\ IdentitiesAreHeld' /\ NoAccountIsLost'
    BY <1>4, <2>1 DEF insertNewCredential, IdentityIsWhole, IdentitiesAreHeld, NoAccountIsLost
  <2>3. CreateIsInOrder' /\ RowsAreHeld'
    BY <1>4, <2>1 DEF insertNewCredential, CreateIsInOrder, RowsAreHeld
  <2> QED
    BY <2>2, <2>3
<1>5. CASE sendCredential
  <2>1. create.a \in Deployed /\ create.a \in credential /\ account[create.a] # "none"
    BY <1>5 DEF sendCredential, CreateIsInOrder
  <2>2. /\ chain' = [chain EXCEPT ![create.a] = "received"] /\ chain[create.a] = "none"
        /\ create' = NoCreate /\ create.pc = "saved"
        /\ monitor' = [monitor EXCEPT ![create.a][Page] = "waiting"]
        /\ UNCHANGED <<provider, identity, account, credential, book, issue, poll, listening, unsaved, halfSaved, lost, hasty>>
    BY <1>5 DEF sendCredential, Accepts
  <2>3. IdentityIsWhole' /\ IdentitiesAreHeld' /\ CreateIsInOrder'
    BY <2>1, <2>2 DEF IdentityIsWhole, IdentitiesAreHeld, CreateIsInOrder, NoCreate
  <2>4. NoAccountIsLost'
    BY <2>1, <2>2 DEF NoAccountIsLost, RowsAreHeld
  <2>5. RowsAreHeld'
    BY <2>1, <2>2, BoundsAssumption DEF RowsAreHeld, NoCreate
  <2> QED
    BY <2>3, <2>4, <2>5
<1>6. CASE sendFails
  <2>1. create.a \in Deployed /\ create.a \in credential /\ account[create.a] # "none"
    BY <1>6 DEF sendFails, CreateIsInOrder
  <2>2. /\ create' = [create EXCEPT !.pc = "failed"] /\ create.pc = "saved"
        /\ UNCHANGED <<provider, identity, account, credential, book, issue, poll, monitor, listening, unsaved, halfSaved, hasty>>
    BY <1>6 DEF sendFails
  <2>3. \/ UNCHANGED <<chain, lost>>
        \/ /\ chain' = [chain EXCEPT ![create.a] = "received"]
           /\ chain[create.a] = "none" /\ lost' = lost \union {create.a}
    BY <1>6 DEF sendFails, Accepts
  <2>4. IdentityIsWhole' /\ IdentitiesAreHeld'
    BY <2>1, <2>2, <2>3 DEF IdentityIsWhole, IdentitiesAreHeld
  <2>5. NoAccountIsLost'
    BY <2>1, <2>2, <2>3 DEF NoAccountIsLost
  <2>6. CreateIsInOrder'
    BY <2>1, <2>2, <2>3 DEF CreateIsInOrder
  <2>7. RowsAreHeld'
    BY <2>1, <2>2, <2>3 DEF RowsAreHeld
  <2> QED
    BY <2>4, <2>5, <2>6, <2>7
<1>7. CASE removeAccount
  <2>1. create.a \in Deployed /\ (chain[create.a] = "none" \/ create.a \in lost)
    BY <1>7 DEF removeAccount, CreateIsInOrder
  <2>2. /\ create' = [create EXCEPT !.pc = "removing"] /\ create.pc = "failed"
        /\ account' = [account EXCEPT ![create.a] = "none"]
        /\ UNCHANGED <<provider, chain, identity, credential, book, issue, poll, monitor, listening, unsaved, halfSaved, lost, hasty>>
    BY <1>7 DEF removeAccount
  <2>4. IdentityIsWhole' /\ IdentitiesAreHeld'
    BY <2>1, <2>2 DEF IdentityIsWhole, IdentitiesAreHeld
  <2>5. NoAccountIsLost' /\ CreateIsInOrder' /\ RowsAreHeld'
    BY <2>1, <2>2 DEF NoAccountIsLost, CreateIsInOrder, RowsAreHeld
  <2> QED
    BY <2>4, <2>5
<1>8. CASE removeCredentialsOfAccount
  <2>1. /\ create.a \in Deployed /\ account[create.a] = "none"
        /\ chain[create.a] = "none" \/ create.a \in lost
    BY <1>8 DEF removeCredentialsOfAccount, CreateIsInOrder
  <2>2. IdentityIsWhole' /\ IdentitiesAreHeld'
    BY <1>8, <2>1 DEF removeCredentialsOfAccount, IdentityIsWhole, IdentitiesAreHeld
  <2>3. NoAccountIsLost' /\ CreateIsInOrder' /\ RowsAreHeld'
    BY <1>8, <2>1 DEF removeCredentialsOfAccount, NoCreate, NoAccountIsLost, CreateIsInOrder, RowsAreHeld
  <2> QED
    BY <2>2, <2>3
<1>9. ASSUME NEW a \in Deployed, NEW o \in Origin, Name(a, o) PROVE IInv'
  <2>1. /\ book \subseteq book'
        /\ UNCHANGED <<provider, chain, identity, account, credential, create, issue, poll, listening, unsaved, halfSaved, lost, hasty>>
    BY <1>9 DEF Name
  <2>2. \A x \in Deployed : monitor'[x][Page] # "none" => monitor[x][Page] # "none"
    BY <1>9 DEF Name
  <2> QED
    BY <2>1, <2>2 DEF IdentityIsWhole, NoAccountIsLost, IdentitiesAreHeld, CreateIsInOrder, RowsAreHeld
<1>10. ASSUME NEW a \in Deployed, NEW o \in Origin, Confirm(a, o) PROVE IInv'
  <2>1. /\ chain[a] = "created" /\ monitor[a][o] = "waiting"
        /\ UNCHANGED <<provider, chain, identity, credential, book, create, issue, poll, listening, unsaved, halfSaved, lost, hasty>>
    BY <1>10 DEF Confirm
  <2>2. \A x \in Deployed : monitor'[x][Page] # "none" => monitor[x][Page] # "none"
    BY <1>10 DEF Confirm
  <2>3. /\ \A x \in Account \ {a} : account'[x] = account[x]
        /\ account'[a] = IF account[a] = "none" THEN "none" ELSE "confirmed"
    BY <1>10 DEF Confirm, StatusIn
  <2>4. IdentityIsWhole' /\ IdentitiesAreHeld'
    BY <2>1, <2>3 DEF IdentityIsWhole, IdentitiesAreHeld
  <2>5. NoAccountIsLost' /\ CreateIsInOrder' /\ RowsAreHeld'
    BY <2>1, <2>2, <2>3 DEF NoAccountIsLost, CreateIsInOrder, RowsAreHeld
  <2> QED
    BY <2>4, <2>5
<1>11. ASSUME NEW a \in Deployed, NEW o \in Origin, GiveUp(a, o) PROVE IInv'
  <2>1. /\ monitor[a][o] = "waiting"
        /\ UNCHANGED <<provider, chain, identity, credential, book, create, issue, poll, listening, unsaved, halfSaved, lost>>
        /\ hasty' = IF \/ chain[a] # "none"
                       \/ o # Page /\ create.a = a /\ create.pc # "idle"
                    THEN hasty \union {a} ELSE hasty
    BY <1>11 DEF GiveUp
  <2>2. \A x \in Deployed : monitor'[x][Page] # "none" => monitor[x][Page] # "none"
    BY <1>11 DEF GiveUp
  <2>3. /\ \A x \in Account \ {a} : account'[x] = account[x]
        /\ account'[a] = IF account[a] = "none" THEN "none" ELSE "rejected"
    BY <1>11 DEF GiveUp, StatusIn
  <2>4. IdentityIsWhole' /\ IdentitiesAreHeld'
    BY <2>1, <2>3 DEF IdentityIsWhole, IdentitiesAreHeld
  <2>5. NoAccountIsLost' /\ CreateIsInOrder'
    BY <2>1, <2>2, <2>3 DEF NoAccountIsLost, CreateIsInOrder
  <2>6. RowsAreHeld'
    BY <2>1, <2>2, <2>3 DEF RowsAreHeld
  <2> QED
    BY <2>4, <2>5, <2>6
<1> QED
  BY <1>1, <1>2, <1>3, <1>4, <1>5, <1>6, <1>7, <1>8, <1>9, <1>10, <1>11 DEF CreateStep, MonitorStep

\* Nothing changes.
LEMMA Stuttering ==
  ASSUME Types, IInv, UNCHANGED vars
  PROVE  Types' /\ IInv'
<1>1. Types'
  BY DEF Types, vars
<1>2. IInv'
  BY DEF IInv, vars, IdentityIsWhole, NoAccountIsLost, IdentitiesAreHeld,
         CreateIsInOrder, RowsAreHeld, Creating
<1> QED
  BY <1>1, <1>2

\* The invariant is inductive.
LEMMA StepInv ==
  ASSUME Types, IInv, [Next]_vars
  PROVE  Types' /\ IInv'
<1>1. CASE \/ \E i \in Identity : Issue(i)
           \/ \E a \in Account : Deploy(a) \/ Note(a)
           \/ Unlock \/ ChangeConnection \/ listenForIdentityStatus \/ Stop
           \/ \E o \in Origin : listenForAccountStatus(o)
  BY <1>1, WorldTypes, WorldInv
<1>2. CASE \/ PickProvider \/ Request \/ IssueFails
           \/ insertPendingIdentityAndInitialAccount
           \/ \E i \in Identity : PollStep(i) \/ removeIdentityAndInitialAccount(i)
  BY <1>2, IdentityTypes, IdentityInv
<1>3. CASE \/ CreateStep \/ ClosePage
           \/ \E i \in Identity : OpenPage(i)
           \/ \E a \in Deployed, o \in Origin : MonitorStep(a, o)
  BY <1>3, AccountTypes, AccountInv
<1>4. CASE UNCHANGED vars
  BY <1>4, Stuttering
<1> QED
  BY <1>1, <1>2, <1>3, <1>4 DEF Next

\* It holds in every state.
LEMMA Invariance == Spec => [](Types /\ IInv)
<1>1. Types /\ IInv /\ [Next]_vars => Types' /\ IInv'
  BY StepInv
<1> QED
  BY InitInv, <1>1, PTL DEF Spec

-----------------------------------------------------------------------------
(* What follows for every wallet. *)

\* The state holds values of its types, and no row of an account or of a
\* credential refers to an identity that is gone, whatever the pages and
\* removeIdentityAndInitialAccount do in between: no foreign key is broken.
THEOREM TypeCorrect == Spec => []TypeOK
<1>1. Types /\ IInv => TypeOK
  <2> SUFFICES ASSUME Types, IInv PROVE TypeOK
    OBVIOUS
  <2>1. ASSUME NEW a \in Account, account[a] # "none" \/ a \in credential
        PROVE  identity[a[1]] # "none"
    <3>1. CASE a \in Deployed
      BY <2>1, <3>1 DEF IInv, RowsAreHeld
    <3>2. CASE a = Initial(a[1])
      <4>1. a[1] \in Identity
        BY AccountsOfIdentities
      <4> QED
        BY <2>1, <3>2, <4>1 DEF IInv, IdentityIsWhole, IdentitiesAreHeld
    <3> QED
      BY <3>1, <3>2, AccountsOfIdentities
  <2> QED
    BY <2>1 DEF Types, TypeOK
<1> QED
  BY <1>1, Invariance, PTL

\* An identity and its initial account settle in one step, with the credential
\* and the entry in the address book, however polls, restarts and removals
\* of rejected identities interleave.
THEOREM IdentitiesSettleWhole == Spec => []IdentityIsWhole
<1>1. IInv => IdentityIsWhole
  BY DEF IInv
<1> QED
  BY <1>1, Invariance, PTL

\* What the provider has issued is in the wallet, or its request was never
\* written down.
THEOREM IssuedIdentitiesAreKept == Spec => []NoIdentityIsLost
<1>1. Types /\ IInv => NoIdentityIsLost
  BY DEF IInv, IdentitiesAreHeld, NoIdentityIsLost
<1> QED
  BY <1>1, Invariance, PTL

\* The wallet and the chain agree on the accounts the wallet has sent, however
\* the page, its monitor and the monitors of later sessions interleave.
THEOREM SentAccountsAreKept == Spec => []NoAccountIsLost
<1>1. IInv => NoAccountIsLost
  BY DEF IInv
<1> QED
  BY <1>1, Invariance, PTL

\* The credential number the page takes next is free in the wallet and on the
\* chain, for every history of accounts that were created, refused or removed.
THEOREM NextNumberIsFree == Spec => []NextAccountIsFree
<1>1. Types /\ IInv => NextAccountIsFree
  <2> SUFFICES ASSUME Types, IInv, NEW i \in Identity, create.pc = "idle",
                      identity[i] = "confirmed",
                      <<i, getNextCredentialNumber(i)>> \in Deployed
               PROVE  LET a == <<i, getNextCredentialNumber(i)>> IN
                      \/ account[a] = "none" /\ chain[a] = "none"
                      \/ a \in halfSaved \union lost
    BY DEF NextAccountIsFree
  <2> DEFINE a == <<i, getNextCredentialNumber(i)>>
  <2>1. a \notin credential /\ a \in Deployed
    BY NextNumberIsNew DEF Deployed, Account
  <2> HIDE DEF a
  <2>2. account[a] # "none" => a \in halfSaved
    BY <2>1 DEF IInv, RowsAreHeld
  <2>3. chain[a] # "none" => a \in lost
    BY <2>1 DEF IInv, NoAccountIsLost
  <2> QED
    BY <2>2, <2>3 DEF a
<1> QED
  BY <1>1, Invariance, PTL
=============================================================================
