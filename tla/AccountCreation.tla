--------------------------- MODULE AccountCreation ---------------------------
(***************************************************************************)
(* Identities and accounts from the wish to have one to its confirmation.   *)
(* ExternalIssuance asks an identity provider for the next identity, writes *)
(* it with its initial account as pending, and polls the provider until it  *)
(* confirms or rejects both.  GeneratePage writes an account of a confirmed *)
(* identity with its credential, sends the credential to the node, and      *)
(* removes both rows when sending fails; monitors wait for the account to   *)
(* be created, the page's own and one more for each startClient.            *)
(*                                                                         *)
(* An account is the identity number and the credential number it is made  *)
(* from, which fix its address.  The database has one connection, so a      *)
(* transaction is one step; another step is what runs between two awaits.   *)
(***************************************************************************)
EXTENDS Integers, FiniteSetsExt

CONSTANTS
  MaxIdentity,      \* bound: the largest identity number
  MaxNumber,        \* bound: the largest credential number
  Noted,            \* the accounts the user may put in the address book
  MaxConnections,   \* bound: how often startClient is called
  MaxRequests,      \* bound: requests to the provider
  MaxFailures       \* bound: answers of the node that are lost

ASSUME BoundsAssumption ==
  /\ MaxIdentity \in Nat /\ MaxNumber \in Nat /\ MaxConnections \in Nat
  /\ MaxRequests \in Nat /\ MaxFailures \in Nat

Identity == 0..MaxIdentity
Account == Identity \X (0..MaxNumber)
Initial(i) == <<i, 0>>
Deployed == {a \in Account : a[2] # 0}

\* Who started a monitor: the page, or a call of startClient.
Page == 0
Origin == 0..MaxConnections

VARIABLES
  provider,     \* provider[i]: the request for identity i at the provider
  chain,        \* chain[a]: what the network has done with account a
  identity,     \* identity[i]: the status of its row, or "none"
  account,      \* account[a]: the status of its row, or "none"
  credential,   \* the accounts with a row in the credentials table
  book,         \* the accounts with a row in the address book
  session,      \* "stopped", "unlocking" or "running"
  issue,        \* the identity issuance page
  poll,         \* poll[i]: whether the provider is polled for i
  create,       \* the account creation page
  listening,    \* the calls of startClient that have not read the accounts
  monitor,      \* monitor[a][o]: confirmAccount of a, started by o
  connections, requests, failures,
  unsaved,      \* identities whose request was sent and not written down
  halfSaved,    \* accounts written without their credential
  lost,         \* accounts whose answer was lost, so that they were removed
  hasty         \* accounts some monitor gave up on too early

rows == <<identity, account, credential, book>>
world == <<provider, chain>>
pages == <<issue, poll, create>>
bounds == <<connections, requests, failures>>
history == <<unsaved, halfSaved, lost, hasty>>
vars == <<provider, chain, identity, account, credential, book, session,
          issue, poll, create, listening, monitor, connections, requests,
          failures, unsaved, halfSaved, lost, hasty>>

NoIssue == [pc |-> "idle", i |-> 0]
NoCreate == [pc |-> "idle", a |-> Initial(0)]
NoPolls == [i \in Identity |-> "none"]
NoMonitors == [a \in Account |-> [o \in Origin |-> "none"]]

Init ==
  /\ provider = [i \in Identity |-> "none"]
  /\ chain = [a \in Account |-> "none"]
  /\ identity = [i \in Identity |-> "none"]
  /\ account = [a \in Account |-> "none"]
  /\ credential = {} /\ book = {}
  /\ session = "stopped"
  /\ issue = NoIssue /\ poll = NoPolls /\ create = NoCreate
  /\ listening = {} /\ monitor = NoMonitors
  /\ connections = 0 /\ requests = 0 /\ failures = 0
  /\ unsaved = {} /\ halfSaved = {} /\ lost = {} /\ hasty = {}

running == session = "running"

-----------------------------------------------------------------------------
(* The provider, the network and the user. *)

\* An identity that is issued comes with its initial account.
Issue(i) ==
  /\ provider[i] = "processing"
  /\ \/ /\ provider' = [provider EXCEPT ![i] = "done"]
        /\ chain' = [chain EXCEPT ![Initial(i)] = "created"]
     \/ provider' = [provider EXCEPT ![i] = "error"] /\ UNCHANGED chain
  /\ UNCHANGED <<rows, session, pages, listening, monitor, bounds, history>>

\* A deployment reaches a finalized block, or expires.
Deploy(a) ==
  /\ chain[a] = "received"
  /\ \E result \in {"created", "none"} : chain' = [chain EXCEPT ![a] = result]
  /\ UNCHANGED <<provider, rows, session, pages, listening, monitor, bounds,
                 history>>

Note(a) ==
  /\ running /\ a \in Noted \ book /\ chain[a] = "created"
  /\ book' = book \union {a}
  /\ UNCHANGED <<world, identity, account, credential, session, pages,
                 listening, monitor, bounds, history>>

-----------------------------------------------------------------------------
(* The application starts and stops, and connects to a node. *)

startClient ==
  /\ connections < MaxConnections
  /\ connections' = connections + 1
  /\ listening' = listening \union {connections + 1}
  /\ UNCHANGED <<world, rows, pages, monitor, requests, failures, history>>

Unlock == session = "stopped" /\ session' = "unlocking" /\ startClient

ChangeConnection == running /\ UNCHANGED session /\ startClient

\* Mutant: only what was confirmed in the last session is looked at.
forgetIdentityStatus ==
  /\ session = "unlocking"
  /\ session' = "running"
  /\ UNCHANGED <<world, rows, pages, listening, monitor, bounds, history>>

listenForIdentityStatus ==
  /\ session = "unlocking"
  /\ session' = "running"
  /\ poll' = [i \in Identity |->
                IF identity[i] = "pending" THEN "polling" ELSE poll[i]]
  /\ UNCHANGED <<world, rows, issue, create, listening, monitor, bounds,
                 history>>

listenForAccountStatus(o) ==
  /\ o \in listening
  /\ listening' = listening \ {o}
  /\ monitor' = [a \in Account |->
                   IF a \in Deployed /\ account[a] = "pending"
                   THEN [monitor[a] EXCEPT ![o] = "waiting"] ELSE monitor[a]]
  /\ UNCHANGED <<world, rows, session, pages, bounds, history>>

\* The application ends, and what it was doing with it.  One connection is
\* left, to start again with.
Stop ==
  /\ session # "stopped"
  /\ connections < MaxConnections
  /\ session' = "stopped"
  /\ issue' = NoIssue /\ poll' = NoPolls /\ create' = NoCreate
  /\ listening' = {} /\ monitor' = NoMonitors
  /\ unsaved' = unsaved \union
       {i \in Identity : issue.pc # "idle" /\ issue.i = i
                           /\ provider[i] # "none"}
  /\ halfSaved' = halfSaved \union
       {a \in Account : create.pc = "half" /\ create.a = a}
  /\ UNCHANGED <<world, rows, bounds, lost, hasty>>

-----------------------------------------------------------------------------
(* PickProvider and ExternalIssuance. *)

NextIdentityNumber ==
  LET numbers == {i \in Identity : identity[i] # "none"}
  IN IF numbers = {} THEN 0 ELSE Max(numbers) + 1

\* hasPrfKeySeedBeenUsed: the initial account of the number is on the chain.
SeedUsed(i) == chain[Initial(i)] = "created"

PickProvider ==
  /\ running
  /\ issue.pc = "idle"
  /\ NextIdentityNumber \in Identity /\ ~ SeedUsed(NextIdentityNumber)
  /\ issue' = [pc |-> "picked", i |-> NextIdentityNumber]
  /\ UNCHANGED <<world, rows, session, poll, create, listening, monitor,
                 bounds, history>>

\* The user goes through the steps of the provider, which takes the request.
Request ==
  /\ issue.pc = "picked"
  /\ requests < MaxRequests
  /\ requests' = requests + 1
  /\ provider' = [provider EXCEPT ![issue.i] =
                    IF @ = "done" THEN @ ELSE "processing"]
  /\ issue' = [issue EXCEPT !.pc = "located"]
  /\ UNCHANGED <<chain, rows, session, poll, create, listening, monitor,
                 connections, failures, history>>

\* The view is closed, the provider fails, or the rows cannot be inserted.
IssueFails ==
  /\ issue.pc # "idle"
  /\ issue' = NoIssue
  /\ unsaved' = unsaved \union
       {i \in Identity : issue.i = i /\ provider[i] # "none"}
  /\ UNCHANGED <<world, rows, session, poll, create, listening, monitor,
                 bounds, halfSaved, lost, hasty>>

insertPendingIdentityAndInitialAccount ==
  LET i == issue.i IN
  /\ issue.pc = "located"
  /\ issue' = NoIssue
  /\ identity' = [identity EXCEPT ![i] = "pending"]
  /\ account' = [account EXCEPT ![Initial(i)] = "pending"]
  /\ poll' = [poll EXCEPT ![i] = "polling"]
  /\ unsaved' = unsaved \ {i}
  /\ UNCHANGED <<world, credential, book, session, create, listening, monitor,
                 bounds, halfSaved, lost, hasty>>

\* Mutant: the poll gives up on a provider that takes long.
rejectImpatiently(i) ==
  /\ poll[i] = "polling"
  /\ provider[i] \in {"processing", "error"}
  /\ poll' = [poll EXCEPT ![i] = "none"]
  /\ identity' = [identity EXCEPT ![i] = "rejected"]
  /\ account' = [account EXCEPT ![Initial(i)] =
                   IF @ = "none" THEN @ ELSE "rejected"]
  /\ UNCHANGED <<world, credential, book, session, issue, create, listening,
                 monitor, bounds, history>>

rejectIdentityAndInitialAccount(i) ==
  /\ poll[i] = "polling"
  /\ provider[i] = "error"
  /\ poll' = [poll EXCEPT ![i] = "none"]
  /\ identity' = [identity EXCEPT ![i] = "rejected"]
  /\ account' = [account EXCEPT ![Initial(i)] =
                   IF @ = "none" THEN @ ELSE "rejected"]
  /\ UNCHANGED <<world, credential, book, session, issue, create, listening,
                 monitor, bounds, history>>

\* Mutant: the statements of the confirmation are not one transaction.
confirmPiecemeal(i) ==
  /\ poll[i] = "polling"
  /\ provider[i] = "done"
  /\ poll' = [poll EXCEPT ![i] = "none"]
  /\ identity' = [identity EXCEPT ![i] = "confirmed"]
  /\ account' = [account EXCEPT ![Initial(i)] = "confirmed"]
  /\ \/ /\ credential' = credential \union {Initial(i)}
        /\ book' = book \union {Initial(i)}
     \/ UNCHANGED <<credential, book>>
  /\ UNCHANGED <<world, session, issue, create, listening, monitor, bounds,
                 history>>

\* An address is in the address book once: if it is there, all is rolled back.
confirmIdentity(i) ==
  /\ poll[i] = "polling"
  /\ provider[i] = "done"
  /\ poll' = [poll EXCEPT ![i] = "none"]
  /\ IF Initial(i) \in book \union credential
     THEN UNCHANGED rows
     ELSE /\ identity' = [identity EXCEPT ![i] = "confirmed"]
          /\ account' = [account EXCEPT ![Initial(i)] = "confirmed"]
          /\ credential' = credential \union {Initial(i)}
          /\ book' = book \union {Initial(i)}
  /\ UNCHANGED <<world, session, issue, create, listening, monitor, bounds,
                 history>>

removeIdentityAndInitialAccount(i) ==
  /\ running
  /\ identity[i] = "rejected"
  /\ identity' = [identity EXCEPT ![i] = "none"]
  /\ account' = [account EXCEPT ![Initial(i)] = "none"]
  /\ UNCHANGED <<world, credential, book, session, pages, listening, monitor,
                 bounds, history>>

-----------------------------------------------------------------------------
(* GeneratePage. *)

\* Mutant: the first number that has no account on the chain.
firstUnused(i) ==
  Min({k \in 0..MaxNumber + 1 : <<i, k>> \notin Account 
                                  \/ chain[<<i, k>>] # "created"})

getNextCredentialNumber(i) ==
  LET numbers == {k \in 0..MaxNumber : <<i, k>> \in credential}
  IN IF numbers = {} THEN 0 ELSE Max(numbers) + 1

\* The number is read when the page opens; it must not be zero.
OpenPage(i) ==
  /\ running
  /\ create.pc = "idle"
  /\ identity[i] = "confirmed"
  /\ getNextCredentialNumber(i) \in 1..MaxNumber
  /\ create' = [pc |-> "opened", a |-> <<i, getNextCredentialNumber(i)>>]
  /\ UNCHANGED <<world, rows, session, issue, poll, listening, monitor, bounds,
                 history>>

\* saveAccount: the account ...
addPendingAccount ==
  LET a == create.a IN
  /\ create.pc = "opened"
  /\ IF account[a] # "none"
     THEN create' = NoCreate /\ UNCHANGED account
     ELSE /\ create' = [create EXCEPT !.pc = "half"]
          /\ account' = [account EXCEPT ![a] = "pending"]
  /\ UNCHANGED <<world, identity, credential, book, session, issue, poll,
                 listening, monitor, bounds, history>>

\* ... and its credential.
insertNewCredential ==
  /\ create.pc = "half"
  /\ create' = [create EXCEPT !.pc = "saved"]
  /\ credential' = credential \union {create.a}
  /\ UNCHANGED <<world, identity, account, book, session, issue, poll,
                 listening, monitor, bounds, history>>

ClosePage ==
  /\ create.pc = "opened"
  /\ create' = NoCreate
  /\ UNCHANGED <<world, rows, session, issue, poll, listening, monitor, bounds,
                 history>>

Accepts(a) == chain[a] = "none"

\* Mutant: the account is sent before its credential is written.
sendUnsaved ==
  LET a == create.a IN
  /\ create.pc = "half"
  /\ Accepts(a)
  /\ chain' = [chain EXCEPT ![a] = "received"]
  /\ create' = [create EXCEPT !.pc = "saved"]
  /\ monitor' = [monitor EXCEPT ![a][Page] = "waiting"]
  /\ UNCHANGED <<provider, rows, session, issue, poll, listening, bounds,
                 history>>

sendCredential ==
  LET a == create.a IN
  /\ create.pc = "saved"
  /\ Accepts(a)
  /\ chain' = [chain EXCEPT ![a] = "received"]
  /\ create' = NoCreate
  /\ monitor' = [monitor EXCEPT ![a][Page] = "waiting"]
  /\ UNCHANGED <<provider, rows, session, issue, poll, listening, bounds,
                 history>>

\* The node refuses the deployment, or its answer is lost.
sendFails ==
  LET a == create.a IN
  /\ create.pc = "saved"
  /\ create' = [create EXCEPT !.pc = "failed"]
  /\ \/ ~ Accepts(a) /\ UNCHANGED <<chain, failures, lost>>
     \/ /\ Accepts(a) /\ failures < MaxFailures
        /\ failures' = failures + 1
        /\ chain' = [chain EXCEPT ![a] = "received"]
        /\ lost' = lost \union {a}
     \/ /\ failures < MaxFailures
        /\ failures' = failures + 1
        /\ UNCHANGED <<chain, lost>>
  /\ UNCHANGED <<provider, rows, session, issue, poll, listening, monitor,
                 connections, requests, unsaved, halfSaved, hasty>>

\* removeFailed: two statements nobody awaits.
removeAccount ==
  /\ create.pc = "failed"
  /\ create' = [create EXCEPT !.pc = "removing"]
  /\ account' = [account EXCEPT ![create.a] = "none"]
  /\ UNCHANGED <<world, identity, credential, book, session, issue, poll,
                 listening, monitor, bounds, history>>

removeCredentialsOfAccount ==
  /\ create.pc = "removing"
  /\ create' = NoCreate
  /\ credential' = credential \ {create.a}
  /\ UNCHANGED <<world, identity, account, book, session, issue, poll,
                 listening, monitor, bounds, history>>

-----------------------------------------------------------------------------
(* confirmAccount. *)

StatusIn(a, status) ==
  [account EXCEPT ![a] = IF @ = "none" THEN @ ELSE status]

Confirm(a, o) ==
  /\ monitor[a][o] = "waiting"
  /\ chain[a] = "created"
  /\ monitor' = [monitor EXCEPT ![a][o] = "naming"]
  /\ account' = StatusIn(a, "confirmed")
  /\ UNCHANGED <<world, identity, credential, book, session, pages, listening,
                 bounds, history>>

\* addToAddressBook, which does nothing when the address is there.
Name(a, o) ==
  /\ monitor[a][o] = "naming"
  /\ monitor' = [monitor EXCEPT ![a][o] = "none"]
  /\ book' = IF account[a] = "none" THEN book ELSE book \union {a}
  /\ UNCHANGED <<world, identity, account, credential, session, pages,
                 listening, bounds, history>>

\* The wait throws: the node does not know the deployment, or is not there.
GiveUp(a, o) ==
  /\ monitor[a][o] = "waiting"
  /\ \/ chain[a] = "none" /\ UNCHANGED failures
     \/ /\ chain[a] # "none" /\ failures < MaxFailures
        /\ failures' = failures + 1
  /\ monitor' = [monitor EXCEPT ![a][o] = "none"]
  /\ account' = StatusIn(a, "rejected")
  /\ hasty' = IF \/ chain[a] # "none"
                 \/ o # Page /\ create.a = a /\ create.pc # "idle"
              THEN hasty \union {a} ELSE hasty
  /\ UNCHANGED <<world, identity, credential, book, session, pages, listening,
                 connections, requests, unsaved, halfSaved, lost>>

-----------------------------------------------------------------------------
PollStep(i) == rejectIdentityAndInitialAccount(i) \/ confirmIdentity(i)

CreateStep ==
  \/ addPendingAccount \/ insertNewCredential
  \/ sendCredential \/ sendFails
  \/ removeAccount \/ removeCredentialsOfAccount

MonitorStep(a, o) == Confirm(a, o) \/ Name(a, o) \/ GiveUp(a, o)

Next ==
  \/ \E i \in Identity : \/ Issue(i) \/ PollStep(i)
                         \/ removeIdentityAndInitialAccount(i) \/ OpenPage(i)
  \/ \E a \in Account : Deploy(a) \/ Note(a)
  \/ Unlock \/ ChangeConnection \/ listenForIdentityStatus \/ Stop
  \/ \E o \in Origin : listenForAccountStatus(o)
  \/ PickProvider \/ Request \/ insertPendingIdentityAndInitialAccount
  \/ IssueFails
  \/ CreateStep \/ ClosePage
  \/ \E a \in Deployed, o \in Origin : MonitorStep(a, o)

Spec == Init /\ [][Next]_vars

\* The provider and the network settle what they have, the user unlocks a
\* wallet that has stopped, and the code in between runs.
Fairness ==
  /\ \A i \in Identity : WF_vars(Issue(i)) /\ WF_vars(PollStep(i))
  /\ \A a \in Deployed : WF_vars(Deploy(a))
  /\ WF_vars(Unlock) /\ WF_vars(listenForIdentityStatus)
  /\ \A o \in Origin : WF_vars(listenForAccountStatus(o))
  /\ WF_vars(CreateStep)
  /\ \A a \in Deployed, o \in Origin : WF_vars(MonitorStep(a, o))

FairSpec == Spec /\ Fairness

-----------------------------------------------------------------------------
(* Properties. *)

Status == {"none", "pending", "confirmed", "rejected"}

\* The state holds values of its types, and the rows refer to an identity
\* that is there, as the foreign keys of the tables demand.
TypeOK ==
  /\ provider \in [Identity -> {"none", "processing", "done", "error"}]
  /\ chain \in [Account -> {"none", "received", "created"}]
  /\ identity \in [Identity -> Status] /\ account \in [Account -> Status]
  /\ credential \subseteq Account /\ book \subseteq Account
  /\ \A a \in Account :
       account[a] # "none" \/ a \in credential => identity[a[1]] # "none"
  /\ session \in {"stopped", "unlocking", "running"}
  /\ issue \in [pc : {"idle", "picked", "located"}, i : Identity]
  /\ poll \in [Identity -> {"none", "polling"}]
  /\ create \in [pc : {"idle", "opened", "half", "saved", "failed", "removing"},
                 a : Account]
  /\ listening \subseteq Origin
  /\ monitor \in [Account -> [Origin -> {"none", "waiting", "naming"}]]
  /\ connections \in 0..MaxConnections /\ requests \in 0..MaxRequests
  /\ failures \in 0..MaxFailures
  /\ unsaved \subseteq Identity /\ halfSaved \subseteq Account
  /\ lost \subseteq Account /\ hasty \subseteq Account

\* An identity and its initial account settle together, and as the provider
\* has settled them; a confirmed one has its credential, so that the next
\* number is never the initial account's, and an entry in the address book.
IdentityIsWhole ==
  \A i \in Identity :
    /\ account[Initial(i)] = identity[i]
    /\ identity[i] = "confirmed" =>
         provider[i] = "done" /\ Initial(i) \in credential \intersect book
    /\ identity[i] = "rejected" => provider[i] # "done"

\* An identity the provider has issued is in the wallet, unless its request
\* was never written down.
NoIdentityIsLost ==
  \A i \in Identity :
    provider[i] = "done" /\ i \notin unsaved 
      => identity[i] # "none" \/ (issue.pc = "located" /\ issue.i = i)

\* The wallet and the chain agree on accounts: one that was sent is in the
\* wallet with its credential, unless the answer of the node was lost, one that
\* is confirmed exists, and one that is rejected does not exist and will not,
\* unless a monitor gave up on it before the node knew what becomes of it.
NoAccountIsLost ==
  \A a \in Deployed :
    /\ chain[a] # "none" /\ a \notin lost
         => account[a] # "none" /\ a \in credential
    /\ account[a] = "confirmed" => chain[a] = "created"
    /\ account[a] = "rejected" /\ chain[a] # "none" => a \in hasty \union lost

\* The next account can be saved and sent: nothing in the wallet or on the
\* chain has its number, unless an account was left half saved or lost.
NextAccountIsFree ==
  \A i \in Identity :
    LET a == <<i, getNextCredentialNumber(i)>> IN
    create.pc = "idle" /\ identity[i] = "confirmed" /\ a \in Deployed
      => \/ account[a] = "none" /\ chain[a] = "none"
         \/ a \in halfSaved \union lost

\* Time and again nothing is pending: identities and accounts are settled,
\* those whose page or monitor died with the application included.
PendingSettles ==
  []<>(/\ \A i \in Identity : identity[i] # "pending"
       /\ \A a \in Account : account[a] # "pending")

\* An identity that was issued is confirmed, as confirmIdentityAndInitialAccount
\* says it polls for; not so when its account is in the address book already.
IssuedIsConfirmed ==
  \A i \in Identity :
    provider[i] = "done" /\ identity[i] = "pending"
      ~> identity[i] = "confirmed"
=============================================================================
