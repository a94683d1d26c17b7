------------------------------- MODULE Recovery -------------------------------
(***************************************************************************)
(* The search for the accounts of a Ledger.  For one identity number after *)
(* the other the user allows the wallet to compute the credentials the     *)
(* identity may have; each is looked up on the chain, and what is found is *)
(* inserted in one transaction, with a placeholder for the identity if the *)
(* wallet does not know it.  The user may stop at any moment, leave and    *)
(* come back while the search that was given up is still at work, and an   *)
(* identity that was requested before may be issued meanwhile.             *)
(***************************************************************************)
EXTENDS Naturals, Sequences, FiniteSets

CONSTANTS
  maxIdentityNumber,          \* a bound on the numbers that are searched
  maxCredentialsOnIdentity,   \* how many credentials are looked up
  identitySpacesBetweenWarning,
  Disturbance,                \* of "refusal" (on the device) and "failure" (of a lookup)
  MaxSearches,                \* a bound on the searches at work at once
  MaxDeployed,                \* a bound on the credentials deployed at first
  MaxPending,                 \* a bound on the identities that are requested
  MaxOld,                     \* a bound on the identities of the old version
  MaxMissed                   \* a bound on the credentials whose lookup fails

ASSUME DisturbanceAssumption == Disturbance \subseteq {"refusal", "failure"}

ASSUME BoundsAssumption ==
  /\ {maxIdentityNumber, MaxSearches, MaxDeployed, MaxPending, MaxOld, MaxMissed} \subseteq Nat
  /\ {maxCredentialsOnIdentity, identitySpacesBetweenWarning} \subseteq Nat \ {0}

Number == 0 .. maxIdentityNumber
CredentialNumber == 0 .. maxCredentialsOnIdentity - 1
Credential == [of : Number, credentialNumber : CredentialNumber]

VARIABLES
  chain,    \* the credentials that are deployed, and the version of the identities
  db,       \* the identities, credentials, accounts and address book of the tables
  store,    \* the identities of the store
  page,     \* the recovery page: what is shown, the next number, the block
  search,   \* the calls of performRecovery
  poll,     \* whether the identity provider is being asked for an identity
  missed    \* history: the credentials a lookup failed for that are there

vars == <<chain, db, store, page, search, poll, missed>>

Searches == 1 .. MaxSearches
Idle == [at |-> "idle"]

CredentialsOf(n) == {c \in Credential : c.of = n}
-----------------------------------------------------------------------------
(***************************************************************************)
(* The wallet knows an identity or not (one that is recovered counts as    *)
(* confirmed, no step tells them apart).  Of one that is known it has the  *)
(* first credentials, or none while it is pending.  Every account has one  *)
(* credential, and is told by it.                                          *)
(***************************************************************************)
Knowledge ==
  {[status |-> "none", known |-> 0]}
    \union [status : {"Confirmed"}, known : 1 .. maxCredentialsOnIdentity]
    \union {[status |-> "Pending", known |-> 0]}

(* The rows of the identities that are known, in the order of their numbers. *)
Rows(knowledge) ==
  LET known == {n \in Number : knowledge[n].status # "none"}
  IN  {rows \in UNION {[1 .. k -> known] : k \in 0 .. maxIdentityNumber + 1} :
         /\ \A i, j \in DOMAIN rows : i < j => rows[i] < rows[j]
         /\ \A n \in known : \E i \in DOMAIN rows : rows[i] = n}

InitTables(knowledge, rows) ==
  LET IdOf(n) == CHOOSE i \in DOMAIN rows : rows[i] = n
      known == {c \in Credential : c.credentialNumber < knowledge[c.of].known}
      initial == {c \in Credential : c.credentialNumber = 0 /\ knowledge[c.of].status = "Pending"}
  IN  [identities |-> [i \in DOMAIN rows |->
                         [number |-> rows[i], status |-> knowledge[rows[i]].status,
                          version |-> chain.version[rows[i]]]],
       credentials |-> [c \in known |-> IdOf(c.of)],
       accounts |-> [c \in known \union initial |->
                       [identityId |-> IdOf(c.of),
                        status |-> IF c \in known THEN "Confirmed" ELSE "Pending"]],
       addressBook |-> known]

Init ==
  /\ \E knowledge \in [Number -> Knowledge], deployed \in SUBSET Credential,
        version \in [Number -> {0, 1}] :
       /\ Cardinality(deployed) <= MaxDeployed
       /\ Cardinality({n \in Number : knowledge[n].status = "Pending"}) <= MaxPending
       /\ Cardinality({n \in Number : version[n] = 0}) <= MaxOld
       /\ \A n \in Number :
            /\ \A c \in CredentialsOf(n) :
                 c.credentialNumber < knowledge[n].known => c \in deployed
            /\ knowledge[n].status = "Pending" =>
                 CredentialsOf(n) \intersect deployed = {} /\ version[n] = 1
            /\ knowledge[n].status = "none" /\ CredentialsOf(n) \intersect deployed = {} =>
                 version[n] = 1
       /\ chain = [deployed |-> deployed, version |-> version]
       /\ \E rows \in Rows(knowledge) : db = InitTables(knowledge, rows)
       /\ poll = [n \in Number |-> IF knowledge[n].status = "Pending" THEN "waiting" ELSE "none"]
  /\ store = db.identities
  /\ page = [at |-> "closed", number |-> 0, block |-> {}, empty |-> 0, error |-> FALSE]
  /\ search = [i \in Searches |-> Idle]
  /\ missed = {}
-----------------------------------------------------------------------------
(* The page, and the abort controller of each time it is shown. *)
Show(at, number) ==
  /\ page' = [at |-> at, number |-> number, block |-> chain.deployed, empty |-> 0, error |-> FALSE]
  /\ UNCHANGED <<chain, db, store, search, poll, missed>>

OpenRecovery == page.at = "closed" /\ Show("search", 0)

GoBack == page.at = "completed" /\ Show("search", page.number)

(* abort() has an effect on a search that has started and not finished; a  *)
(* question nobody answers any more keeps its search waiting for good.  An *)
(* aborted search inserts nothing more and drops all it has after its next *)
(* lookup, the model drops it at once.                                     *)
GivenUp(s) ==
  [s EXCEPT !.isAborted = TRUE, !.number = 0, !.identities = <<>>, !.identityId = 0,
            !.version = 1, !.next = 0, !.found = {}]

Aborted ==
  [i \in Searches |-> IF search[i].at \in {"idle", "asking"} THEN Idle ELSE GivenUp(search[i])]

StopRecovery ==
  /\ page.at = "search"
  /\ page' = [page EXCEPT !.at = "completed"]
  /\ search' = Aborted
  /\ UNCHANGED <<chain, db, store, poll, missed>>

(* Mutant: the identities are not loaded. *)
LeaveStale ==
  /\ page' = [page EXCEPT !.at = "closed", !.block = {}, !.error = FALSE]
  /\ search' = Aborted
  /\ UNCHANGED <<chain, db, store, poll, missed>>

(* The identities are loaded when the user leaves. *)
Leave ==
  /\ page' = [page EXCEPT !.at = "closed", !.block = {}, !.error = FALSE]
  /\ search' = Aborted
  /\ store' = db.identities
  /\ UNCHANGED <<chain, db, poll, missed>>

LeaveAfterError == page.at = "search" /\ page.error /\ Leave

LeaveRecovery ==
  /\ page.at = "completed" \/ (page.at = "search" /\ ~page.error)
  /\ Leave
-----------------------------------------------------------------------------
(***************************************************************************)
(* performRecovery.                                                        *)
(***************************************************************************)
(* The device is awaiting the user while a search of this page runs; a     *)
(* search that has not been aborted is one of the page that is shown.      *)
Submit(i) ==
  /\ page.at = "search"
  /\ page.number \in Number
  /\ \A j \in Searches : search[j].at # "idle" => search[j].isAborted
  /\ search[i].at = "idle" /\ \A j \in Searches : j < i => search[j].at # "idle"
  /\ search' = [search EXCEPT ![i] =
       [at |-> "ledger", number |-> page.number, identities |-> store,
        isAborted |-> FALSE, identityId |-> 0, version |-> 1, next |-> 0, found |-> {}]]
  /\ UNCHANGED <<chain, db, store, page, poll, missed>>

Step(i, s) == search' = [search EXCEPT ![i] = s]

Refuse(i) ==
  /\ "refusal" \in Disturbance
  /\ search[i].at = "ledger"
  /\ Step(i, Idle)
  /\ UNCHANGED <<chain, db, store, page, poll, missed>>

(* Mutant: the first credential is taken to be that of the initial account. *)
getNextAfterInitial(identityId) ==
  LET numbers == {c.credentialNumber : c \in {d \in DOMAIN db.credentials :
                                                db.credentials[d] = identityId}}
  IN  IF numbers = {} THEN 1 ELSE 1 + CHOOSE k \in numbers : \A l \in numbers : l <= k

(* One more than the highest number of the identity's credentials. *)
getNextCredentialNumber(identityId) ==
  LET numbers == {c.credentialNumber : c \in {d \in DOMAIN db.credentials :
                                                db.credentials[d] = identityId}}
  IN  IF numbers = {} THEN 0 ELSE 1 + CHOOSE k \in numbers : \A l \in numbers : l <= k

(* The identity is looked for among those of the store when it started. *)
Allow(i) ==
  /\ search[i].at = "ledger"
  /\ LET s == search[i]
         known == {k \in DOMAIN s.identities : s.identities[k].number = s.number}
     IN  Step(i,
           IF known = {} THEN [s EXCEPT !.at = "looking"]
           ELSE LET id == CHOOSE k \in known : \A l \in known : k <= l
                IN  [s EXCEPT !.at = "looking", !.identityId = id,
                              !.version = s.identities[id].version,
                              !.next = getNextCredentialNumber(id)])
  /\ UNCHANGED <<chain, db, store, page, poll, missed>>

MayFail(c) == "failure" \in Disturbance /\ Cardinality(missed \union {c}) <= MaxMissed

(* A lookup that fails is taken for a credential that is not there. *)
recoverCredential(i) ==
  /\ search[i].at = "looking"
  /\ search[i].next \in CredentialNumber
  /\ LET s == search[i]
         c == [of |-> s.number, credentialNumber |-> s.next]
         exists == c \in page.block /\ s.version = chain.version[s.number]
     IN  \E found \in (IF MayFail(c) THEN {exists, FALSE} ELSE {exists}) :
           /\ Step(i, IF s.isAborted THEN Idle
                      ELSE [s EXCEPT !.next = @ + 1,
                                     !.found = IF found THEN @ \union {c} ELSE @])
           /\ missed' = IF exists /\ ~found /\ ~s.isAborted THEN missed \union {c} ELSE missed
  /\ UNCHANGED <<chain, db, store, page, poll>>

(* Nothing was found of an identity of the new version. *)
TryOlderVersion(i) ==
  /\ search[i].at = "looking"
  /\ search[i].next \notin CredentialNumber
  /\ search[i].identityId = 0 /\ search[i].version = 1 /\ search[i].found = {}
  /\ Step(i, [search[i] EXCEPT !.version = 0, !.next = 0])
  /\ UNCHANGED <<chain, db, store, page, poll, missed>>

(***************************************************************************)
(* The transaction: the placeholder, then for each credential its account, *)
(* unless it is there, and the credential, which must not be there.        *)
(***************************************************************************)
Over(new, old) ==
  [c \in DOMAIN new \union DOMAIN old |-> IF c \in DOMAIN new THEN new[c] ELSE old[c]]

InsertFromRecovery(tables, id, found) ==
  LET new == found \ DOMAIN tables.accounts
  IN  [tables EXCEPT
         !.accounts = Over([c \in new |-> [identityId |-> id, status |-> "Confirmed"]], @),
         !.credentials = Over([c \in found |-> id], @),
         !.addressBook = @ \union new]

(* Mutant: the placeholder is inserted before the transaction. *)
insertPlaceholderFirst(i) ==
  /\ search[i].at = "looking"
  /\ search[i].next \notin CredentialNumber
  /\ ~(search[i].identityId = 0 /\ search[i].version = 1 /\ search[i].found = {})
  /\ LET s == search[i]
         clash == s.found \intersect DOMAIN db.credentials # {}
         placeholder == [number |-> s.number, status |-> "Recovered", version |-> s.version]
         tables == IF s.identityId # 0 THEN db
                   ELSE [db EXCEPT !.identities = Append(@, placeholder)]
     IN  IF s.found = {} \/ s.isAborted
         THEN Step(i, [s EXCEPT !.at = "found"]) /\ UNCHANGED <<db, page>>
         ELSE IF clash
         THEN Step(i, Idle) /\ page' = [page EXCEPT !.error = TRUE] /\ db' = tables
         ELSE /\ UNCHANGED page
              /\ Step(i, [s EXCEPT !.at = "found"])
              /\ db' = InsertFromRecovery(
                          tables, IF s.identityId # 0 THEN s.identityId ELSE Len(tables.identities),
                          s.found)
  /\ UNCHANGED <<chain, store, poll, missed>>

insertFromRecovery(i) ==
  /\ search[i].at = "looking"
  /\ search[i].next \notin CredentialNumber
  /\ ~(search[i].identityId = 0 /\ search[i].version = 1 /\ search[i].found = {})
  /\ LET s == search[i]
         clash == s.found \intersect DOMAIN db.credentials # {}
         placeholder == [number |-> s.number, status |-> "Recovered", version |-> s.version]
     IN  IF s.found = {} \/ s.isAborted
         THEN Step(i, [s EXCEPT !.at = "found"]) /\ UNCHANGED <<db, page>>
         ELSE IF clash
         THEN Step(i, Idle) /\ page' = [page EXCEPT !.error = TRUE] /\ UNCHANGED db
         ELSE /\ UNCHANGED page
              /\ Step(i, [s EXCEPT !.at = "found"])
              /\ db' = IF s.identityId # 0
                       THEN InsertFromRecovery(db, s.identityId, s.found)
                       ELSE InsertFromRecovery(
                              [db EXCEPT !.identities = Append(@, placeholder)],
                              Len(db.identities) + 1, s.found)
  /\ UNCHANGED <<chain, store, poll, missed>>

(* The next number is shown, and a warning if nothing was found for long. *)
FinishSearch(i) ==
  /\ search[i].at = "found"
  /\ LET s == search[i]
         success == s.identityId # 0 \/ s.found # {}
         warn == ~success /\ page.empty > 0
                   /\ (page.empty + 1) % identitySpacesBetweenWarning = 0
     IN  IF s.isAborted
         THEN Step(i, Idle) /\ UNCHANGED page
         ELSE /\ page' = [page EXCEPT !.number = @ + 1,
                            !.empty = IF success THEN 0 ELSE IF warn THEN @ ELSE @ + 1]
              /\ Step(i, IF warn THEN [s EXCEPT !.at = "asking"] ELSE Idle)
  /\ UNCHANGED <<chain, db, store, poll, missed>>

LookForMore(i) ==
  /\ search[i].at = "asking"
  /\ page' = [page EXCEPT !.empty = @ + 1]
  /\ Step(i, Idle)
  /\ UNCHANGED <<chain, db, store, poll, missed>>

StopTheProcess(i) ==
  /\ search[i].at = "asking"
  /\ page' = [page EXCEPT !.at = "completed"]
  /\ Step(i, Idle)
  /\ UNCHANGED <<chain, db, store, poll, missed>>
-----------------------------------------------------------------------------
(* A requested identity is issued, with its initial account. *)
IssueIdentity(n) ==
  /\ poll[n] = "waiting"
  /\ chain' = [chain EXCEPT !.deployed = @ \union {[of |-> n, credentialNumber |-> 0]}]
  /\ UNCHANGED <<db, store, page, search, poll, missed>>

(* Its confirmation is a transaction as well. *)
confirmIdentity(n) ==
  LET c == [of |-> n, credentialNumber |-> 0]
      id == CHOOSE i \in DOMAIN db.identities : db.identities[i].number = n
  IN  /\ poll[n] = "waiting"
      /\ c \in chain.deployed
      /\ poll' = [poll EXCEPT ![n] = "none"]
      /\ db' = IF c \in DOMAIN db.credentials \/ c \in db.addressBook THEN db
               ELSE [db EXCEPT !.identities[id].status = "Confirmed",
                               !.accounts[c].status = "Confirmed",
                               !.credentials = Over([d \in {c} |-> id], @),
                               !.addressBook = @ \union {c}]
      /\ store' = db'.identities
      /\ UNCHANGED <<chain, page, search, missed>>

(* The wallet is closed and unlocked again. *)
Restart ==
  /\ page' = [page EXCEPT !.at = "closed", !.block = {}, !.error = FALSE]
  /\ search' = [i \in Searches |-> Idle]
  /\ store' = db.identities
  /\ poll' = [n \in Number |->
       IF \E i \in DOMAIN db.identities :
            db.identities[i].number = n /\ db.identities[i].status = "Pending"
       THEN "waiting" ELSE "none"]
  /\ UNCHANGED <<chain, db, missed>>

Search(i) ==
  \/ recoverCredential(i) \/ TryOlderVersion(i) \/ insertFromRecovery(i) \/ FinishSearch(i)

Next ==
  \/ OpenRecovery \/ GoBack \/ StopRecovery \/ LeaveRecovery \/ LeaveAfterError \/ Restart
  \/ \E i \in Searches :
       \/ Submit(i) \/ Refuse(i) \/ Allow(i) \/ Search(i) \/ LookForMore(i) \/ StopTheProcess(i)
  \/ \E n \in Number : IssueIdentity(n) \/ confirmIdentity(n)

Spec == Init /\ [][Next]_vars

(***************************************************************************)
(* The user comes back to the page, submits as long as there is a number   *)
(* to be searched, sooner or later allows it on the device, answers the    *)
(* question, and leaves a page that shows an error.  Lookups end (they     *)
(* have a deadline), and so does the request to an identity provider.      *)
(***************************************************************************)
Fairness ==
  /\ WF_vars(OpenRecovery) /\ WF_vars(GoBack) /\ WF_vars(LeaveAfterError)
  /\ \A i \in Searches :
       /\ WF_vars(Submit(i)) /\ SF_vars(Allow(i)) /\ WF_vars(Search(i))
       /\ WF_vars(LookForMore(i) \/ StopTheProcess(i))
  /\ \A n \in Number : WF_vars(confirmIdentity(n))

FairSpec == Spec /\ Fairness
-----------------------------------------------------------------------------
Identity ==
  [number : Number, status : {"Confirmed", "Pending", "Recovered"}, version : {0, 1}]

Account == [identityId : Nat, status : {"Confirmed", "Pending"}]

Work ==
  [at : {"ledger", "looking", "found", "asking"}, number : Number, identities : Seq(Identity),
   isAborted : BOOLEAN, identityId : Nat, version : {0, 1}, next : Nat,
   found : SUBSET Credential]

Page ==
  [at : {"closed", "search", "completed"}, number : Nat, block : SUBSET Credential,
   empty : Nat, error : BOOLEAN]

(* Rows that are told apart by their credentials. *)
AreRows(rows, type) == DOMAIN rows \subseteq Credential /\ rows \in [DOMAIN rows -> type]

Types ==
  /\ chain \in [deployed : SUBSET Credential, version : [Number -> {0, 1}]]
  /\ db = [identities |-> db.identities, credentials |-> db.credentials,
            accounts |-> db.accounts, addressBook |-> db.addressBook]
  /\ db.identities \in Seq(Identity) /\ db.addressBook \subseteq Credential
  /\ AreRows(db.credentials, Nat) /\ AreRows(db.accounts, Account)
  /\ store \in Seq(Identity)
  /\ page \in Page
  /\ search \in [Searches -> Work \union {Idle}]
  /\ poll \in [Number -> {"none", "waiting"}]
  /\ missed \subseteq Credential

(* No credential or account refers to an identity that is not there. *)
ForeignKeysHold ==
  /\ \A c \in DOMAIN db.credentials : db.credentials[c] \in DOMAIN db.identities
  /\ \A c \in DOMAIN db.accounts : db.accounts[c].identityId \in DOMAIN db.identities

TypeOK == Types /\ ForeignKeysHold

(***************************************************************************)
(* However searches are given up, begun again and crossed by the           *)
(* confirmation of an identity: every credential refers to its own         *)
(* identity and has an account, every account but a pending one is in the  *)
(* address book, and an identity is in the table once (insertFromRecovery, *)
(* insertFromRecoveryNewIdentity).  A number may have a second row only if *)
(* a lookup of one of its credentials has failed: then a search that was   *)
(* given up and the one after it may each find, and insert, what the other *)
(* missed.                                                                 *)
(***************************************************************************)
IsMissed(n) == \E c \in missed : c.of = n

TablesAgree ==
  /\ \A i, j \in DOMAIN db.identities :
       db.identities[i].number = db.identities[j].number =>
         i = j \/ IsMissed(db.identities[i].number)
  /\ \A c \in DOMAIN db.credentials :
       /\ c \in chain.deployed
       /\ db.identities[db.credentials[c]].number = c.of
       /\ db.identities[db.credentials[c]].version = chain.version[c.of]
       /\ c \in DOMAIN db.accounts
  /\ \A a \in DOMAIN db.accounts :
       db.accounts[a].status # "Pending" => a \in db.addressBook

(***************************************************************************)
(* When a number is done and the next one is shown, every credential the   *)
(* chain had of it when the page was opened is in the table, except for    *)
(* those whose own lookup has failed: recoverCredential takes them for     *)
(* credentials that are not there.  What else a search misses because of   *)
(* them does not change that (performRecovery).                            *)
(***************************************************************************)
DoneIsRecovered ==
  [][page'.number = page.number + 1 =>
       \A c \in CredentialsOf(page.number) :
         c \in page.block => c \in DOMAIN db.credentials \union missed]_vars

(***************************************************************************)
(* The recovery of a user who does not keep giving up comes to its end: a  *)
(* search that fails, because what it found has been inserted by one that  *)
(* was given up or with an identity that was confirmed, is got over by     *)
(* leaving the page (performRecovery, Recovery.tsx:29).  It need not end   *)
(* once failed lookups have put an identity into the table twice.          *)
(***************************************************************************)
IdentityTwice ==
  \E i, j \in DOMAIN db.identities :
    i # j /\ db.identities[i].number = db.identities[j].number

RecoveryComesToAnEnd ==
  \/ []<>(page.number > maxIdentityNumber)
  \/ []<><<StopRecovery \/ LeaveRecovery \/ Restart>>_vars
  \/ <>IdentityTwice

(***************************************************************************)
(* The same without the exception.  It does not hold: what is found with   *)
(* the first of two rows clashes with the credentials of the second, each  *)
(* time the number is searched again.                                      *)
(***************************************************************************)
RecoveryAlwaysEnds ==
  \/ []<>(page.number > maxIdentityNumber)
  \/ []<><<StopRecovery \/ LeaveRecovery \/ Restart>>_vars

(***************************************************************************)
(* The same as DoneIsRecovered without the exception.  It does not hold:   *)
(* "The presence of an accountInfo implies that the credential has been    *)
(* deployed" (recoverCredential), its absence does not imply the opposite. *)
(***************************************************************************)
DoneIsAllRecovered ==
  [][page'.number = page.number + 1 =>
       \A c \in CredentialsOf(page.number) : c \in page.block => c \in DOMAIN db.credentials]_vars

(***************************************************************************)
(* A request to an identity provider that has been answered is not left    *)
(* pending (confirmIdentity): "Updates the database entries accordingly    *)
(* after an identity has been confirmed to be created by an identity       *)
(* provider. This includes: Setting the identity status to 'confirmed'"    *)
(* (identityDao.ts:116).                                                   *)
(***************************************************************************)
AnsweredIsNotPending ==
  [][\A n \in Number, i \in DOMAIN db.identities :
       poll[n] = "waiting" /\ poll'[n] = "none" /\ db.identities[i].number = n
         => db'.identities[i].status # "Pending"]_vars
===============================================================================
