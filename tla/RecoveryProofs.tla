---------------------------- MODULE RecoveryProofs ----------------------------
(***************************************************************************)
(* Proofs about Recovery for every number of identities, of credentials    *)
(* that are looked up and of searches, whatever is deployed and known when *)
(* it starts.  What the searches rely on holds but for the credentials a   *)
(* lookup has failed for (missed), whichever and however many those are.   *)
(***************************************************************************)
EXTENDS Recovery, WellFoundedInduction, SequenceTheorems, TLAPS

\* The credential of the initial account.
First(n) == [of |-> n, credentialNumber |-> 0]

\* A search that has not been given up.
Current(i) == search[i].at # "idle" /\ ~search[i].isAborted

\* There is at most one, of the number that is shown; a question is its own.
OneIsCurrent ==
  \A i \in Searches :
    /\ Current(i) =>
         /\ page.at = "search"
         /\ search[i].at # "asking" => search[i].number = page.number
         /\ \A j \in Searches : Current(j) => i = j
    /\ search[i].at = "asking" => Current(i)

\* The rows q are the first of the table, which only grows.  A row they lack
\* was inserted by a search, with a credential that is in the block now shown:
\* who looks for that identity again finds the credential again.
Before(q) ==
  /\ Len(q) <= Len(db.identities)
  /\ \A k \in DOMAIN q :
       q[k].number = db.identities[k].number /\ q[k].version = db.identities[k].version
  /\ \A k \in DOMAIN db.identities : k > Len(q) =>
       \E c \in DOMAIN db.credentials :
         c.of = db.identities[k].number /\ (page.at # "closed" => c \in page.block)

\* The table has the version an identity has on the chain, and its credentials
\* without gaps but for the missed ones.
Tables ==
  /\ TablesAgree /\ ForeignKeysHold
  /\ \A k \in DOMAIN db.identities :
       db.identities[k].version = chain.version[db.identities[k].number]
  /\ \A c \in DOMAIN db.credentials, d \in chain.deployed :
       d.of = c.of /\ d.credentialNumber < c.credentialNumber =>
         d \in DOMAIN db.credentials \union missed

\* What is waited for is in the table with its account, and the chain has
\* nothing of it but the credential of that account.
IsRequested(n) ==
  \E k \in DOMAIN db.identities :
    db.identities[k].number = n /\ db.identities[k].status = "Pending"

RequestsAreHeld ==
  \A n \in Number : poll[n] = "waiting" \/ IsRequested(n) =>
    /\ \E k \in DOMAIN db.identities : db.identities[k].number = n
    /\ First(n) \in DOMAIN db.accounts
    /\ CredentialsOf(n) \intersect chain.deployed \subseteq {First(n)}

\* What was deployed since the page was opened is the first of its identity.
BlockIsPast ==
  page.at # "closed" =>
    /\ page.block \subseteq chain.deployed
    /\ \A d \in chain.deployed \ page.block :
         CredentialsOf(d.of) \intersect chain.deployed \subseteq {d}

\* What a search may find.
Wanted(s) == CredentialsOf(s.number) \intersect page.block

\* A search has found, or the table has, all it wanted up to the next number
\* and did not lose to a lookup that failed, if it searches for the version the
\* identity has.
LookedUp(s, lost) ==
  /\ s.found \subseteq Wanted(s)
  /\ s.found # {} => s.version = chain.version[s.number]
  /\ s.identityId # 0 =>
       /\ s.identityId \in DOMAIN s.identities
       /\ s.identities[s.identityId].number = s.number
       /\ s.identities[s.identityId].version = s.version
  /\ s.identityId = 0 => \A k \in DOMAIN s.identities : s.identities[k].number # s.number
  /\ s.version = chain.version[s.number] =>
       \A c \in Wanted(s) : c.credentialNumber < s.next =>
         \/ c \in s.found \/ c \in lost
         \/ s.identityId # 0 /\ c \in DOMAIN db.credentials
  /\ s.identityId = 0 /\ s.version = 0 /\ chain.version[s.number] = 1 =>
       Wanted(s) \subseteq lost

IsRight(s, lost) ==
  /\ Before(s.identities)
  /\ s.at = "ledger" => s.identityId = 0 /\ s.version = 1 /\ s.next = 0 /\ s.found = {}
  /\ s.at = "looking" => LookedUp(s, lost)
  /\ s.at = "found" => Wanted(s) \subseteq DOMAIN db.credentials \union lost

SearchesAreRight == \A i \in Searches : Current(i) => IsRight(search[i], missed)

IInv ==
  /\ OneIsCurrent /\ Before(store) /\ Tables /\ RequestsAreHeld /\ BlockIsPast
  /\ SearchesAreRight

-----------------------------------------------------------------------------
\* Among numbers there is a smallest.
LEMMA SmallestNumber ==
  ASSUME NEW S \in SUBSET Nat, S # {}
  PROVE  \E k \in S : \A l \in S : k <= l
<1>1. PICK k \in S : \A l \in S : ~ (<<l, k>> \in OpToRel(<, Nat))
  BY NatLessThanWellFounded, WFMin
<1>2. \A l \in S : ~ (l < k)
  BY <1>1 DEF OpToRel
<1> QED
  BY <1>2

\* A set of numbers up to a bound has a largest one.
LEMMA LargestNumber ==
  ASSUME NEW n \in Nat, NEW S \in SUBSET (0 .. n), S # {}
  PROVE  \E k \in S : \A l \in S : l <= k
<1> DEFINE T == {n - k : k \in S}
<1>1. T \subseteq Nat /\ T # {}
  <2>1. \A k \in 0 .. n : n - k \in Nat
    OBVIOUS
  <2>2. T \subseteq Nat
    BY <2>1
  <2>3. PICK k \in S : TRUE
    OBVIOUS
  <2>4. n - k \in T
    BY <2>3
  <2> QED
    BY <2>2, <2>4
<1>2. PICK x \in T : \A y \in T : x <= y
  <2> HIDE DEF T
  <2> QED
    BY <1>1, SmallestNumber
<1>3. PICK m \in S : x = n - m
  OBVIOUS
<1>4. ASSUME NEW l \in S PROVE l <= m
  <2>1. n - m <= n - l
    BY <1>2, <1>3
  <2> QED
    BY <2>1
<1> QED
  BY <1>4

\* The next number is above those of the identity's credentials, and follows
\* on one of them unless there are none.
LEMMA NextNumber ==
  ASSUME Types, NEW id
  PROVE  LET next == getNextCredentialNumber(id)
             mine == {c \in DOMAIN db.credentials : db.credentials[c] = id}
         IN  /\ next \in Nat
             /\ next # 0 => \E c \in mine : next = c.credentialNumber + 1
<1> DEFINE mine == {c \in DOMAIN db.credentials : db.credentials[c] = id}
           numbers == {c.credentialNumber : c \in mine}
           largest == CHOOSE k \in numbers : \A l \in numbers : l <= k
<1>1. mine \subseteq Credential
  BY DEF Types, AreRows
<1>2. numbers \subseteq 0 .. maxCredentialsOnIdentity
  BY <1>1, BoundsAssumption DEF Credential, CredentialNumber
<1>3. CASE numbers = {}
  <2>1. getNextCredentialNumber(id) = 0
    BY <1>3 DEF getNextCredentialNumber
  <2> QED
    BY <2>1
<1>4. CASE numbers # {}
  <2>1. \E k \in numbers : \A l \in numbers : l <= k
    <3> HIDE DEF numbers
    <3> QED
      BY <1>2, <1>4, LargestNumber, BoundsAssumption
  <2>2. largest \in numbers
    <3> HIDE DEF numbers
    <3> QED
      BY <2>1
  <2>3. getNextCredentialNumber(id) = 1 + largest
    BY <1>4 DEF getNextCredentialNumber
  <2> HIDE DEF largest
  <2>4. PICK c \in mine : largest = c.credentialNumber
    BY <2>2
  <2>5. largest \in Nat
    BY <1>2, <2>2, BoundsAssumption
  <2> QED
    BY <2>3, <2>4, <2>5
<1> QED
  BY <1>3, <1>4

-----------------------------------------------------------------------------
(* Every step keeps the types. *)

LEMMA OnlySearch ==
  ASSUME Types, NEW i \in Searches, NEW s \in Work \union {Idle}, Step(i, s),
         UNCHANGED <<chain, db, store, poll>>, page' \in Page, missed' \in SUBSET Credential
  PROVE  Types'
<1>1. search' \in [Searches -> Work \union {Idle}]
  BY DEF Step, Types
<1> QED
  BY <1>1 DEF Types, AreRows

\* A search at work.
LEMMA AtWork ==
  ASSUME Types, NEW i \in Searches, search[i].at # "idle"
  PROVE  search[i] \in Work
BY DEF Types, Idle

LEMMA SearchTypes ==
  ASSUME Types, NEW i \in Searches,
         \/ Submit(i) \/ Refuse(i) \/ Allow(i) \/ recoverCredential(i)
         \/ TryOlderVersion(i) \/ FinishSearch(i) \/ LookForMore(i) \/ StopTheProcess(i)
  PROVE  Types'
<1> USE DEF Step
<1> DEFINE s == search[i]
<1>0. page \in Page /\ store \in Seq(Identity) /\ missed \in SUBSET Credential
  BY DEF Types
<1>1. CASE Submit(i)
  <2> DEFINE new == [at |-> "ledger", number |-> page.number, identities |-> store,
                     isAborted |-> FALSE, identityId |-> 0, version |-> 1, next |-> 0,
                     found |-> {}]
  <2>1. new \in Work
    BY <1>0, <1>1 DEF Submit, Work
  <2> HIDE DEF new
  <2>2. Step(i, new) /\ UNCHANGED <<chain, db, store, page, poll, missed>>
    BY <1>1 DEF Submit, new
  <2> QED
    BY <1>0, <2>1, <2>2, OnlySearch
<1>2. CASE Refuse(i)
  BY <1>0, <1>2, OnlySearch DEF Refuse
<1>3. CASE Allow(i)
  <2>1. s \in Work
    BY <1>3, AtWork DEF Allow
  <2> DEFINE known == {k \in DOMAIN s.identities : s.identities[k].number = s.number}
             id == CHOOSE k \in known : \A l \in known : k <= l
             new == IF known = {} THEN [s EXCEPT !.at = "looking"]
                    ELSE [s EXCEPT !.at = "looking", !.identityId = id,
                                   !.version = s.identities[id].version,
                                   !.next = getNextCredentialNumber(id)]
  <2>2. CASE known = {}
    BY <1>0, <1>3, <2>1, <2>2, OnlySearch DEF Allow, Work
  <2>3. CASE known # {}
    <3>1. known \subseteq 1 .. Len(s.identities) /\ Len(s.identities) \in Nat
      BY <2>1 DEF Work
    <3>2. id \in known
      <4>1. \E k \in known : \A l \in known : k <= l
        <5> HIDE DEF known
        <5>1. known \in SUBSET Nat
          BY <3>1
        <5> QED
          BY <2>3, <5>1, SmallestNumber
      <4> HIDE DEF known
      <4> QED
        BY <4>1
    <3> HIDE DEF id
    <3>3. id \in DOMAIN s.identities /\ id \in Nat
      BY <3>1, <3>2
    <3>4. s.identities[id] \in Identity
      BY <2>1, <3>3, ElementOfSeq DEF Work
    <3>5. s.identities[id].version \in {0, 1} /\ getNextCredentialNumber(id) \in Nat
      BY <3>4, NextNumber DEF Identity
    <3>6. new \in Work
      BY <2>1, <2>3, <3>3, <3>5 DEF Work
    <3>7. Step(i, new)
      BY <1>3, <2>3 DEF Allow, id
    <3> QED
      BY <1>0, <1>3, <3>6, <3>7, OnlySearch DEF Allow
  <2> QED
    BY <2>2, <2>3
<1>4. CASE recoverCredential(i)
  <2>1. s \in Work /\ s.next \in CredentialNumber
    BY <1>4, AtWork DEF recoverCredential
  <2>2. [of |-> s.number, credentialNumber |-> s.next] \in Credential
    BY <2>1 DEF Credential, Work
  <2>3. s.next + 1 \in Nat
    BY <2>1 DEF Work
  <2>4. PICK found \in BOOLEAN :
          Step(i, IF s.isAborted THEN Idle
                  ELSE [s EXCEPT !.next = @ + 1,
                                 !.found = IF found
                                   THEN @ \union {[of |-> s.number, credentialNumber |-> s.next]}
                                   ELSE @])
    BY <1>4 DEF recoverCredential
  <2> DEFINE c == [of |-> s.number, credentialNumber |-> s.next]
             new == IF s.isAborted THEN Idle
                    ELSE [s EXCEPT !.next = @ + 1, !.found = IF found THEN @ \union {c} ELSE @]
  <2>5. new \in Work \union {Idle}
    BY <2>1, <2>2, <2>3 DEF Work
  <2> HIDE DEF new
  <2>6. Step(i, new)
    BY <2>4 DEF new
  <2>7. missed' \in SUBSET Credential
    BY <1>0, <1>4, <2>2 DEF recoverCredential
  <2> QED
    BY <1>0, <1>4, <2>5, <2>6, <2>7, OnlySearch DEF recoverCredential
<1>5. CASE TryOlderVersion(i)
  <2>1. [s EXCEPT !.version = 0, !.next = 0] \in Work
    BY <1>5, AtWork DEF TryOlderVersion, Work
  <2> QED
    BY <1>0, <1>5, <2>1, OnlySearch DEF TryOlderVersion
<1>6. CASE FinishSearch(i)
  <2>1. s \in Work
    BY <1>6, AtWork DEF FinishSearch
  <2>2. [s EXCEPT !.at = "asking"] \in Work
    BY <2>1 DEF Work
  <2>3. page.number + 1 \in Nat /\ page.empty + 1 \in Nat
    BY <1>0 DEF Page
  <2>4. page' \in Page
    <3>1. page' = page \/ \E empty \in {0, page.empty, page.empty + 1} :
            page' = [page EXCEPT !.number = @ + 1, !.empty = empty]
      BY <1>6 DEF FinishSearch
    <3>2. ASSUME NEW empty \in Nat
          PROVE  [page EXCEPT !.number = @ + 1, !.empty = empty] \in Page
      BY <1>0, <2>3 DEF Page
    <3>3. page.empty \in Nat
      BY <1>0 DEF Page
    <3> QED
      BY <1>0, <2>3, <3>1, <3>2, <3>3
  <2>5. Step(i, Idle) \/ Step(i, [s EXCEPT !.at = "asking"])
    BY <1>6 DEF FinishSearch
  <2> QED
    BY <1>0, <1>6, <2>2, <2>4, <2>5, OnlySearch DEF FinishSearch
<1>7. CASE LookForMore(i)
  <2>1. page' \in Page
    BY <1>0, <1>7 DEF LookForMore, Page
  <2> QED
    BY <1>0, <1>7, <2>1, OnlySearch DEF LookForMore
<1>8. CASE StopTheProcess(i)
  <2>1. page' \in Page
    BY <1>0, <1>8 DEF StopTheProcess, Page
  <2> QED
    BY <1>0, <1>8, <2>1, OnlySearch DEF StopTheProcess
<1> QED
  BY <1>1, <1>2, <1>3, <1>4, <1>5, <1>6, <1>7, <1>8

\* What an insertion makes of the tables; q are the identities with the
\* placeholder, if there is one.
Recovered(id) == [identityId |-> id, status |-> "Confirmed"]

Holding(q) == [db EXCEPT !.identities = q]

LEMMA Inserted ==
  ASSUME Types, NEW q \in Seq(Identity), NEW id \in Nat, NEW found \in SUBSET Credential,
         NEW tables,
         tables = InsertFromRecovery(Holding(q), id, found)
  PROVE  /\ tables.identities = q
         /\ DOMAIN tables.credentials = found \union DOMAIN db.credentials
         /\ \A c \in found : tables.credentials[c] = id
         /\ \A c \in DOMAIN db.credentials \ found : tables.credentials[c] = db.credentials[c]
         /\ DOMAIN tables.accounts = found \union DOMAIN db.accounts
         /\ \A c \in DOMAIN db.accounts : tables.accounts[c] = db.accounts[c]
         /\ \A c \in found \ DOMAIN db.accounts : tables.accounts[c] = Recovered(id)
         /\ AreRows(tables.credentials, Nat) /\ AreRows(tables.accounts, Account)
         /\ tables.addressBook = db.addressBook \union (found \ DOMAIN db.accounts)
         /\ tables = [identities |-> tables.identities, credentials |-> tables.credentials,
                      accounts |-> tables.accounts, addressBook |-> tables.addressBook]
<1> DEFINE new == found \ DOMAIN db.accounts
           credentials == [c \in found \union DOMAIN db.credentials |->
                             IF c \in found THEN id ELSE db.credentials[c]]
           accounts == [c \in found \union DOMAIN db.accounts |->
                          IF c \in DOMAIN db.accounts THEN db.accounts[c] ELSE Recovered(id)]
<1>1. credentials = Over([c \in found |-> id], db.credentials)
  BY DEF Over
<1>2. accounts = Over([c \in new |-> [identityId |-> id, status |-> "Confirmed"]], db.accounts)
  BY DEF Over, Recovered
<1>3. tables = [[db EXCEPT !.identities = q] EXCEPT
                  !.accounts = accounts, !.credentials = credentials,
                  !.addressBook = @ \union new]
  BY <1>1, <1>2 DEF InsertFromRecovery, Holding, Types
<1>4. AreRows(credentials, Nat)
  BY DEF Types, AreRows
<1>5. Recovered(id) \in Account
  BY DEF Account, Recovered
<1>6. AreRows(accounts, Account)
  BY <1>5 DEF Types, AreRows
<1> HIDE DEF credentials, accounts, new
<1>7. tables = [identities |-> q, credentials |-> credentials, accounts |-> accounts,
                addressBook |-> db.addressBook \union new]
  BY <1>3 DEF Types
<1>8. /\ DOMAIN credentials = found \union DOMAIN db.credentials
      /\ \A c \in found : credentials[c] = id
      /\ \A c \in DOMAIN db.credentials \ found : credentials[c] = db.credentials[c]
  BY DEF credentials
<1>9. /\ DOMAIN accounts = found \union DOMAIN db.accounts
      /\ \A c \in DOMAIN db.accounts : accounts[c] = db.accounts[c]
      /\ \A c \in found \ DOMAIN db.accounts : accounts[c] = Recovered(id)
  BY DEF accounts
<1> QED
  BY <1>4, <1>6, <1>7, <1>8, <1>9 DEF new

\* The outcomes of insertFromRecovery.
Nothing(i, s) ==
  /\ s.found = {} \/ s.isAborted
  /\ Step(i, [s EXCEPT !.at = "found"]) /\ UNCHANGED <<db, page>>

Clash(i, s) == Step(i, Idle) /\ page' = [page EXCEPT !.error = TRUE] /\ UNCHANGED db

Placeholder(s) == [number |-> s.number, status |-> "Recovered", version |-> s.version]

Insertion(i, s, q, id) ==
  /\ s.found # {} /\ ~s.isAborted /\ s.found \intersect DOMAIN db.credentials = {}
  /\ UNCHANGED page /\ Step(i, [s EXCEPT !.at = "found"])
  /\ \/ s.identityId # 0 /\ q = db.identities /\ id = s.identityId
     \/ s.identityId = 0 /\ q = Append(db.identities, Placeholder(s)) /\ id = Len(q)
  /\ db' = InsertFromRecovery(Holding(q), id, s.found)

LEMMA Outcomes ==
  ASSUME Types, NEW i \in Searches, insertFromRecovery(i)
  PROVE  /\ search[i] \in Work /\ UNCHANGED <<chain, store, poll, missed>>
         /\ \/ Nothing(i, search[i]) \/ Clash(i, search[i])
            \/ \E q \in Seq(Identity), id \in Nat : Insertion(i, search[i], q, id)
<1> DEFINE s == search[i]
<1>1. s \in Work
  BY AtWork DEF insertFromRecovery
<1>2. Placeholder(s) \in Identity
  BY <1>1 DEF Work, Identity, Placeholder
<1>3. CASE s.found = {} \/ s.isAborted
  BY <1>1, <1>3 DEF insertFromRecovery, Nothing
<1>4. CASE ~ (s.found = {} \/ s.isAborted) /\ s.found \intersect DOMAIN db.credentials # {}
  BY <1>1, <1>4 DEF insertFromRecovery, Clash
<1>5. CASE ~ (s.found = {} \/ s.isAborted) /\ s.found \intersect DOMAIN db.credentials = {}
  <2>1. /\ UNCHANGED page /\ Step(i, [s EXCEPT !.at = "found"])
        /\ db' = IF s.identityId # 0
                 THEN InsertFromRecovery(db, s.identityId, s.found)
                 ELSE InsertFromRecovery([db EXCEPT !.identities = Append(@, Placeholder(s))],
                                         Len(db.identities) + 1, s.found)
    BY <1>5 DEF insertFromRecovery, Placeholder
  <2>2. CASE s.identityId # 0
    <3>1. db = Holding(db.identities)
      BY DEF Types, Holding
    <3>2. Insertion(i, s, db.identities, s.identityId)
      BY <1>5, <2>1, <2>2, <3>1 DEF Insertion
    <3> QED
      BY <1>1, <3>2 DEF Types, Work, insertFromRecovery
  <2>3. CASE s.identityId = 0
    <3> DEFINE q == Append(db.identities, Placeholder(s))
    <3>1. q \in Seq(Identity) /\ Len(q) = Len(db.identities) + 1 /\ Len(q) \in Nat
      BY <1>2 DEF Types
    <3>2. db' = InsertFromRecovery(Holding(q), Len(q), s.found)
      BY <2>1, <2>3, <3>1 DEF Holding
    <3> HIDE DEF q
    <3>3. Insertion(i, s, q, Len(q))
      BY <1>5, <2>1, <2>3, <3>2 DEF Insertion, q
    <3> QED
      BY <1>1, <3>1, <3>3 DEF insertFromRecovery
  <2> QED
    BY <2>2, <2>3
<1> QED
  BY <1>3, <1>4, <1>5

LEMMA InsertTypes ==
  ASSUME Types, NEW i \in Searches, insertFromRecovery(i)
  PROVE  Types'
<1> DEFINE s == search[i]
           done == [s EXCEPT !.at = "found"]
<1>0. s \in Work /\ UNCHANGED <<chain, store, poll, missed>>
  BY Outcomes
<1>1. s \in Work /\ done \in Work /\ page \in Page
      /\ UNCHANGED <<chain, store, poll, missed>> /\ missed \in SUBSET Credential
  BY <1>0 DEF Work, Types
<1>2. CASE Nothing(i, s)
  BY <1>1, <1>2, OnlySearch DEF Nothing
<1>3. CASE Clash(i, s)
  <2>1. page' \in Page
    BY <1>1, <1>3 DEF Clash, Page
  <2> QED
    BY <1>1, <1>3, <2>1, OnlySearch DEF Clash
<1>4. ASSUME NEW q \in Seq(Identity), NEW id \in Nat, Insertion(i, s, q, id)
      PROVE  Types'
  <2>1. s.found \in SUBSET Credential
    BY <1>1 DEF Work
  <2>2. db' = InsertFromRecovery(Holding(q), id, s.found)
    BY <1>4 DEF Insertion
  <2> HIDE DEF s
  <2>3. /\ db'.identities = q
        /\ AreRows(db'.credentials, Nat) /\ AreRows(db'.accounts, Account)
        /\ db'.addressBook = db.addressBook \union (s.found \ DOMAIN db.accounts)
        /\ db' = [identities |-> db'.identities, credentials |-> db'.credentials,
                  accounts |-> db'.accounts, addressBook |-> db'.addressBook]
    BY <2>1, <2>2, Inserted
  <2>7. db'.identities \in Seq(Identity) /\ db'.addressBook \subseteq Credential
    BY <2>1, <2>3 DEF Types
  <2>8. search' \in [Searches -> Work \union {Idle}] /\ UNCHANGED page
    BY <1>1, <1>4 DEF Insertion, Step, Types, s
  <2>9. chain' \in [deployed : SUBSET Credential, version : [Number -> {0, 1}]]
    BY <1>1 DEF Types
  <2>10. /\ store' \in Seq(Identity) /\ page' \in Page /\ poll' \in [Number -> {"none", "waiting"}]
         /\ missed' \subseteq Credential
    BY <1>1, <2>8 DEF Types
  <2> QED
    BY <2>3, <2>7, <2>8, <2>9, <2>10 DEF Types, AreRows
<1> QED
  BY <1>2, <1>3, <1>4, Outcomes

\* What a confirmation makes of the tables.
Confirmation(n, id) ==
  /\ id \in DOMAIN db.identities /\ db.identities[id].number = n
  /\ First(n) \notin DOMAIN db.credentials /\ First(n) \in DOMAIN db.accounts
  /\ DOMAIN db'.identities = DOMAIN db.identities
  /\ Len(db'.identities) = Len(db.identities)
  /\ db'.identities[id].number = n
  /\ db'.identities[id].version = db.identities[id].version
  /\ db'.identities[id].status = "Confirmed"
  /\ \A k \in DOMAIN db.identities : k # id => db'.identities[k] = db.identities[k]
  /\ DOMAIN db'.credentials = DOMAIN db.credentials \union {First(n)}
  /\ db'.credentials[First(n)] = id
  /\ \A c \in DOMAIN db.credentials : db'.credentials[c] = db.credentials[c]
  /\ DOMAIN db'.accounts = DOMAIN db.accounts
  /\ db'.accounts[First(n)].identityId = db.accounts[First(n)].identityId
  /\ \A c \in DOMAIN db.accounts : c # First(n) => db'.accounts[c] = db.accounts[c]
  /\ db'.addressBook = db.addressBook \union {First(n)}

LEMMA FirstIsCredential ==
  ASSUME NEW n \in Number
  PROVE  First(n) \in Credential /\ First(n) \in CredentialsOf(n)
BY BoundsAssumption DEF First, Credential, CredentialNumber, CredentialsOf

LEMMA Confirmed ==
  ASSUME Types, IInv, NEW n \in Number, confirmIdentity(n)
  PROVE  /\ Types'
         /\ UNCHANGED <<chain, page, search, missed>> /\ store' = db'.identities
         /\ poll' = [poll EXCEPT ![n] = "none"] /\ First(n) \in chain.deployed
         /\ db' = db \/ \E id \in Nat : Confirmation(n, id)
<1> DEFINE c == First(n)
           id == CHOOSE i \in DOMAIN db.identities : db.identities[i].number = n
<1>1. /\ UNCHANGED <<chain, page, search, missed>> /\ store' = db'.identities
      /\ poll' = [poll EXCEPT ![n] = "none"] /\ First(n) \in chain.deployed
      /\ poll[n] = "waiting"
  BY DEF confirmIdentity, First
<1>2. c \in Credential
  BY FirstIsCredential
<1>3. (\E i \in DOMAIN db.identities : db.identities[i].number = n) /\ c \in DOMAIN db.accounts
  BY <1>1 DEF IInv, RequestsAreHeld
<1>4. id \in DOMAIN db.identities /\ db.identities[id].number = n
  BY <1>3
<1>5. db.identities \in Seq(Identity) /\ db.identities[id] \in Identity /\ id \in Nat
  BY <1>4, ElementOfSeq DEF Types
<1>6. poll' \in [Number -> {"none", "waiting"}]
  BY <1>1 DEF Types
<1>7. CASE db' = db
  BY <1>1, <1>6, <1>7 DEF Types, AreRows
<1>8. CASE db' # db
  <2> DEFINE row == [db.identities[id] EXCEPT !.status = "Confirmed"]
             account == [db.accounts[c] EXCEPT !.status = "Confirmed"]
             identities == [db.identities EXCEPT ![id] = row]
             accounts == [db.accounts EXCEPT ![c] = account]
             credentials == [d \in {c} \union DOMAIN db.credentials |->
                               IF d \in {c} THEN id ELSE db.credentials[d]]
  <2>1. /\ c \notin DOMAIN db.credentials
        /\ db' = [db EXCEPT !.identities[id].status = "Confirmed",
                            !.accounts[c].status = "Confirmed",
                            !.credentials = Over([d \in {c} |-> id], @),
                            !.addressBook = @ \union {c}]
    BY <1>8 DEF confirmIdentity, First
  <2>2. credentials = Over([d \in {c} |-> id], db.credentials)
    BY DEF Over
  <2> HIDE DEF id, c
  <2>3. db' = [db EXCEPT !.identities = identities, !.accounts = accounts,
                         !.credentials = credentials, !.addressBook = @ \union {c}]
    BY <2>1, <2>2
  <2> HIDE DEF credentials
  <2>4. db' = [identities |-> identities, credentials |-> credentials, accounts |-> accounts,
               addressBook |-> db.addressBook \union {c}]
    BY <2>3 DEF Types
  <2>5. row \in Identity
    BY <1>5 DEF Identity
  <2>6. account \in Account
    BY <1>3 DEF Types, AreRows, Account
  <2> HIDE DEF row, account
  <2>7. identities \in Seq(Identity) /\ Len(identities) = Len(db.identities)
        /\ DOMAIN identities = DOMAIN db.identities
    BY <1>4, <1>5, <2>5, ExceptSeq
  <2>8. AreRows(accounts, Account) /\ DOMAIN accounts = DOMAIN db.accounts
    BY <1>3, <2>6 DEF Types, AreRows
  <2>9. AreRows(credentials, Nat)
    BY <1>2, <1>5 DEF Types, AreRows, credentials
  <2>10. Types'
    <3>1. /\ db'.identities \in Seq(Identity) /\ db'.addressBook \subseteq Credential
          /\ AreRows(db'.credentials, Nat) /\ AreRows(db'.accounts, Account)
          /\ db' = [identities |-> db'.identities, credentials |-> db'.credentials,
                    accounts |-> db'.accounts, addressBook |-> db'.addressBook]
      <4> HIDE DEF identities, accounts
      <4> QED
        BY <1>2, <2>4, <2>7, <2>8, <2>9 DEF Types
    <3> QED
      BY <1>1, <1>6, <3>1 DEF Types, AreRows
  <2>11. Confirmation(n, id)
    <3>1. /\ row.number = n /\ row.version = db.identities[id].version
          /\ row.status = "Confirmed"
      BY <1>4, <1>5 DEF row, Identity
    <3>2. account.identityId = db.accounts[c].identityId
      BY <1>3 DEF account, Types, AreRows, Account
    <3>3. /\ identities[id] = row
          /\ \A k \in DOMAIN db.identities : k # id => identities[k] = db.identities[k]
      BY <1>4, <1>5
    <3>4. /\ accounts[c] = account
          /\ \A d \in DOMAIN db.accounts : d # c => accounts[d] = db.accounts[d]
      BY <1>3
    <3>5. /\ DOMAIN credentials = DOMAIN db.credentials \union {c} /\ credentials[c] = id
          /\ \A d \in DOMAIN db.credentials : credentials[d] = db.credentials[d]
      BY <2>1 DEF credentials
    <3> HIDE DEF identities, accounts
    <3>6. /\ db'.identities = identities /\ db'.credentials = credentials
          /\ db'.accounts = accounts /\ db'.addressBook = db.addressBook \union {c}
      BY <2>4
    <3>7. First(n) = c
      BY DEF c
    <3> QED
      BY <1>3, <1>4, <2>1, <2>7, <2>8, <3>1, <3>2, <3>3, <3>4, <3>5, <3>6, <3>7
         DEF Confirmation
  <2> QED
    BY <1>1, <1>5, <2>10, <2>11
<1> QED
  BY <1>7, <1>8

LEMMA AbortedTypes ==
  ASSUME Types
  PROVE  /\ Aborted \in [Searches -> Work \union {Idle}]
         /\ \A i \in Searches :
              Aborted[i].at # "asking" /\ (Aborted[i].at = "idle" \/ Aborted[i].isAborted)
<1>1. ASSUME NEW i \in Searches
      PROVE  /\ Aborted[i] \in Work \union {Idle}
             /\ Aborted[i].at # "asking" /\ (Aborted[i].at = "idle" \/ Aborted[i].isAborted)
  <2> DEFINE s == search[i]
  <2>1. CASE s.at \in {"idle", "asking"}
    BY <2>1 DEF Aborted, Idle
  <2>2. CASE s.at \notin {"idle", "asking"}
    <3>1. s \in Work
      BY <2>2, AtWork
    <3>2. GivenUp(s) \in Work /\ GivenUp(s).isAborted /\ GivenUp(s).at # "asking"
      <4>1. 0 \in Number
        BY BoundsAssumption DEF Number
      <4>2. <<>> \in Seq(Identity) /\ {} \in SUBSET Credential
        OBVIOUS
      <4> QED
        BY <2>2, <3>1, <4>1, <4>2 DEF GivenUp, Work
    <3>3. Aborted[i] = GivenUp(s)
      BY <2>2 DEF Aborted
    <3> QED
      BY <3>2, <3>3
  <2> QED
    BY <2>1, <2>2
<1>2. Aborted = [i \in Searches |-> Aborted[i]]
  BY DEF Aborted
<1> QED
  BY <1>1, <1>2

LEMMA PageTypes ==
  ASSUME Types, OpenRecovery \/ GoBack \/ StopRecovery \/ LeaveRecovery
                \/ LeaveAfterError \/ Restart \/ \E n \in Number : IssueIdentity(n)
  PROVE  Types'
<1>0. page \in Page /\ chain.deployed \subseteq Credential
  BY DEF Types
<1>1. CASE OpenRecovery \/ GoBack
  <2>0. \E number \in Nat :
          page' = [at |-> "search", number |-> number, block |-> chain.deployed, empty |-> 0,
                   error |-> FALSE]
    BY <1>0, <1>1 DEF OpenRecovery, GoBack, Show, Page
  <2>1. page' \in Page
    BY <1>0, <2>0 DEF Page
  <2> QED
    BY <1>1, <2>1 DEF OpenRecovery, GoBack, Show, Types, AreRows
<1>2. CASE StopRecovery
  <2>1. page' \in Page
    BY <1>0, <1>2 DEF StopRecovery, Page
  <2> QED
    BY <1>2, <2>1, AbortedTypes DEF StopRecovery, Types, AreRows
<1>3. CASE LeaveRecovery \/ LeaveAfterError
  <2>1. page' \in Page
    BY <1>0, <1>3 DEF LeaveRecovery, LeaveAfterError, Leave, Page
  <2> QED
    BY <1>3, <2>1, AbortedTypes DEF LeaveRecovery, LeaveAfterError, Leave, Types, AreRows
<1>4. CASE Restart
  <2>1. page' \in Page
    BY <1>0, <1>4 DEF Restart, Page
  <2>2. poll' \in [Number -> {"none", "waiting"}]
    BY <1>4 DEF Restart
  <2>3. search' \in [Searches -> Work \union {Idle}]
    BY <1>4 DEF Restart
  <2> QED
    BY <1>4, <2>1, <2>2, <2>3 DEF Restart, Types, AreRows
<1>5. ASSUME NEW n \in Number, IssueIdentity(n)
      PROVE  Types'
  <2>1. [of |-> n, credentialNumber |-> 0] \in Credential
    BY FirstIsCredential DEF First
  <2>2. chain' \in [deployed : SUBSET Credential, version : [Number -> {0, 1}]]
    BY <1>5, <2>1 DEF IssueIdentity, Types
  <2> QED
    BY <1>5, <2>2 DEF IssueIdentity, Types, AreRows
<1> QED
  BY <1>1, <1>2, <1>3, <1>4, <1>5

-----------------------------------------------------------------------------
(* What the wallet starts with. *)
LEMMA InitInv == Init => Types /\ IInv
<1> SUFFICES ASSUME Init PROVE Types /\ IInv
  OBVIOUS
<1>0. PICK knowledge \in [Number -> Knowledge], deployed \in SUBSET Credential,
           version \in [Number -> {0, 1}] :
        /\ \A n \in Number :
             /\ \A c \in CredentialsOf(n) :
                  c.credentialNumber < knowledge[n].known => c \in deployed
             /\ knowledge[n].status = "Pending" =>
                  CredentialsOf(n) \intersect deployed = {}
        /\ chain = [deployed |-> deployed, version |-> version]
        /\ \E rows \in Rows(knowledge) : db = InitTables(knowledge, rows)
        /\ poll = [n \in Number |->
                     IF knowledge[n].status = "Pending" THEN "waiting" ELSE "none"]
  BY DEF Init
<1>1. PICK rows \in Rows(knowledge) : db = InitTables(knowledge, rows)
  BY <1>0
<1>2. /\ store = db.identities
      /\ page = [at |-> "closed", number |-> 0, block |-> {}, empty |-> 0, error |-> FALSE]
      /\ search = [i \in Searches |-> Idle] /\ missed = {}
  BY DEF Init
<1> DEFINE known == {n \in Number : knowledge[n].status # "none"}
           IdOf(n) == CHOOSE i \in DOMAIN rows : rows[i] = n
           credentials == {c \in Credential : c.credentialNumber < knowledge[c.of].known}
           initial == {c \in Credential : c.credentialNumber = 0
                                            /\ knowledge[c.of].status = "Pending"}
           Row(i) == [number |-> rows[i], status |-> knowledge[rows[i]].status,
                      version |-> version[rows[i]]]
           Owned(c) == [identityId |-> IdOf(c.of),
                        status |-> IF c \in credentials THEN "Confirmed" ELSE "Pending"]
<1>3. PICK k \in 0 .. maxIdentityNumber + 1 : rows \in [1 .. k -> known]
  BY <1>1 DEF Rows
<1>4. /\ \A i, j \in 1 .. k : i < j => rows[i] < rows[j]
      /\ \A n \in known : \E i \in 1 .. k : rows[i] = n
  BY <1>1, <1>3 DEF Rows
<1>5. k \in Nat /\ known \subseteq Number /\ Number \subseteq Nat
  BY BoundsAssumption DEF Number
<1>6. \A n \in known : IdOf(n) \in 1 .. k /\ rows[IdOf(n)] = n
  BY <1>3, <1>4
<1>7. \A i, j \in 1 .. k : rows[i] = rows[j] => i = j
  <2> SUFFICES ASSUME NEW i \in 1 .. k, NEW j \in 1 .. k, i < j
               PROVE  rows[i] # rows[j]
    BY <1>5
  <2>1. rows[i] < rows[j] /\ rows[i] \in Nat /\ rows[j] \in Nat
    BY <1>3, <1>4, <1>5
  <2> QED
    BY <2>1
<1>8. \A n \in known : \/ knowledge[n].status = "Confirmed" /\ knowledge[n].known # 0
                       \/ knowledge[n].status = "Pending" /\ knowledge[n].known = 0
  BY BoundsAssumption DEF Knowledge
<1>9. \A n \in Number \ known : knowledge[n].known = 0
  BY BoundsAssumption DEF Knowledge
<1>10. \A c \in Credential : c.of \in Number /\ c.credentialNumber \in Nat
  BY BoundsAssumption DEF Credential, CredentialNumber
<1>11. \A c \in credentials \union initial : c.of \in known /\ c \in Credential
  BY <1>9, <1>10
<1>12. db = [identities |-> [i \in 1 .. k |-> Row(i)],
             credentials |-> [c \in credentials |-> IdOf(c.of)],
             accounts |-> [c \in credentials \union initial |-> Owned(c)],
             addressBook |-> credentials]
  BY <1>0, <1>1, <1>3 DEF InitTables
<1> HIDE DEF IdOf
<1>13. \A i \in 1 .. k : Row(i) \in Identity
  BY <1>0, <1>1, <1>3, <1>5, <1>8 DEF Identity
<1>14. \A c \in credentials \union initial : Owned(c) \in Account
  BY <1>6, <1>11 DEF Account
<1>15. \A i \in 1 .. k : /\ Row(i).number = rows[i] /\ Row(i).version = version[rows[i]]
                         /\ Row(i).status = knowledge[rows[i]].status
  OBVIOUS
<1>16. \A c \in credentials \union initial :
         /\ Owned(c).identityId = IdOf(c.of)
         /\ c \notin credentials => Owned(c).status = "Pending"
  OBVIOUS
<1> HIDE DEF Row, Owned, credentials, initial
<1>17. /\ db.identities \in Seq(Identity) /\ Len(db.identities) = k
       /\ DOMAIN db.identities = 1 .. k /\ \A i \in 1 .. k : db.identities[i] = Row(i)
  BY <1>5, <1>12, <1>13
<1>18. /\ DOMAIN db.credentials = credentials
       /\ \A c \in credentials : db.credentials[c] = IdOf(c.of)
       /\ DOMAIN db.accounts = credentials \union initial
       /\ \A c \in credentials \union initial : db.accounts[c] = Owned(c)
       /\ db.addressBook = credentials
  BY <1>12
<1>19. AreRows(db.credentials, Nat) /\ AreRows(db.accounts, Account)
  <2>1. ASSUME NEW c \in credentials PROVE IdOf(c.of) \in Nat
    <3>1. IdOf(c.of) \in 1 .. k
      BY <1>6, <1>11
    <3> QED
      BY <1>5, <3>1
  <2> QED
    BY <1>11, <1>12, <1>14, <2>1 DEF AreRows
<1>20. Types
  <2>1. page \in Page /\ search \in [Searches -> Work \union {Idle}]
    BY <1>2 DEF Page
  <2>2. poll \in [Number -> {"none", "waiting"}]
    BY <1>0, <1>1
  <2>3. chain \in [deployed : SUBSET Credential, version : [Number -> {0, 1}]]
    BY <1>0, <1>1
  <2>4. db = [identities |-> db.identities, credentials |-> db.credentials,
              accounts |-> db.accounts, addressBook |-> db.addressBook]
    BY <1>12
  <2> QED
    BY <1>2, <1>11, <1>17, <1>18, <1>19, <2>1, <2>2, <2>3, <2>4 DEF Types
<1>21. OneIsCurrent /\ SearchesAreRight /\ Before(store) /\ BlockIsPast
  BY <1>2, <1>5, <1>17 DEF OneIsCurrent, SearchesAreRight, Before, BlockIsPast, Current, Idle
<1>22. Tables
  <2>1. /\ chain.deployed = deployed /\ chain.version = version
    BY <1>0, <1>1
  <2>2. \A i, j \in DOMAIN db.identities :
          db.identities[i].number = db.identities[j].number => i = j
    BY <1>7, <1>15, <1>17
  <2>3. \A c \in credentials :
          /\ c \in deployed /\ IdOf(c.of) \in 1 .. k /\ rows[IdOf(c.of)] = c.of
    BY <1>0, <1>1, <1>6, <1>10, <1>11 DEF credentials, CredentialsOf
  <2>4. \A c \in DOMAIN db.credentials :
          /\ c \in chain.deployed
          /\ db.credentials[c] \in DOMAIN db.identities
          /\ db.identities[db.credentials[c]].number = c.of
          /\ db.identities[db.credentials[c]].version = chain.version[c.of]
          /\ c \in DOMAIN db.accounts
    BY <1>15, <1>17, <1>18, <2>1, <2>3
  <2>5. \A a \in DOMAIN db.accounts :
          /\ db.accounts[a].identityId \in DOMAIN db.identities
          /\ db.accounts[a].status # "Pending" => a \in db.addressBook
    BY <1>6, <1>11, <1>16, <1>17, <1>18
  <2>6. \A i \in DOMAIN db.identities :
          db.identities[i].version = chain.version[db.identities[i].number]
    BY <1>15, <1>17, <2>1
  <2>7. ASSUME NEW c \in DOMAIN db.credentials, NEW d \in chain.deployed,
               d.of = c.of, d.credentialNumber < c.credentialNumber
        PROVE  d \in DOMAIN db.credentials
    <3>1. c \in credentials /\ d \in Credential
      BY <1>18, <2>1
    <3>2. c \in Credential /\ c.credentialNumber < knowledge[c.of].known
      BY <3>1 DEF credentials
    <3>3. knowledge[c.of].known \in Nat
      BY <1>10, <3>2, BoundsAssumption DEF Knowledge
    <3>4. d.credentialNumber < knowledge[d.of].known
      BY <1>10, <2>7, <3>1, <3>2, <3>3
    <3> QED
      BY <1>18, <3>1, <3>4 DEF credentials
  <2> QED
    BY <2>2, <2>4, <2>5, <2>6, <2>7 DEF Tables, TablesAgree, ForeignKeysHold
<1>23. RequestsAreHeld
  <2> SUFFICES ASSUME NEW n \in Number, poll[n] = "waiting" \/ IsRequested(n)
               PROVE  /\ \E i \in DOMAIN db.identities : db.identities[i].number = n
                      /\ First(n) \in DOMAIN db.accounts
                      /\ CredentialsOf(n) \intersect chain.deployed \subseteq {First(n)}
    BY DEF RequestsAreHeld
  <2>1. knowledge[n].status = "Pending"
    BY <1>0, <1>1, <1>15, <1>17 DEF IsRequested
  <2>2. n \in known
    BY <2>1
  <2>3. IdOf(n) \in DOMAIN db.identities /\ db.identities[IdOf(n)].number = n
    BY <1>6, <1>15, <1>17, <2>2
  <2>4. First(n) \in initial
    BY <2>1, FirstIsCredential DEF initial, First
  <2>5. CredentialsOf(n) \intersect chain.deployed = {}
    BY <1>0, <1>1, <2>1
  <2> QED
    BY <1>18, <2>3, <2>4, <2>5
<1> QED
  BY <1>20, <1>21, <1>22, <1>23 DEF IInv

-----------------------------------------------------------------------------
(* Steps that leave the chain and the tables alone. *)

\* A step of one search, that may change what the page shows.
LEMMA SearchStep ==
  ASSUME Types, IInv, NEW i \in Searches, NEW s, NEW lost, Step(i, s),
         UNCHANGED <<chain, db, store, poll>>, missed' = lost, missed \subseteq lost,
         page'.block = page.block,
         \/ page'.at = page.at /\ page'.number = page.number
         \/ /\ page.at # "closed" /\ page'.at # "closed"
            /\ \A j \in Searches \ {i} : ~Current(j),
         s.at = "asking" => ~s.isAborted,
         s.at # "idle" /\ ~s.isAborted =>
           /\ page'.at = "search" /\ (s.at # "asking" => s.number = page'.number)
           /\ \A j \in Searches \ {i} : ~Current(j)
           /\ IsRight(s, lost)
  PROVE  IInv'
<1>1. search'[i] = s /\ \A j \in Searches \ {i} : search'[j] = search[j]
  BY DEF Step, Types
<1>2. page'.at # "closed" <=> page.at # "closed"
  OBVIOUS
<1>3. ASSUME NEW q, Before(q) PROVE Before(q)'
  BY <1>2, <1>3 DEF Before
<1>4. ASSUME NEW q, IsRight(q, missed) \/ IsRight(q, lost) PROVE IsRight(q, lost)'
  BY <1>3, <1>4 DEF IsRight, LookedUp, Wanted
<1>5. OneIsCurrent'
  BY <1>1 DEF IInv, OneIsCurrent, Current
<1>6. Before(store)'
  BY <1>3 DEF IInv, Before
<1>7. SearchesAreRight'
  <2> SUFFICES ASSUME NEW j \in Searches, Current(j)' PROVE IsRight(search[j], missed)'
    BY DEF SearchesAreRight
  <2>1. PICK r : r = search'[j] /\ (IsRight(r, missed) \/ IsRight(r, lost))
    BY <1>1 DEF IInv, SearchesAreRight, Current
  <2>2. IsRight(r, lost)'
    BY <1>4, <2>1
  <2> QED
    BY <2>1, <2>2 DEF IsRight, LookedUp, Wanted, Before
<1>8. Tables' /\ RequestsAreHeld'
  BY DEF IInv, Tables, TablesAgree, IsMissed, ForeignKeysHold, RequestsAreHeld, IsRequested
<1>9. BlockIsPast'
  BY <1>2 DEF IInv, BlockIsPast
<1> QED
  BY <1>5, <1>6, <1>7, <1>8, <1>9 DEF IInv

\* A step of the page that gives the search up, or shows the page again.
LEMMA PageStep ==
  ASSUME Types, IInv, UNCHANGED <<chain, db, missed>>,
         \A i \in Searches : ~Current(i)' /\ search'[i].at # "asking",
         store' = store \/ store' = db.identities,
         \A n \in Number : poll'[n] = "waiting" => poll[n] = "waiting" \/ IsRequested(n),
         \/ page'.at = "closed"
         \/ page'.block = chain.deployed
         \/ page.at # "closed" /\ page'.block = page.block
  PROVE  IInv'
<1>1. OneIsCurrent' /\ SearchesAreRight'
  BY DEF OneIsCurrent, SearchesAreRight
<1>2. Tables' /\ RequestsAreHeld'
  BY DEF IInv, Tables, TablesAgree, IsMissed, ForeignKeysHold, RequestsAreHeld, IsRequested
<1>3. BlockIsPast'
  BY DEF IInv, BlockIsPast
<1>4. Before(store)'
  <2>1. CASE store' = store
    BY <2>1 DEF IInv, Before, Tables, TablesAgree
  <2>2. CASE store' = db.identities
    BY <2>2 DEF Before, Types
  <2> QED
    BY <2>1, <2>2
<1> QED
  BY <1>1, <1>2, <1>3, <1>4 DEF IInv

LEMMA PageInv ==
  ASSUME Types, IInv,
         OpenRecovery \/ GoBack \/ StopRecovery \/ LeaveRecovery \/ LeaveAfterError \/ Restart
  PROVE  IInv'
<1>1. CASE OpenRecovery \/ GoBack
  <2>1. /\ page.at # "search" /\ page'.block = chain.deployed
        /\ UNCHANGED <<chain, db, store, search, poll, missed>>
    BY <1>1 DEF OpenRecovery, GoBack, Show
  <2>2. \A i \in Searches : ~Current(i)' /\ search'[i].at # "asking"
    BY <2>1 DEF IInv, OneIsCurrent, Current
  <2> QED
    BY <2>1, <2>2, PageStep
<1>2. CASE StopRecovery
  <2>1. /\ UNCHANGED <<chain, db, store, poll, missed>> /\ search' = Aborted
        /\ page.at # "closed" /\ page'.block = page.block
    BY <1>2 DEF StopRecovery, Types, Page
  <2>2. \A i \in Searches : ~Current(i)' /\ search'[i].at # "asking"
    BY <2>1, AbortedTypes DEF Current
  <2> QED
    BY <2>1, <2>2, PageStep
<1>3. CASE LeaveRecovery \/ LeaveAfterError
  <2>1. /\ UNCHANGED <<chain, db, poll, missed>> /\ search' = Aborted /\ store' = db.identities
        /\ page'.at = "closed"
    BY <1>3 DEF LeaveRecovery, LeaveAfterError, Leave, Types, Page
  <2>2. \A i \in Searches : ~Current(i)' /\ search'[i].at # "asking"
    BY <2>1, AbortedTypes DEF Current
  <2> QED
    BY <2>1, <2>2, PageStep
<1>4. CASE Restart
  <2>1. /\ UNCHANGED <<chain, db, missed>> /\ store' = db.identities
        /\ search' = [i \in Searches |-> Idle]
        /\ \A n \in Number : poll'[n] = "waiting" => IsRequested(n)
    BY <1>4 DEF Restart, IsRequested
  <2>2. page'.at = "closed"
    BY <1>4 DEF Restart, Types, Page
  <2>3. \A i \in Searches : ~Current(i)' /\ search'[i].at # "asking"
    BY <2>1 DEF Current, Idle
  <2> QED
    BY <2>1, <2>2, <2>3, PageStep
<1> QED
  BY <1>1, <1>2, <1>3, <1>4

LEMMA IssueInv ==
  ASSUME Types, IInv, NEW n \in Number, IssueIdentity(n)
  PROVE  IInv'
<1>1. /\ UNCHANGED <<db, store, page, search, poll, missed>> /\ poll[n] = "waiting"
      /\ chain'.deployed = chain.deployed \union {First(n)} /\ chain'.version = chain.version
  BY DEF IssueIdentity, First, Types
<1>2. CredentialsOf(n) \intersect chain.deployed \subseteq {First(n)}
  BY <1>1 DEF IInv, RequestsAreHeld
<1>3. First(n).of = n /\ First(n).credentialNumber = 0 /\ First(n) \in CredentialsOf(n)
  BY FirstIsCredential DEF First
<1>4. \A c \in Credential : c.of \in Number /\ c.credentialNumber \in Nat
  BY BoundsAssumption DEF Credential, CredentialNumber
<1>5. \A m : CredentialsOf(m) = {c \in Credential : c.of = m}
  BY DEF CredentialsOf
<1> HIDE DEF First
<1>6. OneIsCurrent' /\ Before(store)'
  BY <1>1 DEF IInv, OneIsCurrent, Before, Current
<1>7. SearchesAreRight'
  BY <1>1 DEF IInv, SearchesAreRight, IsRight, LookedUp, Wanted, Before, Current
<1>8. Tables'
  <2>1. ASSUME NEW c \in DOMAIN db.credentials, NEW d \in chain'.deployed,
               d.of = c.of, d.credentialNumber < c.credentialNumber
        PROVE  d \in DOMAIN db.credentials \union missed
    <3>1. c \in chain.deployed /\ c \in Credential
      BY DEF IInv, Tables, TablesAgree, Types, AreRows
    <3>2. CASE d \in chain.deployed
      BY <2>1, <3>2 DEF IInv, Tables
    <3>3. CASE d = First(n)
      <4>1. c \in CredentialsOf(n)
        BY <1>3, <1>5, <2>1, <3>1, <3>3
      <4>2. c = First(n)
        BY <1>2, <3>1, <4>1
      <4> QED
        BY <1>3, <2>1, <3>3, <4>2
    <3> QED
      BY <1>1, <3>2, <3>3
  <2> QED
    BY <1>1, <2>1 DEF IInv, Tables, TablesAgree, IsMissed, ForeignKeysHold
<1>9. RequestsAreHeld'
  <2>1. ASSUME NEW m \in Number, m # n,
               CredentialsOf(m) \intersect chain.deployed \subseteq {First(m)}
        PROVE  CredentialsOf(m) \intersect chain'.deployed \subseteq {First(m)}
    BY <1>1, <1>3, <1>5, <2>1
  <2>2. CredentialsOf(n) \intersect chain'.deployed \subseteq {First(n)}
    BY <1>1, <1>2
  <2> QED
    BY <1>1, <2>1, <2>2 DEF IInv, RequestsAreHeld, IsRequested
<1>10. BlockIsPast'
  <2> SUFFICES ASSUME page.at # "closed"
               PROVE  /\ page.block \subseteq chain'.deployed
                      /\ \A d \in chain'.deployed \ page.block :
                           CredentialsOf(d.of) \intersect chain'.deployed \subseteq {d}
    BY <1>1 DEF BlockIsPast
  <2>1. ASSUME NEW d \in chain'.deployed \ page.block
        PROVE  CredentialsOf(d.of) \intersect chain'.deployed \subseteq {d}
    <3>1. CASE d = First(n)
      BY <1>1, <1>2, <1>3, <3>1
    <3>2. CASE d # First(n)
      <4>1. d \in chain.deployed /\ d \in Credential
        BY <1>1, <2>1, <3>2 DEF Types
      <4>2. CredentialsOf(d.of) \intersect chain.deployed \subseteq {d}
        BY <2>1, <4>1 DEF IInv, BlockIsPast
      <4>3. d.of # n
        BY <1>2, <1>5, <3>2, <4>1
      <4>4. First(n) \notin CredentialsOf(d.of)
        BY <1>3, <1>5, <4>3
      <4> QED
        BY <1>1, <4>2, <4>4
    <3> QED
      BY <3>1, <3>2
  <2> QED
    BY <1>1, <2>1 DEF IInv, BlockIsPast
<1> QED
  BY <1>6, <1>7, <1>8, <1>9, <1>10 DEF IInv

-----------------------------------------------------------------------------
(* The searches. *)

\* What is known of the search that is current.
LEMMA TheSearch ==
  ASSUME Types, IInv, NEW i \in Searches, search[i].at # "idle"
  PROVE  /\ search[i] \in Work
         /\ ~search[i].isAborted =>
              /\ page.at = "search" /\ IsRight(search[i], missed)
              /\ search[i].at # "asking" => search[i].number = page.number
              /\ \A j \in Searches \ {i} : ~Current(j)
         /\ search[i].at = "asking" => ~search[i].isAborted
BY AtWork DEF IInv, OneIsCurrent, SearchesAreRight, Current

\* The numbers that are looked up have been passed.
LEMMA AllLookedUp ==
  ASSUME NEW next \in Nat, next \notin CredentialNumber, NEW c \in Credential
  PROVE  c.credentialNumber < next
BY BoundsAssumption DEF Credential, CredentialNumber

LEMMA SubmitInv ==
  ASSUME Types, IInv, NEW i \in Searches, Submit(i)
  PROVE  IInv'
<1> DEFINE s == [at |-> "ledger", number |-> page.number, identities |-> store,
                 isAborted |-> FALSE, identityId |-> 0, version |-> 1, next |-> 0,
                 found |-> {}]
<1>1. /\ Step(i, s) /\ UNCHANGED <<chain, db, store, page, poll, missed>> /\ page.at = "search"
      /\ \A j \in Searches : search[j].at # "idle" => search[j].isAborted
  BY DEF Submit, Step
<1>2. \A j \in Searches \ {i} : ~Current(j)
  BY <1>1 DEF Current
<1>3. /\ s.at = "ledger" /\ s.number = page.number /\ s.identities = store
      /\ s.identityId = 0 /\ s.version = 1 /\ s.next = 0 /\ s.found = {}
  OBVIOUS
<1> HIDE DEF s
<1>4. IsRight(s, missed)
  BY <1>3 DEF IInv, IsRight
<1> QED
  BY <1>1, <1>2, <1>3, <1>4, SearchStep

LEMMA AllowInv ==
  ASSUME Types, IInv, NEW i \in Searches, Allow(i)
  PROVE  IInv'
<1> DEFINE s == search[i]
           known == {k \in DOMAIN s.identities : s.identities[k].number = s.number}
           id == CHOOSE k \in known : \A l \in known : k <= l
           next == getNextCredentialNumber(id)
           new == [s EXCEPT !.at = "looking"]
           old == [s EXCEPT !.at = "looking", !.identityId = id,
                            !.version = s.identities[id].version, !.next = next]
<1>1. s.at = "ledger" /\ UNCHANGED <<chain, db, store, page, poll, missed>>
  BY DEF Allow
<1>2. s \in Work
  BY <1>1, TheSearch
<1>3. CASE s.isAborted
  <2>1. \E r : Step(i, r) /\ r.isAborted /\ r.at = "looking"
    <3>1. new.isAborted /\ old.isAborted /\ new.at = "looking" /\ old.at = "looking"
      BY <1>2, <1>3 DEF Work
    <3> QED
      BY <3>1 DEF Allow
  <2> QED
    BY <1>1, <2>1, SearchStep
<1>4. CASE ~s.isAborted
  <2>0. /\ page.at = "search" /\ IsRight(s, missed) /\ s.number = page.number
        /\ \A j \in Searches \ {i} : ~Current(j)
    BY <1>1, <1>4, TheSearch
  <2>1. /\ Before(s.identities) /\ s.identityId = 0 /\ s.version = 1 /\ s.next = 0
        /\ s.found = {}
    BY <1>1, <2>0 DEF IsRight
  <2>2. CASE known = {}
    <3>1. Step(i, new)
      BY <2>2 DEF Allow
    <3>2. /\ new.at = "looking" /\ new.number = s.number /\ new.identities = s.identities
          /\ new.identityId = 0 /\ new.version = 1 /\ new.next = 0 /\ new.found = {}
      BY <1>2, <2>1 DEF Work
    <3>3. \A c \in Wanted(new) : ~ (c.credentialNumber < 0)
      BY BoundsAssumption DEF Wanted, CredentialsOf, Credential, CredentialNumber
    <3> HIDE DEF new
    <3>4. IsRight(new, missed)
      BY <2>1, <2>2, <3>2, <3>3 DEF IsRight, LookedUp
    <3> QED
      BY <1>1, <2>0, <3>1, <3>2, <3>4, SearchStep
  <2>3. CASE known # {}
    <3>1. Step(i, old)
      BY <2>3 DEF Allow
    <3>2. known \subseteq 1 .. Len(s.identities) /\ Len(s.identities) \in Nat
      BY <1>2 DEF Work
    <3>3. id \in known
      <4>1. \E k \in known : \A l \in known : k <= l
        <5> HIDE DEF known
        <5>1. known \in SUBSET Nat
          BY <3>2
        <5> QED
          BY <2>3, <5>1, SmallestNumber
      <4> HIDE DEF known
      <4> QED
        BY <4>1
    <3> HIDE DEF id
    <3>4. /\ id \in DOMAIN s.identities /\ s.identities[id].number = s.number
          /\ id \in Nat /\ id # 0
      BY <3>2, <3>3
    <3>5. /\ old.at = "looking" /\ old.number = s.number /\ old.identities = s.identities
          /\ old.identityId = id /\ old.version = s.identities[id].version
          /\ old.next = next /\ old.found = {}
      BY <1>2, <2>1 DEF Work
    <3> HIDE DEF old
    <3>6. db.identities[id].number = s.number
      BY <2>1, <3>4 DEF Before
    <3>7. ASSUME NEW c \in Wanted(old), c.credentialNumber < next
          PROVE  c \in DOMAIN db.credentials \union missed
      <4>1. /\ c \in Credential /\ c.of = s.number /\ c \in chain.deployed
            /\ c.credentialNumber \in Nat
        BY <2>0, <3>5, BoundsAssumption
           DEF Wanted, CredentialsOf, IInv, BlockIsPast, Credential, CredentialNumber
      <4>2. next \in Nat /\ next # 0
        BY <3>7, <4>1, NextNumber
      <4>3. PICK e \in DOMAIN db.credentials :
              db.credentials[e] = id /\ next = e.credentialNumber + 1
        BY <4>2, NextNumber
      <4>4. e \in Credential /\ e.of = s.number
        BY <3>6, <4>3 DEF IInv, Tables, TablesAgree, Types, AreRows
      <4>5. e.credentialNumber \in Nat
        BY <4>4, BoundsAssumption DEF Credential, CredentialNumber
      <4>6. CASE c.credentialNumber < e.credentialNumber
        BY <4>1, <4>4, <4>6 DEF IInv, Tables
      <4>7. CASE c.credentialNumber = e.credentialNumber
        <5>1. c = e
          BY <4>1, <4>4, <4>7 DEF Credential
        <5> QED
          BY <5>1
      <4> QED
        BY <3>7, <4>1, <4>3, <4>5, <4>6, <4>7
    <3> HIDE DEF next
    <3>8. IsRight(old, missed)
      BY <2>1, <3>4, <3>5, <3>7 DEF IsRight, LookedUp
    <3> QED
      BY <1>1, <2>0, <3>1, <3>5, <3>8, SearchStep
  <2> QED
    BY <2>2, <2>3
<1> QED
  BY <1>3, <1>4

LEMMA RecoverInv ==
  ASSUME Types, IInv, NEW i \in Searches, recoverCredential(i)
  PROVE  IInv'
<1> DEFINE s == search[i]
           c == [of |-> s.number, credentialNumber |-> s.next]
           exists == c \in page.block /\ s.version = chain.version[s.number]
<1>0. PICK found \in {exists, FALSE} :
        /\ Step(i, IF s.isAborted THEN Idle
                   ELSE [s EXCEPT !.next = @ + 1, !.found = IF found THEN @ \union {c} ELSE @])
        /\ missed' = IF exists /\ ~found /\ ~s.isAborted THEN missed \union {c} ELSE missed
  BY DEF recoverCredential
<1> DEFINE new == [s EXCEPT !.next = @ + 1, !.found = IF found THEN @ \union {c} ELSE @]
<1>1. /\ s.at = "looking" /\ s.next \in CredentialNumber
      /\ UNCHANGED <<chain, db, store, page, poll>> /\ missed \subseteq missed'
      /\ Step(i, IF s.isAborted THEN Idle ELSE new)
  BY <1>0 DEF recoverCredential
<1>2. s \in Work
  BY <1>1, TheSearch
<1>3. CASE s.isAborted
  BY <1>1, <1>3, SearchStep DEF Idle
<1>4. CASE ~s.isAborted
  <2>0. /\ page.at = "search" /\ LookedUp(s, missed) /\ Before(s.identities)
        /\ s.number = page.number
        /\ \A j \in Searches \ {i} : ~Current(j)
    BY <1>1, <1>4, TheSearch DEF IsRight
  <2>1. /\ new.at = "looking" /\ new.number = s.number /\ new.identities = s.identities
        /\ new.identityId = s.identityId /\ new.version = s.version /\ new.next = s.next + 1
        /\ new.found = IF found THEN s.found \union {c} ELSE s.found
    BY <1>1, <1>2 DEF Work
  <2>2. c \in Credential /\ c.of = s.number /\ c.credentialNumber = s.next
    BY <1>1, <1>2 DEF Work, Credential
  <2>3. Step(i, new)
    BY <1>1, <1>4
  <2>4. ASSUME NEW d \in Credential, d.of = s.number, d.credentialNumber = s.next
        PROVE  d = c
    BY <2>4 DEF Credential
  <2>5. \A d \in Credential : d.credentialNumber \in Nat
    BY BoundsAssumption DEF Credential, CredentialNumber
  <2>6. s.next \in Nat
    BY <1>2 DEF Work
  <2> HIDE DEF new, c
  <2>7. Wanted(new) = Wanted(s) /\ \A d \in Wanted(s) : d \in Credential /\ d.of = s.number
    BY <2>1 DEF Wanted, CredentialsOf
  <2>8. found => exists /\ c \in Wanted(s)
    BY <1>0, <2>2 DEF Wanted, CredentialsOf
  <2>9. ASSUME s.version = chain.version[s.number], NEW d \in Wanted(s),
               d.credentialNumber < s.next + 1
        PROVE  \/ d \in new.found \/ d \in missed'
               \/ s.identityId # 0 /\ d \in DOMAIN db.credentials
    <3>1. CASE d.credentialNumber < s.next
      BY <1>1, <2>0, <2>1, <2>9, <3>1 DEF LookedUp
    <3>2. CASE d.credentialNumber = s.next
      <4>1. d = c /\ d \in page.block
        BY <2>4, <2>7, <3>2 DEF Wanted
      <4> QED
        BY <1>0, <1>4, <2>1, <2>9, <4>1
    <3> QED
      BY <2>5, <2>6, <2>7, <2>9, <3>1, <3>2
  <2>10. LookedUp(new, missed')
    <3>1. /\ new.found \subseteq Wanted(new)
          /\ new.found # {} => new.version = chain.version[new.number]
      BY <2>0, <2>1, <2>7, <2>8 DEF LookedUp
    <3> HIDE DEF exists
    <3> QED
      BY <1>1, <2>0, <2>1, <2>7, <2>9, <3>1 DEF LookedUp
  <2>11. IsRight(new, missed')
    BY <2>0, <2>1, <2>10 DEF IsRight
  <2> QED
    BY <1>1, <2>0, <2>1, <2>3, <2>11, SearchStep
<1> QED
  BY <1>3, <1>4

LEMMA OlderInv ==
  ASSUME Types, IInv, NEW i \in Searches, TryOlderVersion(i)
  PROVE  IInv'
<1> DEFINE s == search[i]
           new == [s EXCEPT !.version = 0, !.next = 0]
<1>1. /\ s.at = "looking" /\ s.next \notin CredentialNumber
      /\ s.identityId = 0 /\ s.version = 1 /\ s.found = {}
      /\ UNCHANGED <<chain, db, store, page, poll, missed>> /\ Step(i, new)
  BY DEF TryOlderVersion
<1>2. s \in Work
  BY <1>1, TheSearch
<1>3. /\ new.at = "looking" /\ new.number = s.number /\ new.identities = s.identities
      /\ new.identityId = 0 /\ new.version = 0 /\ new.next = 0 /\ new.found = {}
      /\ new.isAborted = s.isAborted
  BY <1>1, <1>2 DEF Work
<1> HIDE DEF new
<1>4. CASE s.isAborted
  BY <1>1, <1>3, <1>4, SearchStep
<1>5. CASE ~s.isAborted
  <2>0. /\ page.at = "search" /\ LookedUp(s, missed) /\ Before(s.identities)
        /\ s.number = page.number
        /\ \A j \in Searches \ {i} : ~Current(j)
    BY <1>1, <1>5, TheSearch DEF IsRight
  <2>1. Wanted(new) = Wanted(s) /\ \A c \in Wanted(s) : c \in Credential
    BY <1>3 DEF Wanted, CredentialsOf
  <2>2. \A c \in Wanted(s) : c.credentialNumber < s.next /\ ~ (c.credentialNumber < 0)
    <3>1. s.next \in Nat
      BY <1>2 DEF Work
    <3>2. \A c \in Credential : c.credentialNumber \in Nat
      BY BoundsAssumption DEF Credential, CredentialNumber
    <3> QED
      BY <1>1, <2>1, <3>1, <3>2, AllLookedUp
  <2>3. chain.version[s.number] = 1 => Wanted(s) \subseteq missed
    BY <1>1, <2>0, <2>2 DEF LookedUp
  <2>4. IsRight(new, missed)
    BY <1>1, <1>3, <2>0, <2>1, <2>2, <2>3 DEF IsRight, LookedUp
  <2> QED
    BY <1>1, <1>3, <2>0, <2>4, SearchStep
<1> QED
  BY <1>4, <1>5

\* A step after which no search is at work on the number that is shown.
LEMMA EndInv ==
  ASSUME Types, IInv, NEW i \in Searches,
         Refuse(i) \/ FinishSearch(i) \/ LookForMore(i) \/ StopTheProcess(i)
  PROVE  IInv'
<1> DEFINE s == search[i]
           asking == [s EXCEPT !.at = "asking"]
<1>1. s.at # "idle" /\ s \in Work /\ UNCHANGED <<chain, db, store, poll, missed>>
  BY TheSearch DEF Refuse, FinishSearch, LookForMore, StopTheProcess
<1>2. Idle.at = "idle" /\ asking.at = "asking" /\ asking.isAborted = s.isAborted
      /\ asking.identities = s.identities
  BY <1>1 DEF Idle, Work
<1> HIDE DEF asking
<1>3. CASE Refuse(i)
  BY <1>1, <1>2, <1>3, SearchStep DEF Refuse
<1>4. CASE FinishSearch(i)
  <2>1. CASE s.isAborted
    BY <1>1, <1>2, <1>4, <2>1, SearchStep DEF FinishSearch
  <2>2. CASE ~s.isAborted
    <3>1. /\ page.at = "search" /\ Before(s.identities) /\ \A j \in Searches \ {i} : ~Current(j)
      BY <1>1, <2>2, TheSearch DEF IsRight
    <3>2. page'.at = "search" /\ page'.block = page.block
      BY <1>4, <2>2, <3>1 DEF FinishSearch, Types, Page
    <3>3. Step(i, Idle) \/ Step(i, asking)
      BY <1>4 DEF FinishSearch, asking
    <3>4. IsRight(asking, missed)
      BY <1>2, <3>1 DEF IsRight
    <3> QED
      BY <1>1, <1>2, <2>2, <3>1, <3>2, <3>3, <3>4, SearchStep
  <2> QED
    BY <2>1, <2>2
<1>5. CASE LookForMore(i)
  <2>1. page'.at = page.at /\ page'.number = page.number /\ page'.block = page.block
    BY <1>5 DEF LookForMore, Types, Page
  <2> QED
    BY <1>1, <1>2, <1>5, <2>1, SearchStep DEF LookForMore
<1>6. CASE StopTheProcess(i)
  <2>1. page'.at = "completed" /\ page'.number = page.number /\ page'.block = page.block
    BY <1>6 DEF StopTheProcess, Types, Page
  <2>2. page.at = "search" /\ \A j \in Searches \ {i} : ~Current(j)
    BY <1>6, TheSearch DEF StopTheProcess
  <2> QED
    BY <1>1, <1>2, <1>6, <2>1, <2>2, SearchStep DEF StopTheProcess
<1> QED
  BY <1>3, <1>4, <1>5, <1>6

-----------------------------------------------------------------------------
(* Steps that write the tables. *)

\* The table has no identity of this number, unless a credential of it was
\* missed.
IsUnknown(n) == (\A l \in DOMAIN db.identities : db.identities[l].number # n) \/ IsMissed(n)

\* An insertion is one of the search that is current; it has found all it
\* wanted and did not miss, or the table has it, and the identity it inserts
\* for is one of its number, or there is none.
Fits(i, s, q, id) ==
  /\ page.at = "search" /\ Before(s.identities) /\ \A j \in Searches \ {i} : ~Current(j)
  /\ s.found \subseteq Wanted(s)
  /\ Wanted(s) \subseteq s.found \union DOMAIN db.credentials \union missed
  /\ s.number \in Number /\ s.number = page.number
  /\ \A k \in DOMAIN db.identities : q[k] = db.identities[k]
  /\ Len(db.identities) <= Len(q)
  /\ id \in 1 .. Len(q) /\ q[id].number = s.number
  /\ q[id].version = chain.version[s.number]
  /\ \A k \in 1 .. Len(q) : k > Len(db.identities) =>
       /\ k = id /\ q[k].status = "Recovered"
       /\ IsUnknown(s.number)

LEMMA WhatIsInserted ==
  ASSUME Types, IInv, NEW i \in Searches, insertFromRecovery(i),
         NEW q \in Seq(Identity), NEW id \in Nat, Insertion(i, search[i], q, id)
  PROVE  Fits(i, search[i], q, id)
<1> DEFINE s == search[i]
<1>1. /\ s.at = "looking" /\ s.next \notin CredentialNumber
      /\ s.found # {} /\ ~s.isAborted /\ s.found \intersect DOMAIN db.credentials = {}
  BY DEF insertFromRecovery, Insertion
<1>2. s \in Work /\ s.next \in Nat
  <2>1. s \in Work
    BY <1>1, TheSearch
  <2> QED
    BY <2>1 DEF Work
<1>3. /\ page.at = "search" /\ LookedUp(s, missed) /\ Before(s.identities)
      /\ s.number = page.number
      /\ \A j \in Searches \ {i} : ~Current(j)
  BY <1>1, TheSearch DEF IsRight
<1>4. s.version = chain.version[s.number] /\ s.found \subseteq Wanted(s)
  BY <1>1, <1>3 DEF LookedUp
<1>5. \A c \in Wanted(s) : c \in Credential /\ c.of = s.number /\ c \in page.block
  BY DEF Wanted, CredentialsOf
<1>6. \A c \in Wanted(s) :
        \/ c \in s.found \/ c \in missed
        \/ s.identityId # 0 /\ c \in DOMAIN db.credentials
  BY <1>1, <1>2, <1>3, <1>4, <1>5, AllLookedUp DEF LookedUp
<1>7. db.identities \in Seq(Identity) /\ DOMAIN db.identities = 1 .. Len(db.identities)
      /\ Len(db.identities) \in Nat
  BY DEF Types
<1>8. CASE s.identityId # 0
  <2>1. q = db.identities /\ id = s.identityId
    BY <1>8 DEF Insertion
  <2>2. /\ id \in DOMAIN s.identities /\ s.identities[id].number = s.number
        /\ s.identities[id].version = s.version
    BY <1>3, <1>8, <2>1 DEF LookedUp
  <2>3. DOMAIN s.identities = 1 .. Len(s.identities) /\ Len(s.identities) \in Nat
    BY <1>2 DEF Work
  <2>4. /\ id \in 1 .. Len(q) /\ q[id].number = s.number /\ q[id].version = s.version
    BY <1>3, <1>7, <2>1, <2>2, <2>3 DEF Before
  <2> QED
    BY <1>2, <1>3, <1>4, <1>6, <1>7, <2>1, <2>4 DEF Work, Fits
<1>9. CASE s.identityId = 0
  <2>1. q = Append(db.identities, Placeholder(s)) /\ id = Len(q)
    BY <1>9 DEF Insertion
  <2>2. /\ Placeholder(s).number = s.number /\ Placeholder(s).version = s.version
        /\ Placeholder(s).status = "Recovered" /\ Placeholder(s) \in Identity
    BY <1>2 DEF Placeholder, Work, Identity
  <2>3. /\ Len(q) = Len(db.identities) + 1 /\ q[Len(q)] = Placeholder(s)
        /\ \A k \in 1 .. Len(db.identities) : q[k] = db.identities[k]
    BY <1>7, <2>1, <2>2, AppendProperties
  <2>4. ASSUME NEW l \in DOMAIN db.identities, db.identities[l].number = s.number
        PROVE  IsMissed(s.number)
    <3>1. l \in 1 .. Len(s.identities) => s.identities[l].number # s.number
      BY <1>2, <1>3, <1>9 DEF LookedUp, Work
    <3>2. l > Len(s.identities)
      <4>1. DOMAIN s.identities = 1 .. Len(s.identities) /\ Len(s.identities) \in Nat
        BY <1>2 DEF Work
      <4>2. l \in DOMAIN s.identities => s.identities[l].number = s.number
        BY <1>3, <2>4 DEF Before
      <4> QED
        BY <1>7, <3>1, <4>1, <4>2
    <3>3. PICK c \in DOMAIN db.credentials : c.of = s.number /\ c \in page.block
      BY <1>3, <2>4, <3>2 DEF Before
    <3>4. c \in Wanted(s)
      BY <3>3 DEF Wanted, CredentialsOf, Types, AreRows
    <3> QED
      BY <1>1, <1>6, <1>9, <3>3, <3>4 DEF IsMissed
  <2> QED
    BY <1>2, <1>3, <1>4, <1>6, <1>7, <2>1, <2>2, <2>3, <2>4 DEF Work, IsUnknown, Fits
<1> QED
  BY <1>8, <1>9

LEMMA InsertInv ==
  ASSUME Types, IInv, NEW i \in Searches, insertFromRecovery(i)
  PROVE  IInv'
<1> DEFINE s == search[i]
           done == [s EXCEPT !.at = "found"]
<1>1. /\ s.at = "looking" /\ s.next \notin CredentialNumber
      /\ ~(s.identityId = 0 /\ s.version = 1 /\ s.found = {})
  BY DEF insertFromRecovery
<1>2. s \in Work /\ UNCHANGED <<chain, store, poll, missed>>
  BY Outcomes
<1>3. /\ done.at = "found" /\ done.number = s.number /\ done.identities = s.identities
      /\ done.isAborted = s.isAborted
  BY <1>2 DEF Work
<1> HIDE DEF done
<1>4. CASE Nothing(i, s)
  <2>1. Step(i, done) /\ UNCHANGED <<db, page>> /\ (s.found = {} \/ s.isAborted)
    BY <1>4 DEF Nothing, done
  <2>2. CASE s.isAborted
    BY <1>2, <1>3, <2>1, <2>2, SearchStep
  <2>3. CASE ~s.isAborted
    <3>1. /\ page.at = "search" /\ LookedUp(s, missed) /\ Before(s.identities)
          /\ s.number = page.number
          /\ \A j \in Searches \ {i} : ~Current(j)
      BY <1>1, <2>3, TheSearch DEF IsRight
    <3>2. Wanted(s) = Wanted(done)
      BY <1>3 DEF Wanted
    <3>3. \A c \in Wanted(s) : c.credentialNumber < s.next
      BY <1>1, <1>2, AllLookedUp DEF Wanted, CredentialsOf, Work
    <3>4. s.version = chain.version[s.number] =>
            Wanted(s) \subseteq DOMAIN db.credentials \union missed
      BY <2>1, <2>3, <3>1, <3>3 DEF LookedUp
    <3>5. s.version # chain.version[s.number] => Wanted(s) \subseteq missed
      <4>1. s.version \in {0, 1} /\ chain.version[s.number] \in {0, 1} /\ s.number \in Number
        BY <1>2 DEF Work, Types
      <4>2. s.identityId # 0 => s.version = chain.version[s.number]
        <5> SUFFICES ASSUME s.identityId # 0
                     PROVE  s.version = chain.version[s.number]
          OBVIOUS
        <5>1. /\ s.identityId \in DOMAIN s.identities
              /\ s.identities[s.identityId].number = s.number
              /\ s.identities[s.identityId].version = s.version
          BY <3>1 DEF LookedUp
        <5>2. /\ DOMAIN s.identities = 1 .. Len(s.identities) /\ Len(s.identities) \in Nat
              /\ DOMAIN db.identities = 1 .. Len(db.identities) /\ Len(db.identities) \in Nat
          BY <1>2 DEF Work, Types
        <5>3. s.identityId \in DOMAIN db.identities
          BY <3>1, <5>1, <5>2 DEF Before
        <5> QED
          BY <3>1, <5>1, <5>3 DEF Before, IInv, Tables
      <4> QED
        BY <1>1, <2>1, <2>3, <3>1, <4>1, <4>2 DEF LookedUp
    <3>6. IsRight(done, missed)
      BY <1>3, <3>1, <3>2, <3>4, <3>5 DEF IsRight
    <3> QED
      BY <1>2, <1>3, <2>1, <3>1, <3>6, SearchStep
  <2> QED
    BY <2>2, <2>3
<1>5. CASE Clash(i, s)
  <2>1. page'.at = page.at /\ page'.number = page.number /\ page'.block = page.block
    BY <1>5 DEF Clash, Types, Page
  <2> QED
    BY <1>2, <1>5, <2>1, SearchStep DEF Clash, Idle
<1>6. ASSUME NEW q \in Seq(Identity), NEW id \in Nat, Insertion(i, s, q, id)
      PROVE  IInv'
  <2>1. /\ UNCHANGED page /\ Step(i, done) /\ ~s.isAborted /\ s.found # {}
        /\ db' = InsertFromRecovery(Holding(q), id, s.found)
    BY <1>6 DEF Insertion, done
  <2>2. /\ page.at = "search" /\ Before(s.identities) /\ \A j \in Searches \ {i} : ~Current(j)
        /\ s.found \subseteq Wanted(s)
        /\ Wanted(s) \subseteq s.found \union DOMAIN db.credentials \union missed
        /\ s.number \in Number /\ s.number = page.number
        /\ \A k \in DOMAIN db.identities : q[k] = db.identities[k]
        /\ Len(db.identities) <= Len(q)
        /\ id \in 1 .. Len(q) /\ q[id].number = s.number
        /\ q[id].version = chain.version[s.number]
        /\ \A k \in 1 .. Len(q) : k > Len(db.identities) =>
             /\ k = id /\ q[k].status = "Recovered"
             /\ IsUnknown(s.number)
    <3>1. Fits(i, s, q, id)
      BY <1>6, WhatIsInserted
    <3> QED
      BY <3>1 DEF Fits
  <2>3. s.found \in SUBSET Credential
    BY <1>2 DEF Work
  <2> HIDE DEF s
  <2>4. /\ db'.identities = q
        /\ DOMAIN db'.credentials = s.found \union DOMAIN db.credentials
        /\ \A c \in s.found : db'.credentials[c] = id
        /\ \A c \in DOMAIN db.credentials \ s.found : db'.credentials[c] = db.credentials[c]
        /\ DOMAIN db'.accounts = s.found \union DOMAIN db.accounts
        /\ \A c \in DOMAIN db.accounts : db'.accounts[c] = db.accounts[c]
        /\ \A c \in s.found \ DOMAIN db.accounts : db'.accounts[c] = Recovered(id)
        /\ db'.addressBook = db.addressBook \union (s.found \ DOMAIN db.accounts)
    BY <2>1, <2>3, Inserted
  <2>5. /\ DOMAIN q = 1 .. Len(q) /\ Len(q) \in Nat /\ Len(db.identities) \in Nat
        /\ DOMAIN db.identities = 1 .. Len(db.identities)
    BY DEF Types
  <2>6. \A k \in DOMAIN q : \/ k \in DOMAIN db.identities /\ q[k] = db.identities[k]
                            \/ /\ k = id /\ q[k].status = "Recovered" /\ k > Len(db.identities)
                               /\ IsUnknown(s.number)
    BY <2>2, <2>5
  <2>7. \A c \in Wanted(s) : c \in Credential /\ c.of = s.number /\ c \in page.block
    BY DEF Wanted, CredentialsOf
  <2>8. search'[i] = done /\ \A j \in Searches \ {i} : search'[j] = search[j]
    BY <2>1 DEF Step, Types
  <2>9. ASSUME NEW r \in Seq(Identity), Before(r) PROVE Before(r)'
    <3>1. PICK c \in s.found : TRUE
      BY <2>1
    <3>2. c \in DOMAIN db'.credentials /\ c.of = s.number /\ c \in page.block
      BY <2>2, <2>4, <2>7, <3>1
    <3>3. ASSUME NEW k \in DOMAIN q, k > Len(r)
          PROVE  \E d \in DOMAIN db'.credentials :
                   d.of = q[k].number /\ (page.at # "closed" => d \in page.block)
      <4>1. CASE k \in DOMAIN db.identities
        BY <2>4, <2>6, <2>9, <3>3, <4>1, <2>2 DEF Before
      <4>2. CASE k = id
        BY <2>2, <3>2, <4>2
      <4> QED
        BY <2>6, <4>1, <4>2
    <3>4. Len(r) <= Len(q)
      BY <2>2, <2>5, <2>9 DEF Before
    <3>5. ASSUME NEW k \in DOMAIN r
          PROVE  r[k].number = q[k].number /\ r[k].version = q[k].version
      <4>1. DOMAIN r = 1 .. Len(r) /\ Len(r) \in Nat
        OBVIOUS
      <4>2. k \in DOMAIN db.identities
        BY <2>5, <2>9, <4>1 DEF Before
      <4> QED
        BY <2>2, <2>9, <4>2 DEF Before
    <3> QED
      BY <2>1, <2>4, <3>3, <3>4, <3>5 DEF Before
  <2>10. s.identities \in Seq(Identity) /\ store \in Seq(Identity)
    BY <1>2 DEF Work, Types
  <2>11. \A j \in Searches : Current(j)' => j = i
    BY <2>2, <2>8 DEF Current
  <2>12. OneIsCurrent'
    <3>1. search'[i].at = "found" /\ search'[i].number = page.number
      BY <1>3, <2>2, <2>8
    <3>2. \A j \in Searches \ {i} : search'[j].at # "asking"
      BY <2>2, <2>8 DEF IInv, OneIsCurrent
    <3> QED
      BY <2>1, <2>2, <2>11, <3>1, <3>2 DEF OneIsCurrent
  <2>13. Before(store)'
    <3>1. Before(store)
      BY DEF IInv
    <3> HIDE DEF Before
    <3> QED
      BY <1>2, <2>9, <2>10, <3>1 DEF Before
  <2>14. TablesAgree'
    <3>1. \A k, l \in DOMAIN q : q[k].number = q[l].number => k = l \/ IsMissed(q[k].number)
      BY <2>2, <2>6 DEF IInv, Tables, TablesAgree, IsUnknown
    <3>2. ASSUME NEW c \in s.found
          PROVE  c \in chain.deployed /\ q[id].number = c.of /\ q[id].version = chain.version[c.of]
      BY <2>2, <2>7 DEF IInv, BlockIsPast
    <3>3. ASSUME NEW c \in DOMAIN db.credentials \ s.found
          PROVE  LET k == db.credentials[c] IN
                 /\ c \in chain.deployed /\ c \in DOMAIN db.accounts
                 /\ q[k].number = c.of /\ q[k].version = chain.version[c.of]
      BY <2>2 DEF IInv, Tables, TablesAgree, ForeignKeysHold
    <3>4. ASSUME NEW c \in DOMAIN db'.credentials
          PROVE  LET k == db'.credentials[c] IN
                 /\ c \in chain.deployed /\ c \in DOMAIN db'.accounts
                 /\ q[k].number = c.of /\ q[k].version = chain.version[c.of]
      BY <2>4, <3>2, <3>3
    <3>5. ASSUME NEW a \in DOMAIN db'.accounts, db'.accounts[a].status # "Pending"
          PROVE  a \in db'.addressBook
      BY <2>4, <3>5 DEF IInv, Tables, TablesAgree
    <3> QED
      BY <1>2, <2>4, <3>1, <3>4, <3>5 DEF TablesAgree, IsMissed
  <2>15. ForeignKeysHold'
    <3>1. Recovered(id).identityId = id
      BY DEF Recovered
    <3>2. \A c \in DOMAIN db'.credentials : db'.credentials[c] \in DOMAIN q
      BY <2>2, <2>4, <2>5 DEF IInv, Tables, ForeignKeysHold
    <3>3. \A c \in DOMAIN db'.accounts : db'.accounts[c].identityId \in DOMAIN q
      BY <2>2, <2>4, <2>5, <3>1 DEF IInv, Tables, ForeignKeysHold
    <3> QED
      BY <2>4, <3>2, <3>3 DEF ForeignKeysHold
  <2>16. \A k \in DOMAIN q : q[k].version = chain.version[q[k].number]
    BY <2>2, <2>6 DEF IInv, Tables
  <2>17. ASSUME NEW c \in DOMAIN db'.credentials, NEW d \in chain.deployed,
                d.of = c.of, d.credentialNumber < c.credentialNumber
         PROVE  d \in DOMAIN db'.credentials \union missed
    <3>1. CASE c \in DOMAIN db.credentials
      BY <2>4, <2>17, <3>1 DEF IInv, Tables
    <3>2. CASE c \in s.found
      <4>1. /\ c \in Credential /\ c.of = s.number /\ c \in chain.deployed
            /\ d \in Credential
        BY <2>2, <2>7, <3>2 DEF IInv, BlockIsPast, Types
      <4>2. CASE d \in page.block
        BY <2>2, <2>4, <2>17, <4>1, <4>2 DEF Wanted, CredentialsOf
      <4>3. CASE d \notin page.block
        <5>1. c = d
          BY <2>2, <2>17, <4>1, <4>3 DEF IInv, BlockIsPast, CredentialsOf
        <5>2. c.credentialNumber \in Nat
          BY <4>1, BoundsAssumption DEF Credential, CredentialNumber
        <5> QED
          BY <2>17, <5>1, <5>2
      <4> QED
        BY <4>2, <4>3
    <3> QED
      BY <2>4, <3>1, <3>2
  <2>18. Tables'
    BY <1>2, <2>4, <2>14, <2>15, <2>16, <2>17 DEF Tables
  <2>19. RequestsAreHeld'
    <3> SUFFICES ASSUME NEW n \in Number, poll[n] = "waiting" \/ IsRequested(n)'
                 PROVE  /\ \E k \in DOMAIN q : q[k].number = n
                        /\ First(n) \in DOMAIN db'.accounts
                        /\ CredentialsOf(n) \intersect chain.deployed \subseteq {First(n)}
      BY <1>2, <2>4 DEF RequestsAreHeld
    <3>1. IsRequested(n)' => IsRequested(n)
      BY <2>4, <2>6 DEF IsRequested
    <3>2. /\ \E k \in DOMAIN db.identities : db.identities[k].number = n
          /\ First(n) \in DOMAIN db.accounts
          /\ CredentialsOf(n) \intersect chain.deployed \subseteq {First(n)}
      BY <3>1 DEF IInv, RequestsAreHeld
    <3>3. \A k \in DOMAIN db.identities : k \in DOMAIN q
      BY <2>2, <2>5
    <3> QED
      BY <2>2, <2>4, <3>2, <3>3
  <2>20. BlockIsPast'
    BY <1>2, <2>1 DEF IInv, BlockIsPast
  <2>21. PICK r : /\ r = search'[i] /\ r.at = "found"
                  /\ r.identities = s.identities /\ r.number = s.number
    BY <1>3, <2>8
  <2>22. IsRight(r, missed)'
    <3>1. PICK q0 \in Seq(Identity) : q0 = r.identities /\ Before(q0)
      BY <2>2, <2>10, <2>21
    <3>2. Before(q0)'
      BY <2>9, <3>1
    <3>3. Before(r.identities)'
      BY <3>1, <3>2 DEF Before
    <3>4. PICK wanted : /\ wanted = Wanted(s)
                          /\ wanted \subseteq s.found \union DOMAIN db.credentials \union missed
      BY <2>2
    <3>5. wanted = Wanted(r)'
      BY <2>1, <2>21, <3>4 DEF Wanted
    <3>6. wanted \subseteq DOMAIN db'.credentials \union missed
      BY <2>4, <3>4
    <3>7. Wanted(r)' \subseteq DOMAIN db'.credentials \union missed
      BY <3>5, <3>6
    <3> QED
      BY <1>2, <2>21, <3>3, <3>7 DEF IsRight
  <2>23. SearchesAreRight'
    <3>1. IsRight(search[i], missed)'
      BY <2>21, <2>22 DEF IsRight, LookedUp, Wanted, Before
    <3> QED
      BY <2>11, <3>1 DEF SearchesAreRight
  <2> QED
    BY <2>12, <2>13, <2>18, <2>19, <2>20, <2>23 DEF IInv
<1> QED
  BY <1>4, <1>5, <1>6, Outcomes


\* A confirmation writes the row of its identity, which keeps its number and
\* version, and enters the first credential.
LEMMA ConfirmInv ==
  ASSUME Types, IInv, NEW n \in Number, confirmIdentity(n)
  PROVE  IInv'
<1>1. /\ UNCHANGED <<chain, page, search, missed>> /\ store' = db'.identities
      /\ poll' = [poll EXCEPT ![n] = "none"] /\ First(n) \in chain.deployed
      /\ db' = db \/ \E id \in Nat : Confirmation(n, id)
  BY Confirmed
<1>2. /\ DOMAIN db.identities = 1 .. Len(db.identities) /\ Len(db.identities) \in Nat
      /\ \A m \in Number : poll'[m] = "waiting" => poll[m] = "waiting"
  BY <1>1 DEF Types
<1>3. OneIsCurrent' /\ BlockIsPast'
  BY <1>1 DEF IInv, OneIsCurrent, BlockIsPast, Current
<1>4. CASE db' = db
  <2>1. Before(store)'
    BY <1>1, <1>2, <1>4 DEF Before
  <2>2. Tables' /\ RequestsAreHeld'
    BY <1>1, <1>2, <1>4
       DEF IInv, Tables, TablesAgree, IsMissed, ForeignKeysHold, RequestsAreHeld, IsRequested
  <2>3. SearchesAreRight'
    BY <1>1, <1>4 DEF IInv, SearchesAreRight, IsRight, LookedUp, Wanted, Before, Current
  <2> QED
    BY <1>3, <2>1, <2>2, <2>3 DEF IInv
<1>5. ASSUME NEW id \in Nat, Confirmation(n, id)
      PROVE  IInv'
  <2>1. /\ id \in DOMAIN db.identities /\ db.identities[id].number = n
        /\ DOMAIN db'.identities = DOMAIN db.identities
        /\ Len(db'.identities) = Len(db.identities)
        /\ DOMAIN db'.credentials = DOMAIN db.credentials \union {First(n)}
        /\ db'.credentials[First(n)] = id
        /\ \A c \in DOMAIN db.credentials : db'.credentials[c] = db.credentials[c]
        /\ DOMAIN db'.accounts = DOMAIN db.accounts /\ First(n) \in DOMAIN db.accounts
        /\ db'.accounts[First(n)].identityId = db.accounts[First(n)].identityId
        /\ \A c \in DOMAIN db.accounts : c # First(n) => db'.accounts[c] = db.accounts[c]
        /\ db'.addressBook = db.addressBook \union {First(n)}
    BY <1>5 DEF Confirmation
  <2>2. \A k \in DOMAIN db.identities :
          /\ db'.identities[k].number = db.identities[k].number
          /\ db'.identities[k].version = db.identities[k].version
          /\ db'.identities[k].status = "Pending" => db.identities[k].status = "Pending"
    BY <1>5 DEF Confirmation
  <2>3. First(n).of = n /\ First(n).credentialNumber = 0
    BY DEF First
  <2>4. ASSUME NEW r \in Seq(Identity), Before(r) PROVE Before(r)'
    <3>1. DOMAIN r = 1 .. Len(r) /\ Len(r) \in Nat
      OBVIOUS
    <3>2. \A k \in DOMAIN r : k \in DOMAIN db.identities
      BY <1>2, <2>4, <3>1 DEF Before
    <3> QED
      BY <1>1, <2>1, <2>2, <2>4, <3>2 DEF Before
  <2>5. Before(store)'
    BY <1>1, <1>2, <2>1 DEF Before
  <2>6. TablesAgree'
    <3>1. \A k, l \in DOMAIN db'.identities :
            db'.identities[k].number = db'.identities[l].number =>
              k = l \/ IsMissed(db'.identities[k].number)
      BY <2>1, <2>2 DEF IInv, Tables, TablesAgree
    <3>2. ASSUME NEW c \in DOMAIN db.credentials
          PROVE  LET k == db.credentials[c] IN
                 /\ c \in chain.deployed /\ c \in DOMAIN db.accounts
                 /\ db'.identities[k].number = c.of
                 /\ db'.identities[k].version = chain.version[c.of]
      BY <2>2 DEF IInv, Tables, TablesAgree, ForeignKeysHold
    <3>3. /\ db'.identities[id].number = First(n).of
          /\ db'.identities[id].version = chain.version[First(n).of]
      BY <2>1, <2>2, <2>3 DEF IInv, Tables
    <3>4. ASSUME NEW c \in DOMAIN db'.credentials
          PROVE  LET k == db'.credentials[c] IN
                 /\ c \in chain.deployed /\ c \in DOMAIN db'.accounts
                 /\ db'.identities[k].number = c.of
                 /\ db'.identities[k].version = chain.version[c.of]
      BY <1>1, <2>1, <3>2, <3>3
    <3>5. ASSUME NEW a \in DOMAIN db'.accounts, db'.accounts[a].status # "Pending"
          PROVE  a \in db'.addressBook
      BY <2>1, <3>5 DEF IInv, Tables, TablesAgree
    <3> QED
      BY <1>1, <3>1, <3>4, <3>5 DEF TablesAgree, IsMissed
  <2>7. ForeignKeysHold'
    BY <2>1 DEF IInv, Tables, ForeignKeysHold
  <2>8. \A k \in DOMAIN db'.identities :
          db'.identities[k].version = chain.version[db'.identities[k].number]
    BY <2>1, <2>2 DEF IInv, Tables
  <2>9. ASSUME NEW c \in DOMAIN db'.credentials, NEW d \in chain.deployed,
               d.of = c.of, d.credentialNumber < c.credentialNumber
        PROVE  d \in DOMAIN db'.credentials \union missed
    <3>1. CASE c \in DOMAIN db.credentials
      BY <2>1, <2>9, <3>1 DEF IInv, Tables
    <3>2. CASE c = First(n)
      <4>1. d.credentialNumber \in Nat
        BY BoundsAssumption DEF Types, Credential, CredentialNumber
      <4> QED
        BY <2>3, <2>9, <3>2, <4>1
    <3> QED
      BY <2>1, <3>1, <3>2
  <2>10. Tables'
    BY <1>1, <2>6, <2>7, <2>8, <2>9 DEF Tables
  <2>11. RequestsAreHeld'
    <3> SUFFICES ASSUME NEW m \in Number, poll'[m] = "waiting" \/ IsRequested(m)'
                 PROVE  /\ \E k \in DOMAIN db'.identities : db'.identities[k].number = m
                        /\ First(m) \in DOMAIN db'.accounts
                        /\ CredentialsOf(m) \intersect chain.deployed \subseteq {First(m)}
      BY <1>1 DEF RequestsAreHeld
    <3>1. poll[m] = "waiting" \/ IsRequested(m)
      BY <1>2, <2>1, <2>2 DEF IsRequested
    <3>2. /\ \E k \in DOMAIN db.identities : db.identities[k].number = m
          /\ First(m) \in DOMAIN db.accounts
          /\ CredentialsOf(m) \intersect chain.deployed \subseteq {First(m)}
      BY <3>1 DEF IInv, RequestsAreHeld
    <3> QED
      BY <2>1, <2>2, <3>2
  <2>12. ASSUME NEW r \in Work, IsRight(r, missed) PROVE IsRight(r, missed)'
    <3>1. Before(r.identities)'
      <4>1. PICK q \in Seq(Identity) : q = r.identities /\ Before(q)
        BY <2>12 DEF IsRight, Work
      <4>2. Before(q)'
        BY <2>4, <4>1
      <4> QED
        BY <4>1, <4>2 DEF Before
    <3>2. DOMAIN db.credentials \subseteq DOMAIN db'.credentials
      BY <2>1
    <3>3. LookedUp(r, missed) => LookedUp(r, missed)'
      BY <1>1, <3>2 DEF LookedUp, Wanted
    <3> QED
      BY <1>1, <2>12, <3>1, <3>2, <3>3 DEF IsRight, Wanted
  <2>13. SearchesAreRight'
    <3> SUFFICES ASSUME NEW i \in Searches, Current(i)' PROVE IsRight(search[i], missed)'
      BY DEF SearchesAreRight
    <3>1. search[i].at # "idle" /\ IsRight(search[i], missed)
      BY <1>1 DEF IInv, SearchesAreRight, Current
    <3>2. PICK r \in Work : r = search'[i] /\ IsRight(r, missed)
      BY <1>1, <3>1, AtWork
    <3>3. IsRight(r, missed)'
      BY <2>12, <3>2
    <3> QED
      BY <3>2, <3>3 DEF IsRight, LookedUp, Wanted, Before
  <2> QED
    BY <1>3, <2>5, <2>10, <2>11, <2>13 DEF IInv
<1> QED
  BY <1>1, <1>4, <1>5

-----------------------------------------------------------------------------
(* The invariant, and what follows from it. *)
LEMMA StutterInv ==
  ASSUME Types, IInv, UNCHANGED vars
  PROVE  Types' /\ IInv'
<1>1. UNCHANGED <<chain, db, store, page, search, poll, missed>>
  BY DEF vars
<1>2. Types'
  BY <1>1 DEF Types, AreRows
<1>3. OneIsCurrent' /\ Before(store)' /\ BlockIsPast'
  BY <1>1 DEF IInv, OneIsCurrent, BlockIsPast, Before, Current
<1>4. Tables' /\ RequestsAreHeld'
  BY <1>1 DEF IInv, Tables, TablesAgree, IsMissed, ForeignKeysHold, RequestsAreHeld, IsRequested
<1>5. SearchesAreRight'
  BY <1>1 DEF IInv, SearchesAreRight, IsRight, LookedUp, Wanted, Before, Current
<1> QED
  BY <1>2, <1>3, <1>4, <1>5 DEF IInv

LEMMA StepInv ==
  ASSUME Types, IInv, [Next]_vars
  PROVE  Types' /\ IInv'
<1>1. CASE OpenRecovery \/ GoBack \/ StopRecovery \/ LeaveRecovery \/ LeaveAfterError \/ Restart
  BY <1>1, PageTypes, PageInv
<1>2. ASSUME NEW i \in Searches, Submit(i) \/ Refuse(i) \/ Allow(i) \/ recoverCredential(i)
             \/ TryOlderVersion(i) \/ FinishSearch(i) \/ LookForMore(i) \/ StopTheProcess(i)
      PROVE  Types' /\ IInv'
  <2>1. Types'
    BY <1>2, SearchTypes
  <2> QED
    BY <1>2, <2>1, SubmitInv, AllowInv, RecoverInv, OlderInv, EndInv
<1>3. ASSUME NEW i \in Searches, insertFromRecovery(i)
      PROVE  Types' /\ IInv'
  BY <1>3, InsertTypes, InsertInv
<1>4. ASSUME NEW n \in Number, IssueIdentity(n)
      PROVE  Types' /\ IInv'
  BY <1>4, PageTypes, IssueInv
<1>5. ASSUME NEW n \in Number, confirmIdentity(n)
      PROVE  Types' /\ IInv'
  BY <1>5, Confirmed, ConfirmInv
<1>6. CASE UNCHANGED vars
  BY <1>6, StutterInv
<1> QED
  BY <1>1, <1>2, <1>3, <1>4, <1>5, <1>6 DEF Next, Search

LEMMA Invariance == Spec => [](Types /\ IInv)
<1>1. Init => Types /\ IInv
  BY InitInv
<1>2. Types /\ IInv /\ [Next]_vars => Types' /\ IInv'
  BY StepInv
<1> QED
  BY <1>1, <1>2, PTL DEF Spec

(***************************************************************************)
(* The tables have the types of their columns, and no credential or        *)
(* account refers to an identity that is not there.                        *)
(***************************************************************************)
THEOREM TypeCorrect == Spec => []TypeOK
<1>1. Types /\ IInv => TypeOK
  BY DEF TypeOK, IInv, Tables
<1> QED
  BY <1>1, Invariance, PTL

(***************************************************************************)
(* However searches are given up, begun again and crossed by the           *)
(* confirmation of an identity, and whichever lookups fail, every          *)
(* credential refers to its own identity and has an account, every account *)
(* but a pending one is in the address book, and an identity is in the     *)
(* table once unless a lookup of one of its credentials has failed         *)
(* (insertFromRecovery, insertFromRecoveryNewIdentity).                    *)
(***************************************************************************)
THEOREM TablesAlwaysAgree == Spec => []TablesAgree
<1>1. Types /\ IInv => TablesAgree
  BY DEF IInv, Tables
<1> QED
  BY <1>1, Invariance, PTL

\* The next number is shown only by a search that has not been given up.
LEMMA NumberIsDone ==
  ASSUME Types, [Next]_vars, page'.number = page.number + 1
  PROVE  \E i \in Searches : search[i].at = "found" /\ ~search[i].isAborted
<1>1. page \in Page /\ page.number \in Nat
  BY DEF Types, Page
<1>2. page.number + 1 # 0 /\ page.number + 1 # page.number
  BY <1>1
<1>3. \A p \in Page : [p EXCEPT !.error = TRUE].number = p.number
  BY DEF Page
<1>4. CASE OpenRecovery \/ GoBack \/ StopRecovery \/ LeaveRecovery \/ LeaveAfterError \/ Restart
  <2>1. CASE OpenRecovery \/ GoBack
    BY <1>1, <1>2, <2>1 DEF OpenRecovery, GoBack, Show
  <2>2. CASE StopRecovery
    BY <1>1, <1>2, <2>2 DEF StopRecovery, Page
  <2>3. CASE LeaveRecovery \/ LeaveAfterError \/ Restart
    BY <1>1, <1>2, <2>3 DEF LeaveRecovery, LeaveAfterError, Leave, Restart, Page
  <2> QED
    BY <1>4, <2>1, <2>2, <2>3
<1>5. ASSUME NEW i \in Searches, Submit(i) \/ Refuse(i) \/ Allow(i) \/ recoverCredential(i)
             \/ TryOlderVersion(i)
      PROVE  FALSE
  BY <1>2, <1>5 DEF Submit, Refuse, Allow, recoverCredential, TryOlderVersion
<1>6. ASSUME NEW i \in Searches, insertFromRecovery(i)
      PROVE  FALSE
  BY <1>1, <1>2, <1>3, <1>6 DEF insertFromRecovery
<1>7. ASSUME NEW i \in Searches, LookForMore(i) \/ StopTheProcess(i)
      PROVE  FALSE
  BY <1>1, <1>2, <1>7 DEF LookForMore, StopTheProcess, Page
<1>8. ASSUME NEW i \in Searches, FinishSearch(i)
      PROVE  search[i].at = "found" /\ ~search[i].isAborted
  BY <1>2, <1>8 DEF FinishSearch
<1>9. ASSUME NEW n \in Number, IssueIdentity(n) \/ confirmIdentity(n)
      PROVE  FALSE
  BY <1>2, <1>9 DEF IssueIdentity, confirmIdentity
<1>10. CASE UNCHANGED vars
  BY <1>2, <1>10 DEF vars
<1> QED
  BY <1>4, <1>5, <1>6, <1>7, <1>8, <1>9, <1>10 DEF Next, Search

(***************************************************************************)
(* When a number is done and the next one is shown, every credential the   *)
(* chain had of it when the page was opened is in the table, whether this  *)
(* search inserted it, one that was given up, or a confirmation, except    *)
(* for those whose own lookup has failed (performRecovery).                *)
(***************************************************************************)
THEOREM DoneIsAlwaysRecovered == Spec => DoneIsRecovered
<1>1. ASSUME Types /\ IInv, [Next]_vars, page'.number = page.number + 1
      PROVE  \A c \in CredentialsOf(page.number) :
               c \in page.block => c \in DOMAIN db.credentials \union missed
  <2>1. PICK i \in Searches : search[i].at = "found" /\ ~search[i].isAborted
    BY <1>1, NumberIsDone
  <2>2. IsRight(search[i], missed) /\ search[i].number = page.number
    BY <1>1, <2>1, TheSearch
  <2> QED
    BY <2>1, <2>2 DEF IsRight, Wanted
<1>2. Types /\ IInv /\ [Next]_vars =>
        [page'.number = page.number + 1 =>
           \A c \in CredentialsOf(page.number) :
             c \in page.block => c \in DOMAIN db.credentials \union missed]_vars
  BY <1>1
<1> QED
  BY <1>2, Invariance, PTL DEF Spec, DoneIsRecovered
===============================================================================
