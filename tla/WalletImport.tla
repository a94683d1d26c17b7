----------------------------- MODULE WalletImport -----------------------------
(***************************************************************************)
(* An exported file is merged into the database.  The file and the        *)
(* database are two copies of the same kind, made by the same user's       *)
(* Ledgers, and what one of them calls wallet 1 or identity 2 may be       *)
(* another row in the other.  The import is a long sequence of statements  *)
(* without a transaction: the wallet may stop between any two of them, and *)
(* the user then imports the file again.                                   *)
(*                                                                         *)
(* What is to be done is worked out from the rows of the wallets, read     *)
(* when the import starts, and from the identities and the address book in *)
(* the store; only the accounts and credentials of an identity are read    *)
(* when its turn comes.                                                    *)
(***************************************************************************)
EXTENDS Naturals, SequencesExt, Functions, FiniteSetsExt

CONSTANTS
  Identity,    \* the identities of the user's Ledgers, [wallet, number]
  Account,     \* the accounts of these, [of, credentialNumber]
  HeldOrders,  \* the orders the database may have the wallets in
  FileOrders,  \* the orders the file may have them in
  MaxKnown,    \* a bound on the identities that file and database know of
  MaxImports   \* a bound on how often the file is imported

VARIABLES
  db,      \* the tables
  file,    \* what is imported
  store,   \* the identities, the address book and the credentials in the store
  todo,    \* the statements the import has ahead of it
  import,  \* what is shown of it, and how many there have been
  odds,    \* history: whether file and database were at odds from the start
  alike,   \* history: the placeholders of the file that another can be taken for
  stale    \* history: whether a failed import was repeated with the same store

history == <<odds, alike, stale>>

vars == <<db, file, store, todo, import, odds, alike, stale>>

(***************************************************************************)
(* A name of an account is what the user has called it here ("mine") or    *)
(* elsewhere ("theirs"), or the beginning of its address.                  *)
(***************************************************************************)
IsDefault(name) == name = "address"

(* What an identity has in its row: a placeholder has an object that only  *)
(* tells the month, and no randomness.                                     *)
identityObject(identity, status, month) ==
  [of |-> IF status = "Confirmed" THEN {identity} ELSE {},
   month |-> IF status = "Recovered" THEN month ELSE 0]

randomness(identity, status) == IF status = "Recovered" THEN {} ELSE {identity}

IdentityRow(id, walletId, identity, status, month, name) ==
  [id |-> id, walletId |-> walletId, identityNumber |-> identity.number,
   identityObject |-> identityObject(identity, status, month),
   randomness |-> randomness(identity, status), status |-> status,
   name |-> IF status = "Recovered" THEN "Recovered" ELSE name, of |-> identity]
-----------------------------------------------------------------------------
(***************************************************************************)
(* What a wallet may hold: wallets in some order, for each of them an      *)
(* identity that is pending, confirmed or recovered, or none, accounts     *)
(* with their credentials, an address book with these accounts and perhaps *)
(* the others as recipients, and notes about a credential that somebody    *)
(* else has on each account.                                               *)
(***************************************************************************)
IdStatus == {"none", "Pending", "Confirmed", "Recovered"}

IsPlausible(status, owned) ==
  \A i \in DOMAIN status :
    LET its == {a \in owned : a.of = i}
    IN  CASE status[i] = "none" -> its = {}
          [] status[i] = "Pending" -> \A a \in its : a.credentialNumber = 0
          [] status[i] = "Recovered" -> its # {}
          [] OTHER -> TRUE

Contents(order, status, owned, name, month, recipients) ==
  LET present == SetToSortSeq({i \in DOMAIN status : status[i] # "none"},
                   LAMBDA i, j : IndexFirstSubSeq(<<i.wallet>>, order)
                                   < IndexFirstSubSeq(<<j.wallet>>, order))
      identities == [k \in DOMAIN present |->
        IdentityRow(k, IndexFirstSubSeq(<<present[k].wallet>>, order), present[k],
                    status[present[k]], month, name)]
      IdOf(a) == CHOOSE k \in DOMAIN present : present[k] = a.of
  IN  [wallets |-> [k \in DOMAIN order |-> [id |-> k, identifier |-> order[k]]],
       identities |-> identities,
       accounts |-> [a \in owned |-> [identityId |-> IdOf(a), name |-> name]],
       credentials |-> [a \in owned |-> IdOf(a)],
       addressBook |->
         [a \in owned \union (IF recipients THEN Account ELSE {}) |->
            IF a \in owned THEN [name |-> name, readOnly |-> TRUE]
            ELSE [name |-> name, readOnly |-> FALSE]],
       externalCredentials |-> [a \in owned |-> IF name = "address" THEN "" ELSE name]]

Holdings(known, orders, names, months) ==
  UNION {UNION {
    {Contents(order, status, owned, name, month, name # "address") :
       owned \in {o \in SUBSET {a \in Account : a.of \in known} :
                    /\ \A a \in o : status[a.of] # "none"
                    /\ IsPlausible(status, o)},
       name \in names, month \in months}
    : status \in {s \in [known -> IdStatus] :
                    \A i \in known : i.wallet \notin ToSet(order) => s[i] = "none"}}
    : order \in orders}

(* The rows of one identity can only be merged if they agree on what it    *)
(* is, or the database has nothing but a placeholder.                      *)
AtOdds(held, imported) ==
  \E r \in ToSet(held.identities), s \in ToSet(imported.identities) :
    r.of = s.of /\ r.status \notin {s.status, "Recovered"}

(* Each Ledger numbers its identities from 0, and placeholders of equal    *)
(* number have the same randomness.                                        *)
Placeholders(tables) == {r.of : r \in {s \in ToSet(tables.identities) : s.status = "Recovered"}}

Alike(held, imported) ==
  {i \in Placeholders(imported) :
     \E j \in Placeholders(imported) \union Placeholders(held) : i # j /\ i.number = j.number}

Loaded(tables) ==
  [identities |-> tables.identities, addressBook |-> tables.addressBook,
   externalCredentials |-> tables.externalCredentials]

Init ==
  /\ \E known \in kSubset(MaxKnown, Identity) :
       /\ db \in Holdings(known, HeldOrders, {"mine", "address"}, {1})
       /\ file \in Holdings(known, FileOrders, {"theirs", "address"}, {1, 2})
  /\ store = Loaded(db)
  /\ todo = <<>>
  /\ import = [shown |-> "nothing", count |-> 0]
  /\ odds = AtOdds(db, file) /\ alike = Alike(db, file) /\ stale = FALSE
-----------------------------------------------------------------------------
(* Whether a row has the same values in these fields as one of the list.   *)
isDuplicate(entry, list, fields) ==
  \E other \in ToSet(list) : \A f \in fields : other[f] = entry[f]

(* The rows with a duplicate, and those without. *)
Duplicates(rows, list, fields) == SelectSeq(rows, LAMBDA r : isDuplicate(r, list, fields))
NonDuplicates(rows, list, fields) == SelectSeq(rows, LAMBDA r : ~isDuplicate(r, list, fields))

Concat(rows, Tasks(_)) == FlattenSeq([k \in DOMAIN rows |-> Tasks(rows[k])])

(***************************************************************************)
(* The statements an import has ahead.  "accounts" and "credentials" stand *)
(* for those that follow from a SELECT; "fail" is an exception.            *)
(***************************************************************************)
Fail == <<[do |-> "fail"]>>

(* The accounts of the identity the file knows as from, for the one the    *)
(* database knows as to.                                                   *)
AccountsAndCredentials(from, to) == <<[do |-> "accounts", from |-> from, to |-> to]>>

handleDuplicateIdentity(imported, local) ==
  IF imported.name # local.name /\ local.status = "Recovered"
  THEN <<[do |-> "renameIdentity", id |-> local.id, name |-> imported.name]>>
  ELSE <<>>

insertNewIdentities(identities) ==
  [k \in DOMAIN identities |-> [do |-> "identity", row |-> identities[k]]]

findAttachedIdentities(wallets, identities) ==
  SelectSeq(identities, LAMBDA i : \E w \in ToSet(wallets) : w.id = i.walletId)

(* Mutant: the identities keep the wallet the file gives them. *)
keepWalletIdReference(importedWalletId, insertedWalletId, identities) ==
  SelectSeq(identities, LAMBDA i : i.walletId = importedWalletId)

updateWalletIdReference(importedWalletId, insertedWalletId, identities) ==
  LET relevant == SelectSeq(identities, LAMBDA i : i.walletId = importedWalletId)
  IN  [k \in DOMAIN relevant |-> [relevant[k] EXCEPT !.walletId = insertedWalletId]]

(* Identities found by number and content, or recovered in the file.  The  *)
(* one they match is looked up by number and randomness.                   *)
MergeIntoExisting(existing, imported) ==
  LET matches == SelectSeq(existing, LAMBDA i :
                   /\ i.identityNumber = imported.identityNumber
                   /\ i.randomness = imported.randomness)
  IN  IF matches = <<>> THEN Fail
      ELSE handleDuplicateIdentity(imported, matches[1])
             \o AccountsAndCredentials(imported.id, matches[1].id)

(* Identities found by number and wallet: a placeholder is replaced. *)
Replace(existing, imported) ==
  LET match == SelectSeq(existing, LAMBDA i :
                 /\ i.identityNumber = imported.identityNumber
                 /\ i.walletId = imported.walletId)[1]
  IN  IF match.status # "Recovered" THEN Fail
      ELSE <<[do |-> "replace", id |-> match.id, row |-> imported]>>
             \o handleDuplicateIdentity(imported, match)
             \o AccountsAndCredentials(imported.id, match.id)

importDuplicateWallets(existing, wallets, identities) ==
  LET attached == findAttachedIdentities(wallets, identities)
      exact == {"id", "identityNumber", "identityObject", "name", "randomness"}
      content == {"identityNumber", "identityObject", "randomness"}
      index == {"identityNumber", "walletId"}
      nonDuplicate == NonDuplicates(attached, existing.identities, exact)
      nonMatching == NonDuplicates(nonDuplicate, existing.identities, content)
      IsRecovered(i) == i.status = "Recovered" /\ isDuplicate(i, existing.identities, index)
      nonExisting == SelectSeq(nonMatching, LAMBDA i : ~IsRecovered(i))
  IN  Concat(Duplicates(attached, existing.identities, exact),
             LAMBDA i : AccountsAndCredentials(i.id, i.id))
        \o Concat(Duplicates(nonDuplicate, existing.identities, content)
                    \o SelectSeq(nonMatching, IsRecovered),
                  LAMBDA i : MergeIntoExisting(existing.identities, i))
        \o Concat(Duplicates(nonExisting, existing.identities, index),
                  LAMBDA i : Replace(existing.identities, i))
        \o insertNewIdentities(NonDuplicates(nonExisting, existing.identities, index))

importExistingWallets(existing, wallets, identities) ==
  LET Match(w) == SelectSeq(existing.wallets, LAMBDA v : v.identifier = w.identifier)[1]
      attached == findAttachedIdentities(wallets, identities)
  IN  importDuplicateWallets(existing, [k \in DOMAIN wallets |-> Match(wallets[k])],
        Concat(Reverse(wallets), LAMBDA w : updateWalletIdReference(w.id, Match(w).id, attached)))

(* Nobody else inserts wallets, so the identifiers they get are known. *)
importNewWallets(existing, wallets, identities) ==
  LET attached == findAttachedIdentities(wallets, identities)
      Inserted(k) == Len(existing.wallets) + k
  IN  [k \in DOMAIN wallets |-> [do |-> "wallet", identifier |-> wallets[k].identifier]]
        \o insertNewIdentities(FlattenSeq([k \in DOMAIN wallets |->
             updateWalletIdReference(wallets[k].id, Inserted(k), attached)]))

(* Mutant: a wallet with another identifier is taken for a new one. *)
importWalletsById(existing, wallets, identities) ==
  importDuplicateWallets(existing,
    Duplicates(wallets, existing.wallets, {"id", "identifier"}), identities)
    \o importNewWallets(existing,
         NonDuplicates(wallets, existing.wallets, {"id", "identifier"}), identities)

importWallets(existing, wallets, identities) ==
  LET nonDuplicate == NonDuplicates(wallets, existing.wallets, {"id", "identifier"})
  IN  importDuplicateWallets(existing,
        Duplicates(wallets, existing.wallets, {"id", "identifier"}), identities)
        \o importExistingWallets(existing,
             Duplicates(nonDuplicate, existing.wallets, {"identifier"}), identities)
        \o importNewWallets(existing,
             NonDuplicates(nonDuplicate, existing.wallets, {"identifier"}), identities)
-----------------------------------------------------------------------------
resolveAccountNameConflict(existingName, importName) ==
  IF IsDefault(existingName) THEN importName ELSE existingName

resolveAddressBookNameConflict(existing, imported) ==
  IF existing.readOnly /\ imported.readOnly
  THEN resolveAccountNameConflict(existing.name, imported.name)
  ELSE IF imported.readOnly /\ ~existing.readOnly THEN imported.name ELSE existing.name

(* New entries go into one INSERT; each of the others has an UPDATE. *)
importAddressBookEntries(existing, entries) ==
  LET new == DOMAIN entries \ DOMAIN existing
      Differs(a) == entries[a] # existing[a]
      changed == SetToSeq({a \in DOMAIN entries \intersect DOMAIN existing : Differs(a)})
  IN  (IF new = {} THEN <<>>
       ELSE <<[do |-> "entries", entries |-> [a \in new |-> entries[a]]]>>)
        \o [k \in DOMAIN changed |->
              [do |-> "entry", address |-> changed[k],
               entry |-> [name |-> resolveAddressBookNameConflict(existing[changed[k]], entries[changed[k]]),
                          readOnly |-> existing[changed[k]].readOnly \/ entries[changed[k]].readOnly]]]

(* The credentials that are new, and those with another note. *)
insertExternalCredentials(existing, imported) ==
  LET new == {c \in DOMAIN imported :
                c \notin DOMAIN existing \/ existing[c] # imported[c]}
      Note(c) == IF c \in DOMAIN existing /\ existing[c] # "" THEN existing[c] ELSE imported[c]
  IN  IF new = {} THEN <<>>
      ELSE <<[do |-> "externalCredentials", credentials |-> [c \in new |-> Note(c)]]>>
-----------------------------------------------------------------------------
(***************************************************************************)
(* The import begins, or begins again, from what the store holds.          *)
(***************************************************************************)
performImport ==
  /\ import.shown # "importing"
  /\ import.count < MaxImports
  /\ LET existing == store @@ [wallets |-> db.wallets]
     IN  todo' = importWallets(existing, file.wallets, file.identities)
                   \o importAddressBookEntries(store.addressBook, file.addressBook)
                   \o insertExternalCredentials(store.externalCredentials,
                                                file.externalCredentials)
  /\ import' = [shown |-> "importing", count |-> import.count + 1]
  /\ stale' = (stale \/ import.shown = "failed")
  /\ UNCHANGED <<db, file, store, odds, alike>>

Statement(do) ==
  /\ todo # <<>>
  /\ Head(todo).do = do

(* A statement is executed, or violates a constraint of its table. *)
Execute(possible, tables) ==
  /\ IF possible
     THEN db' = tables /\ todo' = Tail(todo) /\ UNCHANGED import
     ELSE db' = db /\ todo' = <<>> /\ import' = [import EXCEPT !.shown = "failed"]
  /\ UNCHANGED <<file, store, history>>

insertWallet ==
  /\ Statement("wallet")
  /\ LET identifier == Head(todo).identifier
     IN  Execute(\A w \in ToSet(db.wallets) : w.identifier # identifier,
           [db EXCEPT !.wallets = Append(@, [id |-> Len(@) + 1, identifier |-> identifier])])

insertIdentity ==
  /\ Statement("identity")
  /\ LET row == Head(todo).row
         id == Len(db.identities) + 1
     IN  /\ db' = [db EXCEPT !.identities = Append(@, [row EXCEPT !.id = id])]
         /\ todo' = AccountsAndCredentials(row.id, id) \o Tail(todo)
  /\ UNCHANGED <<file, store, import, history>>

updateIdentity ==
  \/ /\ Statement("replace")
     /\ LET id == Head(todo).id
        IN  Execute(TRUE, [db EXCEPT !.identities[id] = [Head(todo).row EXCEPT !.id = id]])
  \/ /\ Statement("renameIdentity")
     /\ Execute(TRUE, [db EXCEPT !.identities[Head(todo).id].name = Head(todo).name])

handleDuplicateAccount(address) ==
  LET chosenName == resolveAccountNameConflict(db.accounts[address].name, file.accounts[address].name)
  IN  IF chosenName = db.accounts[address].name THEN <<>>
      ELSE <<[do |-> "renameAccount", address |-> address, name |-> chosenName]>>

(* Mutant: the credentials of an identity are only looked at when it has a *)
(* new account.                                                            *)
insertNewAccountsWithCredentials ==
  /\ Statement("accounts")
  /\ LET task == Head(todo)
         onIdentity == {a \in DOMAIN file.accounts : file.accounts[a].identityId = task.from}
         existing == {a \in DOMAIN db.accounts : db.accounts[a].identityId = task.to}
         Insert(a) == <<[do |-> "account", address |-> a, to |-> task.to]>>
     IN  todo' = Concat(SetToSeq(onIdentity \ existing), Insert)
                   \o (IF onIdentity \subseteq existing THEN <<>>
                       ELSE <<[do |-> "credentials", from |-> task.from, to |-> task.to]>>)
                   \o Tail(todo)
  /\ UNCHANGED <<db, file, store, import, history>>

(* The accounts of the identity are read, and those that are not there are *)
(* inserted; then its credentials are read.                                *)
insertNewAccountsAndCredentials ==
  /\ Statement("accounts")
  /\ LET task == Head(todo)
         onIdentity == {a \in DOMAIN file.accounts : file.accounts[a].identityId = task.from}
         existing == {a \in DOMAIN db.accounts : db.accounts[a].identityId = task.to}
         Insert(a) == <<[do |-> "account", address |-> a, to |-> task.to]>>
     IN  todo' = Concat(SetToSeq(onIdentity \ existing), Insert)
                   \o Concat(SetToSeq(onIdentity \intersect existing), handleDuplicateAccount)
                   \o <<[do |-> "credentials", from |-> task.from, to |-> task.to]>>
                   \o Tail(todo)
  /\ UNCHANGED <<db, file, store, import, history>>

insertAccount ==
  /\ Statement("account")
  /\ LET a == Head(todo).address
     IN  Execute(a \notin DOMAIN db.accounts,
           [db EXCEPT !.accounts =
              (a :> [file.accounts[a] EXCEPT !.identityId = Head(todo).to]) @@ @])

updateAccount ==
  /\ Statement("renameAccount")
  /\ Execute(TRUE, [db EXCEPT !.accounts[Head(todo).address].name = Head(todo).name])

getCredentialsForIdentity ==
  /\ Statement("credentials")
  /\ LET task == Head(todo)
         onIdentity == {c \in DOMAIN file.credentials : file.credentials[c] = task.from}
         existing == {c \in DOMAIN db.credentials : db.credentials[c] = task.to}
     IN  todo' = Concat(SetToSeq(onIdentity \ existing),
                   LAMBDA c : <<[do |-> "credential", credId |-> c, to |-> task.to]>>)
                   \o Tail(todo)
  /\ UNCHANGED <<db, file, store, import, history>>

insertCredential ==
  /\ Statement("credential")
  /\ LET c == Head(todo).credId
     IN  Execute(c \notin DOMAIN db.credentials,
           [db EXCEPT !.credentials = (c :> Head(todo).to) @@ @])

importAddressBookEntry ==
  /\ Statement("entries")
  /\ Execute(DOMAIN Head(todo).entries \intersect DOMAIN db.addressBook = {},
       [db EXCEPT !.addressBook = Head(todo).entries @@ @])

(* The address book is loaded again after each update. *)
updateAddressBookEntry ==
  /\ Statement("entry")
  /\ LET a == Head(todo).address
         book == IF a \in DOMAIN db.addressBook
                 THEN [db.addressBook EXCEPT ![a] = Head(todo).entry] ELSE db.addressBook
     IN  /\ db' = [db EXCEPT !.addressBook = book]
         /\ store' = [store EXCEPT !.addressBook = book]
  /\ todo' = Tail(todo)
  /\ UNCHANGED <<file, import, history>>

(* A credential that is there already is left as it is, and its account    *)
(* must be there.                                                          *)
upsertMultipleExternalCredentials ==
  /\ Statement("externalCredentials")
  /\ LET credentials == Head(todo).credentials
     IN  Execute(DOMAIN credentials \subseteq DOMAIN db.accounts,
           [db EXCEPT !.externalCredentials = @ @@ credentials])

Throw ==
  /\ Statement("fail")
  /\ Execute(FALSE, db)

(* Everything is loaded only after an import that has come to its end. *)
FinishImport ==
  /\ import.shown = "importing"
  /\ todo = <<>>
  /\ import' = [import EXCEPT !.shown = "imported"]
  /\ store' = Loaded(db)
  /\ UNCHANGED <<db, file, todo, history>>

(* The wallet stops, and is unlocked again. *)
Restart ==
  /\ import.shown # "nothing"
  /\ import.count < MaxImports
  /\ todo' = <<>>
  /\ import' = [import EXCEPT !.shown = "nothing"]
  /\ store' = Loaded(db)
  /\ UNCHANGED <<db, file, history>>

Next ==
  \/ performImport \/ insertWallet \/ insertIdentity \/ updateIdentity
  \/ insertNewAccountsAndCredentials \/ insertAccount \/ updateAccount
  \/ getCredentialsForIdentity \/ insertCredential
  \/ importAddressBookEntry \/ updateAddressBookEntry
  \/ upsertMultipleExternalCredentials
  \/ Throw \/ FinishImport \/ Restart

Spec == Init /\ [][Next]_vars
-----------------------------------------------------------------------------
(***************************************************************************)
(* Whichever file is imported, and wherever an import stops: every         *)
(* identity refers to its own Ledger, every account and credential to its  *)
(* own identity, and an identity is in the table once.  The references of  *)
(* the file are rewritten in updateWalletIdReference and                   *)
(* insertNewAccountsAndCredentials.  Two things are not so: placeholders   *)
(* of equal number on two Ledgers (alike) are taken for each other, their  *)
(* accounts come to an identity of their number; and a failed import that  *)
(* is repeated before the identities are loaded again (stale) may insert   *)
(* an identity it has inserted before.                                     *)
(***************************************************************************)
RefersTo(identityId, identity) ==
  LET row == db.identities[identityId]
  IN  IF identity \in alike THEN row.identityNumber = identity.number ELSE row.of = identity

ReferencesAreTrue ==
  /\ \A i, j \in DOMAIN db.identities :
       db.identities[i].of = db.identities[j].of => i = j \/ stale
  /\ \A i \in DOMAIN db.identities :
       LET row == db.identities[i]
       IN  row.walletId \in DOMAIN db.wallets
             /\ db.wallets[row.walletId].identifier = row.of.wallet
  /\ \A a \in DOMAIN db.accounts : RefersTo(db.accounts[a].identityId, a.of)
  /\ \A c \in DOMAIN db.credentials : RefersTo(db.credentials[c], c.of)

(***************************************************************************)
(* When an import reports success, whether or not earlier ones were cut    *)
(* off, everything in the file is in the database, nothing in it is still  *)
(* a placeholder there, names that were given are not lost to default      *)
(* ones, and an account has the same name in its row and in the address    *)
(* book (performImport).  Of two placeholders that are taken for each      *)
(* other one may be missing, but none of their accounts.                   *)
(***************************************************************************)
ImportedIsWhole ==
  import.shown = "imported" =>
    /\ \A w \in ToSet(file.wallets) : \E v \in ToSet(db.wallets) : v.identifier = w.identifier
    /\ \A s \in ToSet(file.identities) : s.of \in alike \/ \E r \in ToSet(db.identities) :
         r.of = s.of /\ r.status \in {s.status, "Pending", "Confirmed"}
    /\ DOMAIN file.accounts \subseteq DOMAIN db.accounts
    /\ DOMAIN file.credentials \subseteq DOMAIN db.credentials
    /\ DOMAIN file.addressBook \subseteq DOMAIN db.addressBook
    /\ DOMAIN file.externalCredentials \subseteq DOMAIN db.externalCredentials
    /\ \A a \in DOMAIN db.accounts :
         db.addressBook[a] = [name |-> db.accounts[a].name, readOnly |-> TRUE]
    /\ \A a \in DOMAIN file.accounts :
         IsDefault(db.accounts[a].name) => IsDefault(file.accounts[a].name)

(***************************************************************************)
(* An import only fails if file and database were at odds about an         *)
(* identity before it was tried for the first time: what an import that    *)
(* was cut off has left behind is no obstacle (the "Internal error" and    *)
(* the other exceptions of importDuplicateWallets, and the constraints of  *)
(* the tables).  A file with a placeholder that is taken for another one   *)
(* may fail as well: its accounts are looked for with the other.           *)
(***************************************************************************)
FailsOnlyAtOdds == import.shown = "failed" => odds \/ alike # {}

(***************************************************************************)
(* References without the exceptions.  It does not hold: what is taken for *)
(* "identities that exist in the database, but with separate logical ids   *)
(* or names" (importHelpers.ts:508) may be the placeholder of another      *)
(* Ledger, and an identity that a failed import has inserted is not in the *)
(* store.                                                                  *)
(***************************************************************************)
EveryReferenceIsTrue ==
  /\ \A i, j \in DOMAIN db.identities : db.identities[i].of = db.identities[j].of => i = j
  /\ \A a \in DOMAIN db.accounts : db.identities[db.accounts[a].identityId].of = a.of

(***************************************************************************)
(* That a file has recovered identities is no obstacle: "We concatenate    *)
(* the imported identities with recovered status, because we need to       *)
(* handle those the same way" (importHelpers.ts:537).                      *)
(***************************************************************************)
RecoveredIsNoObstacle ==
  import.shown = "failed" =>
    \E r \in ToSet(db.identities), s \in ToSet(file.identities) :
      r.of = s.of /\ s.status # "Recovered" /\ r.status # s.status
===============================================================================
