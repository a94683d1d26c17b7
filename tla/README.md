# Verification of the Concordium desktop wallet

TLA+ models of the wallet in `src/`, the TLC configurations that check them on
small instances, and theorems about them whose proofs TLAPS checks for every
value of the constants. Paths below are relative to `src/app/` unless they start
with `src/`. Sections 3 to 14 take the parts one by one: the correspondence with
the code, what the run shows, its bounds, its fairness, and what is left out.

## 1. The system

The wallet is an Electron application. Its renderer process runs one JavaScript
thread with a Redux store; its preload script gives the renderer a SQLite
database (through knex, one connection), a gRPC client of a Concordium node, an
HTTP client of the wallet proxy and of identity providers, and a Ledger device.
There are no locks around the store or the database. What makes the code hard is
therefore not parallelism but what happens between two `await`s: every handler,
poll and monitor reads some state, waits for the network, the device or the
database, and then writes what it computed from the state it read.

### Inventory

| Component | State it keeps | Operations | Hard behaviours | What makes it correct |
|---|---|---|---|---|
| Transaction status (`utils/TransactionStatusPoller.ts`, `features/TransactionSlice.ts`) | pending rows, list entries, running monitors | submit, record, monitor, confirm, reject, resume at `startClient` | several monitors of one row; a wait that throws; lost answers; restarts | no pending row is forgotten; a deleted row stays deleted; the list does not keep a settled transaction pending |
| Multi-signature proposals (`features/MultiSignatureSlice.ts`, `pages/multisig/`) | rows, store, pages, files being verified, submissions, monitors | create, sign, submit, cancel, expire, settle | each actor writes back the version it captured earlier; rows returned late | statuses only move on, signatures are not lost, what is claimed of the chain is so |
| Shielded balance (`features/AccountSlice.ts`) | encrypted self and incoming amounts, decrypted total | poll, visit, settle a shielded transfer, decrypt | four writers of the same row | a balance shown as decrypted is the balance |
| Transaction list (`features/TransactionSlice.ts`, `pages/Accounts/useAccountSync.ts`) | the list, latest request, lock | load, append, load new, reload, abort | loads overtaking each other | no duplicates; the list shown is of the chosen account and filter |
| Identity issuance (`utils/IdentityStatusPoller.ts`, `preload/database/identityDao.ts`) | pending identities and initial accounts | request, poll, confirm, reject, resume | transactions nobody awaits; two polls of one identity | identity and initial account settle together, once |
| Account creation (`pages/AccountCreation/`, `utils/AccountStatusPoller.ts`) | pending accounts, credential numbers | save, send, confirm, remove | failure between save and send; lost answers | a credential number is never used twice; a created account is not lost |
| Import (`utils/importHelpers.ts`, `pages/exportImport/`) | wallets, identities, accounts, credentials | merge | no transaction around many statements; identifiers are rewritten | every imported row refers to the row it referred to |
| Recovery (`pages/Recovery/`) | scan position, abort flag | scan, insert, stop | abort racing the scan | every credential found is inserted once |
| Ledger connection (`preload/ledger/ledgerObserverImpl.ts`, `components/ledger/`) | transport, poll timer, shown status | USB add and remove, reset, poll, sign | queued work behind a lock; a timer racing an unplug | the status shown is eventually that of the device |
| Database and password (`preload/database/general.ts`, `database/knex.ts`) | shared connection, password | unlock, rekey, invalidate | statements in flight during a rekey | the wallet opens with exactly the last password |
| Amounts, schedules, nonces (`utils/numberStringHelpers.ts`, ...) | none | parse, format, divide | rounding, zero, width | what is formatted is what was parsed; parts add up |
| Governance updates (`pages/multisig/`, `utils/updates/`, `utils/transactionHandlers/`) | drafts, proposals, keys in an editor | create, edit keys, sign, submit | read long before it is used; indices shift when keys are removed | what the node refuses was right when it was made; editors keep the rights they show |
| Staking forms (`utils/transactionFlows/`, `components/Transfers/`, `pages/Accounts/AccountTransactionFlow/`) | pages, values, history, keys, nonce | open, fill in, go back, change the account, submit | a payload is a difference; fees depend on later pages; keys exist before they are saved | the transaction is the form; refused only for what has changed; keys are saved |
| Serialization (`utils/transactionSerialization.ts`, `utils/UpdateSerialization.ts`, `features/ledger/`) | none | encode, send to the device | two encoders of one thing; packet boundaries | what the device signs is what is submitted |
| Address book, notifications, settings, auto update, main process, user interface | forms and rows of their own | | pure I/O, layout, or one statement per operation | not modelled, see section 17 |

### How they interact

* `startClient` (an unlock, or a change of the node in the settings) opens a new
  connection and calls `listenForTransactionStatus` and `listenForAccountStatus`,
  which read the pending rows and start a monitor for each. Nothing stops the
  monitors of the connection before. `listenForIdentityStatus` is called by
  `initApplication` only, at an unlock, once in the life of the process.
* A page that submits something inserts a pending row and starts a monitor of its
  own.
* A monitor waits for the finalization and writes the database and the store.
* Loads and polls read the node, the proxy and the database, and write the store.
* The user opens, leaves, and acts on pages at any moment between two awaits.

## 2. Plan

| Module | Abstraction of | Composes | State |
|---|---|---|---|
| `TransactionRecord` | the promise of the transaction table | | done |
| `TransactionStatus`, `TransactionStatusProofs` | pending transactions and their monitors | implements `TransactionRecord` | done, proved |
| `MultiSignatureProposal`, `MultiSignatureProposalProofs` | proposals and everything that writes them | | done, proved |
| `ShieldedBalance`, `ShieldedBalanceProofs` | one account's encrypted and decrypted amounts | | done, proved |
| `TransactionList` | the list of the chosen view and its loads | | done |
| `AccountCreation`, `AccountCreationProofs` | identities and accounts until they are confirmed | | done, proved |
| `WireFormat`, `TransactionSerialization`, `UpdateSerialization` | what is submitted, field by field | | done |
| `LedgerPackets`, `LedgerSigning` | what is sent to the device, packet by packet | the three above | done |
| `LedgerConnection`, `LedgerConnectionProofs` | the status of the device | | done, proved in part |
| `UpdateHandlers`, `GovernanceKeys`, `AccessRights`, `GovernanceUpdate` | update instructions, and the editors of the keys | `GovernanceUpdate` implements `AccessRights` | done |
| `WalletImport` | merging a backup | | done |
| `Recovery`, `RecoveryProofs` | the search for the accounts of a Ledger | | done, proved |
| `TransactionCosts`, `StakingForms`, `StakingChain`, `AccountTransactionFlow`, `AccountTransactionFlowProofs` | the staking forms | `TransactionSerialization` for the sizes the fees depend on | done, proved |
| `ParameterFields`, `ParameterForms`, `ParameterProposal`, `ParameterProposalProofs` | the forms of the chain's parameters | | done, proved |
| | transfers, schedules, credential updates, the password of the database | | left |

Runs stay small (one or two transactions, proposals or accounts; two or three
connections), because each hazard needs two actors and one or two crossed steps.
Left to state: an abstract life of a proposal that `MultiSignatureProposal`
implements, and a balance that is hidden or true for `ShieldedBalance`. Left to
prove: the refinement of `AccessRights`.

| Run | Module | States | Fairness | Deadlock |
|---|---|---|---|---|
| `transaction_status` | `MCTransactionStatus` | 316 172 | yes | checked |
| `ledger_connection` | `MCLedgerConnection` | 236 001 | yes | not checked |
| `account_transaction` | `MCAccountTransactionFlow` | 720 641 | none needed | checked |
| `parameter_forms` | `MCParameterProposal` | 502 325 | yes | not checked |
| `multi_signature` | `MCMultiSignatureProposal` | 568 922 | yes | not checked |
| `shielded_balance` | `MCShieldedBalance` | 778 953 | yes | checked |
| `transaction_list` | `MCTransactionList` | 257 484 | yes | not checked |
| `account_creation` | `MCAccountCreation` | 156 590 | yes | not checked |
| `ledger_signing` | `MCLedgerSigning` | 7 850 | none needed | not checked |
| `governance_update` | `MCGovernanceUpdate` | 1 757 654 | none needed | not checked |
| `wallet_import` | `MCWalletImport` | 3 848 400 | none needed | not checked |
| `recovery` | `MCRecovery` | 568 915 | yes | checked |

Where deadlock is not checked the system may stop: everything has been decided
and the bounds of the users and of the network are used up.

## 3. Transaction status

`TransactionStatus.tla` models `SubmitTransaction`, `startClient` and
`listenForTransactionStatus`, `monitorTransactionStatus`, `confirmTransaction`,
`rejectTransaction`, and the two loads of the list as far as they touch pending
rows. `TransactionRecord.tla` is its abstract specification.

| Variable | Code |
|---|---|
| `chain` | what the network has done with a transaction (external) |
| `row` | the `status` column of the row in the transaction table, `"none"` if there is no row |
| `submit` | how far `ledgerSignTransfer` has got after signing |
| `listener[c]` | the `listenForTransactionStatus` of the c-th `startClient` |
| `monitor[t][o]` | the monitor of `t` that the submission (`o = 0`) or call `o` of `startClient` started |
| `entry` | the status of the transaction in the list of the store |

A step is what runs between two awaits, or one statement that SQLite executes.
A load of the list is one step: what the proxy has sent earlier is a subset of
what is finalized when the load is fulfilled, and the rows are selected in the
statement right before that. Database writes succeed, except the insertion of a
pending row, whose failure the code catches. That an entry can be in the list
twice is left to `TransactionList`.

| Run | Question | Size |
|---|---|---|
| `transaction_status` | Safety and liveness with four `startClient` calls and loads at any moment; does the table implement `TransactionRecord` | one transaction with up to five monitors, more than the two any interleaving needs; the theorems cover any number of transactions |

Bounds: `Tx` and `MaxConnections`. `Stop` needs a connection left, so that the
bound never keeps the user from unlocking again.

Fairness: every wait ends (the gRPC client gives each call a deadline,
`defaultDeadlineMs` in `preload/grpc.ts`), what the event loop has been given runs,
and the user unlocks the wallet again. Nothing is assumed of the chain, of
submissions or of loads.

What it shows: no pending row is forgotten however connections and restarts hand
it on (`PendingIsWatched`); a row that one monitor has deleted is not brought
back by the late rejection of another (`DeletedStaysDeleted`, which holds because
`updateTransaction` is an UPDATE and not an upsert); the list is not left showing
as pending what the wallet has settled (`SettledIsNotShownPending`); and the
table keeps the promise of `TransactionRecord`. That a rejected row was rejected
by the chain is `RejectedIsNotFinalized`, a deviation (section 15).

## 4. Multi-signature proposals

`MultiSignatureProposal.tla` models the table, the store, the page the user is
on, and everything that carries a version of a proposal: `statements` on their
way to SQLite (one connection, hence a queue), `answers` on their way back,
`loads` (signature files being verified), `submissions` (the effect of
`SubmittedProposal`) and `monitors` (`getMultiSignatureTransactionStatus`).

`updateCurrentProposal` dispatches at once and issues an UPDATE of the whole row
nobody awaits (`statements`); a monitor awaits its UPDATE, then `loadProposals`
selects all rows, and the rows reach the store when the answer does. A visit of
a proposal's page captures the entry it was rendered with; the mount effect of
`ProposalView` calls `HandleSignatureFiles` with no files and so writes the
captured entry back. Inserting a new proposal is awaited and is one step with its
dispatch. Files dropped together are one load.

The user awaits nothing: pages are opened, left, submitted and cancelled while
statements, answers, files and submissions are under way. `MaxPending` bounds, for
TLC, how many of them there are when the user acts. Two history variables, which no
action reads, name what has happened to a proposal: `waited` has those whose monitor
has ended, and for which none was started since; `crossed` has those for which the
last load brought rows that were older than a write issued meanwhile. `Versions(p)`
is all there is of a proposal: its row, its entry, and what is on its way or in the
hands of a file, a submission or a monitor.

The run has one proposal of an account transaction, two signers, threshold 2, four
page visits, two connections (a restart or a change), and user actions while one
thing is under way, which is enough to cross two of them: sign, submit, fail, return,
submit again, cancel, a file that is verified after the proposal was submitted or
closed, a page that is opened while a load is on its way, and monitors of different
connections that overlap. Several proposals meet only in the queue of the statements
and in the rows of a load; that they do not disturb each other is what the theorems
add, which hold for any number of proposals, signers, visits, connections and things
under way (section 16).

Fairness: SQLite executes, answers arrive, a wait or a request ends at its
deadline, and the user unlocks again.

What it shows, for every user. Neither table nor store ever claims a status the chain
contradicts (`StatusIsTrue`). What becomes submitted or settled carries the signatures
the chain asks for, in every version, although a file that is verified late overwrites
the entry under the submission (`SubmittedIsSigned`). A submitted proposal is followed
(`SubmittedIsFollowed`) and settled (`SubmittedIsSettled`) until its monitor has ended.
Once no version of a proposal is earlier than cancelled, submitted or settled, none
becomes so again (`StatusMovesOn`), and a signature that every version has is never lost
(`SignaturesStay`): what is undone is undone by somebody who has had the proposal in
hand since before. When nothing is under way, the store shows the table but for the
proposals that were written while the last load was on its way (`StoreIsTable`).

What the comments of the code say beyond that does not hold, and the module states it
next to the properties: a file that is verified late opens a cancelled proposal again
(`ClosedStays`) or loses a signature (`AddedStays`), and as boxes stay ticked, too few
signatures may be sent, which the node refuses (`TickedIsSigned`); a load shows an older
row until the next one (`LoadedIsCurrent`); and a page opened between a monitor's UPDATE
and its load writes the proposal back as submitted, followed by nobody until the next
connection (`NoneIsForgotten`).

Two smaller observations, of code rather than of a run: the `Failed` branch of
`SubmittedProposal.tsx` cannot be reached, as a hash is never falsy; and
`ProposalHelper.ts` documents that an expired proposal is set to failed, where
the code sets it to expired.

## 5. Shielded balance

`ShieldedBalance.tla` models one account. The chain keeps an encrypted self amount
and a list of encrypted incoming amounts; the wallet keeps both, a decrypted
total, and whether the total is complete, in the account table (`row`) and in the
store (`account`), and the node's amounts once more in the store's accountInfo
(`info`). An amount is given by the transfers it counts, so that a total counts
each transfer once, or twice, or not at all (`Worth`, a bag).

| Variable | Code |
|---|---|
| `chain`, `outcome` | the network (external): receipts, transfers of another wallet, own transfers that succeed or fail |
| `transfer[t]` | `ledgerSignTransfer` of an own shielded transfer or unshielding, then its monitor; `base` is the accountInfo the payload was computed from |
| `pending` | the transfers with a pending row |
| `poll[p]` | an update under way: `updateAccountInfo` by the account view, or `loadAccounts` and `loadAccountInfos` by the account page, step by step between the awaits |
| `decryption` | `DecryptComponent`, which writes the total of the amount it was given to both copies |
| `overtaken`, in `row` and `account` | nothing in the code: whether the copy's last decryption was overtaken, that is, the copy no longer had the amount that was decrypted, or something under way did not know of a receipt it had (`Overtaken`); no step depends on it |

A database write is atomic when it is issued, since all statements use one
connection in order. Of a shielded transfer in the list it is left open whether its
own amount has been decrypted. The account starts new and empty. `Disturbance` names what
may go wrong, so that a run can say under which of it a property holds:
`failure` (a valid transfer fails on the chain), `rejection` (a wait throws),
`early` (a transfer is finalized before its row is inserted). A transfer that
was computed from an amount that has changed always fails.

The run has one own transfer, one of another wallet, one receipt, and one update
at a time, of either kind, next to the transfer's monitor; every disturbance, and
decryptions that begin and end at any time. That suffices for an update and a monitor to overwrite each other; a
second update would only repeat it.

Fairness: the timer of the account view keeps asking (30 seconds,
`useAccountSync`), a node that is asked again and again answers, a transfer that
was sent is finalized one way or the other and its monitor goes on. That the user
comes back to the account page is a premise of `VisitsRestore`, not an
assumption.

What it shows. A total that is called decrypted next to the amounts of the chain is
the balance, in the table and in the store, however updates, visits, decryptions,
failures and rejections cross, unless the decryption that wrote it last was
overtaken (`BalanceIsHeld`); and the user who comes back to the account page, which
asks without comparing, gets the amounts of the chain (`VisitsRestore`). What
fails, `DecryptedIsHeld`, `OwnTransferStaysDecrypted` and
`NoFailedTransferCounted`, is in section 15.

Copies left by an overtaken decryption are exempt because the code gets them
wrong: `decryptAccountBalance` writes the sum of the amounts it captured as the
complete total of whatever amounts the account has by then; or a receipt is
decrypted while a transfer is pending, and the monitor stores the total computed
before the receipt. A later decryption, or an update that hides the balance, ends
the exemption. `BalanceIsHeld` holds for any number of transfers, receipts and
updates (`ShownBalanceIsHeld`, section 16). The visits are needed, too: without
them the account need not catch up, since a monitor puts a newer accountInfo in the
store, for instance while another account is in view, and `updateAccountInfo`, which
looks at the account only if the accountInfo has changed, then finds nothing new.

Left out: shielding (which the chain treats differently), plain transfers of the
same account (their pending rows also postpone a self update), second monitors of
one transfer, restarts.

## 6. Transaction list

`TransactionList.tla` models `loadTransactions`, `loadNewTransactions`,
`reloadTransactions` and the effects of `useAccountSync` and
`BasicTransferRoutes`, over a proxy whose list grows. A view is an account with a
variant of its list. What a request asks for is read when it is dispatched
(`load[l]`), and its answer is applied to whatever the list is by then; `latest`
is the request identifier, `lock` the queue of the loads.

The run: two accounts, the public and the shielded list, three transactions,
pages of one, two loads and one reload under way, one change of the view, one
failure. Fairness: requests end, and what waits for the lock goes on when it is
free; nothing is assumed of the user. That a request ends is an assumption about
the network and the wallet proxy: `preload/http.ts:38` creates its axios client
without a timeout, so a request that is never answered keeps the lock, and the
loads behind it wait until the application is restarted.

What it shows. The list a view settles on is that view's, without gaps or
duplicates, unless a request older than the list was merged into it
(`SettledListIsWhole`); every load ends and frees the lock (`LoadsEnd`). `ListIsAlwaysWhole`, the same for
every state, is a deviation.

Seen while modelling: `abortRef` in `BasicTransferRoutes.tsx:29` captures the
loads at mount, so that appending loads are never aborted;
`setViewingShieldedAndReset` creates a `resetTransactions()` it does not
dispatch; a change of the amount during the first load is missed until the next
change; a reload runs without the lock and is not aborted. Left out: the pending
rows, the enrichment of an entry, and a proxy that lags behind itself.

## 7. Identities and accounts

`AccountCreation.tla` models `ExternalIssuance` and `IdentityStatusPoller` (request,
pending rows, polling, confirmation or rejection in one transaction that may be
rolled back, resuming), and `GeneratePage`, `AccountStatusPoller` and the two
tables they write (the pending account, its credential, the deployment, removal
when it cannot be sent, monitors). knex has one connection to SQLite, so that a
transaction is one step even where nobody awaits it (`identityDao.ts:131`); what
can go wrong is its rollback, on an address that is in the address book already
(`identityDao.ts:146`).

The run: one identity, two further accounts, two connections, two requests, one
lost answer, stops at every step. Fairness: the provider and the chain decide,
the user unlocks again, what was started goes on.

What it shows: identity, initial account, credential and address book settle
together (`IdentityIsWhole`); nothing that was sent is forgotten except in the
windows the properties name (`NoIdentityIsLost`, `NoAccountIsLost`); the number
the next account gets is free on the chain (`NextAccountIsFree`); whatever is
pending is settled (`PendingSettles`). The four invariants are proved for any
number of identities, accounts, connections and requests (section 16).

Monitors of identities are told apart by address and not by transaction; the
SELECT of a listener and the start of its monitors are one step. Left out:
credentials of shared accounts (`GenerateCredential`), genesis accounts, and
`!credentialNumber` at `GeneratePage.tsx:145`, which refuses number 0 (the
initial account has it).

## 8. Signing on a Ledger

`WireFormat` has fields, sizes and sequences of them; `TransactionSerialization`
and `UpdateSerialization` are what the wallet submits, `LedgerPackets` what it
sends to the device, for every kind of account transaction and update instruction.
`LedgerSigning` is the protocol: packet by packet, refused or interrupted at any
of them, then signed again from the beginning.

A field is its name, the member it belongs to and its size, so that an order, a
field or a length that only one of the two encoders has shows. The run takes
every kind, with texts, memos, schedules, keys and attributes on both sides of
every packet boundary and of length 0 (`MCLedgerSigning` lists them).

What it shows: what the device has hashed is what is submitted
(`SignedIsSubmitted`), and a stream has no packet that is empty or too large
(`StreamIsReadable`).

For update instructions the wallet also verifies the signature
(`SignTransactionProposal.tsx:97`, `CosignTransactionProposal/util.ts:33`); for
account transactions it does not. `CredentialDeployment.ts:39` sorts the indices
of keys as strings, which is their order up to nine keys, the bound here. Left
out: credential deployments and the public information for an identity provider.

## 9. Governance updates

`UpdateHandlers` says, for each type, what its handler takes from the chain and
stores. `GovernanceKeys` has the editors of the root, level 1 and level 2 keys.
`GovernanceUpdate` is the life of an update: menu, page, editor, Ledger, stored
proposal, signature files, submission with parameters read once more, inclusion,
while other updates are made, keys rotated and thresholds raised. `AccessRights`
is the abstract specification of an editor: what a page shows as the right of a
key is what the proposal gives it; `ImplementsAccessRights` is the refinement.

The run: three custodians, two new keys, two access structures, the oldest and
the newest chain, two proposals, one change of the chain, four edits. Editing and
changes of the chain are not combined: an edit has threshold 1 and one proposal.

What it shows: an update the node refuses was outdated by the chain, not wrong
when it was made (`RefusedIsOutdated`); a payload has no threshold above its keys,
no index outside of them and none twice (`PayloadIsWellFormed`); and the editors
keep rights through every shift of the indices (`ImplementsAccessRights`).

Facts the model rests on: `InlineNumber` reports its value when it is mounted, so
that the page of the thresholds checks edited ones; the payload is stored raw and
read without removed keys; the order of signature files is left to
`MultiSignatureProposal`. Seen while modelling: an exception of
`sendUpdateInstruction` is shown as "Unauthorized key" and leaves the proposal
open (`SubmittedProposal.tsx:121`); a signature whose key was removed cannot be
taken off; a key of the chain that is marked "Removed" and proposed again stays
removed. Left out: key updates are not applied to the chain when they are
included, and cosigning is loading a file.

## 10. Import

`WalletImport.tla` merges a file into a database, both copies of the same user's
Ledgers, in which one row may have different keys. `todo` holds the statements
ahead; the import may stop between any two, and is then done again. What is to be
done is worked out from rows read when it starts and from the store, which
may be older than the tables.

The run: every database and file with two identities out of three, the first one of
one Ledger and the first two of another, in every order of the wallets that
`MCWalletImport` lists (169 560 initial states), imported twice. The two Ledgers have
an identity of the same number, as each counts from 0, and one order has a third
Ledger between the two. No fairness: nothing is promised.

What it shows: every imported row refers to the row it referred to
(`ReferencesAreTrue`), an import that ends has everything (`ImportedIsWhole`), it
fails only for a file that contradicts the database (`FailsOnlyAtOdds`), also when
numbers are equal, when an import is cut off, and when it is repeated from a
store that is older than the tables.

Two exceptions are part of these statements, and history variables say where they
apply. A placeholder has no randomness, and `importHelpers.ts:486`, `:516` and `:545`
match it by number and month, or by number alone, without its wallet: of the
placeholders in `alike` (in the file, with one of another Ledger of the same number
in file or database) it is only shown that their accounts are there and refer to an
identity of their number; one of two may be missing, and the import may fail. And
a failed import that is repeated without unlocking anew (`stale`) works out what is to
be done from a store that lacks what the first one has inserted, and inserts an
identity twice; this takes a third wallet, since new wallets come last.
`EveryReferenceIsTrue` (section 15) is the statement without them.

A pending identity in the file and a confirmed one in
the database, or the reverse, can never be imported. A changed note of an external
credential is worked out (`importHelpers.ts:853`) but not stored, as
`externalCredentialDao.ts:29` ignores conflicts. Left out: choosing and decrypting
the file, the genesis hash, accounts with several credentials.

## 11. Recovery

`Recovery.tla` models the page, `performRecovery` and its abort controller: one
identity number after the other, each credential looked up, everything found
inserted in one transaction, with a placeholder for an unknown identity; giving
up, coming back while the old search is still at work, and a requested identity
that is issued meanwhile.

A lookup that fails is taken for a credential that is not there
(`pages/Recovery/util.ts:146`). The history variable `missed`, which no action
reads but the bound of the failures, keeps the credentials that were lost so: those
that are there and whose own lookup failed in a search that was not given up. An
aborted search inserts nothing more and drops all it has after its next lookup
(`GivenUp` drops it at once).

The run: two identity numbers with two credentials, two searches, refusals on the
device, lookups that fail, whichever they are, for up to two credentials
(`MaxMissed`), so that a search may miss one and the next search the other; the
bounds `MaxDeployed`, `MaxPending` and `MaxOld` limit the initial states. Fairness:
searches and the poll go on, the user continues and, if asked again and again, allows
(SF).

What it shows. Every credential refers to its own identity and has an account, and
an identity is in the table once, unless a lookup of one of its credentials has
failed (`TablesAgree`): a search that does not know what the search before it
inserted notices by finding the credential again, and if that lookup fails it inserts
a second placeholder for the identity with the credentials it does find. What a number
that is called done has on the chain is in the tables, except for the credentials
whose own lookup has failed (`DoneIsRecovered`): what such a failure makes the
searches miss later is nothing else. Both are proved for any numbers of identities,
credentials, searches and failures (section 16). A user who does not keep giving up
comes to the end (`RecoveryComesToAnEnd`), unless an identity is in the table
twice: `RecoveryAlwaysEnds` and `DoneIsAllRecovered` (section 15) are the same
without these exceptions. A stop during the insertion leaves the number stuck until
the page is left, since its list of identities is stale. A search that is stopped
drops what it has found.

## 12. Ledger connection

`LedgerConnection.tla` models the observer of the main process (`hid` and
`detached` events, `jobs` that wait for the transport lock, the poll, messages),
the reducer of the renderer, and submissions, which use the device without taking
the lock.

The run: three changes of the device (plugged, unplugged, locked, another
application), two submissions; four changes pass too (2.6 million states).
Fairness: events and messages are delivered, jobs end, the timer expires, and a
submission times out (30 seconds).

What it shows: the status comes to be the device's (`StatusSettles`), and a
submission is offered on the observer's word only (`ReadyIsHeard`, proved). A
locked device is exempt (`unheard`): `updateLedgerState` returns silently and
nothing asks it again. The interval of the poll is not cleared on an error,
although the comment at `ledgerObserverImpl.ts:97` says so; `resetTransport` does
not tell the renderer. Left out: errors of the HID listener, the emulator.

## 13. Staking forms

`AccountTransactionFlow.tla` models `MultiStepForm`, the form of an account with
one signature (`AccountTransactionFlow.tsx`) and the form for several
(`MultiSigAccountTransactionFlow.tsx`), for the nine transactions that add, change
and remove a validator or a delegation. `StakingForms` has the pages' rules, the
existing values, the differences and the payloads; `TransactionCosts` the fees,
from the sizes of `TransactionSerialization`; `StakingChain` is the node
(external): the reasons it has to refuse, the account afterwards.

| Variable | Code |
|---|---|
| `info` | `accountsInfo` of the store; `chain` is the account on the chain |
| `trail` | the browser's history within the form, the last page is shown |
| `values` | the value store of `MultiStepForm` |
| `saved` | the values `handleDone` puts into the history entry (one signature only) |
| `keys` | the keys `GenerateBakerKeys` has made for the page |
| `nonce`, `asked` | the nonce of `withNonce` or `useAsyncMemo`, and the requests under way |
| `tx` | the transaction that was made, then what the chain has said to it |

`fresh` and `exported` are there for the properties only. A value that is
`undefined` is a field that is not in the domain of a function. A commission is a
double: 6 712 of the 100 001 fractions come out of the page (`d * 100`, then `/ 100`)
as another double and are then cut to one part less (`FallsShort`,
`ReadsDifferent`; 35 is one of them).

The run: two accounts with the roles and stakes of `MCAccountTransactionFlow`
(none, validator above and below the minimum, in cooldown, delegator to a pool and
passive), one form, amounts at the bounds of every rule, the longest metadata URL,
one change by others, seven pages in the history, two sets of keys. A fee of
several microCCD on an account of 1 000 keeps the bounds of the rules and the
fees apart. No fairness: nothing is promised.

What it shows. A transaction that succeeds on the account it was made for leaves
the account as the form says, in the fields the payload leaves out too
(`ConfigurationIsTheForm`). If nothing has changed since the form was opened,
neither the account nor the choice of the account, the chain does not refuse it
for a reason the form looks for (`RefusedIsStale`). Among these reasons is that the
balance pays for stake and fee only while the account stakes nothing: a delegator who
goes back by the history to the end of the form, after changing the target only, has
a field more in the transaction than the fee was checked for, and so has a validator
whose stake page estimates the fee from what it had before. The node looks for
the fee before anything else. The keys in a transaction are in a file, with the
account's index unless another account has been chosen since the form was opened
(`SubmittedKeysAreSaved`). A form of one signature that is come back to from the
submission closes if its account is no longer offered it: `Baking.tsx` and
`Delegation.tsx` redirect.

Seen while modelling: an untouched commission of the pool form may be lowered by
1/100000, and then is a change although nothing was changed
(`configureBaker.ts:263`); the preview of `ConfigureDelegation.tsx:60` for several
signatures has the arguments of `getDelegationFlowChanges` swapped and shows the
existing values; keys that were generated for one account are used for the next
one when the account is changed, although their proofs are bound to the first;
a change of the account in the middle of a form keeps the page and drops the
values, so that the transaction has the fields of the last pages only;
`UpdateBakerStakePage` estimates the fee from what the page had before; neither
stake updates, removal, suspension nor keys compare the fee with the amount at
disposal; a delegation is compared with the pool's cap and not with the room left
in it; the error modal of the nonce dispatches a string
(`MultiSigAccountTransactionFlow.tsx:269`).

## 14. Parameter forms

`ParameterForms` has, for each of the 22 updates of chain parameters, the fields
of its form with their components, rules and widths, the conversion to the
payload, and the view of a proposal. `ParameterFields` has the components:
`InlineNumber`, the rates, the mint rate with its annual rate, the percentages,
their ranges, and the two shares of a distribution with their third.
`ParameterProposal` is the page: `BuildProposal`, the effects, the way to the
signing page and back (`MultiSignatureCreateProposal`).

| Variable | Code |
|---|---|
| `now`, `was` | each field at the latest commit and the one before: its value in the form, its texts and inner values |
| `fresh` | the effects of the mount have not run |
| `focus` | the input that has the focus, whose text is not formatted |
| `stage` | on the form, waiting for the node's answer about a token or an account, on the signing page |
| `fields`, `texts` | what was submitted, and what the form showed then |
| `payload` | the payload of the proposal |

An event of the user makes a commit. `UseEffect` is what React does after it:
the effects whose dependencies have changed run, and what they set is the next
commit. A number is its value in parts of a fixed grid (`Tick`), with the ones
that are not on it told apart; a text is a number, empty or junk; `Inexact` holds
the percentages whose double is cut to one part less.

The run: every form, mounted with the chain's values or with a draft, two texts
out of those that lie on both sides of each rule, one return from the signing
page. The widths are 2^12 and 2^13 instead of 2^32 and 2^64, a whole is 1 000
parts, a year 20 epochs: only the order of the bounds matters. Fairness: React
runs the effects of a commit.

What it shows. What is written of a proposal is what the form showed when it was
submitted, under its own label (`ProposedIsShown`), for values that fit their
width, which is proved for every grid, every chain's parameters, every draft and
every text. The shares of a distribution are never less than nothing and never more
than a whole, in any commit on the way (`SharesAddUp`, proved for any values of the
form, any grid and any number of events). The effects, which copy
values between the texts, the components and the form in both directions across
a rounding, come to an end (`EffectsSettle`), with the exception of section 15.

Seen while modelling: a capital bound has no rule, so that a negative one is
accepted and written modulo its width; of a commission range only the minimum is looked at by the
rule; 2^64 passes the comparison of doubles and wraps; a mint rate with a mantissa
above 2^32 - 1 is accepted and cannot be serialized; a leverage bound of 0/0 makes
`createTransaction` throw, and so does an auxiliary file that was taken back. Left
out: dates, the decimal comma, changes of the chain while the form is open, a user
event between a commit and its effects.

## 15. Deviations

Statements of docs, comments or messages that the code does not keep. They are
defined in the modules; add one to the configuration named to see the
counterexample.

| Property | Configuration | What happens |
|---|---|---|
| `RejectedIsNotFinalized` | `TransactionStatus` | any exception of the wait ends in `rejected`, and nothing looks at such a row again |
| `FinalizedStays` | `MultiSignatureProposal` | a second monitor, started by a change of connection, turns a finalized proposal into a rejected one when its wait throws |
| `ClosedStays`, `AddedStays` | `MultiSignatureProposal` | a signature file that is verified late is added to the version it was dropped on, which is written back (`ProposalView/util.ts:252`): it reopens a cancelled proposal, or undoes another signature |
| `TickedIsSigned` | `MultiSignatureProposal` | the boxes are never unticked, so that a proposal that has lost a signature can be submitted |
| `LoadedIsCurrent` | `MultiSignatureProposal` | the rows a load brings replace the store, with what was written since they were read (`MultiSignatureSlice.ts:60`) |
| `NoneIsForgotten` | `MultiSignatureProposal` | a page that is opened before the outcome of a monitor is loaded writes the proposal back as submitted (`ProposalView.tsx:97`) |
| `UsedNonceIsAnothers` | `MultiSignatureProposal` | a send whose answer was lost uses the proposal's nonce; the retry closes the proposal as if another transaction had used it |
| `DecryptedIsHeld` | `ShieldedBalance` | a decryption that ends after the account has changed calls the total of the old amounts complete (`AccountSlice.ts:686`), also when a transfer under way does not know of a receipt that was decrypted |
| `OwnTransferStaysDecrypted` | `ShieldedBalance` without receipts and other wallets | the account and the pending rows are read in two statements; a transfer that settles in between passes for an external change and hides the balance |
| `NoFailedTransferCounted` | `ShieldedBalance` | a transfer that failed on the chain is deducted all the same, until an update finds the old amount and hides the balance |
| `ListIsAlwaysWhole` | `TransactionList` | an older request is merged into a newer list |
| `IssuedIsConfirmed` | `AccountCreation` | a confirmation is rolled back, and nobody is told |
| `OneOpenPerType` | `GovernanceUpdate` with `Edited = {"emergency"}`, `ProtocolVersions = {4}`, no edits | the create page looks for open proposals with the menu's type, which is not the stored one for `UpdateMintDistributionV1` and `UpdateGASRewardsV1` (`MultiSignatureCreateProposal.tsx:83`): a second proposal with the same sequence number is made, although the page says that an unsubmitted one must be submitted or cancelled first (`:122`) |
| `VersionIsCurrent` | `GovernanceUpdate` with `ProtocolVersions = {9}` | `GasRewards/util.ts:9` asks for parameters of exactly the second version and proposes the old update on newer chains, although `src/CHANGELOG.md:127` announces the new one |
| `EveryReferenceIsTrue` | `WalletImport` | recovered identities of two Ledgers with the same number are taken for "identities that exist in the database, but with separate logical ids or names" (`importHelpers.ts:508`), so that the accounts of one come to the other; a failed import that is repeated inserts an identity twice |
| `RecoveredIsNoObstacle` | `WalletImport` | a file with a recovered identity whose real one is in the database cannot be imported (`importHelpers.ts:542`) |
| `DoneIsAllRecovered` | `Recovery` | a credential whose lookup fails is taken for one that is not deployed (`pages/Recovery/util.ts:148`): its number is called done, and later recoveries start after the highest number the wallet knows |
| `RecoveryAlwaysEnds` | `Recovery` | once failed lookups have put an identity into the table twice, what a search finds with the first row clashes with the credentials of the second, each time the number is searched again |
| `AnsweredIsNotPending` | `Recovery` | recovering credential 0 of a pending identity makes its confirmation roll back for ever (`identityDao.ts:116`) |
| `NextFindsDeviceReady` | `LedgerConnection` | after a declined signature the status is ERROR until a USB event, although `useLedger.ts:149` says "so the next signing screen finds the device ready immediately" |
| `SubmissionIsAlone` | `LedgerConnection` | a second message during a submission enables another one |
| `SuspensionDoesWhatItSays` | `AccountTransactionFlow` | the form for several signatures announces a suspension and makes the transaction that resumes validation (`pages/multisig/AccountTransactions/BakerSuspension.tsx:89`) |
| `NonceIsOwn` | `AccountTransactionFlow` | the nonce of the account picked before is used until the new one is there, and answers may cross (`MultiSigAccountTransactionFlow.tsx:199`) |
| `EffectsAlwaysSettle` | `ParameterProposal` | a mint rate with more digits than its input shows, submitted with Enter and mounted again, makes the annual rate and its text change places for ever |
| `BackRestores` | `ParameterProposal` | the way back from the signing page restores with `||`, so that 0 is taken for nothing; the token form and the stake threshold restore nothing; the finalization commission gets the range of the transaction commission (`UpdatePoolParameters.tsx:189`) |
| `GovernanceAccountExists` | `ParameterProposal` | react-hook-form takes the values at the click and reads a field again when it comes to check it, after the node has answered: the account that was checked need not be the one that is submitted (`CreatePltParameters.tsx:191`) |
| `WhatIsProposedFits` | `ParameterProposal` | a number that does not fit its width is written modulo it; a capital bound that is no number is written as 0 |
| `PercentagesAreExact` | `ParameterProposal` | a percentage whose hundredth is no whole number of parts as a double is cut to one part less in the fields without a rule (1.001 % is written as 1.000 %); fields with a rule refuse it |

Two observations of code rather than of a run: the `Failed` branch of
`SubmittedProposal.tsx` cannot be reached, as a hash is never falsy; and
`ProposalHelper.ts` documents that an expired proposal is set to failed, where
the code sets it to expired.

## 16. Proofs

Eight modules hold theorems for every value of the constants. They assume only
what the modules state of their constants: bounds are natural numbers, `"none"` is
no proposal, the set of signers is finite, own transfers, transfers of another
wallet and receipts are different things, the smallest and the largest commission are
read as they are, an account has the configuration of its role, a threshold is a
natural number, the values of the chain and of a draft have the shape of their
fields and a distribution among them consists of two shares of a whole, a text is a
number, empty or junk, and a product that a double gets wrong is one of a number on
the grid (of any other one the part that is cut off is there anyway). A theorem
with a further hypothesis says so in its statement.

* `TransactionStatusProofs`: `TypeCorrect`; `PendingNeverForgotten`,
  `DeletionIsFinal` and `SettledIsShown` from one inductive invariant `IInv`; and
  `Implementation`, that the table implements `TransactionRecord`. The invariant
  adds to the three properties that before a row is inserted nobody knows of the
  transaction, that the submission and each connection start one monitor, and
  that a monitor deletes only what the chain has finalized: without these a late
  monitor could find a row that was inserted again.
* `MultiSignatureProposalProofs`: `TypeCorrect`; `StatusIsAlwaysTrue`, from the
  invariant that every version in flight (statements, answers, loads,
  submissions, monitors) is true of the chain. It is inductive because the chain
  only moves on and each statement a status makes of it is monotone
  (`TruthStays`), so that a late write may be stale but cannot be false. It holds
  for any number of proposals and users who await nothing, and so do the others. They
  rest on one lemma, `NextComes`: a version of a proposal after a step is one there
  was before, or made from one in one of four ways (`Made`), which need that files and
  submissions have open versions in hand and monitors submitted ones
  (`InHandIsRight`). `SubmittedIsAlwaysSigned`, `StatusAlwaysMovesOn` and
  `SignaturesAlwaysStay` follow from it. `SubmittedIsAlwaysFollowed` needs `IsWatched`:
  unless its monitor has ended, a proposal has a monitor, or no version of it is
  submitted, or all are and a listener that will see one is ahead (`ListenerStays`).
  `StoreIsAlwaysTable` needs `IsShown`: unless a load is ahead, the store has what the
  row will be when all statements are executed (`WillBe`).
* `LedgerConnectionProofs`: `TypeCorrect`; `RendererOnlyRepeats`, for any number of
  submissions and changes of the device.
* `AccountCreationProofs`: `TypeCorrect`, which includes that no account and no
  credential refers to an identity that is gone; `IdentitiesSettleWhole`,
  `IssuedIdentitiesAreKept`, `SentAccountsAreKept` and `NextNumberIsFree`. The
  invariant `IInv` adds to the properties what makes them inductive: that an
  identity somebody polls is pending, and one the provider has taken is in the
  table or in the hands of the page (`IdentitiesAreHeld`), that the rows of an
  account are there exactly between the page's steps that write and remove them
  (`CreateIsInOrder`), and that no row outlives its identity or is removed under
  the page's monitor (`RowsAreHeld`). That the next
  number is free needs the maximum of a set of numbers, whose existence is
  lemma `MaxOfNumbers`.
* `ShieldedBalanceProofs`: `TypeCorrect`; `ShownBalanceIsHeld`. The invariant orders
  the amounts everybody knows: nobody knows an amount the network has not had
  (`NothingIsAhead`), what a decrypted copy has received is counted in every amount
  that is known or on its way (`NobodyIsBehind`), and a total that is called complete
  counts what its amounts count (`TotalsAreRight`), the last two unless the copy's
  decryption was overtaken. Every step of
  the wallet takes known amounts and copies that fit (`WalletStep`), and a step of
  the network only adds to the past (`NetworkStep`): the properties of all actions
  are instances of these two lemmas.
* `RecoveryProofs`: `TypeCorrect`, `TablesAlwaysAgree` and `DoneIsAlwaysRecovered`,
  whichever lookups fail. The heart of the invariant is `Before`: a list of identities
  that a search or the store holds is the beginning of the table's, and a row it lacks
  has a credential in the block that is shown. So a search with a stale list either
  finds that credential again, and its insertion fails as a whole, or has missed it, or
  searches for another identity. The rest says what a search has found so far
  (`LookedUp`), that the table has the credentials of an identity without gaps
  (`Tables`: the next number starts behind the highest), both but for the credentials
  in `missed`, and that the chain has nothing of a requested identity but its
  initial account (`RequestsAreHeld`, `BlockIsPast`), so that a confirmation cannot
  leave a gap.
* `AccountTransactionFlowProofs`: `FormsAreRight`, `KeysOfTransactionsAreSaved` and
  `FormsAreConfigured` from one inductive invariant `IInv`, `RefusalsAreStale` from a
  second one, `FreshInv`, that holds next to it (`FreshFormsAreValid`). They hold for
  any accounts and configurations, any number of forms, pages in the history, keys
  and changes by others. `IInv` says that an open form has only pages of its
  kind in its history and only values they have let through (`FormIsRight`), that
  every account has the configuration of its role (`AccountsAreRight`), that keys
  in the values, in the history entry and in a transaction are in a file
  (`KeysAreInFiles`), and that a transaction is what its form is converted to
  (`TransactionIsRight`). That the configuration is the form then is a lemma about
  the operators: what is not in the payload is what exists (`ChangesAreAll`), and
  the chain keeps what is not in the payload (`ConfiguredFields`). `RefusedIsStale`
  needs more, because a check made on one page must still count at the end of the
  form, whatever way leads there: every page that comes before one in the history
  has been passed (`PagesArePassed`), what pages let through stays valid for the
  account (`InputIsValid`), and who delegates for the first time comes to the
  expiry only with an amount that is paid for (`AmountIsPaid`). The last two lemmas
  of the argument are that going on keeps the order (`NextComesAfter`,
  `LastComesAfter`, `OlderTrail` for going back) and that a form whose pages have
  all been passed is not refused (`CompletedIsNotRefused`). The proof showed that
  `RefusedIsStale` is false with the balance among the reasons for an account that
  already delegates, at bounds larger than the run's.

* `ParameterProposalProofs`: `SharesAlwaysAddUp`, for the distributions of all types,
  any texts, inexact products and drafts. That no commit shows a share below nothing
  is not inductive: an effect copies what the commit before it had. The invariant is
  therefore about two successive commits, and names the four phases the effects go
  through (`InPhase`): the form's value has been read into the texts, a changed text
  rewrites the other one, the texts are carried to the inner value, the inner value is
  copied to the form. One lemma for each phase says which comes next (`MountIsRead`,
  `ReadIsCarried`, `RewrittenIsRead`, `CarriedIsCopied`, `CopiedIsRead`), and
  `HandleChangeAddsUp` that the other share is what is left of the whole, or nothing.
  `ProposedIsAlwaysShown`, from the invariant `FormIsShown`. What is submitted can
  only be what was shown if a form at rest shows its values, and that is again about
  two commits: `FieldInPhase` gives for each of the six components the phases in
  which a text may differ from the value it will become, and how a step of the
  effects goes from one to the next (`EffectsKeepField`; an event of the user starts
  the first, `FieldIsTyped` and `FieldIsBlurred`). `InputsAreStill` says that only
  the field in focus is new to its effects. A submission needs a form at rest, which
  gives `SubmittedIsShown`: the values are of the kind of their component and shown
  as the texts. `PayloadIsMade` says that the payload is the conversion of those
  values. The rest is about the 22 conversions: the overview of a payload shows every
  field of its form, under its label (`ViewIs`), and a value that fits is written as
  it is (`FitIsWritten`). A rate is reduced on the way and must stay the same
  fraction. That `getGCD` has a value at every pair follows from a function without
  recursion that satisfies its equation (`Greatest`), that it divides both numbers
  from the least number that it would not (`GcdIsDefined`, `GcdDivides`). The
  proof showed that the widths must be tested from below as well as from above (a
  negative bound is no number of any width), which the model now does and the run's
  texts reach.

Model-checked and not proved, with the reason:

* every liveness property: fairness and ENABLED are out of the prover's reach;
* `SettledListIsWhole`, `ReferencesAreTrue`, `ImportedIsWhole` and `FailsOnlyAtOdds`:
  lists that are sorted, selected from and flattened need induction over data;
* `SignedIsSubmitted` and `StreamIsReadable`: the layouts of all kinds of
  transactions are compared by evaluation, which is what TLC does;
* the properties of `GovernanceUpdate`: the editors of the keys add and remove keys
  by folds over a sequence, whose result needs induction over data.

## 17. Not modelled

* Transfers, schedules and credential updates, as forms; their transactions are serialized, signed and submitted
  as modelled.
* The change of the database's password (`PasswordSettingElement.tsx:48`): between
  the rekey and the invalidation of the shared connection other statements may
  run on the connection that was opened with the old password.
* Parsing and formatting of amounts outside of the parameter forms, layout, wording, logging.
* Hashing and the bytes inside a field, which are defined by the chain.
* What a finalized proposal does to credentials and displayed costs.
* Address book, notifications, settings: one statement per operation.
* Auto update, the main process and the preload bridge: forwarding and I/O.
* Migrations of the database.
