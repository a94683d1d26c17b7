------------------------- MODULE AccountTransactionFlow -------------------------
(***************************************************************************)
(* A user fills a staking form, page by page, and submits its transaction. *)
(* The form of an account with one signature (AccountTransactionFlow.tsx)  *)
(* belongs to the chosen account, which the user may change while it is    *)
(* open; the form for several signatures (MultiSigAccountTransactionFlow.  *)
(* tsx) asks for the account on its first page and for an expiry on its    *)
(* last.  Both keep their pages in the browser's history, and both make    *)
(* the transaction from the account information the wallet has at the      *)
(* moment, while other wallets and other signers change the account.       *)
(***************************************************************************)
EXTENDS StakingChain

CONSTANTS
  Accounts,
  InitialChains,      \* the accounts as they may be at first
  InitialPools,       \* the pool an account may delegate to
  Nobody,             \* no account is picked yet
  Threshold,          \* the signatures an account of several signers needs
  Spent,              \* what another transaction takes from an account
  MaxTrail,           \* bound on the pages in the history
  MaxKeys,            \* bound on the validator keys that are generated
  MaxChanges,         \* bound on the changes by others
  MaxFlows            \* bound on the forms that are opened

ASSUME FlowAssumption ==
  /\ \A c \in InitialChains :
       /\ c \in [Accounts -> {c[a] : a \in Accounts}]
       /\ \A a \in Accounts : IsAccount(c[a]) /\ c[a].name = a /\ c[a].amount \in Nat
  /\ Nobody \notin Accounts
  /\ {Threshold, Spent, MaxTrail, MaxKeys, MaxChanges, MaxFlows} \subseteq Nat

VARIABLES
  chain,              \* the accounts on the chain
  pool,               \* the pool on the chain; the forms read it when they need it
  info,               \* the account information the wallet has
  multi,              \* whether the accounts need several signatures
  place,              \* where the user is: "menu", "form" or "submit"
  kind, account,      \* the transaction the form is for, and the sender
  trail,              \* the pages in the history, the last one is shown
  values,             \* what the pages have been filled with
  saved,              \* the values handleDone put into the history entry
  keys,               \* the validator keys on the page, a set of at most one
  nonce, asked,       \* whose next nonce the form has, and whose it waits for
  fresh,              \* nothing the form was filled from has changed
  tx,                 \* the last transaction that was made
  exported,           \* the validator keys that were saved, with their account
  made, changes, flows

formVars == <<kind, account, trail, values, saved, keys, nonce, asked>>
chainVars == <<chain, pool>>
vars == <<chain, pool, info, multi, place, kind, account, trail, values, saved, keys,
          nonce, asked, fresh, tx, exported, made, changes, flows>>
-----------------------------------------------------------------------------
(* The pages of the forms. *)
AddBaker == <<"stake", "openForDelegation", "commissions", "metadataUrl", "keys">>

UpdateBakerStake == <<"stake">>

UpdateBakerPool == <<"openForDelegation", "commissions", "metadataUrl">>

UpdateBakerKeys == <<"keys">>

RemoveBaker == <<"confirm">>

BakerSuspension == <<"suspended">>

ConfigureDelegation == <<"delegationTarget", "delegate">>

RemoveDelegation == <<"confirm">>

FlowPages ==
  [addBaker         |-> AddBaker,
   updateBakerStake |-> UpdateBakerStake,
   updateBakerPool  |-> UpdateBakerPool,
   updateBakerKeys  |-> UpdateBakerKeys,
   removeBaker      |-> RemoveBaker,
   bakerSuspension  |-> BakerSuspension,
   addDelegation    |-> ConfigureDelegation,
   updateDelegation |-> ConfigureDelegation,
   removeDelegation |-> RemoveDelegation]

Kinds == DOMAIN FlowPages

DelegationKinds == {"addDelegation", "updateDelegation", "removeDelegation"}

TypeOf(k) == IF k \in DelegationKinds THEN "configureDelegation" ELSE "configureBaker"

(* The fields a page has in the form's values. *)
PageFields(page) ==
  CASE page \in {"stake", "delegate"} -> {"stake", "restakeEarnings"}
    [] page = "commissions" -> CommissionFields
    [] OTHER -> {page}

(* The accounts the forms for several signatures offer. *)
MultiSigAddBaker(i) == i.role = "None"

MultiSigConfigureDelegation(i) == i.role # "Baker"

MultiSigRemoveDelegation(i) == i.role = "Delegator"

MultiSigBaker(i) == i.role = "Baker"

accountFilter(k, i) ==
  CASE k = "addBaker" -> MultiSigAddBaker(i)
    [] k \in {"addDelegation", "updateDelegation"} -> MultiSigConfigureDelegation(i)
    [] k = "removeDelegation" -> MultiSigRemoveDelegation(i)
    [] OTHER -> MultiSigBaker(i)

(* The same for the pages of the chosen account, which is redirected otherwise. *)
Offered(k, i) ==
  accountFilter(k, i) /\ (k = "updateDelegation" => i.role = "Delegator")

(* What the menu of the account leads to. *)
InMenu(k, i) == Offered(k, i) /\ (k = "addDelegation" => i.role = "None")

Signatures == IF multi = "yes" THEN Threshold ELSE 1

(* The pages in order; none for the account if the form was opened from it. *)
Pages ==
  (IF multi = "yes" /\ trail[1] = "account" THEN <<"account">> ELSE <<>>)
    \o FlowPages[kind] \o (IF multi = "yes" THEN <<"expiry">> ELSE <<>>)

Shown == trail[Len(trail)]

NextPage == Pages[1 + CHOOSE i \in DOMAIN Pages : Pages[i] = Shown]

IsLastPage == Shown = Pages[Len(Pages)]

(* The page of the amount sends the user to that of the target until there is one. *)
Rendered(pages, v) ==
  IF pages[Len(pages)] = "delegate" /\ ~Has(v, "delegationTarget")
  THEN Append(Front(pages), "delegationTarget") ELSE pages

NoTransaction == [outcome |-> "none"]

(* A form shows no page, and no nonce is awaited, when it is closed. *)
Closed ==
  /\ kind' = "none" /\ account' = Nobody /\ trail' = <<>> /\ values' = <<>>
  /\ saved' = <<>> /\ keys' = {} /\ nonce' = Nobody /\ asked' = {}
-----------------------------------------------------------------------------
Init ==
  /\ chain \in InitialChains /\ pool \in InitialPools /\ info = chain
  /\ multi \in {"yes", "no"}
  /\ place = "menu" /\ kind = "none" /\ account = Nobody
  /\ trail = <<>> /\ values = <<>> /\ saved = <<>> /\ keys = {}
  /\ nonce = Nobody /\ asked = {}
  /\ fresh = TRUE /\ tx = NoTransaction
  /\ exported = {} /\ made = 0 /\ changes = 0 /\ flows = 0

Open(k, a, first) ==
  /\ place = "menu" /\ flows < MaxFlows
  /\ place' = "form" /\ kind' = k /\ account' = a /\ trail' = <<first>>
  /\ values' = <<>> /\ saved' = <<>> /\ keys' = {}
  /\ fresh' = (info = chain) /\ flows' = flows + 1
  /\ UNCHANGED <<chainVars, info, multi, tx, exported, made, changes>>

(* The pages wait for the nonce of the account. *)
StartSingle(k, a) ==
  /\ multi = "no" /\ InMenu(k, info[a])
  /\ Open(k, a, FlowPages[k][1])
  /\ nonce' = a /\ asked' = {}

(* The page of the chosen account redirects to the form for several signatures. *)
StartRedirected(k, a) ==
  /\ multi = "yes" /\ InMenu(k, info[a])
  /\ Open(k, a, FlowPages[k][1])
  /\ nonce' = Nobody /\ asked' = {a}

StartMulti(k) ==
  /\ multi = "yes"
  /\ Open(k, Nobody, "account")
  /\ nonce' = Nobody /\ asked' = {}

(* The last answer counts, whichever account is picked by then. *)
NonceArrives(a) ==
  /\ place # "menu" /\ a \in asked
  /\ nonce' = a /\ asked' = asked \ {a}
  /\ UNCHANGED <<chainVars, info, multi, place, kind, account, trail, values, saved, keys,
                 fresh, tx, exported, made, changes, flows>>
-----------------------------------------------------------------------------
(* What a form's page lets through, for the account it is shown for. *)
PageInputs(page) ==
  LET i == info[account]
      confirmed == {v \in {<<>>} : ~hasPendingChange(i)}
  IN  CASE page = "stake" ->
             IF kind = "addBaker" THEN AddBakerStakePage(values, i, Signatures)
             ELSE UpdateBakerStakePage(values, i, Signatures)
        [] page = "openForDelegation" -> DelegationStatusPage(i)
        [] page = "commissions" -> CommissionsPage
        [] page = "metadataUrl" -> MetadataUrlPage
        [] page = "delegationTarget" -> DelegationTargetPage(i, pool)
        [] page = "delegate" -> DelegationAmountPage(values, i, pool, Signatures)
        [] page = "confirm" -> confirmed
        [] page = "suspended" ->
             {[f \in {"suspended"} |->
                IF multi = "no" /\ i.config.suspended = "yes" THEN "no" ELSE "yes"] :
                v \in confirmed}
        [] page = "expiry" -> {<<>>}
        [] OTHER -> {}

(* The payload of the values; that of a suspension for several signers ignores them. *)
convert(v) ==
  LET i == info[account]
  IN  CASE kind = "addBaker" -> convertToBakerTransaction(v, <<>>)
        [] kind = "updateBakerKeys" -> convertToBakerTransaction(v, <<>>)
        [] kind = "updateBakerStake" -> convertToBakerTransaction(v, getExistingBakerValues(i))
        [] kind = "updateBakerPool" -> convertToUpdateBakerPoolTransaction(v, i)
        [] kind = "bakerSuspension" ->
             convertToBakerSuspensionTransaction(IF multi = "yes" THEN "no" ELSE v.suspended)
        [] kind \in {"addDelegation", "updateDelegation"} ->
             convertToConfigureDelegationTransaction(v, i)
        [] OTHER -> convertToRemoveTransaction

(* The page that is shown again, "valid", or "throws". *)
validate(v) ==
  CASE kind = "addBaker" ->
         IF ~Has(v, "stake") THEN "throws"
         ELSE validateAddBakerValues(v, info[account], Signatures)
    [] kind \in {"updateBakerStake", "updateBakerPool", "addDelegation", "updateDelegation"} ->
         IF DOMAIN convert(v) = {} THEN FlowPages[kind][1] ELSE "valid"
    [] OTHER -> "valid"

EnergyFee(type, payload) ==
  Fee(IF type = "configureBaker"
      THEN getConfigureBakerCost(Signatures, BakerPayloadSize(payload), DOMAIN payload)
      ELSE getConfigureDelegationCost(Signatures, DelegationPayloadSize(payload)))

createTransaction(v) ==
  LET payload == convert(v)
  IN  [outcome |-> "unsent", account |-> account, kind |-> kind, type |-> TypeOf(kind),
       payload |-> payload, fee |-> EnergyFee(TypeOf(kind), payload),
       form |-> v, base |-> info[account], nonceOf |-> nonce]

(* Several signers' form throws without a nonce; the other puts its values into the history. *)
handleDone(v) ==
  IF multi = "yes" /\ nonce = Nobody
  THEN UNCHANGED <<place, trail, tx, saved>>
  ELSE /\ tx' = createTransaction(v) /\ place' = "submit"
       /\ saved' = (IF multi = "no" THEN v ELSE <<>>)
       /\ UNCHANGED trail

Push(page) ==
  /\ Len(trail) < MaxTrail
  /\ trail' = Append(trail, page) /\ saved' = <<>>
  /\ UNCHANGED <<place, tx>>

(* A page is filled: on to the next one, or from the last one to the end. *)
handleNext(v) ==
  LET newValues == Over(v, Only(values, DOMAIN values \ PageFields(Shown)))
      result == validate(newValues)
  IN  /\ values' = newValues
      /\ CASE ~IsLastPage -> Push(NextPage)
           [] IsLastPage /\ result = "valid" -> handleDone(newValues)
           [] IsLastPage /\ result = "throws" -> UNCHANGED <<place, trail, tx, saved>>
           [] OTHER -> Push(result)

Next(v) ==
  /\ place = "form" /\ v \in PageInputs(Shown)
  /\ handleNext(v)
  /\ keys' = {}
  /\ UNCHANGED <<chainVars, info, multi, kind, account, nonce, asked, fresh, exported,
                 made, changes, flows>>

(* Another account: its nonce is asked for, what the pages hold stays. *)
PickAccount(a) ==
  /\ place = "form" /\ Shown = "account" /\ accountFilter(kind, info[a])
  /\ account' = a
  /\ asked' = (IF a = account THEN asked ELSE asked \cup {a})
  /\ fresh' = (fresh /\ (account \in {a, Nobody} \/ values = <<>>))
  /\ Push(NextPage)
  /\ UNCHANGED <<chainVars, info, multi, kind, values, keys, nonce, exported, made,
                 changes, flows>>
-----------------------------------------------------------------------------
(* The page of the validator keys generates some unless the form has them. *)
GenerateBakerKeys ==
  /\ place = "form" /\ Shown = "keys" /\ keys = {} /\ ~Has(values, "keys")
  /\ made < MaxKeys
  /\ made' = made + 1 /\ keys' = {[no |-> made + 1, account |-> account]}
  /\ UNCHANGED <<chainVars, info, multi, place, kind, account, trail, values, saved,
                 nonce, asked, fresh, tx, exported, changes, flows>>

KeysPage(k) ==
  /\ handleNext([f \in {"keys"} |-> k])
  /\ keys' = {}
  /\ UNCHANGED <<chainVars, info, multi, kind, account, nonce, asked, fresh, made,
                 changes, flows>>

(* Keys are saved, with the index of the account, before the form goes on. *)
ExportKeys ==
  /\ place = "form" /\ Shown = "keys"
  /\ \E k \in keys : KeysPage(k) /\ exported' = exported \cup {<<k, account>>}

(* Mutant: keys on the page may be continued with, saved or not. *)
continueUnsaved ==
  /\ place = "form" /\ Shown = "keys"
  /\ \E k \in keys : KeysPage(k) /\ UNCHANGED exported

(* The keys the form already has are not saved again. *)
ContinueWithKeys ==
  /\ place = "form" /\ Shown = "keys" /\ Has(values, "keys")
  /\ KeysPage(values.keys) /\ UNCHANGED exported
-----------------------------------------------------------------------------
Leave ==
  /\ place \in {"form", "submit"}
  /\ place' = "menu" /\ Closed
  /\ tx' = (IF tx.outcome = "unsent" THEN NoTransaction ELSE tx)
  /\ UNCHANGED <<chainVars, info, multi, fresh, exported, made, changes, flows>>

Back ==
  /\ place = "form" /\ Len(trail) > 1
  /\ trail' = Rendered(Front(trail), values) /\ saved' = <<>> /\ keys' = {}
  /\ UNCHANGED <<chainVars, info, multi, place, kind, account, values, nonce, asked, fresh,
                 tx, exported, made, changes, flows>>

(* Back from the submission: a form of one signature starts from the history's values, *)
(* unless the account is no longer offered it.                                         *)
BackToForm ==
  /\ place = "submit" /\ tx' = NoTransaction
  /\ IF multi = "no" /\ ~Offered(kind, info[account])
     THEN place' = "menu" /\ Closed
     ELSE /\ place' = "form" /\ values' = (IF multi = "no" THEN saved ELSE values)
          /\ UNCHANGED <<kind, account, trail, saved, keys, nonce, asked>>
  /\ UNCHANGED <<chainVars, info, multi, fresh, exported, made, changes, flows>>

(* The form is mounted anew for the chosen account, on the page that is shown, *)
(* with the values of the history entry; without a target there is no amount.  *)
SwitchAccount(a) ==
  /\ place = "form" /\ multi = "no" /\ a # account
  /\ IF Offered(kind, info[a])
     THEN /\ account' = a /\ values' = saved /\ nonce' = a /\ keys' = {}
          /\ trail' = Rendered(trail, saved)
          /\ fresh' = (fresh /\ saved = <<>> /\ Len(trail) = 1)
          /\ UNCHANGED <<place, kind, saved, asked>>
     ELSE place' = "menu" /\ Closed /\ UNCHANGED fresh
  /\ UNCHANGED <<chainVars, info, multi, tx, exported, made, changes, flows>>
-----------------------------------------------------------------------------
(* The signed transaction reaches the chain, now or after others have signed it. *)
Execute ==
  LET acc == chain[tx.account]
      reasons == Reasons(acc, pool, tx.type, tx.payload, tx.fee)
      after == IF reasons = {} THEN Configured(acc, tx.type, tx.payload) ELSE acc
      outcome == IF tx.nonceOf # tx.account THEN "wrongNonce"
                 ELSE IF reasons = {} THEN "success" ELSE "refused"
  IN  /\ place = "submit"
      /\ tx' = Over([outcome |-> outcome, reasons |-> reasons, before |-> acc, after |-> after,
                     fresh |-> fresh],
                    tx)
      /\ chain' = IF outcome = "wrongNonce" \/ AtDisposal(acc) < tx.fee THEN chain
                  ELSE [chain EXCEPT ![tx.account] = [after EXCEPT !.amount = @ - tx.fee]]
      /\ place' = "menu" /\ Closed
      /\ UNCHANGED <<pool, info, multi, fresh, exported, made, changes, flows>>

(* The transactions another wallet, or another signer, makes for an account. *)
OtherPayloads(acc) ==
  LET registration == [f \in BakerFields \ {"suspended"} |->
        CASE f = "stake" -> MinStake [] f = "restakeEarnings" -> "yes"
          [] f = "openForDelegation" -> "openForAll" [] f = "metadataUrl" -> 0
          [] f = "keys" -> [no |-> 0, account |-> acc.name]
          [] OTHER -> CommissionRange[f].max]
      flipped == [f \in {"restakeEarnings"} |->
                   IF acc.config.restakeEarnings = "yes" THEN "no" ELSE "yes"]
  IN  CASE acc.role = "None" ->
             {<<"configureBaker", registration>>,
              <<"configureDelegation", [stake |-> 1, restakeEarnings |-> "yes",
                                        delegationTarget |-> Passive]>>}
        [] acc.role = "Baker" ->
             {<<"configureBaker", flipped>>, <<"configureBaker", convertToRemoveTransaction>>,
              <<"configureBaker", convertToBakerSuspensionTransaction("yes")>>}
        [] OTHER ->
             {<<"configureDelegation", flipped>>,
              <<"configureDelegation", convertToRemoveTransaction>>}

OthersChange(a) ==
  LET acc == chain[a]
  IN  /\ \/ \E p \in OtherPayloads(acc) :
              /\ Reasons(acc, pool, p[1], p[2], 0) = {}
              /\ chain' = [chain EXCEPT ![a] = Configured(acc, p[1], p[2])]
         \/ /\ Spent <= AtDisposal(acc)
            /\ chain' = [chain EXCEPT ![a].amount = @ - Spent]
         \/ /\ hasPendingChange(acc)
            /\ chain' = [chain EXCEPT ![a] = Settled(acc)]
      /\ UNCHANGED pool

PoolChanges ==
  /\ pool' \in {[pool EXCEPT !.openStatus = "closedForNew"], [pool EXCEPT !.delegated = pool.cap]}
  /\ pool' # pool
  /\ UNCHANGED chain

Change ==
  /\ changes < MaxChanges /\ changes' = changes + 1
  /\ flows < MaxFlows \/ place # "menu"
  /\ PoolChanges \/ \E a \in Accounts : OthersChange(a)
  /\ fresh' = FALSE
  /\ UNCHANGED <<info, multi, place, formVars, tx, exported, made, flows>>

(* The account information is loaded; a form the account is no longer offered closes. *)
UpdateInfo(a) ==
  /\ info' = [info EXCEPT ![a] = chain[a]]
  /\ IF place = "form" /\ multi = "no" /\ account = a /\ ~Offered(kind, chain[a])
     THEN place' = "menu" /\ Closed
     ELSE UNCHANGED <<place, formVars>>
  /\ UNCHANGED <<chainVars, multi, fresh, tx, exported, made, changes, flows>>
-----------------------------------------------------------------------------
Step ==
  \/ \E k \in Kinds, a \in Accounts : StartSingle(k, a) \/ StartRedirected(k, a)
  \/ \E k \in Kinds : StartMulti(k)
  \/ \E a \in Accounts : NonceArrives(a) \/ PickAccount(a) \/ SwitchAccount(a) \/ UpdateInfo(a)
  \/ place = "form" /\ \E v \in PageInputs(Shown) : Next(v)
  \/ GenerateBakerKeys \/ ExportKeys \/ ContinueWithKeys
  \/ Leave \/ Back \/ BackToForm \/ Execute \/ Change

Spec == Init /\ [][Step]_vars
-----------------------------------------------------------------------------
Executed(outcome) == tx.outcome = outcome

(* What a form says of a field, and what the account has: a lowered stake is pending, *)
(* and a commission may lose the last of its hundred thousand parts.                  *)
Agrees(acc, form, f) ==
  CASE f = "stake" -> form.stake \in {acc.config.stake, acc.pending}
    [] f \in CommissionFields -> acc.config[f] \in {form[f].n, form[f].n - 1}
    [] OTHER -> acc.config[f] = form[f]

Removed(acc) == acc.pending = 0

(* A form that closes the pool for all leaves the commissions alone. *)
FieldsOf(t) ==
  IF t.kind = "updateBakerPool" /\ Has(t.form, "openForDelegation")
       /\ t.form.openForDelegation = "closedForAll"
  THEN DOMAIN t.form \ CommissionFields ELSE DOMAIN t.form

SameStaking(acc, other) ==
  acc.role = other.role /\ acc.config = other.config /\ acc.pending = other.pending

(***************************************************************************)
(* When a transaction succeeds on the account the wallet made it for, the  *)
(* account is configured as the form says, in every field of the form, the *)
(* ones that are not in the payload because they did not differ included   *)
(* (configureBaker.ts getBakerFlowChanges, configureDelegation.ts).        *)
(***************************************************************************)
ConfigurationIsTheForm ==
  Executed("success") /\ SameStaking(tx.base, tx.before)
    /\ ~(tx.kind = "bakerSuspension" /\ multi = "yes") =>
    /\ \A f \in FieldsOf(tx) : Agrees(tx.after, tx.form, f)
    /\ tx.kind \in {"removeBaker", "removeDelegation"} => Removed(tx.after)

(* The reasons the forms look for before they are done.  That the balance pays for *)
(* stake and fee is certain for an account that stakes nothing yet: the fee of a   *)
(* change is known for the fields that differ when the amount is filled in, and    *)
(* going back by the history can add another field without passing the amount.     *)
CheckedReasons(t) ==
  {"InCooldown", "StakeUnderMinimum", "CommissionNotInRange", "InvalidProof",
   "AlreadyABaker", "AlreadyADelegator", "MissingAddParameters", "PoolClosed"}
    \cup (IF t.base.role = "None" THEN {"InsufficientBalanceForStake"} ELSE {})

(***************************************************************************)
(* The chain refuses a transaction for a reason its form looks for only if *)
(* something has changed since the form was opened: the checks of the      *)
(* pages, of validate and of the account filters leave nothing out.        *)
(***************************************************************************)
RefusedIsStale ==
  Executed("refused") /\ tx.fresh => tx.reasons \cap CheckedReasons(tx) = {}

(***************************************************************************)
(* The validator keys of a transaction have been saved, with the index of  *)
(* the very account unless another one was chosen in between: keys that    *)
(* are not in a file are lost, and the validator cannot run                *)
(* (ExportBakerCredentials.tsx, GenerateBakerKeys.tsx).                    *)
(***************************************************************************)
SubmittedKeysAreSaved ==
  LET wasFresh == IF tx.outcome = "unsent" THEN fresh ELSE tx.fresh
  IN  tx.outcome # "none" /\ Has(tx.payload, "keys") =>
        \E e \in exported : e[1] = tx.payload.keys /\ (wasFresh => e[2] = tx.account)

(***************************************************************************)
(* "Submitting this transaction will resume/suspend validation for the     *)
(* selected validator account" (BakerSuspensionPage.tsx:19-21): what the   *)
(* page says is what the transaction does.  Not checked by a run: in the   *)
(* form for several signatures the two are opposites.                      *)
(***************************************************************************)
SuspensionDoesWhatItSays ==
  tx.outcome # "none" /\ tx.kind = "bakerSuspension" => tx.payload.suspended = tx.form.suspended

(***************************************************************************)
(* The nonce of a transaction is its sender's.  Not checked by a run: the  *)
(* nonce of the account picked before stays until the new one is there,    *)
(* and answers may cross (MultiSigAccountTransactionFlow.tsx:199-211).     *)
(***************************************************************************)
NonceIsOwn == tx.outcome # "none" => tx.nonceOf = tx.account
=============================================================================
