--------------------------- MODULE ShieldedBalance ---------------------------
(***************************************************************************)
(* The shielded balance of one account, as the wallet keeps it: the amounts *)
(* the network holds for the account are encrypted, so the wallet stores    *)
(* them with the total they were last decrypted to, once in the account     *)
(* table and once in the store.  Four parties write these copies: the       *)
(* account view, which polls the node; the account page, which reloads the  *)
(* table; the monitor of an own transfer, which applies what the transfer   *)
(* was computed to leave; and the user, who decrypts.                       *)
(*                                                                         *)
(* An amount is the pair the chain keeps, with each part given as the       *)
(* transfers it counts.  One step is what runs between two awaits.          *)
(***************************************************************************)
EXTENDS Naturals, Bags

CONSTANTS
  Tx,          \* the unshieldings and shielded transfers made here
  Foreign,     \* those made on the account by another wallet
  Receipt,     \* the shielded transfers to the account
  Poll,        \* bound: the account updates that may be under way at once
  Updater,     \* what updates the account: "view", "page" or both
  Disturbance  \* which of the named disturbances may happen

\* failure: a valid transfer fails on the chain; rejection: a wait throws;
\* early: a transfer is finalized before its pending row is inserted.
Disturbances == {"failure", "rejection", "early"}

Updaters == {"view", "page"}

ASSUME ConstantsAssumption ==
  /\ Disturbance \subseteq Disturbances
  /\ Updater \subseteq Updaters
  /\ Tx \intersect Foreign = {} /\ Tx \intersect Receipt = {}
  /\ Foreign \intersect Receipt = {}

Event == Tx \union Foreign \union Receipt
Amount == [self : SUBSET Event, incoming : SUBSET Receipt]

\* The total of an amount: how often each transfer is counted in it.
Worth(a) == SetToBag(a.self) (+) SetToBag(a.incoming)

Nothing == [self |-> {}, incoming |-> {}]

VARIABLES
  chain,       \* the amount the network holds
  outcome,     \* outcome[t]: what the network has done with t
  row,         \* the account in the table
  account,     \* the account in the store
  info,        \* the amount in the accountInfo of the store
  transfer,    \* transfer[t]: the submission and then the monitor of t
  pending,     \* the transfers with a pending row
  poll,        \* poll[p]: an update of the account under way
  decryption   \* the decryption of the balance

vars == <<chain, outcome, row, account, info, transfer, pending, poll,
          decryption>>

network == <<chain, outcome>>
copies == <<row, account>>

\* overtaken is no field of the code's account: it says of a copy whether its
\* last decryption was overtaken (Overtaken), and no step depends on it.
Account == [amount : Amount, total : Amount, shown : {"decrypted", "hidden"},
            overtaken : BOOLEAN]

IdleTransfer == [pc |-> "idle", base |-> Nothing, answer |-> Nothing]
IdleDecryption == [pc |-> "idle", amount |-> Nothing]
NewAccount == [amount |-> Nothing, total |-> Nothing, shown |-> "decrypted",
               overtaken |-> FALSE]
IdlePoll == [pc |-> "idle", by |-> "view", seen |-> Nothing,
             answer |-> Nothing, found |-> NewAccount]

Init ==
  /\ chain = Nothing
  /\ outcome = [t \in Tx |-> "unsent"]
  /\ row = NewAccount
  /\ account = NewAccount
  /\ info = Nothing
  /\ transfer = [t \in Tx |-> IdleTransfer]
  /\ pending = {}
  /\ poll = [p \in Poll |-> IdlePoll]
  /\ decryption = IdleDecryption

-----------------------------------------------------------------------------
(* The network. *)

\* What is left once t has used up the whole of amount a.
After(a, t) == [self |-> a.self \union a.incoming \union {t}, incoming |-> {}]

Received == chain.self \union chain.incoming

Receive(r) ==
  /\ r \notin Received
  /\ chain' = [chain EXCEPT !.incoming = @ \union {r}]
  /\ UNCHANGED <<outcome, copies, info, transfer, pending, poll, decryption>>

Spend(f) ==
  /\ f \notin chain.self
  /\ chain' = After(chain, f)
  /\ UNCHANGED <<outcome, copies, info, transfer, pending, poll, decryption>>

\* A transfer is valid while the amount it was computed from is there.
Valid(a) == a.self = chain.self /\ a.incoming \subseteq chain.incoming

Taken(t) ==
  /\ outcome[t] = "sent"
  /\ "early" \in Disturbance \/ transfer[t].pc # "sent"

Succeed(t) ==
  /\ Taken(t)
  /\ LET a == transfer[t].base IN
       /\ Valid(a)
       /\ chain' = [self |-> After(a, t).self,
                    incoming |-> chain.incoming \ a.incoming]
  /\ outcome' = [outcome EXCEPT ![t] = "success"]
  /\ UNCHANGED <<copies, info, transfer, pending, poll, decryption>>

FailOnChain(t) ==
  /\ Taken(t)
  /\ "failure" \in Disturbance \/ ~ Valid(transfer[t].base)
  /\ outcome' = [outcome EXCEPT ![t] = "failure"]
  /\ UNCHANGED <<chain, copies, info, transfer, pending, poll, decryption>>

-----------------------------------------------------------------------------
(* An own transfer: its submission, and the monitor of it. *)

\* The form is opened while nothing is pending and the payload computed.
Build(t) ==
  /\ transfer[t].pc = "idle"
  /\ pending = {}
  /\ transfer' = [transfer EXCEPT ![t] = [pc |-> "built", base |-> info,
                                          answer |-> Nothing]]
  /\ UNCHANGED <<network, copies, info, pending, poll, decryption>>

Abandon(t) ==
  /\ transfer[t].pc = "built"
  /\ transfer' = [transfer EXCEPT ![t] = IdleTransfer]
  /\ UNCHANGED <<network, copies, info, pending, poll, decryption>>

Send(t) ==
  /\ transfer[t].pc = "built"
  /\ transfer' = [transfer EXCEPT ![t].pc = "sent"]
  /\ outcome' = [outcome EXCEPT ![t] = "sent"]
  /\ UNCHANGED <<chain, copies, info, pending, poll, decryption>>

\* addPendingTransaction, and monitorTransactionStatus called on the result.
Record(t) ==
  /\ transfer[t].pc = "sent"
  /\ transfer' = [transfer EXCEPT ![t].pc = "waiting"]
  /\ pending' = pending \union {t}
  /\ UNCHANGED <<network, copies, info, poll, decryption>>

\* The submission throws although the node has accepted t: nobody monitors it.
RecordFails(t) ==
  /\ transfer[t].pc = "sent"
  /\ transfer' = [transfer EXCEPT ![t].pc = "done"]
  /\ UNCHANGED <<network, copies, info, pending, poll, decryption>>

\* updateShieldedBalance, on one copy of the account.
ShieldedTransferConsequence(copy, t) ==
  LET left == After(transfer[t].base, t) IN
  [copy EXCEPT !.amount.self = left.self, !.total = left]

\* The wait returns: the row is removed and both copies are updated.
Settle(t) ==
  /\ transfer[t].pc = "waiting"
  /\ outcome[t] \in {"success", "failure"}
  /\ transfer' = [transfer EXCEPT ![t].pc = "settled"]
  /\ pending' = pending \ {t}
  /\ row' = ShieldedTransferConsequence(row, t)
  /\ account' = ShieldedTransferConsequence(account, t)
  /\ UNCHANGED <<network, info, poll, decryption>>

\* The wait throws, whatever has become of t.
Reject(t) ==
  /\ "rejection" \in Disturbance
  /\ transfer[t].pc = "waiting"
  /\ transfer' = [transfer EXCEPT ![t].pc = "settled"]
  /\ pending' = pending \ {t}
  /\ UNCHANGED <<network, copies, info, poll, decryption>>

\* updateAccountInfoOfAddress: the node is asked ...
AskAfter(t) ==
  /\ transfer[t].pc = "settled"
  /\ transfer' = [transfer EXCEPT ![t].pc = "answered", ![t].answer = chain]
  /\ UNCHANGED <<network, copies, info, pending, poll, decryption>>

\* ... and its answer put in the store, whatever is there by now.
EnterAfter(t) ==
  /\ transfer[t].pc = "answered"
  /\ info' = transfer[t].answer
  /\ transfer' = [transfer EXCEPT ![t] = [IdleTransfer EXCEPT !.pc = "done"]]
  /\ UNCHANGED <<network, copies, pending, poll, decryption>>

AskAfterFails(t) ==
  /\ transfer[t].pc = "settled"
  /\ transfer' = [transfer EXCEPT ![t] = [IdleTransfer EXCEPT !.pc = "done"]]
  /\ UNCHANGED <<network, copies, info, pending, poll, decryption>>

-----------------------------------------------------------------------------
(* An update of the account: updateAccountInfo of the account view, or the  *)
(* loadAccounts and loadAccountInfos of the account page.                   *)

\* The effect of the account view, which a timer runs again and again.
StartUpdate(p) ==
  /\ poll[p].pc = "idle"
  /\ "view" \in Updater
  /\ poll' = [poll EXCEPT ![p].pc = "asking", ![p].seen = info]
  /\ UNCHANGED <<network, copies, info, transfer, pending, decryption>>

\* The account page is entered: the table is read ...
StartVisit(p) ==
  /\ poll[p].pc = "idle"
  /\ "page" \in Updater
  /\ poll' = [poll EXCEPT ![p].pc = "loading", ![p].by = "page",
                          ![p].found = row]
  /\ UNCHANGED <<network, copies, info, transfer, pending, decryption>>

\* ... and what was read goes to the store.
LoadAccounts(p) ==
  /\ poll[p].pc = "loading"
  /\ account' = poll[p].found
  /\ poll' = [poll EXCEPT ![p].pc = "asking", ![p].found = NewAccount]
  /\ UNCHANGED <<network, row, info, transfer, pending, decryption>>

Answer(p) ==
  /\ poll[p].pc = "asking"
  /\ poll' = [poll EXCEPT ![p].pc = "answered", ![p].answer = chain]
  /\ UNCHANGED <<network, copies, info, transfer, pending, decryption>>

AnswerFails(p) ==
  /\ poll[p].pc = "asking"
  /\ poll' = [poll EXCEPT ![p] = IdlePoll]
  /\ UNCHANGED <<network, copies, info, transfer, pending, decryption>>

\* Mutant: the page, too, is done if the accountInfo has not changed.
CompareAlways(p) ==
  /\ poll[p].pc = "answered"
  /\ IF poll[p].answer = info
       THEN poll' = [poll EXCEPT ![p] = IdlePoll]
       ELSE poll' = [poll EXCEPT ![p].pc = "found", ![p].by = "view",
                                 ![p].seen = Nothing, ![p].found = row]
  /\ UNCHANGED <<network, copies, info, transfer, pending, decryption>>

\* The view is done if the answer is the accountInfo it started from.
Compare(p) ==
  /\ poll[p].pc = "answered"
  /\ IF poll[p].by = "view" /\ poll[p].answer = poll[p].seen
       THEN poll' = [poll EXCEPT ![p] = IdlePoll]
       ELSE poll' = [poll EXCEPT ![p].pc = "found", ![p].by = "view",
                                 ![p].seen = Nothing, ![p].found = row]
  /\ UNCHANGED <<network, copies, info, transfer, pending, decryption>>

\* hasPendingTransactions decides whether a new self amount is looked at.
Incoming(p) == poll[p].found.amount.incoming # poll[p].answer.incoming
SelfUpdate(p) == poll[p].found.amount.self # poll[p].answer.self

Decide(p) ==
  /\ poll[p].pc = "found"
  /\ poll' = [poll EXCEPT
       ![p].pc = IF Incoming(p) \/ (SelfUpdate(p) /\ pending = {})
                   THEN "update" ELSE "enter",
       ![p].found = NewAccount]
  /\ UNCHANGED <<network, copies, info, transfer, pending, decryption>>

\* Mutant: the new amount is stored and the total still called decrypted.
StillDecrypted(copy, a) == [copy EXCEPT !.amount = a]

\* updateAccountEncryptedAmount, on one copy of the account.
Hidden(copy, a) ==
  [copy EXCEPT !.amount = a, !.shown = "hidden", !.overtaken = FALSE]

UpdateRow(p) ==
  /\ poll[p].pc = "update"
  /\ row' = Hidden(row, poll[p].answer)
  /\ poll' = [poll EXCEPT ![p].pc = "dispatch"]
  /\ UNCHANGED <<network, account, info, transfer, pending, decryption>>

UpdateStore(p) ==
  /\ poll[p].pc = "dispatch"
  /\ account' = Hidden(account, poll[p].answer)
  /\ poll' = [poll EXCEPT ![p].pc = "enter"]
  /\ UNCHANGED <<network, row, info, transfer, pending, decryption>>

EnterInfo(p) ==
  /\ poll[p].pc = "enter"
  /\ info' = poll[p].answer
  /\ poll' = [poll EXCEPT ![p] = IdlePoll]
  /\ UNCHANGED <<network, copies, transfer, pending, decryption>>

-----------------------------------------------------------------------------
(* Decryption. *)

\* The button is there while the store says that not all is decrypted.
StartDecryption ==
  /\ account.shown = "hidden"
  /\ decryption.pc = "idle"
  /\ decryption' = [pc |-> "running", amount |-> account.amount]
  /\ UNCHANGED <<network, copies, info, transfer, pending, poll>>

\* What an amount counts.
Counted(a) == a.self \union a.incoming

\* The amounts that are, or may become, the one of the accountInfo, and those
\* transfers are computed from.
Entering == {p \in Poll : poll[p].pc \in {"answered", "found", "update",
                                          "dispatch", "enter"}}
Computing == {t \in Tx : transfer[t].pc \in {"built", "sent", "waiting"}}
Answered == {t \in Tx : transfer[t].pc = "answered"}

Known ==
  {info} \union {poll[p].answer : p \in Entering}
    \union {transfer[t].answer : t \in Answered}
    \union {transfer[t].base : t \in Computing}

\* A decryption is overtaken if the copy it is written to no longer has the
\* amount that was decrypted, or if something under way does not yet know of
\* a receipt that the copy has.
Overtaken(copy) ==
  \/ copy.amount # decryption.amount
  \/ \E a \in Known : ~ (copy.amount.incoming \subseteq Counted(a))

\* decryptAccountBalance, on one copy of the account.
Decrypted(copy) ==
  [copy EXCEPT !.total = decryption.amount, !.shown = "decrypted",
               !.overtaken = Overtaken(copy)]

FinishDecryption ==
  /\ decryption.pc = "running"
  /\ row' = Decrypted(row)
  /\ account' = Decrypted(account)
  /\ decryption' = IdleDecryption
  /\ UNCHANGED <<network, info, transfer, pending, poll>>

DecryptionFails ==
  /\ decryption.pc = "running"
  /\ decryption' = IdleDecryption
  /\ UNCHANGED <<network, copies, info, transfer, pending, poll>>

\* updateAllDecrypted: a shielded transfer is listed whose own amount has not
\* been decrypted, as that of any that is in the list may be.
ListUndecrypted ==
  /\ Received \intersect (Receipt \union Foreign) # {}
  /\ row' = [row EXCEPT !.shown = "hidden", !.overtaken = FALSE]
  /\ account' = [account EXCEPT !.shown = "hidden", !.overtaken = FALSE]
  /\ UNCHANGED <<network, info, transfer, pending, poll, decryption>>

-----------------------------------------------------------------------------

TransferStep(t) ==
  \/ Succeed(t) \/ FailOnChain(t)
  \/ Build(t) \/ Abandon(t) \/ Send(t) \/ Record(t) \/ RecordFails(t)
  \/ Settle(t) \/ Reject(t)
  \/ AskAfter(t) \/ AskAfterFails(t) \/ EnterAfter(t)

PollStep(p) ==
  \/ StartUpdate(p) \/ StartVisit(p) \/ LoadAccounts(p)
  \/ Answer(p) \/ AnswerFails(p) \/ Compare(p) \/ Decide(p)
  \/ UpdateRow(p) \/ UpdateStore(p) \/ EnterInfo(p)

Next ==
  \/ \E r \in Receipt : Receive(r)
  \/ \E f \in Foreign : Spend(f)
  \/ \E t \in Tx : TransferStep(t)
  \/ \E p \in Poll : PollStep(p)
  \/ StartDecryption \/ FinishDecryption \/ DecryptionFails
  \/ ListUndecrypted

Spec == Init /\ [][Next]_vars

\* What follows from the timer of the account view, or from an await that
\* ends, with at most one step at a time for each update and each transfer.
UpdateGoesOn(p) ==
  \/ StartUpdate(p) \/ LoadAccounts(p) \/ Compare(p) \/ Decide(p)
  \/ UpdateRow(p) \/ UpdateStore(p) \/ EnterInfo(p)

TransferGoesOn(t) == Record(t) \/ Settle(t) \/ AskAfter(t) \/ EnterAfter(t)

\* The timer of the account view asks again and again, a node that is asked
\* again and again answers, and a transfer that is sent is settled.  Nothing
\* is assumed of the user.
Fairness ==
  /\ \A p \in Poll : WF_vars(UpdateGoesOn(p)) /\ SF_vars(Answer(p))
  /\ \A t \in Tx : /\ WF_vars(TransferGoesOn(t))
                    /\ WF_vars(Succeed(t) \/ FailOnChain(t))

FairSpec == Spec /\ Fairness

-----------------------------------------------------------------------------

PollState == [pc : {"idle", "loading", "asking", "answered", "found",
                    "update", "dispatch", "enter"},
              by : Updaters, seen : Amount, answer : Amount,
              found : Account]
TransferState == [pc : {"idle", "built", "sent", "waiting", "settled",
                        "answered", "done"},
                  base : Amount, answer : Amount]

TypeOK ==
  /\ chain \in Amount
  /\ outcome \in [Tx -> {"unsent", "sent", "success", "failure"}]
  /\ row \in Account
  /\ account \in Account
  /\ info \in Amount
  /\ transfer \in [Tx -> TransferState]
  /\ pending \subseteq Tx
  /\ poll \in [Poll -> PollState]
  /\ decryption \in [pc : {"idle", "running"}, amount : Amount]

\* A balance shown as decrypted is the balance of the account: whenever the
\* table has the amounts the network has, and says they are decrypted, the
\* total next to them counts each transfer once, whatever polls, visits,
\* monitors and decryptions have crossed (updateAccountEncryptedAmount against
\* ShieldedTransferConsequence and decryptAccountBalance).  The same holds of
\* the copy in the store, which is the one on the screen: a visit may bring
\* back an older row and a dispatch may come late.  The copies that were
\* decrypted last by a decryption that was overtaken are left out: the code
\* does not look whether one was, and their total may be wrong
\* (DecryptedIsHeld).
BalanceIsHeld ==
  \A copy \in {row, account} :
    copy.shown = "decrypted" /\ copy.amount = chain /\ ~ copy.overtaken
      => Worth(copy.total) = Worth(chain)

\* The same of every copy: decryptAccountBalance writes the sum of the amounts
\* it was given as "allDecrypted" of whatever amounts the account has by then.
DecryptedIsHeld ==
  \A copy \in {row, account} :
    copy.shown = "decrypted" /\ copy.amount = chain
      => Worth(copy.total) = Worth(chain)

\* With nothing to receive, the balance is never hidden: the account and the
\* pending transactions are read "at the same time, to avoid race condition
\* with transaction finalization" (updateAccountEncryptedAmount).
OwnTransferStaysDecrypted == row.shown = "decrypted"

\* A transfer that failed on the chain is not deducted from the balance:
\* monitorTransactionStatus waits "for the transaction to be finalized (or
\* rejected)" and updates "accordingly".
NoFailedTransferCounted ==
  \A t \in Tx : outcome[t] = "failure" => t \notin row.total.self

\* A user who keeps coming back to the account page, with a node that
\* answers, ends up with the amounts of the network in both copies, also
\* after failed and rejected transfers (loadAccountInfos).
VisitsRecur ==
  []<>(\E p \in Poll : poll[p].by = "page" /\ poll[p].pc = "answered")

VisitsRestore ==
  VisitsRecur => <>[](row.amount = chain /\ account.amount = chain)
=============================================================================
