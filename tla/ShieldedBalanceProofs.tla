------------------------ MODULE ShieldedBalanceProofs ------------------------
(***************************************************************************)
(* Proofs about ShieldedBalance for any transfers, made here, by another   *)
(* wallet or to the account, and any number of account updates under way,  *)
(* of the view and of the page.                                            *)
(***************************************************************************)
EXTENDS ShieldedBalance, TLAPS

\* An amount the account has had, or was computed to have: it counts nothing
\* that is yet to happen.
Past(a) ==
  /\ a.incoming \subseteq Received
  /\ a.self \subseteq Received \union Tx
  /\ \A t \in a.self \intersect Tx : outcome[t] \in {"success", "failure"}

\* The network counts every transfer at most once, and those that succeeded.
NetworkIsRight ==
  /\ chain.self \intersect chain.incoming = {}
  /\ \A t \in Tx : t \in chain.self => outcome[t] = "success"
  /\ \A t \in Tx : outcome[t] # "unsent" <=>
                     transfer[t].pc \notin {"idle", "built"}

\* The rows of the account: in the table, in the store, and on their way there.
Loading == {p \in Poll : poll[p].pc = "loading"}
Copies == {row, account} \union {poll[p].found : p \in Loading}

\* Nothing refers to what is yet to happen.
NothingIsAhead ==
  /\ \A a \in Known : Past(a)
  /\ \A copy \in Copies : Past(copy.amount)

\* The total of a copy is called complete, and its decryption not overtaken.
Complete(copy) == copy.shown = "decrypted" /\ ~ copy.overtaken

\* What a decrypted copy has received, everybody else has too.
NobodyIsBehind ==
  \A copy \in Copies, a \in Known :
    Complete(copy) => copy.amount.incoming \subseteq Counted(a)

TotalsAreRight ==
  \A copy \in Copies :
    Complete(copy) /\ copy.amount = chain => copy.total = chain

IInv == NetworkIsRight /\ NothingIsAhead /\ NobodyIsBehind /\ TotalsAreRight

-----------------------------------------------------------------------------
(* Every step keeps the types. *)

\* What the other records of a type are.
LEMMA Parts ==
  /\ Nothing \in Amount /\ NewAccount \in Account
  /\ IdleTransfer \in TransferState /\ IdlePoll \in PollState
  /\ \A a \in Amount, t \in Event : After(a, t) \in Amount
  /\ \A copy \in Account, a \in Amount : Hidden(copy, a) \in Account
  /\ \A copy \in Account :
       [copy EXCEPT !.shown = "hidden", !.overtaken = FALSE] \in Account
BY DEF Nothing, NewAccount, IdleTransfer, IdlePoll, Amount, Account, Event,
       TransferState, PollState, Updaters, After, Hidden

LEMMA InitType == Init => TypeOK
<1> SUFFICES ASSUME Init PROVE TypeOK
  OBVIOUS
<1>1. /\ transfer \in [Tx -> TransferState]
      /\ poll \in [Poll -> PollState]
      /\ decryption \in [pc : {"idle", "running"}, amount : Amount]
  BY Parts DEF Init, IdleDecryption
<1> QED
  BY <1>1, Parts DEF Init, TypeOK

LEMMA NetworkType ==
  ASSUME TypeOK, \/ \E r \in Receipt : Receive(r)
                 \/ \E f \in Foreign : Spend(f)
                 \/ \E t \in Tx : Succeed(t) \/ FailOnChain(t)
  PROVE  TypeOK'
<1>1. ASSUME NEW r \in Receipt, Receive(r) PROVE TypeOK'
  <2>1. chain' \in Amount
    BY <1>1 DEF Receive, TypeOK, Amount
  <2> QED
    BY <1>1, <2>1 DEF Receive, TypeOK, copies
<1>2. ASSUME NEW f \in Foreign, Spend(f) PROVE TypeOK'
  <2>1. chain' \in Amount
    BY <1>2, Parts DEF Spend, TypeOK, Event
  <2> QED
    BY <1>2, <2>1 DEF Spend, TypeOK, copies
<1>3. ASSUME NEW t \in Tx, Succeed(t) PROVE TypeOK'
  <2>1. After(transfer[t].base, t) \in Amount
    BY Parts DEF TypeOK, TransferState, Event
  <2>2. chain' \in Amount
    BY <1>3, <2>1 DEF Succeed, TypeOK, Amount
  <2> QED
    BY <1>3, <2>2 DEF Succeed, TypeOK, copies
<1>4. ASSUME NEW t \in Tx, FailOnChain(t) PROVE TypeOK'
  BY <1>4 DEF FailOnChain, TypeOK, copies
<1> QED
  BY <1>1, <1>2, <1>3, <1>4

LEMMA SettleType ==
  ASSUME TypeOK, NEW copy \in Account, NEW t \in Tx
  PROVE  ShieldedTransferConsequence(copy, t) \in Account
<1>1. After(transfer[t].base, t) \in Amount
  BY Parts DEF TypeOK, TransferState, Event
<1>2. After(transfer[t].base, t).self \in SUBSET Event
  BY <1>1 DEF Amount
<1> QED
  BY <1>1, <1>2 DEF ShieldedTransferConsequence, Account, Amount

LEMMA TransferType ==
  ASSUME TypeOK, NEW t \in Tx, TransferStep(t)
  PROVE  TypeOK'
<1> USE DEF TypeOK, network, copies
<1>1. CASE Succeed(t) \/ FailOnChain(t)
  BY <1>1, NetworkType
<1>2. CASE \/ Build(t) \/ Abandon(t) \/ Record(t) \/ RecordFails(t) \/ Reject(t)
           \/ AskAfter(t) \/ EnterAfter(t) \/ AskAfterFails(t)
  <2>1. transfer' \in [Tx -> TransferState]
    <3>0. \A s \in TransferState :
            [transfer EXCEPT ![t] = s] \in [Tx -> TransferState]
      OBVIOUS
    <3>1. CASE Build(t)
      BY <3>0, <3>1, Parts DEF Build, TransferState
    <3>2. CASE Abandon(t) \/ EnterAfter(t) \/ AskAfterFails(t)
      <4>1. [IdleTransfer EXCEPT !.pc = "done"] \in TransferState
        BY Parts DEF TransferState
      <4> QED
        BY <3>0, <3>2, <4>1, Parts DEF Abandon, EnterAfter, AskAfterFails
    <3>3. CASE Record(t) \/ RecordFails(t) \/ Reject(t)
      <4>1. PICK pc \in {"waiting", "done", "settled"} :
              transfer' = [transfer EXCEPT ![t] = [transfer[t] EXCEPT !.pc = pc]]
        BY <3>3 DEF Record, RecordFails, Reject
      <4>2. [transfer[t] EXCEPT !.pc = pc] \in TransferState
        BY DEF TransferState
      <4> QED
        BY <3>0, <4>1, <4>2
    <3>4. CASE AskAfter(t)
      <4>1. [transfer[t] EXCEPT !.pc = "answered", !.answer = chain] \in TransferState
        BY DEF TransferState
      <4> QED
        BY <3>0, <3>4, <4>1 DEF AskAfter
    <3> QED
      BY <1>2, <3>1, <3>2, <3>3, <3>4
  <2>2. info' \in Amount
    BY <1>2 DEF Build, Abandon, Record, RecordFails, Reject, AskAfter,
                EnterAfter, AskAfterFails, TransferState
  <2>3. pending' \subseteq Tx
    BY <1>2 DEF Build, Abandon, Record, RecordFails, Reject, AskAfter,
                EnterAfter, AskAfterFails
  <2> QED
    BY <1>2, <2>1, <2>2, <2>3
    DEF Build, Abandon, Record, RecordFails, Reject, AskAfter, EnterAfter,
        AskAfterFails
<1>3. CASE Send(t)
  <2>1. transfer' \in [Tx -> TransferState]
    BY <1>3 DEF Send, TransferState
  <2> QED
    BY <1>3, <2>1 DEF Send
<1>4. CASE Settle(t)
  <2>1. transfer' \in [Tx -> TransferState]
    BY <1>4 DEF Settle, TransferState
  <2>2. row' \in Account /\ account' \in Account
    BY <1>4, SettleType DEF Settle
  <2> QED
    BY <1>4, <2>1, <2>2 DEF Settle
<1> QED
  BY <1>1, <1>2, <1>3, <1>4 DEF TransferStep

LEMMA PollType ==
  ASSUME TypeOK, NEW p \in Poll, PollStep(p)
  PROVE  TypeOK'
<1> USE DEF TypeOK, network, copies
<1>1. poll' \in [Poll -> PollState]
  <2>0. \A s \in PollState : [poll EXCEPT ![p] = s] \in [Poll -> PollState]
    OBVIOUS
  <2> DEFINE s == poll[p]
  <2>1. CASE StartUpdate(p)
    <3>1. poll' = [poll EXCEPT ![p] = [s EXCEPT !.pc = "asking", !.seen = info]]
      BY <2>1 DEF StartUpdate
    <3>2. [s EXCEPT !.pc = "asking", !.seen = info] \in PollState
      BY DEF PollState
    <3> QED
      BY <2>0, <3>1, <3>2
  <2>2. CASE StartVisit(p)
    <3>1. poll' = [poll EXCEPT ![p] = [s EXCEPT !.pc = "loading", !.by = "page",
                                                !.found = row]]
      BY <2>2 DEF StartVisit
    <3>2. [s EXCEPT !.pc = "loading", !.by = "page", !.found = row] \in PollState
      BY DEF PollState, Updaters
    <3> QED
      BY <2>0, <3>1, <3>2
  <2>3. CASE LoadAccounts(p)
    <3>1. poll' = [poll EXCEPT ![p] = [s EXCEPT !.pc = "asking",
                                                !.found = NewAccount]]
      BY <2>3 DEF LoadAccounts
    <3>2. [s EXCEPT !.pc = "asking", !.found = NewAccount] \in PollState
      BY Parts DEF PollState
    <3> QED
      BY <2>0, <3>1, <3>2
  <2>4. CASE Answer(p)
    <3>1. poll' = [poll EXCEPT ![p] = [s EXCEPT !.pc = "answered",
                                                !.answer = chain]]
      BY <2>4 DEF Answer
    <3>2. [s EXCEPT !.pc = "answered", !.answer = chain] \in PollState
      BY DEF PollState
    <3> QED
      BY <2>0, <3>1, <3>2
  <2>5. CASE Compare(p)
    <3>1. \/ poll' = [poll EXCEPT ![p] = IdlePoll]
          \/ poll' = [poll EXCEPT ![p] = [s EXCEPT !.pc = "found",
                            !.by = "view", !.seen = Nothing, !.found = row]]
      BY <2>5 DEF Compare
    <3>2. [s EXCEPT !.pc = "found", !.by = "view", !.seen = Nothing,
                     !.found = row] \in PollState
      BY Parts DEF PollState, Updaters
    <3> QED
      BY <2>0, <3>1, <3>2, Parts
  <2>6. CASE Decide(p)
    <3>1. PICK pc \in {"update", "enter"} :
            poll' = [poll EXCEPT ![p] = [s EXCEPT !.pc = pc, !.found = NewAccount]]
      BY <2>6 DEF Decide
    <3>2. [s EXCEPT !.pc = pc, !.found = NewAccount] \in PollState
      BY Parts DEF PollState
    <3> QED
      BY <2>0, <3>1, <3>2
  <2>7. CASE UpdateRow(p) \/ UpdateStore(p)
    <3>1. PICK pc \in {"dispatch", "enter"} :
            poll' = [poll EXCEPT ![p] = [s EXCEPT !.pc = pc]]
      BY <2>7 DEF UpdateRow, UpdateStore
    <3>2. [s EXCEPT !.pc = pc] \in PollState
      BY Parts DEF PollState
    <3> QED
      BY <2>0, <3>1, <3>2
  <2>8. CASE AnswerFails(p) \/ EnterInfo(p)
    BY <2>0, <2>8, Parts DEF AnswerFails, EnterInfo
  <2> QED
    BY <2>1, <2>2, <2>3, <2>4, <2>5, <2>6, <2>7, <2>8 DEF PollStep
<1>2. poll[p].answer \in Amount /\ poll[p].found \in Account
  BY DEF PollState
<1>3. row' \in Account /\ account' \in Account /\ info' \in Amount
  BY <1>2, Parts DEF PollStep, StartUpdate, StartVisit, LoadAccounts, Answer,
     AnswerFails, Compare, Decide, UpdateRow, UpdateStore, EnterInfo
<1> QED
  BY <1>1, <1>3 DEF PollStep, StartUpdate, StartVisit, LoadAccounts, Answer,
     AnswerFails, Compare, Decide, UpdateRow, UpdateStore, EnterInfo

LEMMA DecryptionType ==
  ASSUME TypeOK,
         \/ StartDecryption \/ FinishDecryption \/ DecryptionFails
         \/ ListUndecrypted
  PROVE  TypeOK'
<1> USE DEF TypeOK, network, copies
<1>1. CASE StartDecryption
  BY <1>1 DEF StartDecryption, Account
<1>2. CASE FinishDecryption
  <2>0. Overtaken(row) \in BOOLEAN /\ Overtaken(account) \in BOOLEAN
    BY DEF Overtaken
  <2>1. row' \in Account /\ account' \in Account
    BY <1>2, <2>0 DEF FinishDecryption, Decrypted, Account
  <2> QED
    BY <1>2, <2>1, Parts DEF FinishDecryption, IdleDecryption
<1>3. CASE DecryptionFails
  BY <1>3, Parts DEF DecryptionFails, IdleDecryption
<1>4. CASE ListUndecrypted
  BY <1>4, Parts DEF ListUndecrypted
<1> QED
  BY <1>1, <1>2, <1>3, <1>4

LEMMA NextType == TypeOK /\ [Next]_vars => TypeOK'
<1> SUFFICES ASSUME TypeOK, [Next]_vars PROVE TypeOK'
  OBVIOUS
<1>1. CASE UNCHANGED vars
  BY <1>1 DEF vars, TypeOK
<1> QED
  BY <1>1, NetworkType, TransferType, PollType, DecryptionType DEF Next

\* Every variable keeps its type, for any transfers and updates and whatever
\* disturbances happen.
THEOREM TypeCorrect == Spec => []TypeOK
BY InitType, NextType, PTL DEF Spec

-----------------------------------------------------------------------------
(* The inductive invariant. *)

\* A copy that a step writes fits with the rest, as it is after the step.
Fits(copy) ==
  /\ Past(copy.amount)
  /\ Complete(copy) =>
       /\ \A a \in Known' : copy.amount.incoming \subseteq Counted(a)
       /\ copy.amount = chain => copy.total = chain

\* What a transfer has become, it stays.
OutcomesStay ==
  \A t \in Tx : outcome[t] \in {"success", "failure"} => outcome'[t] = outcome[t]

\* The amount of the network is one the account has had.
LEMMA PastChain ==
  ASSUME TypeOK, NetworkIsRight
  PROVE  Past(chain) /\ Counted(chain) = Received
BY DEF TypeOK, Amount, NetworkIsRight, Past, Received, Counted

LEMMA CopiesAreAccounts ==
  ASSUME TypeOK
  PROVE  Copies \subseteq Account /\ Known \subseteq Amount
BY DEF TypeOK, Copies, Loading, PollState, Known, Entering, Answered, Computing,
       TransferState

LEMMA InitInv == Init => IInv
<1> SUFFICES ASSUME Init PROVE IInv
  OBVIOUS
<1>1. NetworkIsRight
  BY DEF Init, Nothing, NetworkIsRight, IdleTransfer
<1>2. Known = {Nothing} /\ Copies = {NewAccount}
  BY DEF Init, Known, Copies, Entering, Answered, Computing, Loading, IdlePoll,
         IdleTransfer
<1>3. Past(Nothing) /\ NewAccount.amount = Nothing
  BY DEF Past, Nothing, NewAccount
<1> QED
  BY <1>1, <1>2, <1>3 DEF Init, IInv, NothingIsAhead, NobodyIsBehind,
     TotalsAreRight, Complete, NewAccount, Nothing

\* A step of the wallet: the network goes on as it is, and the step brings
\* nothing new but what the network holds and copies that fit.
LEMMA WalletStep ==
  ASSUME TypeOK, IInv, UNCHANGED chain, OutcomesStay, NetworkIsRight',
         Known' \subseteq Known \union {chain},
         \A copy \in Copies' : copy \in Copies \/ Fits(copy)
  PROVE  IInv'
<1>1. \A a : Past(a) => Past(a)'
  BY DEF Past, OutcomesStay, Received
<1>2. \A a \in Known' : Past(a)
  BY PastChain DEF IInv, NothingIsAhead
<1>3. \A copy \in Copies' : Past(copy.amount)
  BY DEF IInv, NothingIsAhead, Fits
<1>4. NothingIsAhead'
  BY <1>1, <1>2, <1>3 DEF NothingIsAhead
<1>5. NobodyIsBehind'
  <2> SUFFICES ASSUME NEW copy \in Copies', NEW a \in Known',
                      Complete(copy)
               PROVE  copy.amount.incoming \subseteq Counted(a)
    BY DEF NobodyIsBehind, Counted
  <2>1. CASE Fits(copy)
    BY <2>1 DEF Fits
  <2>2. CASE copy \in Copies /\ a \in Known
    BY <2>2 DEF IInv, NobodyIsBehind
  <2>3. CASE copy \in Copies /\ a = chain
    <3>1. copy.amount.incoming \subseteq Received
      BY <2>3 DEF IInv, NothingIsAhead, Past
    <3> QED
      BY <2>3, <3>1, PastChain DEF IInv
  <2> QED
    BY <2>1, <2>2, <2>3
<1>6. TotalsAreRight'
  BY DEF IInv, TotalsAreRight, Fits
<1> QED
  BY <1>4, <1>5, <1>6 DEF IInv

\* A step of the network: it holds more than any amount it has had, and the
\* wallet does not know of it.
LEMMA NetworkStep ==
  ASSUME TypeOK, IInv, OutcomesStay, NetworkIsRight',
         UNCHANGED <<row, account, info, transfer, poll>>,
         Received \subseteq Received',
         \A a \in Amount : Past(a) => a # chain'
  PROVE  IInv'
<1>1. Known' = Known /\ Copies' = Copies
  BY DEF Known, Copies, Entering, Answered, Computing, Loading
<1>2. \A a : Past(a) => Past(a)'
  BY DEF Past, OutcomesStay
<1>3. NothingIsAhead'
  BY <1>1, <1>2 DEF IInv, NothingIsAhead
<1>4. NobodyIsBehind'
  BY <1>1 DEF IInv, NobodyIsBehind, Counted
<1>5. \A copy \in Copies : copy.amount # chain'
  <2>1. \A copy \in Copies : copy.amount \in Amount /\ Past(copy.amount)
    BY CopiesAreAccounts DEF IInv, NothingIsAhead, Account
  <2> QED
    BY <2>1
<1>6. TotalsAreRight'
  BY <1>1, <1>5 DEF TotalsAreRight
<1> QED
  BY <1>3, <1>4, <1>6 DEF IInv

LEMMA NetworkInv ==
  ASSUME TypeOK, IInv,
         \/ \E r \in Receipt : Receive(r)
         \/ \E f \in Foreign : Spend(f)
         \/ \E t \in Tx : Succeed(t) \/ FailOnChain(t)
  PROVE  IInv'
<1> USE DEF copies
<1>1. ASSUME NEW r \in Receipt, Receive(r) PROVE IInv'
  <2>1. chain' = [chain EXCEPT !.incoming = @ \union {r}] /\ r \notin Received
    BY <1>1 DEF Receive
  <2>2. Received' = Received \union {r}
    BY <2>1 DEF Received, TypeOK, Amount
  <2>3. NetworkIsRight'
    BY <1>1, <2>1 DEF Receive, IInv, NetworkIsRight, TypeOK, Amount, Received
  <2>4. \A a \in Amount : Past(a) => a # chain'
    BY <2>1 DEF Past, TypeOK, Amount
  <2> QED
    BY <1>1, <2>2, <2>3, <2>4, NetworkStep DEF Receive, OutcomesStay
<1>2. ASSUME NEW f \in Foreign, Spend(f) PROVE IInv'
  <2>1. chain' = After(chain, f) /\ f \notin chain.self
    BY <1>2 DEF Spend
  <2>2. f \notin Received /\ f \notin Tx
    BY <2>1, ConstantsAssumption DEF Received, TypeOK, Amount
  <2>3. Received' = Received \union {f}
    BY <2>1 DEF Received, After
  <2>4. NetworkIsRight'
    BY <1>2, <2>1, <2>2, ConstantsAssumption
    DEF Spend, IInv, NetworkIsRight, TypeOK, Amount, Received, After
  <2>5. \A a \in Amount : Past(a) => a # chain'
    BY <2>1, <2>2 DEF Past, After
  <2> QED
    BY <1>2, <2>3, <2>4, <2>5, NetworkStep DEF Spend, OutcomesStay
<1>3. ASSUME NEW t \in Tx, Succeed(t) PROVE IInv'
  <2> DEFINE a == transfer[t].base
  <2>1. /\ chain' = [self |-> After(a, t).self,
                     incoming |-> chain.incoming \ a.incoming]
        /\ a.self = chain.self /\ a.incoming \subseteq chain.incoming
        /\ outcome[t] = "sent" /\ outcome' = [outcome EXCEPT ![t] = "success"]
    BY <1>3 DEF Succeed, Taken, Valid
  <2>2. t \notin chain.self /\ t \notin chain.incoming
    BY <2>1, ConstantsAssumption DEF IInv, NetworkIsRight, TypeOK, Amount
  <2>3. Received' = Received \union {t}
    BY <2>1 DEF Received, After
  <2>4. OutcomesStay
    BY <2>1 DEF OutcomesStay, TypeOK
  <2>5. NetworkIsRight'
    <3>1. chain'.self \intersect chain'.incoming = {}
      BY <2>1, <2>2 DEF IInv, NetworkIsRight, After
    <3>2. \A x \in Tx : x \in chain'.self => outcome'[x] = "success"
      BY <2>1, ConstantsAssumption DEF IInv, NetworkIsRight, After, TypeOK, Amount
    <3>3. \A x \in Tx : outcome'[x] # "unsent" <=> outcome[x] # "unsent"
      BY <2>1 DEF TypeOK
    <3> QED
      BY <1>3, <3>1, <3>2, <3>3 DEF Succeed, IInv, NetworkIsRight
  <2>6. \A x \in Amount : Past(x) => x # chain'
    BY <2>1, <2>2 DEF Past, After
  <2> QED
    BY <1>3, <2>3, <2>4, <2>5, <2>6, NetworkStep DEF Succeed
<1>4. ASSUME NEW t \in Tx, FailOnChain(t) PROVE IInv'
  <2>1. outcome[t] = "sent" /\ outcome' = [outcome EXCEPT ![t] = "failure"]
    BY <1>4 DEF FailOnChain, Taken
  <2>2. UNCHANGED <<chain, row, account, info, transfer, poll>>
    BY <1>4 DEF FailOnChain
  <2>3. OutcomesStay
    BY <2>1 DEF OutcomesStay, TypeOK
  <2>4. NetworkIsRight'
    BY <2>1, <2>2 DEF IInv, NetworkIsRight, TypeOK
  <2>5. Known' = Known /\ Copies' = Copies
    BY <2>2 DEF Known, Copies, Entering, Answered, Computing, Loading
  <2> QED
    BY <2>2, <2>3, <2>4, <2>5, WalletStep
<1> QED
  BY <1>1, <1>2, <1>3, <1>4


\* A transfer that is built starts from the accountInfo.
LEMMA TransferInv ==
  ASSUME TypeOK, IInv, NEW t \in Tx, TransferStep(t)
  PROVE  IInv'
<1> USE DEF network, copies
<1>1. CASE Succeed(t) \/ FailOnChain(t)
  BY <1>1, NetworkInv
<1>2. CASE \/ Build(t) \/ Abandon(t) \/ Record(t) \/ RecordFails(t) \/ Reject(t)
           \/ AskAfter(t) \/ EnterAfter(t) \/ AskAfterFails(t)
  <2>1. UNCHANGED <<chain, outcome, row, account, poll>>
    BY <1>2 DEF Build, Abandon, Record, RecordFails, Reject, AskAfter,
                EnterAfter, AskAfterFails
  <2>2. \A x \in Tx : transfer'[x].pc \in {"idle", "built"}
                        <=> transfer[x].pc \in {"idle", "built"}
    BY <1>2 DEF Build, Abandon, Record, RecordFails, Reject, AskAfter,
                EnterAfter, AskAfterFails, TypeOK, TransferState, IdleTransfer
  <2>3. NetworkIsRight'
    BY <2>1, <2>2 DEF IInv, NetworkIsRight
  <2>4. Copies' = Copies
    BY <2>1 DEF Copies, Loading
  <2>5. Known' \subseteq Known \union {chain}
    <3>1. info' \in Known
      BY <1>2 DEF Build, Abandon, Record, RecordFails, Reject, AskAfter,
                  EnterAfter, AskAfterFails, Known, Answered
    <3>2. \A x \in Computing' : transfer'[x].base \in Known
      BY <1>2 DEF Build, Abandon, Record, RecordFails, Reject, AskAfter,
                  EnterAfter, AskAfterFails, TypeOK, TransferState,
                  IdleTransfer, Known, Computing
    <3>3. \A x \in Answered' : transfer'[x].answer \in Known \union {chain}
      <4>1. CASE AskAfter(t)
        BY <4>1 DEF AskAfter, TypeOK, Known, Answered
      <4>2. CASE ~ AskAfter(t)
        BY <1>2, <4>2 DEF Build, Abandon, Record, RecordFails, Reject,
           EnterAfter, AskAfterFails, TypeOK, TransferState, IdleTransfer,
           Known, Answered
      <4> QED
        BY <4>1, <4>2
    <3>4. \A p \in Entering' : poll'[p].answer \in Known
      BY <2>1 DEF Known, Entering
    <3> QED
      BY <3>1, <3>2, <3>3, <3>4 DEF Known
  <2>6. OutcomesStay
    BY <2>1 DEF OutcomesStay
  <2> QED
    BY <2>1, <2>3, <2>4, <2>5, <2>6, WalletStep
<1>3. CASE Send(t)
  <2>1. /\ transfer[t].pc = "built" /\ transfer' = [transfer EXCEPT ![t].pc = "sent"]
        /\ outcome' = [outcome EXCEPT ![t] = "sent"]
        /\ UNCHANGED <<chain, row, account, info, poll>>
    BY <1>3 DEF Send
  <2>2. outcome[t] = "unsent"
    BY <2>1 DEF IInv, NetworkIsRight
  <2>3. OutcomesStay
    BY <2>1, <2>2 DEF OutcomesStay, TypeOK
  <2>4. NetworkIsRight'
    BY <2>1, <2>2 DEF IInv, NetworkIsRight, TypeOK, TransferState
  <2>5. Copies' = Copies /\ Known' \subseteq Known
    BY <2>1 DEF Copies, Loading, Known, Entering, Answered, Computing, TypeOK,
                TransferState
  <2> QED
    BY <2>1, <2>3, <2>4, <2>5, WalletStep
<1>4. CASE Settle(t)
  <2> DEFINE a == transfer[t].base
             left == After(a, t)
  <2>1. /\ transfer[t].pc = "waiting" /\ outcome[t] \in {"success", "failure"}
        /\ transfer' = [transfer EXCEPT ![t].pc = "settled"]
        /\ row' = ShieldedTransferConsequence(row, t)
        /\ account' = ShieldedTransferConsequence(account, t)
        /\ UNCHANGED <<chain, outcome, info, poll>>
    BY <1>4 DEF Settle
  <2>2. NetworkIsRight'
    BY <2>1 DEF IInv, NetworkIsRight, TypeOK, TransferState
  <2>3. Known' \subseteq Known /\ a \in Known
    BY <2>1 DEF Known, Entering, Answered, Computing, TypeOK, TransferState
  <2>4. Past(a) /\ left = [self |-> Counted(a) \union {t}, incoming |-> {}]
    BY <2>3 DEF IInv, NothingIsAhead, After, Counted
  <2>5. ASSUME NEW copy \in Copies PROVE Fits(ShieldedTransferConsequence(copy, t))
    <3> DEFINE c == ShieldedTransferConsequence(copy, t)
    <3>0. copy \in Account /\ Past(copy.amount)
      BY CopiesAreAccounts DEF IInv, NothingIsAhead
    <3>1. /\ c.amount = [self |-> left.self, incoming |-> copy.amount.incoming]
          /\ c.total = left /\ Complete(c) = Complete(copy)
      BY <3>0 DEF ShieldedTransferConsequence, Account, Amount, Complete
    <3> HIDE DEF c, left
    <3>a. /\ c.amount.self = Counted(a) \union {t}
          /\ c.amount.incoming = copy.amount.incoming
      BY <2>4, <3>1
    <3>2. Past(c.amount)
      <4>1. a \in Amount
        BY <2>3, CopiesAreAccounts
      <4>2. Counted(a) \subseteq Received \union Tx
        BY <2>4 DEF Past, Counted
      <4>3. \A x \in Counted(a) \intersect Tx : outcome[x] \in {"success", "failure"}
        BY <2>4, <4>1, ConstantsAssumption DEF Past, Counted, Amount
      <4> QED
        BY <2>1, <3>0, <3>a, <4>2, <4>3 DEF Past
    <3>3. Complete(c) => \A x \in Known' : c.amount.incoming \subseteq Counted(x)
      <4>1. Complete(c) =>
              \A x \in Known : copy.amount.incoming \subseteq Counted(x)
        BY <3>1 DEF IInv, NobodyIsBehind
      <4> QED
        BY <2>3, <3>a, <4>1
    <3>4. ASSUME Complete(c), c.amount = chain PROVE c.total = chain
      <4>1. chain.self = Counted(a) \union {t} /\ chain.incoming = copy.amount.incoming
        BY <2>4, <3>1, <3>4
      <4>2. copy.amount.incoming \subseteq Counted(a)
        BY <2>3, <3>1, <3>4 DEF IInv, NobodyIsBehind
      <4>3. chain.incoming = {}
        BY <4>1, <4>2 DEF IInv, NetworkIsRight
      <4> QED
        BY <2>4, <3>1, <4>1, <4>3 DEF TypeOK, Amount
    <3> QED
      BY <3>2, <3>3, <3>4 DEF Fits, c
  <2>6. \A copy \in Copies' : copy \in Copies \/ Fits(copy)
    <3>1. Copies' = {row', account'} \union {poll[p].found : p \in Loading}
      BY <2>1 DEF Copies, Loading
    <3>2. row \in Copies /\ account \in Copies
      BY DEF Copies
    <3> QED
      BY <2>1, <2>5, <3>1, <3>2 DEF Copies
  <2>7. OutcomesStay
    BY <2>1 DEF OutcomesStay
  <2> QED
    BY <2>1, <2>2, <2>3, <2>6, <2>7, WalletStep
<1> QED
  BY <1>1, <1>2, <1>3, <1>4 DEF TransferStep

\* A copy that says its balance is hidden fits if its amount is a past one.
LEMMA HiddenFits ==
  ASSUME NEW copy, copy.shown = "hidden", Past(copy.amount)
  PROVE  Fits(copy)
BY DEF Fits, Complete

LEMMA PollInv ==
  ASSUME TypeOK, IInv, NEW p \in Poll, PollStep(p)
  PROVE  IInv'
<1> USE DEF network, copies
<1>1. UNCHANGED <<chain, outcome, transfer>>
  BY DEF PollStep, StartUpdate, StartVisit, LoadAccounts, Answer, AnswerFails,
         Compare, Decide, UpdateRow, UpdateStore, EnterInfo
<1>2. NetworkIsRight' /\ OutcomesStay
  BY <1>1 DEF IInv, NetworkIsRight, OutcomesStay
<1>3. \A q \in Poll \ {p} : poll'[q] = poll[q]
  BY DEF PollStep, StartUpdate, StartVisit, LoadAccounts, Answer, AnswerFails,
         Compare, Decide, UpdateRow, UpdateStore, EnterInfo, TypeOK
<1>4. Known' \subseteq Known \union {chain}
  <2>1. info' \in Known
    BY DEF PollStep, StartUpdate, StartVisit, LoadAccounts, Answer, AnswerFails,
           Compare, Decide, UpdateRow, UpdateStore, EnterInfo, Known, Entering
  <2>2. p \in Entering' => poll'[p].answer \in Known \union {chain}
    BY DEF PollStep, StartUpdate, StartVisit, LoadAccounts, Answer, AnswerFails,
           Compare, Decide, UpdateRow, UpdateStore, EnterInfo, Known, Entering,
           TypeOK, PollState, IdlePoll
  <2>3. \A q \in Entering' \ {p} : poll'[q].answer \in Known
    BY <1>3 DEF Known, Entering
  <2>4. /\ {transfer'[t].answer : t \in Answered'} \subseteq Known
        /\ {transfer'[t].base : t \in Computing'} \subseteq Known
    BY <1>1 DEF Known, Answered, Computing
  <2> QED
    BY <2>1, <2>2, <2>3, <2>4 DEF Known
<1>5. \A copy \in Copies' : copy \in Copies \/ Fits(copy)
  <2>1. row' \in Copies \/ Fits(row')
    <3>1. CASE UpdateRow(p)
      <4>1. Past(poll[p].answer)
        BY <3>1 DEF UpdateRow, IInv, NothingIsAhead, Known, Entering
      <4>2. row'.amount = poll[p].answer /\ row'.shown = "hidden"
        BY <3>1 DEF UpdateRow, Hidden, TypeOK, Account
      <4> QED
        BY <4>1, <4>2, HiddenFits
    <3>2. CASE UNCHANGED row
      BY <3>2 DEF Copies
    <3> QED
      BY <3>1, <3>2 DEF PollStep, StartUpdate, StartVisit, LoadAccounts, Answer,
         AnswerFails, Compare, Decide, UpdateStore, EnterInfo
  <2>2. account' \in Copies \/ Fits(account')
    <3>1. CASE UpdateStore(p)
      <4>1. Past(poll[p].answer)
        BY <3>1 DEF UpdateStore, IInv, NothingIsAhead, Known, Entering
      <4>2. account'.amount = poll[p].answer /\ account'.shown = "hidden"
        BY <3>1 DEF UpdateStore, Hidden, TypeOK, Account
      <4> QED
        BY <4>1, <4>2, HiddenFits
    <3>2. CASE LoadAccounts(p)
      BY <3>2 DEF LoadAccounts, Copies, Loading
    <3>3. CASE UNCHANGED account
      BY <3>3 DEF Copies
    <3> QED
      BY <3>1, <3>2, <3>3 DEF PollStep, StartUpdate, StartVisit, Answer,
         AnswerFails, Compare, Decide, UpdateRow, EnterInfo
  <2>3. p \in Loading' => poll'[p].found \in Copies
    BY DEF PollStep, StartUpdate, StartVisit, LoadAccounts, Answer, AnswerFails,
           Compare, Decide, UpdateRow, UpdateStore, EnterInfo, Copies, Loading,
           TypeOK, PollState, IdlePoll
  <2>4. \A q \in Loading' \ {p} : poll'[q].found \in Copies
    BY <1>3 DEF Copies, Loading
  <2> QED
    BY <2>1, <2>2, <2>3, <2>4 DEF Copies
<1> QED
  BY <1>1, <1>2, <1>4, <1>5, WalletStep

\* Unless it was overtaken, what is decrypted is what the copy holds, and
\* everybody knows what the copy has received.
LEMMA DecryptionInv ==
  ASSUME TypeOK, IInv,
         \/ StartDecryption \/ FinishDecryption \/ DecryptionFails
         \/ ListUndecrypted
  PROVE  IInv'
<1> USE DEF network, copies
<1>1. UNCHANGED <<chain, outcome, info, transfer, poll>>
  BY DEF StartDecryption, FinishDecryption, DecryptionFails, ListUndecrypted
<1>2. NetworkIsRight' /\ OutcomesStay
  BY <1>1 DEF IInv, NetworkIsRight, OutcomesStay
<1>3. Known' = Known
  BY <1>1 DEF Known, Entering, Answered, Computing
<1>4. Copies' = {row', account'} \union {poll[p].found : p \in Loading}
  BY <1>1 DEF Copies, Loading
<1>5. CASE StartDecryption \/ DecryptionFails
  <2>1. Copies' = Copies
    BY <1>4, <1>5 DEF StartDecryption, DecryptionFails, Copies
  <2> QED
    BY <1>1, <1>2, <1>3, <2>1, WalletStep
<1>6. CASE ListUndecrypted
  <2>1. /\ row'.shown = "hidden" /\ row'.amount = row.amount
        /\ account'.shown = "hidden" /\ account'.amount = account.amount
    BY <1>6 DEF ListUndecrypted, TypeOK, Account
  <2>2. Past(row.amount) /\ Past(account.amount)
    BY DEF IInv, NothingIsAhead, Copies
  <2>3. Fits(row') /\ Fits(account')
    BY <2>1, <2>2, HiddenFits
  <2>4. \A copy \in Copies' : copy \in Copies \/ Fits(copy)
    BY <1>4, <2>3 DEF Copies
  <2> QED
    BY <1>1, <1>2, <1>3, <2>4, WalletStep
<1>7. CASE FinishDecryption
  <2>1. ASSUME NEW copy \in {row, account} PROVE Fits(Decrypted(copy))
    <3> DEFINE c == Decrypted(copy)
    <3>1. copy \in Account /\ copy \in Copies
      BY DEF Copies, TypeOK
    <3>2. /\ c.amount = copy.amount /\ c.total = decryption.amount
          /\ c.overtaken = Overtaken(copy)
      BY <3>1 DEF Decrypted, Account
    <3> HIDE DEF c
    <3>3. Past(c.amount)
      BY <3>1, <3>2 DEF IInv, NothingIsAhead
    <3>4. ASSUME ~ Overtaken(copy)
          PROVE  /\ \A a \in Known' : c.amount.incoming \subseteq Counted(a)
                 /\ c.total = c.amount
      BY <1>3, <3>2, <3>4 DEF Overtaken
    <3> QED
      BY <3>2, <3>3, <3>4 DEF Fits, Complete, c
  <2>2. Fits(row') /\ Fits(account')
    BY <1>7, <2>1 DEF FinishDecryption
  <2>3. \A copy \in Copies' : copy \in Copies \/ Fits(copy)
    BY <1>4, <2>2 DEF Copies
  <2> QED
    BY <1>1, <1>2, <1>3, <2>3, WalletStep
<1> QED
  BY <1>5, <1>6, <1>7

LEMMA NextInv == TypeOK /\ IInv /\ [Next]_vars => IInv'
<1> SUFFICES ASSUME TypeOK, IInv, [Next]_vars PROVE IInv'
  OBVIOUS
<1>1. CASE UNCHANGED vars
  <2>1. Known' = Known /\ Copies' = Copies /\ NetworkIsRight' /\ OutcomesStay
    BY <1>1 DEF vars, Known, Copies, Entering, Answered, Computing, Loading, IInv,
                NetworkIsRight, OutcomesStay
  <2> QED
    BY <1>1, <2>1, WalletStep DEF vars
<1> QED
  BY <1>1, NetworkInv, TransferInv, PollInv, DecryptionInv DEF Next

\* A balance that is shown as decrypted is the balance of the account, in the
\* table and in the store, for any number of transfers, polls and visits, with
\* transfers that fail, are rejected or settle before their row is written,
\* and decryptions that cross all of these: the copies that an overtaken
\* decryption was the last to write are left out by the property itself.
THEOREM ShownBalanceIsHeld == Spec => []BalanceIsHeld
<1>1. Init => TypeOK /\ IInv
  BY InitType, InitInv
<1>2. TypeOK /\ IInv /\ [Next]_vars => TypeOK' /\ IInv'
  BY NextType, NextInv
<1>3. IInv => BalanceIsHeld
  BY DEF IInv, TotalsAreRight, Complete, BalanceIsHeld, Copies
<1> QED
  BY <1>1, <1>2, <1>3, PTL DEF Spec
=============================================================================
