------------------------ MODULE LedgerConnectionProofs ------------------------
(***************************************************************************)
(* For any number of submissions and of changes of the device: the types   *)
(* of LedgerConnection, and that the renderer never claims a device of its *)
(* own accord.                                                             *)
(***************************************************************************)
EXTENDS LedgerConnection, SequenceTheorems, TLAPS

\* What the observer sends, and what the renderer makes of it.
LEMMA AnswerIsMessages == Answer \in Seq(Message)
<1>1. \A m \in Message : <<m>> \in Seq(Message)
  OBVIOUS
<1>2. /\ "RESET" \in Message /\ "PENDING" \in Message /\ "OUTDATED" \in Message
      /\ "CONNECTED_SUBSCRIPTION" \in Message
  BY DEF Message
<1>3. <<>> \in Seq(Message)
  OBVIOUS
<1> QED
  BY <1>1, <1>2, <1>3 DEF Answer

LEMMA ShownIsStatus ==
  ASSUME NEW m \in Message
  PROVE  /\ Shown(m) \in Status
         /\ Shown(m) # "AWAITING_USER_INPUT"
         /\ Shown(m) = "CONNECTED" => m = "CONNECTED_SUBSCRIPTION"
BY DEF Message, Shown, Status

LEMMA EmitKeepsMessages ==
  ASSUME channel \in Seq(Message), NEW ms \in Seq(Message), Emit(ms)
  PROVE  channel' \in Seq(Message)
BY ConcatProperties DEF Emit

\* The first job may be replaced.
LEMMA FirstJobReplaced ==
  ASSUME jobs \in Seq(Job), jobs # <<>>, NEW j \in Job
  PROVE  <<j>> \o Tail(jobs) \in Seq(Job)
<1>1. Tail(jobs) \in Seq(Job) /\ <<j>> \in Seq(Job)
  OBVIOUS
<1> QED
  BY <1>1, ConcatProperties

\* The type invariant holds of every reachable state.
THEOREM TypeCorrect == Spec => []TypeOK
<1>1. Init => TypeOK
  <2> SUFFICES ASSUME Init PROVE TypeOK
    OBVIOUS
  <2>1. hid \in Seq({"add", "remove"})
    <3>1. <<>> \in Seq({"add", "remove"}) /\ <<"add">> \in Seq({"add", "remove"})
      OBVIOUS
    <3>2. hid = <<>> \/ hid = <<"add">>
      BY DEF Init
    <3> QED
      BY <3>1, <3>2
  <2>2. jobs \in Seq(Job) /\ channel \in Seq(Message)
    BY DEF Init
  <2>3. submission \in [Submission -> {"none", "signing", "resetting", "reset"}]
    BY DEF Init
  <2>4. /\ device \in {"none"} \union App /\ locked \in {"yes", "no"}
        /\ changes \in 0 .. MaxChanges /\ detached \in Nat
    BY ChangesAssumption DEF Init
  <2> QED
    BY <2>1, <2>2, <2>3, <2>4 DEF Init, TypeOK, Status
<1>2. TypeOK /\ [Next]_vars => TypeOK'
  <2> SUFFICES ASSUME TypeOK, [Next]_vars PROVE TypeOK'
    OBVIOUS
  <2> USE DEF TypeOK, usb, observer, renderer
  <2>1. CASE Plug
    BY <2>1, ChangesAssumption DEF Plug, Change
  <2>2. CASE Unplug
    BY <2>2, ChangesAssumption DEF Unplug, Change, Broken
  <2>3. CASE Switch
    BY <2>3, ChangesAssumption DEF Switch, Change, Broken
  <2>4. CASE Lock
    BY <2>4, ChangesAssumption DEF Lock, Change
  <2>5. CASE Unlock
    BY <2>5 DEF Unlock
  <2>6. CASE Event
    <3>1. <<"update">> \in Job /\ <<"close">> \in Job
      BY DEF Job
    <3>2. CASE onAdd
      BY <3>1, <3>2 DEF onAdd
    <3>3. CASE onRemove
      BY <3>1, <3>3 DEF onRemove
    <3>4. CASE handleIfLedgerIsStillConnected
      BY <3>1, <3>4 DEF handleIfLedgerIsStillConnected
    <3> QED
      BY <2>6, <3>2, <3>3, <3>4 DEF Event
  <2>7. CASE Tick
    <3>1. <<"poll">> \in Job
      BY DEF Job
    <3> QED
      BY <2>7, <3>1 DEF Tick
  <2>8. CASE Serve
    <3>1. \A m \in Message : <<m>> \in Seq(Message)
      OBVIOUS
    <3>2. /\ "RESET" \in Message /\ "OUTDATED" \in Message
          /\ "CONNECTED_SUBSCRIPTION" \in Message
      BY DEF Message
    <3>3. CASE updateLedgerState
      <4>1. <<"asked">> \in Job
        BY DEF Job
      <4>2. client' \in {"none", "open", "broken", "closed"}
        BY <3>3 DEF updateLedgerState, OpenTransport, Broken
      <4>3. channel' \in Seq(Message)
        <5>1. CASE device = "none"
          BY <3>1, <3>2, <3>3, <5>1, EmitKeepsMessages DEF updateLedgerState
        <5>2. CASE device # "none"
          BY <3>3, <5>2 DEF updateLedgerState
        <5> QED
          BY <5>1, <5>2
      <4>4. jobs' \in Seq(Job)
        <5>1. jobs # <<>> /\ Tail(jobs) \in Seq(Job)
          BY <3>3 DEF updateLedgerState, Has
        <5> QED
          BY <3>3, <4>1, <5>1, FirstJobReplaced DEF updateLedgerState
      <4> QED
        BY <3>3, <4>2, <4>3, <4>4 DEF updateLedgerState
    <3>4. CASE FinishUpdate
      <4>1. channel' \in Seq(Message)
        BY <3>4, AnswerIsMessages, EmitKeepsMessages DEF FinishUpdate
      <4>2. jobs' \in Seq(Job)
        BY <3>4 DEF FinishUpdate, Has
      <4> QED
        BY <3>4, <4>1, <4>2 DEF FinishUpdate
    <3>5. CASE pollForConcordiumApp
      <4>1. channel' \in Seq(Message)
        <5>1. CASE UNCHANGED channel
          BY <5>1
        <5>2. CASE Emit(IF device = "outdated" THEN <<"OUTDATED">> ELSE <<"CONNECTED_SUBSCRIPTION">>)
          BY <3>1, <3>2, <5>2, EmitKeepsMessages
        <5> QED
          BY <3>5, <5>1, <5>2 DEF pollForConcordiumApp
      <4>2. jobs' \in Seq(Job)
        BY <3>5 DEF pollForConcordiumApp, Has
      <4> QED
        BY <3>5, <4>1, <4>2 DEF pollForConcordiumApp
    <3>6. CASE closeTransport
      <4>1. channel' \in Seq(Message)
        BY <3>1, <3>2, <3>6, EmitKeepsMessages DEF closeTransport
      <4>2. jobs' \in Seq(Job)
        BY <3>6 DEF closeTransport, Has
      <4> QED
        BY <3>6, <4>1, <4>2 DEF closeTransport
    <3>7. ASSUME NEW s \in Submission, resetTransport(s) PROVE TypeOK'
      <4>1. client' \in {"none", "open", "broken", "closed"}
        BY <3>7 DEF resetTransport, OpenTransport, Broken
      <4>2. jobs' \in Seq(Job)
        BY <3>7 DEF resetTransport, Has
      <4> QED
        BY <3>7, <4>1, <4>2 DEF resetTransport
    <3> QED
      BY <2>8, <3>3, <3>4, <3>5, <3>6, <3>7 DEF Serve
  <2>9. CASE ledgerChannel
    <3>1. Head(channel) \in Message /\ Tail(channel) \in Seq(Message)
      BY <2>9 DEF ledgerChannel
    <3> QED
      BY <2>9, <3>1, ShownIsStatus DEF ledgerChannel
  <2>10. CASE LoadingExpires
    BY <2>10 DEF LoadingExpires, Status
  <2>11. ASSUME NEW s \in Submission, submitHandler(s) PROVE TypeOK'
    BY <2>11 DEF submitHandler, Status
  <2>12. ASSUME NEW s \in Submission, finishedAction(s) PROVE TypeOK'
    BY <2>12 DEF finishedAction, Status
  <2>13. ASSUME NEW s \in Submission, errorAction(s) PROVE TypeOK'
    BY <2>13 DEF errorAction, Status
  <2>14. ASSUME NEW s \in Submission, InvalidChannel(s) PROVE TypeOK'
    <3>1. <<"reset", s>> \in Job
      BY DEF Job
    <3> QED
      BY <2>14, <3>1 DEF InvalidChannel
  <2>15. CASE UNCHANGED vars
    BY <2>15 DEF vars
  <2> QED
    BY <2>1, <2>2, <2>3, <2>4, <2>5, <2>6, <2>7, <2>8, <2>9, <2>10, <2>11, <2>12,
       <2>13, <2>14, <2>15 DEF Next
<1> QED
  BY <1>1, <1>2, PTL DEF Spec

\* A submission is offered, or waited for, only on the observer's word: the
\* status is changed by the messages, by the end of a submission, which leaves
\* all but AWAITING_USER_INPUT as it is, and by steps that take it away.
THEOREM RendererOnlyRepeats == Spec => []ReadyIsHeard
<1>1. Init => ReadyIsHeard
  BY DEF Init, ReadyIsHeard
<1>2. TypeOK /\ ReadyIsHeard /\ [Next]_vars => ReadyIsHeard'
  <2> SUFFICES ASSUME TypeOK, ReadyIsHeard, [Next]_vars PROVE ReadyIsHeard'
    OBVIOUS
  <2> USE DEF ReadyIsHeard
  <2>1. CASE UNCHANGED <<status, heard>>
    BY <2>1
  <2>2. CASE ledgerChannel
    <3>1. Head(channel) \in Message
      BY <2>2 DEF ledgerChannel, TypeOK
    <3> QED
      BY <2>2, <3>1, ShownIsStatus DEF ledgerChannel
  <2>3. CASE LoadingExpires
    BY <2>3 DEF LoadingExpires
  <2>4. ASSUME NEW s \in Submission, submitHandler(s) PROVE ReadyIsHeard'
    BY <2>4 DEF submitHandler
  <2>5. ASSUME NEW s \in Submission, finishedAction(s) PROVE ReadyIsHeard'
    BY <2>5 DEF finishedAction
  <2>6. ASSUME NEW s \in Submission, errorAction(s) PROVE ReadyIsHeard'
    BY <2>6 DEF errorAction
  <2>7. CASE Plug \/ Unplug \/ Switch \/ Lock \/ Unlock
    BY <2>1, <2>7 DEF Plug, Unplug, Switch, Lock, Unlock, renderer
  <2>8. CASE Event \/ Tick
    BY <2>1, <2>8 DEF Event, onAdd, onRemove, handleIfLedgerIsStillConnected, Tick, renderer
  <2>9. CASE Serve
    BY <2>1, <2>9 DEF Serve, updateLedgerState, FinishUpdate, pollForConcordiumApp,
                      closeTransport, resetTransport, renderer
  <2>10. ASSUME NEW s \in Submission, InvalidChannel(s) PROVE ReadyIsHeard'
    BY <2>1, <2>10 DEF InvalidChannel
  <2>11. CASE UNCHANGED vars
    BY <2>1, <2>11 DEF vars, renderer
  <2> QED
    BY <2>2, <2>3, <2>4, <2>5, <2>6, <2>7, <2>8, <2>9, <2>10, <2>11 DEF Next
<1> QED
  BY TypeCorrect, <1>1, <1>2, PTL DEF Spec
===============================================================================
