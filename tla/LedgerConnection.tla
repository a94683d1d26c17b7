--------------------------- MODULE LedgerConnection ---------------------------
(***************************************************************************)
(* What the wallet knows of the Ledger.  The main process observes USB     *)
(* events, asks the device which application is open, one job at a time,   *)
(* and tells the renderer, whose status decides whether a transaction can  *)
(* be submitted to the device.  A submission uses the device without       *)
(* waiting for those jobs.                                                 *)
(***************************************************************************)
EXTENDS Naturals, Sequences, SequencesExt

CONSTANTS
  Submission,   \* the submissions that may be at work at once
  MaxChanges    \* a bound on what happens to the device

ASSUME ChangesAssumption == MaxChanges \in Nat

App == {"other", "outdated", "concordium"}

VARIABLES
  device,       \* the application that is open, or "none" when it is unplugged
  locked,       \* "yes" or "no"
  changes,      \* how often something has happened to the device
  hid,          \* the events of the HID listener, not yet handled
  detached,     \* the raw detach events that are not yet handled
  client,       \* the client of the main process: its transport
  interval,     \* "on" while the device is polled for the application
  jobs,         \* the jobs that wait for the transport lock, the first has it
  channel,      \* the messages on their way to the renderer
  status,       \* what the renderer shows
  heard,        \* the latest message the renderer has received
  submission,   \* what becomes of a submission
  unheard       \* "yes" if a locked device has kept the wallet from asking

usb == <<device, locked, changes, hid, detached>>
observer == <<client, interval, jobs, channel, unheard>>
renderer == <<status, heard, submission>>
vars == <<usb, observer, renderer>>

Job == {<<"update">>, <<"asked">>, <<"close">>, <<"poll">>} \union ({"reset"} \X Submission)
Message == {"RESET", "PENDING", "OUTDATED", "CONNECTED_SUBSCRIPTION"}
Status == {"DISCONNECTED", "ERROR", "CONNECTED", "OUTDATED", "OPEN_APP",
           "LOADING", "AWAITING_USER_INPUT"}

(* subscribeLedger: a device that is there already is reported as added. *)
Init ==
  /\ device \in {"none"} \union App
  /\ locked \in IF device = "none" THEN {"no"} ELSE {"yes", "no"}
  /\ hid = IF device = "none" THEN <<>> ELSE <<"add">>
  /\ changes = 0 /\ detached = 0
  /\ client = "none" /\ interval = "off" /\ jobs = <<>> /\ channel = <<>>
  /\ unheard = "no"
  /\ status = "DISCONNECTED" /\ heard = "nothing"
  /\ submission = [s \in Submission |-> "none"]
-----------------------------------------------------------------------------
(* The device.  It leaves the bus and comes back when an application is    *)
(* opened or closed; locking it changes nothing there.                     *)
Change == changes < MaxChanges /\ changes' = changes + 1

Broken == IF client = "open" THEN "broken" ELSE client

Plug ==
  /\ Change
  /\ device = "none"
  /\ device' \in App /\ locked' \in {"yes", "no"}
  /\ hid' = Append(hid, "add")
  /\ UNCHANGED <<detached, observer, renderer>>

Unplug ==
  /\ Change
  /\ device # "none"
  /\ device' = "none" /\ locked' = "no"
  /\ hid' = Append(hid, "remove") /\ detached' = detached + 1
  /\ client' = Broken
  /\ UNCHANGED <<interval, jobs, channel, unheard, renderer>>

(* The detach and the attach come at the same time: the HID listener       *)
(* catches neither (Windows).                                              *)
Switch ==
  /\ Change
  /\ device # "none" /\ locked = "no"
  /\ device' \in App \ {device}
  /\ detached' = detached + 1
  /\ client' = Broken
  /\ UNCHANGED <<locked, hid, interval, jobs, channel, unheard, renderer>>

Lock ==
  /\ Change
  /\ device # "none" /\ locked = "no"
  /\ locked' = "yes"
  /\ UNCHANGED <<device, hid, detached, observer, renderer>>

Unlock ==
  /\ locked = "yes"
  /\ locked' = "no"
  /\ UNCHANGED <<device, changes, hid, detached, observer, renderer>>
-----------------------------------------------------------------------------
(* The observer: the events. *)
onAdd ==
  /\ hid # <<>> /\ Head(hid) = "add"
  /\ hid' = Tail(hid)
  /\ jobs' = Append(jobs, <<"update">>)
  /\ UNCHANGED <<device, locked, changes, detached, client, interval, channel, unheard, renderer>>

onRemove ==
  /\ hid # <<>> /\ Head(hid) = "remove"
  /\ hid' = Tail(hid)
  /\ interval' = "off"
  /\ jobs' = Append(jobs, <<"close">>)
  /\ UNCHANGED <<device, locked, changes, detached, client, channel, unheard, renderer>>

(* Mutant: only the HID listener is listened to. *)
ignoreDetach ==
  /\ detached > 0
  /\ detached' = detached - 1
  /\ UNCHANGED <<device, locked, changes, hid, observer, renderer>>

handleIfLedgerIsStillConnected ==
  /\ detached > 0
  /\ detached' = detached - 1
  /\ jobs' = Append(jobs, <<"update">>)
  /\ UNCHANGED <<device, locked, changes, hid, client, interval, channel, unheard, renderer>>

(* A tick of the interval.  A second one that waits for the lock would do  *)
(* the same once more.                                                     *)
Tick ==
  /\ interval = "on" /\ ~Contains(jobs, <<"poll">>)
  /\ jobs' = Append(jobs, <<"poll">>)
  /\ UNCHANGED <<usb, client, interval, channel, unheard, renderer>>
-----------------------------------------------------------------------------
(* The observer: the jobs. *)
Has(job) == jobs # <<>> /\ Head(jobs) = job

Emit(messages) == channel' = channel \o messages

OpenTransport == client' = IF device = "none" THEN Broken ELSE "open"

updateLedgerState ==
  /\ Has(<<"update">>)
  /\ OpenTransport
  /\ IF device = "none"
     THEN jobs' = Tail(jobs) /\ Emit(<<"RESET">>)
     ELSE jobs' = <<<<"asked">>>> \o Tail(jobs) /\ UNCHANGED channel
  /\ UNCHANGED <<usb, interval, unheard, renderer>>

(* The answer to getAppAndVersion, or the error of a transport whose       *)
(* device has gone.                                                        *)
Answer ==
  IF client # "open" THEN <<"RESET">>
  ELSE IF locked = "yes" THEN <<>>
  ELSE IF device = "other" THEN <<"PENDING">>
  ELSE IF device = "outdated" THEN <<"OUTDATED">>
  ELSE <<"CONNECTED_SUBSCRIPTION">>

FinishUpdate ==
  /\ Has(<<"asked">>)
  /\ jobs' = Tail(jobs)
  /\ Emit(Answer)
  /\ interval' = IF Answer = <<"PENDING">> THEN "on" ELSE interval
  /\ unheard' = IF Answer = <<>> THEN "yes" ELSE "no"
  /\ UNCHANGED <<usb, client, renderer>>

(* A client that has been closed may answer as long as the device is there. *)
pollForConcordiumApp ==
  /\ Has(<<"poll">>)
  /\ jobs' = Tail(jobs)
  /\ \/ /\ client \in {"open", "closed"} /\ device \in {"outdated", "concordium"} /\ locked = "no"
        /\ interval' = "off" /\ unheard' = "no"
        /\ Emit(IF device = "outdated" THEN <<"OUTDATED">> ELSE <<"CONNECTED_SUBSCRIPTION">>)
     \/ /\ client # "open" \/ device \in {"none", "other"} \/ locked = "yes"
        /\ UNCHANGED <<interval, channel, unheard>>
  /\ UNCHANGED <<usb, client, renderer>>

(* onRemove tells the renderer when the transport is closed. *)
closeTransport ==
  /\ Has(<<"close">>)
  /\ jobs' = Tail(jobs)
  /\ client' = IF client = "none" THEN "none" ELSE "closed"
  /\ Emit(<<"RESET">>)
  /\ UNCHANGED <<usb, interval, unheard, renderer>>

resetTransport(s) ==
  /\ Has(<<"reset", s>>)
  /\ jobs' = Tail(jobs)
  /\ OpenTransport
  /\ submission' = [submission EXCEPT ![s] = "reset"]
  /\ UNCHANGED <<usb, interval, channel, unheard, status, heard>>
-----------------------------------------------------------------------------
(* The renderer. *)
Shown(message) ==
  CASE message = "RESET" -> "LOADING"
    [] message = "PENDING" -> "OPEN_APP"
    [] message = "OUTDATED" -> "OUTDATED"
    [] message = "CONNECTED_SUBSCRIPTION" -> "CONNECTED"

ledgerChannel ==
  /\ channel # <<>>
  /\ channel' = Tail(channel)
  /\ heard' = Head(channel) /\ status' = Shown(Head(channel))
  /\ UNCHANGED <<usb, client, interval, jobs, unheard, submission>>

LoadingExpires ==
  /\ status = "LOADING"
  /\ status' = "DISCONNECTED"
  /\ UNCHANGED <<usb, observer, heard, submission>>

submitHandler(s) ==
  /\ status = "CONNECTED"
  /\ submission[s] = "none"
  /\ status' = "AWAITING_USER_INPUT"
  /\ submission' = [submission EXCEPT ![s] = "signing"]
  /\ UNCHANGED <<usb, observer, heard>>

(* Mutant: the device is taken to be there after any submission. *)
finishedAnyhow(s) ==
  /\ submission[s] = "signing"
  /\ submission' = [submission EXCEPT ![s] = "none"]
  /\ status' = "CONNECTED"
  /\ UNCHANGED <<usb, observer, heard>>

(* It is signed, or the device is unplugged meanwhile. *)
finishedAction(s) ==
  /\ submission[s] = "signing"
  /\ submission' = [submission EXCEPT ![s] = "none"]
  /\ status' = IF status = "AWAITING_USER_INPUT" THEN "CONNECTED" ELSE status
  /\ UNCHANGED <<usb, observer, heard>>

(* It is refused, the device does not answer, or its transport was reset. *)
errorAction(s) ==
  /\ submission[s] \in {"signing", "reset"}
  /\ submission' = [submission EXCEPT ![s] = "none"]
  /\ status' = "ERROR"
  /\ UNCHANGED <<usb, observer, heard>>

InvalidChannel(s) ==
  /\ submission[s] = "signing"
  /\ submission' = [submission EXCEPT ![s] = "resetting"]
  /\ jobs' = Append(jobs, <<"reset", s>>)
  /\ UNCHANGED <<usb, client, interval, channel, unheard, status, heard>>
-----------------------------------------------------------------------------
Event == onAdd \/ onRemove \/ handleIfLedgerIsStillConnected

Serve ==
  \/ updateLedgerState \/ FinishUpdate \/ pollForConcordiumApp \/ closeTransport
  \/ \E s \in Submission : resetTransport(s)

Next ==
  \/ Plug \/ Unplug \/ Switch \/ Lock \/ Unlock
  \/ Event \/ Tick \/ Serve
  \/ ledgerChannel \/ LoadingExpires
  \/ \E s \in Submission :
       submitHandler(s) \/ finishedAction(s) \/ errorAction(s) \/ InvalidChannel(s)

Spec == Init /\ [][Next]_vars

(* Events and messages are delivered, a job ends (the device answers or    *)
(* the transport fails), the timer expires, and the user does not leave a  *)
(* submission on the device for ever (it times out).                       *)
Fairness ==
  /\ WF_vars(onAdd \/ onRemove) /\ WF_vars(handleIfLedgerIsStillConnected)
  /\ WF_vars(Serve) /\ WF_vars(ledgerChannel) /\ WF_vars(LoadingExpires)
  /\ \A s \in Submission : WF_vars(finishedAction(s) \/ errorAction(s))

FairSpec == Spec /\ Fairness
-----------------------------------------------------------------------------
TypeOK ==
  /\ device \in {"none"} \union App /\ locked \in {"yes", "no"}
  /\ changes \in 0 .. MaxChanges /\ detached \in Nat
  /\ hid \in Seq({"add", "remove"})
  /\ client \in {"none", "open", "broken", "closed"} /\ interval \in {"on", "off"}
  /\ jobs \in Seq(Job) /\ channel \in Seq(Message) /\ unheard \in {"yes", "no"}
  /\ status \in Status /\ heard \in {"nothing"} \union Message
  /\ submission \in [Submission -> {"none", "signing", "resetting", "reset"}]

(***************************************************************************)
(* The renderer never claims a device of its own accord: it offers to      *)
(* submit, or waits for the user of the device, only if the latest word of *)
(* the observer was that the application is open, whatever submissions     *)
(* have ended since (the FINISHED case of ledgerReducer: "we must not      *)
(* claim the device is connected - it may not be").                        *)
(***************************************************************************)
ReadyIsHeard ==
  status \in {"CONNECTED", "AWAITING_USER_INPUT"} => heard = "CONNECTED_SUBSCRIPTION"

(***************************************************************************)
(* However events, polls and submissions cross, time and again the status  *)
(* is that of the device.  A locked device leaves the status as it was     *)
(* and is not asked again, and a submission that failed leaves an error    *)
(* (updateLedgerState, useLedger).                                         *)
(***************************************************************************)
Accurate ==
  \/ locked = "yes" \/ unheard = "yes"
  \/ status = "ERROR"
  \/ device = "none" /\ status = "DISCONNECTED"
  \/ device = "other" /\ status = "OPEN_APP"
  \/ device = "outdated" /\ status = "OUTDATED"
  \/ device = "concordium" /\ status = "CONNECTED"

StatusSettles == []<>Accurate

(***************************************************************************)
(* A submission that has failed does not keep the next one from being      *)
(* made while the application stays open: "transport and singleton state   *)
(* are left intact so the next signing screen finds the device ready       *)
(* immediately" (useLedger.ts:149).                                        *)
(***************************************************************************)
NextFindsDeviceReady ==
  []<>(device # "concordium" \/ locked = "yes" \/ unheard = "yes" \/ status = "CONNECTED")

(* One submission at a time. *)
SubmissionIsAlone == \A s, t \in Submission : submission[s] # "none" /\ submission[t] # "none" => s = t
===============================================================================
