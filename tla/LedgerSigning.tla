----------------------------- MODULE LedgerSigning -----------------------------
(***************************************************************************)
(* A transaction is signed on a Ledger.  The wallet sends packets, one     *)
(* after the other, each after the answer to the one before; the device    *)
(* keeps what it has been sent and signs its hash when it has everything   *)
(* and its owner agrees.  The owner may refuse, the device may be          *)
(* unplugged and the page may be left at any packet; the transaction is    *)
(* then signed again from the beginning.  The signature is checked by the  *)
(* node against the other serialization, the one that is submitted.        *)
(***************************************************************************)
EXTENDS LedgerPackets

CONSTANTS
  Transactions,  \* account transactions, as TransactionSerialization knows them
  Updates,       \* update instructions, as UpdateSerialization knows them
  MaxAttempts    \* a bound on how often a transaction is signed

ASSUME MaxAttemptsAssumption == MaxAttempts \in Nat \ {0}

VARIABLES
  tx,       \* what is signed
  sent,     \* the bytes the device keeps
  left,     \* the packets that are still to be sent
  phase,    \* of the wallet's call
  attempts

vars == <<tx, sent, left, phase, attempts>>

IsUpdate(t) == t.kind \in UpdateKind

packets == IF IsUpdate(tx) THEN signUpdate(tx) ELSE signTransfer(tx)

(* The bytes that are hashed when the transaction is submitted. *)
submitted ==
  IF IsUpdate(tx) THEN serializeUpdateInstructionHeaderAndPayload(tx)
  ELSE getAccountTransactionSignDigest(tx)

(***************************************************************************)
(* The signature is in the answer to the last packet.  The functions that  *)
(* end with a loop keep the last answer of that loop, and throw when there *)
(* was none.                                                               *)
(***************************************************************************)
responses ==
  CASE tx.kind \in {"Transfer_to_public", "Encrypted_transfer", "Encrypted_transfer_with_memo"} ->
         Len(sendProof(tx))
    [] tx.kind \in {"Transfer_with_schedule", "Transfer_with_schedule_and_memo"} ->
         Len(sendSchedule(tx))
    [] tx.kind = "Register_data" -> Len(chunks("data", tx.data))
    [] tx.kind \in Level2Keys -> Len(tx.structures)
    [] tx.kind = "UpdateCreatePltParameters" ->
         Len(chunks("initializationParameters", tx.parameters))
    [] tx.kind = "UpdateProtocol" ->
         Len(packets) - (4 + Len(chunks("message", tx.message))
                           + Len(chunks("specificationUrl", tx.url)))
    [] OTHER -> 1

Init ==
  /\ tx \in Transactions \union Updates
  /\ sent = <<>>
  /\ left = <<>>
  /\ phase = "ready"
  /\ attempts = 0

(* The user asks for a signature, which always starts with the first packet. *)
Sign ==
  /\ phase \in {"ready", "refused"}
  /\ attempts < MaxAttempts
  /\ left' = packets
  /\ phase' = "starting"
  /\ attempts' = attempts + 1
  /\ UNCHANGED <<tx, sent>>

(* The first packet makes the device forget what it was sent before.  The *)
(* answer to the last one ends the call.                                  *)
send ==
  /\ phase \in {"starting", "sending"}
  /\ sent' = IF phase = "starting" THEN Head(left) ELSE sent \o Head(left)
  /\ left' = Tail(left)
  /\ phase' = IF left' # <<>> THEN "sending" ELSE IF responses = 0 THEN "failed" ELSE "signed"
  /\ UNCHANGED <<tx, attempts>>

(* An answer that is an error ends the call; the device keeps what it has, *)
(* or, when it was unplugged, nothing.                                     *)
refuse ==
  /\ phase \in {"starting", "sending"}
  /\ phase' = "refused"
  /\ left' = <<>>
  /\ sent' \in {sent, <<>>}
  /\ UNCHANGED <<tx, attempts>>

Next == Sign \/ send \/ refuse

Spec == Init /\ [][Next]_vars
-----------------------------------------------------------------------------
TypeOK ==
  /\ tx \in Transactions \union Updates
  /\ sent \in Seq([of : {"data", "length"}, field : STRING, no : Nat, from : Nat, to : Nat])
  /\ left = <<>> <=> phase \notin {"starting", "sending"}
  /\ phase \in {"ready", "starting", "sending", "refused", "signed", "failed"}
  /\ attempts \in 0 .. MaxAttempts

(* What the device is told and does not hash: the path of its key and the  *)
(* length of a proof, which is the rest of the payload.                    *)
DeviceOnly(p) ==
  \/ p.field = "path"
  \/ p.of = "length" /\ p.field = "proof"

Signed == Joined(SelectSeq(sent, LAMBDA p : ~DeviceOnly(p)))

(***************************************************************************)
(* What the device has signed is what is submitted, byte for byte: the     *)
(* node would refuse any other signature, and the user would have agreed   *)
(* to another transaction.  The serializers and the sign functions are     *)
(* written apart.  A scheduled transfer with a memo names its number of    *)
(* points before the memo, and the device puts that in its place.          *)
(***************************************************************************)
SignedIsSubmitted ==
  phase = "signed" =>
    IF tx.kind = "Transfer_with_schedule_and_memo"
    THEN LET Part(s, fields) == SelectSeq(s, LAMBDA p : p.field \in fields)
             points == {"point"}
             others == {p.field : p \in ToSet(submitted)} \ points
         IN  /\ Part(Signed, points) = Part(Joined(submitted), points)
             /\ Part(Signed, others) = Part(Joined(submitted), others)
    ELSE Signed = Joined(submitted)

(***************************************************************************)
(* The device can read what it is sent.  A packet is at most 255 bytes, or *)
(* the transport cannot carry it: the chunks of memos, data, proofs,       *)
(* schedules, texts and access structures.  And it reads the packets as    *)
(* they come: the length of a field, or the number of its occurrences, is  *)
(* there before the field is.  No transaction the wallet makes ends in "a  *)
(* signature was not returned": there is always a packet whose answer is   *)
(* the signature.                                                          *)
(***************************************************************************)
StreamIsReadable ==
  LET Announces(l, p) ==
        /\ p.of = "data" /\ p.field = l.field
        /\ l.no \in {0, p.no, p.no \div 1000}
  IN  /\ phase # "failed"
      /\ left # <<>> => Size(Head(left)) <= 255
      /\ phase = "signed" =>
           \A l \in {p \in ToSet(submitted) \union ToSet(sent) : p.of = "length"} :
             \E i \in DOMAIN sent :
               sent[i] = l /\ \A j \in 1 .. i - 1 : ~Announces(l, sent[j])

=============================================================================
