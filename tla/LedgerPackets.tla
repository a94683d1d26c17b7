----------------------------- MODULE LedgerPackets -----------------------------
(***************************************************************************)
(* What the wallet sends to the Ledger to have a transaction signed: a     *)
(* sequence of packets.  The device puts together the header and the       *)
(* payload from them, shows them, and signs their hash.  The sign          *)
(* functions write the payload a second time, in pieces, beside the        *)
(* serializers of TransactionSerialization and UpdateSerialization.        *)
(***************************************************************************)
EXTENDS UpdateSerialization

Packet(buffer) == <<buffer>>

Packets(buffers) == buffers

(* Mutant: chunks of 256 bytes. *)
chunksTooLarge(field, size) == chunkBuffer(field, 0, size, 256)

chunks(field, size) == chunkBuffer(field, 0, size, 255)

Start == getAccountPath \o serializeTransactionHeader

sendMemo(tx) == chunks("memo", tx.memo)

signSimpleTransfer == Packet(Start \o serializeSimpleTransfer)

signSimpleTransferWithMemo(tx) ==
  Packet(Start \o Kind \o ToAddress \o LengthOf("memo", 2))
    \o sendMemo(tx)
    \o Packet(Amount)

signTransferToEncrypted == Packet(Start \o serializeTransferToEncypted)

signTransferToPublic(tx) ==
  Packet(Start \o Kind)
    \o Packet(serializeTransferToPublicData \o LengthOf("proof", 2))
    \o chunks("proof", tx.proof)

(* Fifteen points are what fits into a packet. *)
sendSchedule(tx) == chunkArray(Points(tx), 15)

signTransferWithSchedule(tx) ==
  Packet(Start \o serializeScheduledTransferPayloadBase) \o sendSchedule(tx)

signTransferWithScheduleAndMemo(tx) ==
  Packet(Start \o serializeScheduledTransferPayloadBase \o LengthOf("memo", 2))
    \o sendMemo(tx) \o sendSchedule(tx)

getSerializedHeaderKindAndSender == Start \o Kind \o ToAddress

sendRemainingAmount == Packet(Field("remainingEncryptedAmount", 192))

sendTransferAmountAggIndexProofSize ==
  Packet(Field("transferAmount", 192) \o Field("index", 8) \o LengthOf("proof", 2))

sendProof(tx) == chunks("proof", tx.proof)

signEncryptedTransfer(tx) ==
  Packet(getSerializedHeaderKindAndSender)
    \o sendRemainingAmount \o sendTransferAmountAggIndexProofSize \o sendProof(tx)

(* Mutant: the memo is sent after the remaining amount. *)
signEncryptedMemoLate(tx) ==
  Packet(getSerializedHeaderKindAndSender \o LengthOf("memo", 2))
    \o sendRemainingAmount \o sendMemo(tx)
    \o sendTransferAmountAggIndexProofSize \o sendProof(tx)

signEncryptedTransferWithMemo(tx) ==
  Packet(getSerializedHeaderKindAndSender \o LengthOf("memo", 2))
    \o sendMemo(tx)
    \o sendRemainingAmount \o sendTransferAmountAggIndexProofSize \o sendProof(tx)

signAddBaker ==
  Packets(<<Start \o Kind, serializeBakerVerifyKeys, serializeAddBakerProofsStakeRestake>>)

signUpdateBakerKeys ==
  Packets(<<Start \o Kind, serializeBakerVerifyKeys, serializeBakerKeyProofs>>)

signRemoveBaker == Packet(Start \o Kind)

signUpdateBakerStake == Packet(Start \o serializeUpdateBakerStake)

signUpdateBakerRestakeEarnings == Packet(Start \o serializeUpdateBakerRestakeEarnings)

signRegisterData(tx) ==
  Packet(Start \o Kind \o LengthOf("data", 2)) \o chunks("data", tx.data)

(* A baker configuration is sent in the groups that have a member. *)
signConfigureBaker(tx) ==
  LET Part(fields) == serializeFromSpec(ConfigureBakerSpec(tx), fields)
      first == tx.fields \intersect {"stake", "restakeEarnings", "openForDelegation"}
      commissions == tx.fields \intersect {"transactionFeeCommission",
                       "bakingRewardCommission", "finalizationRewardCommission"}
      Given(condition, packets) == IF condition THEN packets ELSE <<>>
      keys == "keys" \in tx.fields
  IN  Packet(Start \o Kind \o Bitmap)
        \o Given(first # {} \/ keys,
                 Packet(Part(first)
                        \o IF keys THEN Field("electionVerifyKey", 32) \o Field("proofElection", 64)
                                        \o Field("signatureVerifyKey", 32) \o Field("proofSig", 64)
                           ELSE <<>>))
        \o Given(keys, Packet(Field("aggregationVerifyKey", 96) \o Field("proofAggregation", 64)))
        \o Given("metadataUrl" \in tx.fields,
                 Packet(LengthOf("metadataUrl", 2)) \o chunks("metadataUrl", tx.url))
        \o Given(commissions # {}, Packet(Part(commissions)))
        \o Given("suspended" \in tx.fields, Packet(Field("suspended", 1)))

signConfigureDelegation(tx) == Packet(Start \o serializeConfigureDelegation(tx))
-----------------------------------------------------------------------------
(* sort() of an array of numbers compares what they look like: 10 comes before 2. *)
LooksLess(i, j) ==
  LET Look(n) == IF n < 10 THEN <<n, -1>> ELSE <<n \div 10, n % 10>>
  IN  Look(i)[1] < Look(j)[1] \/ (Look(i)[1] = Look(j)[1] /\ Look(i)[2] < Look(j)[2])

SortedKeys(c) == SetToSortSeq(c.keys, LooksLess)

signCredentialValues(k, c) ==
  Packet(LengthOfNth("key", k, 1))
    \o [i \in 1 .. Cardinality(c.keys) |-> CredentialKey(k, SortedKeys(c)[i])]
    \o Packet(Nth("threshold", k, 1) \o Nth("credId", k, 48) \o Nth("ipIdentity", k, 4)
              \o Nth("revocationThreshold", k, 1) \o LengthOfNth("arData", k, 2))
    \o [j \in 1 .. c.ars |-> CredentialArData(k, j)]
    \o Packet(Nth("validTo", k, 3) \o Nth("createdAt", k, 3) \o LengthOfNth("attributes", k, 2))
    \o Concat([j \in DOMAIN c.attributes |->
                <<AttributeTag(k, j), Nth("attribute", Member(k, j), c.attributes[j])>>])

signCredentialProofs(k, c) ==
  Packet(LengthOfNth("proofs", k, 4)) \o chunkBuffer("proofs", k, c.proofs, 255)

signUpdateCredentials(tx) ==
  Packet(Start \o Kind \o LengthOf("addedCredentials", 1))
    \o Concat([k \in DOMAIN tx.added |->
                Packet(Nth("index", k, 1))
                  \o signCredentialValues(k, tx.added[k]) \o signCredentialProofs(k, tx.added[k])])
    \o Packet(LengthOf("removedCredIds", 1))
    \o [k \in 1 .. tx.removed |-> Nth("removedCredId", k, 48)]
    \o Packet(Field("accountThreshold", 1))

signTransfer(tx) ==
  CASE tx.kind = "Simple_transfer_with_memo" -> signSimpleTransferWithMemo(tx)
    [] tx.kind = "Simple_transfer" -> signSimpleTransfer
    [] tx.kind = "Transfer_with_schedule" -> signTransferWithSchedule(tx)
    [] tx.kind = "Transfer_with_schedule_and_memo" -> signTransferWithScheduleAndMemo(tx)
    [] tx.kind = "Transfer_to_encrypted" -> signTransferToEncrypted
    [] tx.kind = "Transfer_to_public" -> signTransferToPublic(tx)
    [] tx.kind = "Encrypted_transfer_with_memo" -> signEncryptedTransferWithMemo(tx)
    [] tx.kind = "Encrypted_transfer" -> signEncryptedTransfer(tx)
    [] tx.kind = "Add_baker" -> signAddBaker
    [] tx.kind = "Update_baker_keys" -> signUpdateBakerKeys
    [] tx.kind = "Remove_baker" -> signRemoveBaker
    [] tx.kind = "Update_baker_stake" -> signUpdateBakerStake
    [] tx.kind = "Update_baker_restake_earnings" -> signUpdateBakerRestakeEarnings
    [] tx.kind = "Register_data" -> signRegisterData(tx)
    [] tx.kind = "Configure_baker" -> signConfigureBaker(tx)
    [] tx.kind = "Configure_delegation" -> signConfigureDelegation(tx)
    [] tx.kind = "Update_credentials" -> signUpdateCredentials(tx)
-----------------------------------------------------------------------------
UpdateStart == getGovernancePath \o serializeUpdateHeader \o serializeUpdateType

signUpdateTransaction(u) ==
  Packet(getGovernancePath \o serializeUpdateInstructionHeaderAndPayload(u))

(* Without auxiliary data an empty packet asks for the signature. *)
signUpdateProtocolTransaction(u) ==
  Packet(UpdateStart \o LengthOf("payload", 8))
    \o Packet(LengthOf("message", 8)) \o chunks("message", u.message)
    \o Packet(LengthOf("specificationUrl", 8)) \o chunks("specificationUrl", u.url)
    \o Packet(Field("specificationHash", 32))
    \o IF u.auxiliary = 0 THEN Packet(<<>>) ELSE chunks("auxiliaryData", u.auxiliary)

signHigherLevelKeyUpdate(u) ==
  Packet(UpdateStart \o Field("keyUpdateType", 1) \o LengthOf("updateKey", 2))
    \o [i \in 1 .. u.keys |-> UpdateKey(i)]
    \o Packet(Field("threshold", 2))

(* The indices are sent as they stand in the payload. *)
sendAccessStructure(s, indices) ==
  Packet(LengthOfNth("keyIndex", s, 2))
    \o chunkArray([i \in DOMAIN indices |-> Nth("keyIndex", Member(s, indices[i]), 2)], 127)
    \o Packet(Nth("threshold", s, 2))

signAuthorizationKeysUpdate(u) ==
  Packet(UpdateStart \o Field("keyUpdateType", 1) \o LengthOf("updateKey", 2))
    \o [i \in 1 .. u.keys |-> UpdateKey(i)]
    \o Concat([s \in DOMAIN u.structures |-> sendAccessStructure(s, u.structures[s])])

sendDescription(u) ==
  Packet(LengthOf("name", 4)) \o chunks("name", u.name)
    \o Packet(LengthOf("url", 4)) \o chunks("url", u.url)
    \o Packet(LengthOf("description", 4)) \o chunks("description", u.description)

signAddIdentityProviderTransaction(u) ==
  Packet(UpdateStart \o LengthOf("ipInfo", 4) \o Field("ipIdentity", 4))
    \o sendDescription(u) \o chunks("ipVerifyKey", u.verifyKey)
    \o Packet(Field("ipCdiVerifyKey", 32))

signAddAnonymityRevokerTransaction(u) ==
  Packet(UpdateStart \o LengthOf("arInfo", 4) \o Field("arIdentity", 4))
    \o sendDescription(u) \o Packet(Field("arPublicKey", 96))

signUpdateCreatePltTransaction(u) ==
  Packet(UpdateStart) \o Packet(PltPart1(u))
    \o chunks("initializationParameters", u.parameters)

signPoolParameters ==
  Packets(<<UpdateStart \o serializeCommisionRates, serializeCommisionRanges, serializeEquityBounds>>)

signUpdate(u) ==
  CASE u.kind \in Parameters -> signUpdateTransaction(u)
    [] u.kind = "UpdateProtocol" -> signUpdateProtocolTransaction(u)
    [] u.kind \in HigherLevelKeys -> signHigherLevelKeyUpdate(u)
    [] u.kind \in Level2Keys -> signAuthorizationKeysUpdate(u)
    [] u.kind = "AddIdentityProvider" -> signAddIdentityProviderTransaction(u)
    [] u.kind = "AddAnonymityRevoker" -> signAddAnonymityRevokerTransaction(u)
    [] u.kind = "UpdateCreatePltParameters" -> signUpdateCreatePltTransaction(u)
    [] u.kind = "PoolParameters" -> signPoolParameters
=============================================================================
