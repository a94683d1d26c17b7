------------------------ MODULE TransactionSerialization ------------------------
(***************************************************************************)
(* The payloads of account transactions as transactionSerialization.ts     *)
(* writes them: what the node is sent, and what, after the header, is      *)
(* hashed for the signature.  A transaction is a record of its kind and of *)
(* the sizes its payload depends on.                                       *)
(***************************************************************************)
EXTENDS WireFormat, FiniteSets

Kind == Field("kind", 1)
ToAddress == Field("toAddress", 32)
Amount == Field("amount", 8)

serializeTransactionHeader == Field("header", 32 + 8 + 8 + 4 + 8)

serializeAsCbor(field, size) == getSerializedTextWithLength(field, size, 2)

serializeSimpleTransfer == Kind \o ToAddress \o Amount

serializeSimpleTransferWithMemo(tx) ==
  Kind \o ToAddress \o serializeAsCbor("memo", tx.memo) \o Amount

serializeScheduledTransferPayloadBase == Kind \o ToAddress \o LengthOf("point", 1)

serializeSchedulePoint(i) == Nth("point", i, 8 + 8)

Points(tx) == [i \in 1 .. tx.points |-> serializeSchedulePoint(i)]

serializeTransferWithSchedule(tx) ==
  serializeScheduledTransferPayloadBase \o Concat(Points(tx))

serializeTransferWithScheduleWithMemo(tx) ==
  Kind \o ToAddress \o serializeAsCbor("memo", tx.memo)
       \o LengthOf("point", 1) \o Concat(Points(tx))

serializeTransferToEncypted == Kind \o Amount

serializeTransferToPublicData ==
  Field("remainingEncryptedAmount", 192) \o Field("transferAmount", 8) \o Field("index", 8)

serializeTransferToPublic(tx) ==
  Kind \o serializeTransferToPublicData \o Field("proof", tx.proof)

serializeEncryptedTransferData ==
  ToAddress \o Field("remainingEncryptedAmount", 192)
            \o Field("transferAmount", 192) \o Field("index", 8)

serializeEncryptedTransfer(tx) ==
  Kind \o serializeEncryptedTransferData \o Field("proof", tx.proof)

serializeEncryptedTransferWithMemo(tx) ==
  Kind \o ToAddress \o serializeAsCbor("memo", tx.memo)
       \o Field("remainingEncryptedAmount", 192) \o Field("transferAmount", 192)
       \o Field("index", 8) \o Field("proof", tx.proof)

serializeRegisterData(tx) == Kind \o serializeAsCbor("data", tx.data)

serializeBakerVerifyKeys ==
  Field("electionVerifyKey", 32) \o Field("signatureVerifyKey", 32)
                                 \o Field("aggregationVerifyKey", 96)

serializeBakerKeyProofs ==
  Field("proofSignature", 64) \o Field("proofElection", 64) \o Field("proofAggregation", 64)

serializeAddBakerProofsStakeRestake ==
  serializeBakerKeyProofs \o Field("bakingStake", 8) \o Field("restakeEarnings", 1)

serializeAddBaker == Kind \o serializeBakerVerifyKeys \o serializeAddBakerProofsStakeRestake

serializeUpdateBakerKeys == Kind \o serializeBakerVerifyKeys \o serializeBakerKeyProofs

serializeRemoveBaker == Kind

serializeUpdateBakerStake == Kind \o Field("stake", 8)

serializeUpdateBakerRestakeEarnings == Kind \o Field("restakeEarnings", 1)
-----------------------------------------------------------------------------
(***************************************************************************)
(* A payload with optional fields is a bitmap and the fields that are      *)
(* there, in the order of the specification: a sequence of pairs of a name *)
(* and the bytes of that field.                                            *)
(***************************************************************************)
serializeFromSpec(spec, fields) ==
  Concat([i \in DOMAIN spec |-> IF spec[i][1] \in fields THEN spec[i][2] ELSE <<>>])

(* The web SDK's order of a baker configuration; the keys come with their proofs. *)
ConfigureBakerSpec(tx) ==
  <<<<"stake", Field("stake", 8)>>,
    <<"restakeEarnings", Field("restakeEarnings", 1)>>,
    <<"openForDelegation", Field("openForDelegation", 1)>>,
    <<"keys", Field("electionVerifyKey", 32) \o Field("proofElection", 64)
              \o Field("signatureVerifyKey", 32) \o Field("proofSig", 64)
              \o Field("aggregationVerifyKey", 96) \o Field("proofAggregation", 64)>>,
    <<"metadataUrl", getSerializedTextWithLength("metadataUrl", tx.url, 2)>>,
    <<"transactionFeeCommission", Field("transactionFeeCommission", 4)>>,
    <<"bakingRewardCommission", Field("bakingRewardCommission", 4)>>,
    <<"finalizationRewardCommission", Field("finalizationRewardCommission", 4)>>,
    <<"suspended", Field("suspended", 1)>>>>

Bitmap == Field("bitmap", 2)

serializeConfigureBakerPayload(tx, fields) ==
  Bitmap \o serializeFromSpec(ConfigureBakerSpec(tx), fields)

serializeConfigureBaker(tx) == Kind \o serializeConfigureBakerPayload(tx, tx.fields)

(* Passive delegation has no baker to name. *)
configureDelegationSerializationSpec(tx) ==
  <<<<"stake", Field("stake", 8)>>,
    <<"restakeEarnings", Field("restakeEarnings", 1)>>,
    <<"delegationTarget", Field("delegationTarget", IF tx.passive THEN 1 ELSE 1 + 8)>>>>

serializeConfigureDelegation(tx) ==
  Kind \o Bitmap \o serializeFromSpec(configureDelegationSerializationSpec(tx), tx.fields)
-----------------------------------------------------------------------------
(***************************************************************************)
(* A credential that is added to an account: the indices of its keys, how  *)
(* many anonymity revokers it has, the sizes of its revealed attributes in *)
(* the order of their tags, and the size of its proofs.  Member j of part  *)
(* of the k-th credential is number Member(k, j).                          *)
(***************************************************************************)
Member(k, j) == 1000 * k + j

serializeVerifyKey(field, no) == Nth(field, no, 1 + 32)

(* Object.keys lists keys that are numbers in ascending order. *)
AscendingKeys(c) == SetToSortSeq(c.keys, <)

CredentialKey(k, index) == Nth("keyIndex", Member(k, index), 1) \o serializeVerifyKey("key", Member(k, index))

CredentialArData(k, j) == Nth("arIdentity", Member(k, j), 4) \o Nth("encIdCredPubShare", Member(k, j), 192)

AttributeTag(k, j) == Nth("attributeTag", Member(k, j), 1) \o LengthOfNth("attribute", Member(k, j), 1)

serializeCredentialDeploymentInformation(k, c) ==
  LengthOfNth("key", k, 1)
    \o Concat([i \in 1 .. Cardinality(c.keys) |-> CredentialKey(k, AscendingKeys(c)[i])])
    \o Nth("threshold", k, 1) \o Nth("credId", k, 48)
    \o Nth("ipIdentity", k, 4) \o Nth("revocationThreshold", k, 1)
    \o LengthOfNth("arData", k, 2)
    \o Concat([j \in 1 .. c.ars |-> CredentialArData(k, j)])
    \o Nth("validTo", k, 3) \o Nth("createdAt", k, 3)
    \o LengthOfNth("attributes", k, 2)
    \o Concat([j \in DOMAIN c.attributes |->
                AttributeTag(k, j) \o Nth("attribute", Member(k, j), c.attributes[j])])
    \o LengthOfNth("proofs", k, 4) \o Nth("proofs", k, c.proofs)

serializeUpdateCredentials(tx) ==
  Kind
    \o serializeList("addedCredentials", 1,
         [k \in DOMAIN tx.added |->
           Nth("index", k, 1) \o serializeCredentialDeploymentInformation(k, tx.added[k])])
    \o serializeList("removedCredIds", 1,
         [k \in 1 .. tx.removed |-> Nth("removedCredId", k, 48)])
    \o Field("accountThreshold", 1)

serializeTransferPayload(tx) ==
  CASE tx.kind = "Simple_transfer" -> serializeSimpleTransfer
    [] tx.kind = "Simple_transfer_with_memo" -> serializeSimpleTransferWithMemo(tx)
    [] tx.kind = "Update_credentials" -> serializeUpdateCredentials(tx)
    [] tx.kind = "Transfer_with_schedule" -> serializeTransferWithSchedule(tx)
    [] tx.kind = "Transfer_with_schedule_and_memo" -> serializeTransferWithScheduleWithMemo(tx)
    [] tx.kind = "Transfer_to_encrypted" -> serializeTransferToEncypted
    [] tx.kind = "Transfer_to_public" -> serializeTransferToPublic(tx)
    [] tx.kind = "Encrypted_transfer" -> serializeEncryptedTransfer(tx)
    [] tx.kind = "Encrypted_transfer_with_memo" -> serializeEncryptedTransferWithMemo(tx)
    [] tx.kind = "Add_baker" -> serializeAddBaker
    [] tx.kind = "Update_baker_keys" -> serializeUpdateBakerKeys
    [] tx.kind = "Remove_baker" -> serializeRemoveBaker
    [] tx.kind = "Update_baker_stake" -> serializeUpdateBakerStake
    [] tx.kind = "Update_baker_restake_earnings" -> serializeUpdateBakerRestakeEarnings
    [] tx.kind = "Register_data" -> serializeRegisterData(tx)
    [] tx.kind = "Configure_baker" -> serializeConfigureBaker(tx)
    [] tx.kind = "Configure_delegation" -> serializeConfigureDelegation(tx)

(* The bytes whose hash is signed. *)
getAccountTransactionSignDigest(tx) == serializeTransactionHeader \o serializeTransferPayload(tx)
=============================================================================
