------------------------- MODULE UpdateSerialization -------------------------
(***************************************************************************)
(* The payloads of update instructions as UpdateSerialization.ts writes    *)
(* them.  An update is a record of its kind (the wallet's UpdateType) and  *)
(* of the sizes its payload depends on.                                    *)
(***************************************************************************)
EXTENDS TransactionSerialization

(* The indices of the keys of an access structure are written in ascending order. *)
serializeAccessStructure(s, indices) ==
  LET sorted == SortSeq(indices, <)
  IN  LengthOfNth("keyIndex", s, 2)
        \o Concat([i \in DOMAIN sorted |-> Nth("keyIndex", Member(s, sorted[i]), 2)])
        \o Nth("threshold", s, 2)

UpdateKey(i) == serializeVerifyKey("updateKey", i)

serializeAuthorizationKeysUpdate(u) ==
  Field("keyUpdateType", 1)
    \o serializeList("updateKey", 2, [i \in 1 .. u.keys |-> UpdateKey(i)])
    \o Concat([s \in DOMAIN u.structures |-> serializeAccessStructure(s, u.structures[s])])

serializeHigherLevelKeyUpdate(u) ==
  Field("keyUpdateType", 1)
    \o serializeList("updateKey", 2, [i \in 1 .. u.keys |-> UpdateKey(i)])
    \o Field("threshold", 2)

serializeUtf8String(field, size) == getSerializedTextWithLength(field, size, 8)

serializeProtocolUpdate(u) ==
  LengthOf("payload", 8)
    \o serializeUtf8String("message", u.message)
    \o serializeUtf8String("specificationUrl", u.url)
    \o Field("specificationHash", 32) \o Field("auxiliaryData", u.auxiliary)

serializeDescription(u) ==
  getSerializedTextWithLength("name", u.name, 4)
    \o getSerializedTextWithLength("url", u.url, 4)
    \o getSerializedTextWithLength("description", u.description, 4)

serializeIpInfo(u) ==
  Field("ipIdentity", 4) \o serializeDescription(u)
    \o Field("ipVerifyKey", u.verifyKey) \o Field("ipCdiVerifyKey", 32)

serializeArInfo(u) ==
  Field("arIdentity", 4) \o serializeDescription(u) \o Field("arPublicKey", 96)

serializeAddIdentityProvider(u) == LengthOf("ipInfo", 4) \o serializeIpInfo(u)

serializeAddAnonymityRevoker(u) == LengthOf("arInfo", 4) \o serializeArInfo(u)

(* The part of a token's creation in front of its initialization parameters. *)
PltPart1(u) ==
  LengthOf("tokenId", 1) \o Field("tokenId", u.tokenId) \o Field("moduleRef", 32)
    \o Field("decimals", 1) \o LengthOf("initializationParameters", 4)

serializeCreatePltParameters(u) ==
  PltPart1(u) \o Field("initializationParameters", u.parameters)

serializeCommisionRates == Field("passiveCommissions", 12)
serializeCommisionRanges == Field("commissionBounds", 24)
serializeEquityBounds == Field("equityBounds", 8 + 4 + 8 + 8)

serializePoolParameters ==
  serializeCommisionRates \o serializeCommisionRanges \o serializeEquityBounds

(* The payloads that are one record of numbers. *)
Numbers(size) == Field("parameters", size)

serializeElectionDifficulty == Numbers(4)
serializeExchangeRate == Numbers(8 + 8)
serializeTransactionFeeDistribution == Numbers(4 + 4)
serializeFoundationAccount == Numbers(32)
serializeMintDistribution(version) == Numbers(IF version = 0 THEN 4 + 1 + 4 + 4 ELSE 4 + 4)
serializeGasRewards(version) == Numbers(IF version = 0 THEN 4 * 4 ELSE 3 * 4)
serializeBakerStakeThreshold == Numbers(8)
serializeBlockEnergyLimit == Numbers(8)
serializeFinalizationCommitteeParameters == Numbers(4 + 4 + 4)
serializeValidatorScoreParameters == Numbers(8)
serializeMinBlockTime == Numbers(8)
serializeTimeoutParameters == Numbers(8 + 2 * (8 + 8))
serializeTimeParameters == Numbers(8 + 4 + 1)
serializeCooldownParameters == Numbers(8 + 8)

serializeParameters ==
  [UpdateElectionDifficulty |-> serializeElectionDifficulty,
   UpdateEuroPerEnergy |-> serializeExchangeRate,
   UpdateMicroGTUPerEuro |-> serializeExchangeRate,
   UpdateTransactionFeeDistribution |-> serializeTransactionFeeDistribution,
   UpdateFoundationAccount |-> serializeFoundationAccount,
   UpdateMintDistribution |-> serializeMintDistribution(0),
   UpdateMintDistributionV1 |-> serializeMintDistribution(1),
   UpdateGASRewards |-> serializeGasRewards(0),
   UpdateGASRewardsV1 |-> serializeGasRewards(1),
   UpdateBakerStakeThreshold |-> serializeBakerStakeThreshold,
   BlockEnergyLimit |-> serializeBlockEnergyLimit,
   FinalizationCommitteeParameters |-> serializeFinalizationCommitteeParameters,
   UpdateValidatorScoreParameters |-> serializeValidatorScoreParameters,
   MinBlockTime |-> serializeMinBlockTime,
   TimeoutParameters |-> serializeTimeoutParameters,
   TimeParameters |-> serializeTimeParameters,
   CooldownParameters |-> serializeCooldownParameters]

Parameters == DOMAIN serializeParameters

RootKeys == {"UpdateRootKeys", "UpdateLevel1KeysUsingRootKeys"}
HigherLevelKeys == RootKeys \union {"UpdateLevel1KeysUsingLevel1Keys"}
Level2Keys == {"UpdateLevel2KeysUsingRootKeys", "UpdateLevel2KeysUsingLevel1Keys"}

UpdateKind ==
  Parameters \union HigherLevelKeys \union Level2Keys
    \union {"UpdateProtocol", "AddIdentityProvider", "AddAnonymityRevoker",
            "PoolParameters", "UpdateCreatePltParameters"}

serializePayload(u) ==
  CASE u.kind \in Parameters -> serializeParameters[u.kind]
    [] u.kind \in HigherLevelKeys -> serializeHigherLevelKeyUpdate(u)
    [] u.kind \in Level2Keys -> serializeAuthorizationKeysUpdate(u)
    [] u.kind = "UpdateProtocol" -> serializeProtocolUpdate(u)
    [] u.kind = "AddIdentityProvider" -> serializeAddIdentityProvider(u)
    [] u.kind = "AddAnonymityRevoker" -> serializeAddAnonymityRevoker(u)
    [] u.kind = "PoolParameters" -> serializePoolParameters
    [] u.kind = "UpdateCreatePltParameters" -> serializeCreatePltParameters(u)
-----------------------------------------------------------------------------
serializeUpdateHeader == Field("updateHeader", 3 * 8 + 4)
serializeUpdateType == Field("updateType", 1)

serializeUpdateInstructionHeaderAndPayload(u) ==
  serializeUpdateHeader \o serializeUpdateType \o serializePayload(u)

(* The number of the update on the chain: several of the wallet's kinds share one. *)
mapUpdateTypeToOnChainUpdateType(kind) ==
  [UpdateProtocol |-> 1, UpdateElectionDifficulty |-> 2, UpdateEuroPerEnergy |-> 3,
   UpdateMicroGTUPerEuro |-> 4, UpdateFoundationAccount |-> 5, UpdateMintDistribution |-> 6,
   UpdateTransactionFeeDistribution |-> 7, UpdateGASRewards |-> 8,
   UpdateBakerStakeThreshold |-> 9, UpdateRootKeys |-> 10,
   UpdateLevel1KeysUsingRootKeys |-> 10, UpdateLevel1KeysUsingLevel1Keys |-> 11,
   UpdateLevel2KeysUsingRootKeys |-> 10, UpdateLevel2KeysUsingLevel1Keys |-> 11,
   AddAnonymityRevoker |-> 12, AddIdentityProvider |-> 13, CooldownParameters |-> 14,
   PoolParameters |-> 15, TimeParameters |-> 16, UpdateMintDistributionV1 |-> 17,
   TimeoutParameters |-> 18, MinBlockTime |-> 19, BlockEnergyLimit |-> 20,
   UpdateGASRewardsV1 |-> 21, FinalizationCommitteeParameters |-> 22,
   UpdateValidatorScoreParameters |-> 23, UpdateCreatePltParameters |-> 24][kind]

(* The number of the key update; of those that edit the level 2 keys it    *)
(* names the version of the access structures as well.                     *)
convertAuthorizationKeyUpdateType(kind, version) ==
  (IF kind = "UpdateLevel2KeysUsingLevel1Keys" THEN 1 ELSE 2) + version

KeyUpdateType(kind, version) ==
  IF kind \in Level2Keys THEN convertAuthorizationKeyUpdateType(kind, version)
  ELSE IF kind = "UpdateLevel1KeysUsingRootKeys" THEN 1 ELSE 0

(* The versions a kind comes in. *)
Versions(kind) == IF kind \in Level2Keys THEN 0 .. 2 ELSE {0}
=============================================================================
