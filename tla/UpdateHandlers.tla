---------------------------- MODULE UpdateHandlers ----------------------------
(***************************************************************************)
(* The update instructions: what the handler of each type takes from the   *)
(* chain's parameters, which types the menu offers and what the node asks  *)
(* of them.  A handler knows four things: the sequence number the update   *)
(* gets, the signature threshold of the proposal, the path of the key that *)
(* signs on the Ledger and the authorization the key must be in.           *)
(***************************************************************************)
EXTENDS Integers, Sequences

UpdateHandler(type, sequenceNumber, threshold, path, authorization) ==
  [type |-> type, sequenceNumber |-> sequenceNumber, threshold |-> threshold,
   path |-> path, authorization |-> authorization]

(* The handlers of the parameters and of the new participants. *)
Level2Handler(type, sequenceNumber, threshold, authorization) ==
  UpdateHandler(type, sequenceNumber, threshold, "level2Keys", authorization)

MicroGtuPerEuroHandler ==
  Level2Handler("UpdateMicroGTUPerEuro", "microCcdPerEuro", "microGTUPerEuro", "microGTUPerEuro")

EuroPerEnergyHandler ==
  Level2Handler("UpdateEuroPerEnergy", "euroPerEnergy", "euroPerEnergy", "euroPerEnergy")

TransactionFeeDistributionHandler ==
  Level2Handler("UpdateTransactionFeeDistribution", "transactionFeeDistribution",
                "transactionFeeDistribution", "transactionFeeDistribution")

FoundationAccountHandler ==
  Level2Handler("UpdateFoundationAccount", "foundationAccount", "foundationAccount",
                "foundationAccount")

(* The form asks for a mint rate when the chain parameters are the first. *)
MintDistributionHandler(mintPerSlot) ==
  Level2Handler(IF mintPerSlot THEN "UpdateMintDistribution" ELSE "UpdateMintDistributionV1",
                "mintDistribution", "mintDistribution", "mintDistribution")

ProtocolUpdateHandler == Level2Handler("UpdateProtocol", "protocol", "protocol", "protocol")

(* The form asks for the finalization proof until the chain parameters are the third. *)
GasRewardsHandler(finalizationProof) ==
  Level2Handler(IF finalizationProof THEN "UpdateGASRewards" ELSE "UpdateGASRewardsV1",
                "gasRewards", "paramGASRewards", "paramGASRewards")

BakerStakeThresholdHandler ==
  Level2Handler("UpdateBakerStakeThreshold", "poolParameters", "poolParameters",
                "poolParameters")

ElectionDifficultyHandler ==
  Level2Handler("UpdateElectionDifficulty", "electionDifficulty", "electionDifficulty",
                "electionDifficulty")

AddIdentityProviderHandler ==
  Level2Handler("AddIdentityProvider", "addIdentityProvider", "addIdentityProvider",
                "addIdentityProvider")

AddAnonymityRevokerHandler ==
  Level2Handler("AddAnonymityRevoker", "addAnonymityRevoker", "addAnonymityRevoker",
                "addAnonymityRevoker")

TimeParametersHandler ==
  Level2Handler("TimeParameters", "timeParameters", "timeParameters", "timeParameters")

CooldownParametersHandler ==
  Level2Handler("CooldownParameters", "cooldownParameters", "cooldownParameters",
                "cooldownParameters")

PoolParametersHandler ==
  Level2Handler("PoolParameters", "poolParameters", "poolParameters", "poolParameters")

BlockEnergyLimitHandler ==
  Level2Handler("BlockEnergyLimit", "blockEnergyLimit", "electionDifficulty",
                "electionDifficulty")

FinalizationCommitteeParametersHandler ==
  Level2Handler("FinalizationCommitteeParameters", "finalizationCommiteeParameters",
                "poolParameters", "poolParameters")

MinBlockTimeHandler ==
  Level2Handler("MinBlockTime", "minBlockTime", "electionDifficulty", "electionDifficulty")

TimeoutParametersHandler ==
  Level2Handler("TimeoutParameters", "timeoutParameters", "electionDifficulty",
                "electionDifficulty")

ValidatorScoreParametersHandler ==
  Level2Handler("UpdateValidatorScoreParameters", "validatorScoreParameters",
                "poolParameters", "poolParameters")

CreatePltParametersHandler ==
  Level2Handler("UpdateCreatePltParameters", "protocolLevelTokens", "createPlt", "createPlt")

(* The handlers of the keys: every root or level 1 key is authorized. *)
UpdateRootKeysHandler ==
  UpdateHandler("UpdateRootKeys", "rootKeys", "rootKeys", "rootKeys", "rootKeys")

UpdateLevel1KeysWithRootKeysHandler ==
  UpdateHandler("UpdateLevel1KeysUsingRootKeys", "level1Keys", "rootKeys", "rootKeys",
                "rootKeys")

UpdateLevel1KeysWithLevel1KeysHandler ==
  UpdateHandler("UpdateLevel1KeysUsingLevel1Keys", "level1Keys", "level1Keys", "level1Keys",
                "level1Keys")

UpdateLevel2KeysUsingRootKeysHandler ==
  UpdateHandler("UpdateLevel2KeysUsingRootKeys", "level2Keys", "rootKeys", "rootKeys",
                "rootKeys")

UpdateLevel2KeysUsingLevel1KeysHandler ==
  UpdateHandler("UpdateLevel2KeysUsingLevel1Keys", "level2Keys", "level1Keys", "level1Keys",
                "level1Keys")

Handlers(chainParametersVersion) ==
  {MicroGtuPerEuroHandler, EuroPerEnergyHandler, TransactionFeeDistributionHandler,
   FoundationAccountHandler, MintDistributionHandler(chainParametersVersion = 0),
   ProtocolUpdateHandler, GasRewardsHandler(chainParametersVersion # 2),
   BakerStakeThresholdHandler, ElectionDifficultyHandler, AddIdentityProviderHandler,
   AddAnonymityRevokerHandler, TimeParametersHandler, CooldownParametersHandler,
   PoolParametersHandler, BlockEnergyLimitHandler, FinalizationCommitteeParametersHandler,
   MinBlockTimeHandler, TimeoutParametersHandler, ValidatorScoreParametersHandler,
   CreatePltParametersHandler, UpdateRootKeysHandler, UpdateLevel1KeysWithRootKeysHandler,
   UpdateLevel1KeysWithLevel1KeysHandler, UpdateLevel2KeysUsingRootKeysHandler,
   UpdateLevel2KeysUsingLevel1KeysHandler}

(* Both versions of a type have the same handler; it is the parameters of  *)
(* the chain that decide which of them it creates.                         *)
Versions(type) ==
  CASE type \in {"UpdateMintDistribution", "UpdateMintDistributionV1"} ->
         {"UpdateMintDistribution", "UpdateMintDistributionV1"}
    [] type \in {"UpdateGASRewards", "UpdateGASRewardsV1"} ->
         {"UpdateGASRewards", "UpdateGASRewardsV1"}
    [] OTHER -> {type}

findUpdateInstructionHandler(type, chainParametersVersion) ==
  CHOOSE h \in Handlers(chainParametersVersion) : h.type \in Versions(type)

KeyUpdates ==
  {"UpdateRootKeys", "UpdateLevel1KeysUsingRootKeys", "UpdateLevel1KeysUsingLevel1Keys",
   "UpdateLevel2KeysUsingRootKeys", "UpdateLevel2KeysUsingLevel1Keys"}

(* The key of the Ledger that an update is taken to be signed with. *)
isUpdateUsingRootKeys(type) ==
  type \in {"UpdateRootKeys", "UpdateLevel1KeysUsingRootKeys", "UpdateLevel2KeysUsingRootKeys"}

isUpdateUsingLevel1Keys(type) ==
  type \in {"UpdateLevel1KeysUsingLevel1Keys", "UpdateLevel2KeysUsingLevel1Keys"}

getUpdateKey(type) ==
  CASE isUpdateUsingRootKeys(type) -> "rootKeys"
    [] isUpdateUsingLevel1Keys(type) -> "level1Keys"
    [] OTHER -> "level2Keys"

(* The types that are not to be created while one of them is open. *)
getUpdateQueueTypes(type) ==
  LET level1 == {"UpdateLevel1KeysUsingLevel1Keys", "UpdateLevel1KeysUsingRootKeys"}
      level2 == {"UpdateLevel2KeysUsingLevel1Keys", "UpdateLevel2KeysUsingRootKeys"}
  IN  CASE type \in level1 -> level1
        [] type \in level2 -> level2
        [] OTHER -> {type}

(* The menu of foundation transactions, at a protocol version. *)
updateInstructionTypes(protocolVersion) ==
  {"UpdateMicroGTUPerEuro", "UpdateEuroPerEnergy", "UpdateTransactionFeeDistribution",
   "UpdateFoundationAccount", "UpdateMintDistribution", "UpdateProtocol",
   "UpdateGASRewards", "AddIdentityProvider", "AddAnonymityRevoker"}
  \union KeyUpdates
  \union (IF protocolVersion < 6 THEN {"UpdateElectionDifficulty"}
          ELSE {"BlockEnergyLimit", "FinalizationCommitteeParameters", "MinBlockTime",
                "TimeoutParameters"})
  \union (IF protocolVersion < 4 THEN {"UpdateBakerStakeThreshold"}
          ELSE {"CooldownParameters", "PoolParameters", "TimeParameters"})
  \union (IF protocolVersion < 8 THEN {} ELSE {"UpdateValidatorScoreParameters"})
  \union (IF protocolVersion < 9 THEN {} ELSE {"UpdateCreatePltParameters"})
-----------------------------------------------------------------------------
(***************************************************************************)
(* The node.  Every type has a queue of its own, numbered from 1, except   *)
(* that the updates of a key set share one and so do the versions of a     *)
(* type; the consensus updates are the business of one authorization, the  *)
(* updates of validators and pools that of another.                        *)
(***************************************************************************)
UpdateQueue(type) ==
  CASE type \in {"UpdateMintDistribution", "UpdateMintDistributionV1"} -> "mintDistribution"
    [] type \in {"UpdateGASRewards", "UpdateGASRewardsV1"} -> "gasRewards"
    [] type \in {"UpdateLevel1KeysUsingRootKeys", "UpdateLevel1KeysUsingLevel1Keys"} ->
         "level1Keys"
    [] type \in {"UpdateLevel2KeysUsingRootKeys", "UpdateLevel2KeysUsingLevel1Keys"} ->
         "level2Keys"
    [] type \in {"UpdateBakerStakeThreshold", "PoolParameters"} -> "poolParameters"
    [] OTHER ->
         [UpdateMicroGTUPerEuro |-> "microCcdPerEuro", UpdateEuroPerEnergy |-> "euroPerEnergy",
          UpdateTransactionFeeDistribution |-> "transactionFeeDistribution",
          UpdateFoundationAccount |-> "foundationAccount", UpdateProtocol |-> "protocol",
          UpdateElectionDifficulty |-> "electionDifficulty",
          AddIdentityProvider |-> "addIdentityProvider",
          AddAnonymityRevoker |-> "addAnonymityRevoker", TimeParameters |-> "timeParameters",
          CooldownParameters |-> "cooldownParameters", BlockEnergyLimit |-> "blockEnergyLimit",
          FinalizationCommitteeParameters |-> "finalizationCommiteeParameters",
          MinBlockTime |-> "minBlockTime", TimeoutParameters |-> "timeoutParameters",
          UpdateValidatorScoreParameters |-> "validatorScoreParameters",
          UpdateCreatePltParameters |-> "protocolLevelTokens",
          UpdateRootKeys |-> "rootKeys"][type]

RequiredAuthorization(type) ==
  CASE type \in {"UpdateRootKeys", "UpdateLevel1KeysUsingRootKeys",
                 "UpdateLevel2KeysUsingRootKeys"} -> "rootKeys"
    [] type \in {"UpdateLevel1KeysUsingLevel1Keys", "UpdateLevel2KeysUsingLevel1Keys"} ->
         "level1Keys"
    [] type \in {"UpdateElectionDifficulty", "BlockEnergyLimit", "MinBlockTime",
                 "TimeoutParameters"} -> "electionDifficulty"
    [] type \in {"UpdateBakerStakeThreshold", "PoolParameters",
                 "FinalizationCommitteeParameters", "UpdateValidatorScoreParameters"} ->
         "poolParameters"
    [] type \in {"UpdateGASRewards", "UpdateGASRewardsV1"} -> "paramGASRewards"
    [] type = "UpdateMicroGTUPerEuro" -> "microGTUPerEuro"
    [] type = "UpdateCreatePltParameters" -> "createPlt"
    [] OTHER -> UpdateQueue(type)

(* A version of the protocol knows one version of each type. *)
Known(type, protocolVersion) ==
  CASE type = "UpdateMintDistribution" -> protocolVersion < 4
    [] type = "UpdateMintDistributionV1" -> protocolVersion >= 4
    [] type = "UpdateGASRewards" -> protocolVersion < 6
    [] type = "UpdateGASRewardsV1" -> protocolVersion >= 6
    [] OTHER -> type \in updateInstructionTypes(protocolVersion)

ChainParametersVersion(protocolVersion) ==
  CASE protocolVersion < 4 -> 0
    [] protocolVersion \in 4 .. 5 -> 1
    [] protocolVersion \in 6 .. 7 -> 2
    [] OTHER -> 3
===============================================================================
