------------------------------ MODULE ParameterForms ------------------------------
(***************************************************************************)
(* The forms of the updates of chain parameters: the fields of each, the   *)
(* rules a value has to pass, the payload that is made of the values, and  *)
(* what the overview of a proposal shows of a payload.                     *)
(*                                                                         *)
(* A word stands for a text that is not a number: a name, an address, a    *)
(* key, a file.  Words of value 0 are in order, those of value 1 are not   *)
(* (an address with a wrong checksum, a key of another length, a file that *)
(* is too large), those of value 2 exist already.                          *)
(***************************************************************************)
EXTENDS ParameterFields

CONSTANTS
  Word32,         \* 2^32
  Word64,         \* 2^64
  KnownIds,       \* the identifiers of the providers, of the disclosure authorities
  SlowestLottery, \* the largest difficulty whose block time is above a day
  WideMantissa    \* the mint rates whose mantissa is above 2^32 - 1

ASSUME FormsAssumption ==
  /\ Word32 \in Nat /\ Word64 \in Nat /\ Resolution < Word32 /\ Word32 < Word64
  /\ KnownIds \subseteq Nat /\ SlowestLottery \in Nat /\ WideMantissa \subseteq Nat

Word(i) == [is |-> "word", value |-> i]

(* A field: its component, the rule its value has to pass, what it is written as. *)
Field(component, rule, wire) == [component |-> component, rule |-> rule, wire |-> wire]
-----------------------------------------------------------------------------
(* Rules.  A comparison of react-hook-form is one of doubles: 2^64 is not above 2^64 - 1. *)
mustBeAnInteger(v) == OnGrid(v) /\ v.value >= 0

NonNegativeWord64(v) == mustBeAnInteger(v) /\ v.value \div Tick <= Word64

validationRulesForPositiveWord64(v) == NonNegativeWord64(v) /\ v.value # 0

PositiveWord32(v) == mustBeAnInteger(v) /\ v.value # 0 /\ v.value \div Tick < Word32

validationRules(v) == OnGrid(v) /\ 0 <= v.value /\ v.value <= Whole

(* A minimum in steps is TRUE, and the alternative to it - the maximum - is not looked at. *)
rangeValidationRules(v) ==
  /\ IsNumber(v.min) /\ IsNumber(v.max)
  /\ OnGrid(v.min)
  /\ 0 <= v.min.value /\ v.min.value <= v.max.value /\ v.max.value <= Whole

isPositiveNumber(r) == \A p \in Parts : IsNumber(r[p]) /\ r[p].value >= Tick

validBigIntValues(r) == \A p \in Parts : OnGrid(r[p]) \/ r[p] = Empty

isGreaterThanOne(r) == r.numerator.value > r.denominator.value

isLessThanOne(r) == r.numerator.value < r.denominator.value

leverageRules(r) == \A p \in Parts : mustBeAnInteger(r[p]) /\ r[p].value \div Tick < Word64 - 1

(* The largest rate is 2^32 - 1, far above any. *)
mintRules(v) == IsNumber(v) /\ 0 <= v.value

difficultyRules(v) ==
  OnGrid(v) /\ Tick <= v.value /\ v.value < Whole /\ v.value \div Tick > SlowestLottery

MustBeUnique(v) == mustBeAnInteger(v) /\ v.value \div Tick \notin KnownIds

Passes(rule, v) ==
  CASE rule = "none" -> TRUE
    [] rule = "required" -> v # Empty
    [] rule = "word" -> v = Word(0)
    [] rule = "onChain" -> v = Word(2)
    [] rule = "notOnChain" -> v = Word(0)
    [] rule = "file" -> v # Word(1)
    [] rule = "optionalWord" -> v \in {Empty, Word(0)}
    [] rule = "integer" -> mustBeAnInteger(v)
    [] rule = "unique" -> MustBeUnique(v)
    [] rule = "positive" -> mustBeAnInteger(v) /\ v.value >= Tick
    [] rule = "positiveWord64" -> validationRulesForPositiveWord64(v)
    [] rule = "word64" -> NonNegativeWord64(v)
    [] rule = "decimals" -> mustBeAnInteger(v) /\ v.value \div Tick <= 255
    [] rule = "positiveWord32" -> PositiveWord32(v)
    [] rule = "fraction" -> validationRules(v)
    [] rule = "range" -> rangeValidationRules(v)
    [] rule = "rate" -> isPositiveNumber(v) /\ validBigIntValues(v)
    [] rule = "aboveOne" -> isPositiveNumber(v) /\ validBigIntValues(v) /\ isGreaterThanOne(v)
    [] rule = "belowOne" -> isPositiveNumber(v) /\ validBigIntValues(v) /\ isLessThanOne(v)
    [] rule = "leverage" -> leverageRules(v)
    [] rule = "mint" -> mintRules(v)
    [] rule = "difficulty" -> difficultyRules(v)
-----------------------------------------------------------------------------
(***************************************************************************)
(* Each update: its form, the payload its handler makes of the values f,   *)
(* and the values the overview of a payload p shows under the same labels. *)
(***************************************************************************)
(* A rate is reduced; 0 : 0 has no greatest common divisor, BigInt throws. *)
getGCD[p \in Nat \X Nat] == IF p[2] = 0 THEN p[1] ELSE getGCD[<<p[2], p[1] % p[2]>>]

Fails == [is |-> "fails", value |-> 0]

getReducedFraction(r) ==
  LET n == r.numerator.value \div Tick
      d == r.denominator.value \div Tick
      gcd == getGCD[<<n, d>>]
  IN  IF gcd = 0 THEN [numerator |-> Fails, denominator |-> Fails]
      ELSE [numerator |-> Steps(n \div gcd), denominator |-> Steps(d \div gcd)]

UpdateMicroGtuPerEuroRate == [microGtuPerEuroRate |-> Field("RelativeRateField", "rate", "word64")]
MicroGtuPerEuro(f) == [exchangeRate |-> getReducedFraction(f.microGtuPerEuroRate)]
MicroGtuPerEuroView(p) == [microGtuPerEuroRate |-> p.exchangeRate]

UpdateEuroPerEnergy == [euroPerEnergyRate |-> Field("RelativeRateField", "rate", "word64")]
EuroPerEnergy(f) == [exchangeRate |-> getReducedFraction(f.euroPerEnergyRate)]
EuroPerEnergyView(p) == [euroPerEnergyRate |-> p.exchangeRate]

Distribution == Field("RewardDistribution", "none", "uint32")

(* Mutant: the shares change places. *)
SwappedFeeDistribution(f) ==
  [baker |-> f.rewardDistribution.second, gasAccount |-> f.rewardDistribution.first]

UpdateTransactionFeeDistribution == [rewardDistribution |-> Distribution]
TransactionFeeDistribution(f) ==
  [baker |-> f.rewardDistribution.first, gasAccount |-> f.rewardDistribution.second]
TransactionFeeDistributionView(p) ==
  [rewardDistribution |-> [first |-> p.baker, second |-> p.gasAccount]]

UpdateFoundationAccount == [foundationAccount |-> Field("Input", "word", "text")]
FoundationAccount(f) == [address |-> f.foundationAccount]
FoundationAccountView(p) == [foundationAccount |-> p.address]

(* The first version of the parameters has the rate of a slot with the shares. *)
UpdateMintDistribution(version) ==
  [label \in {"rewardDistribution"} \union (IF version = 0 THEN {"mintPerSlot"} ELSE {}) |->
     IF label = "mintPerSlot" THEN Field("MintRateInput", "mint", "mint") ELSE Distribution]
MintDistribution(f) ==
  [bakingReward |-> f.rewardDistribution.first,
   finalizationReward |-> f.rewardDistribution.second,
   mintPerSlot |-> IF "mintPerSlot" \in DOMAIN f THEN f.mintPerSlot ELSE Empty]
MintDistributionView(p) ==
  [label \in {"rewardDistribution"} \union (IF p.mintPerSlot # Empty THEN {"mintPerSlot"} ELSE {}) |->
     IF label = "mintPerSlot" THEN p.mintPerSlot
     ELSE [first |-> p.bakingReward, second |-> p.finalizationReward]]

(* A file that was chosen and taken back leaves an empty list, of which the first is read. *)
UpdateProtocol ==
  [message |-> Field("Input", "required", "text"),
   specificationUrl |-> Field("Input", "required", "text"),
   specificationHash |-> Field("Input", "word", "text"),
   specificationAuxiliaryData |-> Field("Input", "file", "text")]
ProtocolUpdate(f) ==
  [f EXCEPT !.specificationAuxiliaryData = IF @ = Junk THEN Fails ELSE @]
ProtocolUpdateView(p) == p

UpdateGasRewards(version) ==
  [label \in {"baker", "accountCreation", "chainUpdate"}
             \union (IF version = 0 THEN {"finalizationProof"} ELSE {}) |->
     Field("RewardFractionField", "fraction", "word32")]
GasRewards(f) == f
GasRewardsView(p) == p

UpdateBakerStakeThreshold == [threshold |-> Field("Input", "word64", "word64")]
BakerStakeThreshold(f) == [threshold |-> f.threshold]
BakerStakeThresholdView(p) == [threshold |-> p.threshold]

UpdateElectionDifficulty == [electionDifficulty |-> Field("Input", "difficulty", "uint32")]
ElectionDifficulty(f) == [electionDifficulty |-> f.electionDifficulty]
ElectionDifficultyView(p) == [electionDifficulty |-> p.electionDifficulty]

(* A name, a URL and a description, an unused identifier and the keys. *)
Described(identity, keys) ==
  [label \in {"name", "url", "description", identity} \union keys |->
     IF label = identity THEN Field("Input", "unique", "word32")
     ELSE Field("Input", CASE label \in keys -> "word" [] label = "description" -> "none"
                           [] OTHER -> "required", "text")]

CreateAddIdentityProvider == Described("ipIdentity", {"ipVerifyKey", "ipCdiVerifyKey"})
AddIdentityProvider(f) ==
  [ipDescription |-> [name |-> f.name, url |-> f.url, description |-> f.description],
   ipIdentity |-> f.ipIdentity, ipVerifyKey |-> f.ipVerifyKey, ipCdiVerifyKey |-> f.ipCdiVerifyKey]
AddIdentityProviderView(p) ==
  [name |-> p.ipDescription.name, url |-> p.ipDescription.url,
   description |-> p.ipDescription.description, ipIdentity |-> p.ipIdentity,
   ipVerifyKey |-> p.ipVerifyKey, ipCdiVerifyKey |-> p.ipCdiVerifyKey]

CreateAddAnonymityRevoker == Described("arIdentity", {"arPublicKey"})
AddAnonymityRevoker(f) ==
  [arDescription |-> [name |-> f.name, url |-> f.url, description |-> f.description],
   arIdentity |-> f.arIdentity, arPublicKey |-> f.arPublicKey]
AddAnonymityRevokerView(p) ==
  [name |-> p.arDescription.name, url |-> p.arDescription.url,
   description |-> p.arDescription.description, arIdentity |-> p.arIdentity,
   arPublicKey |-> p.arPublicKey]

UpdateTimeParameters ==
  [mintPerPayday |-> Field("MintRateInput", "mint", "mint"),
   rewardPeriodLength |-> Field("Input", "positiveWord64", "word64")]
TimeParameters(f) ==
  [mintRatePerPayday |-> f.mintPerPayday, rewardPeriodLength |-> f.rewardPeriodLength]
TimeParametersView(p) ==
  [mintPerPayday |-> p.mintRatePerPayday, rewardPeriodLength |-> p.rewardPeriodLength]

UpdateCooldownParameters ==
  [poolOwnerCooldown |-> Field("Input", "positiveWord64", "word64"),
   delegatorCooldown |-> Field("Input", "positiveWord64", "word64")]
CooldownParameters(f) ==
  [delegatorCooldown |-> f.delegatorCooldown, poolOwnerCooldown |-> f.poolOwnerCooldown]
CooldownParametersView(p) ==
  [poolOwnerCooldown |-> p.poolOwnerCooldown, delegatorCooldown |-> p.delegatorCooldown]

PassiveCommissions ==
  {"passiveFinalizationCommission", "passiveBakingCommission", "passiveTransactionCommission"}
CommissionRanges ==
  {"finalizationCommissionRange", "bakingCommissionRange", "transactionCommissionRange"}

(* The capital bound has no rules. *)
UpdatePoolParameters ==
  [label \in PassiveCommissions \union CommissionRanges
             \union {"minimumEquityCapital", "capitalBound", "leverageBound"} |->
     CASE label \in PassiveCommissions -> Field("RewardFractionField", "fraction", "uint32")
       [] label \in CommissionRanges -> Field("CommissionRangeField", "range", "uint32")
       [] label = "capitalBound" -> Field("RewardFractionField", "none", "word32")
       [] label = "leverageBound" -> Field("RelativeRateField", "leverage", "word64")
       [] label = "minimumEquityCapital" -> Field("Input", "word64", "word64")]
PoolParameters(f) ==
  [passiveCommissions |->
     [transactionFeeCommission |-> f.passiveTransactionCommission,
      bakingRewardCommission |-> f.passiveBakingCommission,
      finalizationRewardCommission |-> f.passiveFinalizationCommission],
   commissionBounds |->
     [transactionFeeCommission |-> f.transactionCommissionRange,
      bakingRewardCommission |-> f.bakingCommissionRange,
      finalizationRewardCommission |-> f.finalizationCommissionRange],
   minimumEquityCapital |-> f.minimumEquityCapital,
   capitalBound |-> f.capitalBound,
   leverageBound |-> getReducedFraction(f.leverageBound)]
PoolParametersView(p) ==
  [passiveTransactionCommission |-> p.passiveCommissions.transactionFeeCommission,
   passiveBakingCommission |-> p.passiveCommissions.bakingRewardCommission,
   passiveFinalizationCommission |-> p.passiveCommissions.finalizationRewardCommission,
   transactionCommissionRange |-> p.commissionBounds.transactionFeeCommission,
   bakingCommissionRange |-> p.commissionBounds.bakingRewardCommission,
   finalizationCommissionRange |-> p.commissionBounds.finalizationRewardCommission,
   minimumEquityCapital |-> p.minimumEquityCapital,
   capitalBound |-> p.capitalBound,
   leverageBound |-> p.leverageBound]

UpdateBlockEnergyLimit == [blockEnergyLimit |-> Field("Input", "positiveWord64", "word64")]
BlockEnergyLimit(f) == f
BlockEnergyLimitView(p) == p

UpdateFinalizationCommitteeParameters ==
  [minFinalizers |-> Field("Input", "positiveWord32", "word32"),
   maxFinalizers |-> Field("Input", "positiveWord32", "word32"),
   relativeStakeThresholdFraction |-> Field("RewardFractionField", "none", "word32")]
FinalizationCommitteeParameters(f) == f
FinalizationCommitteeParametersView(p) == p

UpdateMinBlockTime == [minBlockTime |-> Field("Input", "positiveWord64", "word64")]
MinBlockTime(f) == f
MinBlockTimeView(p) == p

UpdateTimeoutParameters ==
  [timeoutBase |-> Field("Input", "positiveWord64", "word64"),
   timeoutIncrease |-> Field("RelativeRateField", "aboveOne", "word64"),
   timeoutDecrease |-> Field("RelativeRateField", "belowOne", "word64")]
TimeoutParameters(f) ==
  [timeoutBase |-> f.timeoutBase,
   timeoutIncrease |-> getReducedFraction(f.timeoutIncrease),
   timeoutDecrease |-> getReducedFraction(f.timeoutDecrease)]
TimeoutParametersView(p) == p

UpdateValidatorScoreParameters == [maxMissedRounds |-> Field("Input", "positive", "word64")]
ValidatorScoreParameters(f) == f
ValidatorScoreParametersView(p) == p

(* The supply is looked at when there are decimals; a checkbox is a word. *)
Switches == {"allowList", "denyList", "mintable", "burnable"}

CreatePltParameters ==
  [label \in {"tokenId", "name", "moduleRef", "metadataUrl", "metadataHash", "governanceAccount",
              "decimals", "initialSupply"} \union Switches |->
     CASE label = "tokenId" -> Field("Input", "notOnChain", "text")
       [] label = "governanceAccount" -> Field("Input", "onChain", "text")
       [] label \in {"name", "metadataUrl"} -> Field("Input", "required", "text")
       [] label = "moduleRef" -> Field("Input", "word", "text")
       [] label = "metadataHash" -> Field("Input", "optionalWord", "text")
       [] label = "decimals" -> Field("Input", "decimals", "word8")
       [] label = "initialSupply" -> Field("Input", "supply", "text")
       [] label \in Switches -> Field("Input", "none", "text")]
CreatePlt(f) ==
  [tokenId |-> f.tokenId,
   moduleRef |-> IF f.moduleRef = Word(0) THEN f.moduleRef ELSE Fails,
   decimals |-> f.decimals,
   initializationParameters |->
     [name |-> f.name, metadata |-> [url |-> f.metadataUrl, checksumSha256 |-> f.metadataHash],
      governanceAccount |-> IF f.governanceAccount \in {Word(0), Word(2)} THEN f.governanceAccount
                            ELSE Fails,
      initialSupply |-> f.initialSupply,
      switches |-> [label \in Switches |-> f[label]]]]
CreatePltView(p) ==
  LET i == p.initializationParameters
  IN  [label \in DOMAIN CreatePltParameters |->
         CASE label = "tokenId" -> p.tokenId [] label = "moduleRef" -> p.moduleRef
           [] label = "decimals" -> p.decimals [] label = "name" -> i.name
           [] label = "metadataUrl" -> i.metadata.url
           [] label = "metadataHash" -> i.metadata.checksumSha256
           [] label = "governanceAccount" -> i.governanceAccount
           [] label = "initialSupply" -> i.initialSupply
           [] label \in Switches -> i.switches[label]]
-----------------------------------------------------------------------------
(* The form, the payload and the overview of a type, at a version of the parameters. *)
Types ==
  {"UpdateMicroGTUPerEuro", "UpdateEuroPerEnergy", "UpdateTransactionFeeDistribution",
   "UpdateFoundationAccount", "UpdateMintDistribution", "UpdateMintDistributionV1",
   "UpdateProtocol", "UpdateGASRewards", "UpdateGASRewardsV1", "UpdateBakerStakeThreshold",
   "UpdateElectionDifficulty", "AddIdentityProvider", "AddAnonymityRevoker", "TimeParameters",
   "CooldownParameters", "PoolParameters", "BlockEnergyLimit",
   "FinalizationCommitteeParameters", "MinBlockTime", "TimeoutParameters",
   "UpdateValidatorScoreParameters", "UpdateCreatePltParameters"}

UpdateComponent(type) ==
  CASE type = "UpdateMicroGTUPerEuro" -> UpdateMicroGtuPerEuroRate
    [] type = "UpdateEuroPerEnergy" -> UpdateEuroPerEnergy
    [] type = "UpdateTransactionFeeDistribution" -> UpdateTransactionFeeDistribution
    [] type = "UpdateFoundationAccount" -> UpdateFoundationAccount
    [] type = "UpdateMintDistribution" -> UpdateMintDistribution(0)
    [] type = "UpdateMintDistributionV1" -> UpdateMintDistribution(1)
    [] type = "UpdateProtocol" -> UpdateProtocol
    [] type = "UpdateGASRewards" -> UpdateGasRewards(0)
    [] type = "UpdateGASRewardsV1" -> UpdateGasRewards(1)
    [] type = "UpdateBakerStakeThreshold" -> UpdateBakerStakeThreshold
    [] type = "UpdateElectionDifficulty" -> UpdateElectionDifficulty
    [] type = "AddIdentityProvider" -> CreateAddIdentityProvider
    [] type = "AddAnonymityRevoker" -> CreateAddAnonymityRevoker
    [] type = "TimeParameters" -> UpdateTimeParameters
    [] type = "CooldownParameters" -> UpdateCooldownParameters
    [] type = "PoolParameters" -> UpdatePoolParameters
    [] type = "BlockEnergyLimit" -> UpdateBlockEnergyLimit
    [] type = "FinalizationCommitteeParameters" -> UpdateFinalizationCommitteeParameters
    [] type = "MinBlockTime" -> UpdateMinBlockTime
    [] type = "TimeoutParameters" -> UpdateTimeoutParameters
    [] type = "UpdateValidatorScoreParameters" -> UpdateValidatorScoreParameters
    [] type = "UpdateCreatePltParameters" -> CreatePltParameters

createTransaction(type, f) ==
  CASE type = "UpdateMicroGTUPerEuro" -> MicroGtuPerEuro(f)
    [] type = "UpdateEuroPerEnergy" -> EuroPerEnergy(f)
    [] type = "UpdateTransactionFeeDistribution" -> TransactionFeeDistribution(f)
    [] type = "UpdateFoundationAccount" -> FoundationAccount(f)
    [] type \in {"UpdateMintDistribution", "UpdateMintDistributionV1"} -> MintDistribution(f)
    [] type = "UpdateProtocol" -> ProtocolUpdate(f)
    [] type \in {"UpdateGASRewards", "UpdateGASRewardsV1"} -> GasRewards(f)
    [] type = "UpdateBakerStakeThreshold" -> BakerStakeThreshold(f)
    [] type = "UpdateElectionDifficulty" -> ElectionDifficulty(f)
    [] type = "AddIdentityProvider" -> AddIdentityProvider(f)
    [] type = "AddAnonymityRevoker" -> AddAnonymityRevoker(f)
    [] type = "TimeParameters" -> TimeParameters(f)
    [] type = "CooldownParameters" -> CooldownParameters(f)
    [] type = "PoolParameters" -> PoolParameters(f)
    [] type = "BlockEnergyLimit" -> BlockEnergyLimit(f)
    [] type = "FinalizationCommitteeParameters" -> FinalizationCommitteeParameters(f)
    [] type = "MinBlockTime" -> MinBlockTime(f)
    [] type = "TimeoutParameters" -> TimeoutParameters(f)
    [] type = "UpdateValidatorScoreParameters" -> ValidatorScoreParameters(f)
    [] type = "UpdateCreatePltParameters" -> CreatePlt(f)

View(type, p) ==
  CASE type = "UpdateMicroGTUPerEuro" -> MicroGtuPerEuroView(p)
    [] type = "UpdateEuroPerEnergy" -> EuroPerEnergyView(p)
    [] type = "UpdateTransactionFeeDistribution" -> TransactionFeeDistributionView(p)
    [] type = "UpdateFoundationAccount" -> FoundationAccountView(p)
    [] type \in {"UpdateMintDistribution", "UpdateMintDistributionV1"} -> MintDistributionView(p)
    [] type = "UpdateProtocol" -> ProtocolUpdateView(p)
    [] type \in {"UpdateGASRewards", "UpdateGASRewardsV1"} -> GasRewardsView(p)
    [] type = "UpdateBakerStakeThreshold" -> BakerStakeThresholdView(p)
    [] type = "UpdateElectionDifficulty" -> ElectionDifficultyView(p)
    [] type = "AddIdentityProvider" -> AddIdentityProviderView(p)
    [] type = "AddAnonymityRevoker" -> AddAnonymityRevokerView(p)
    [] type = "TimeParameters" -> TimeParametersView(p)
    [] type = "CooldownParameters" -> CooldownParametersView(p)
    [] type = "PoolParameters" -> PoolParametersView(p)
    [] type = "BlockEnergyLimit" -> BlockEnergyLimitView(p)
    [] type = "FinalizationCommitteeParameters" -> FinalizationCommitteeParametersView(p)
    [] type = "MinBlockTime" -> MinBlockTimeView(p)
    [] type = "TimeoutParameters" -> TimeoutParametersView(p)
    [] type = "UpdateValidatorScoreParameters" -> ValidatorScoreParametersView(p)
    [] type = "UpdateCreatePltParameters" -> CreatePltView(p)
-----------------------------------------------------------------------------
(***************************************************************************)
(* What a value is written as: encodeWord32 and encodeWord64 keep what     *)
(* fits, the methods of Buffer throw when it does not; a rest of a step    *)
(* is cut off, and NaN, null in JSON, is 0.                                *)
(***************************************************************************)
Written(wire, v) ==
  LET steps == IF IsNumber(v) THEN v.value \div Tick ELSE 0
  IN  CASE wire = "text" -> v
        [] wire = "word8" -> Steps(steps % 256)
        [] wire = "word32" -> Steps(steps % Word32)
        [] wire = "word64" -> Steps(steps % Word64)
        [] wire = "uint32" -> IF 0 <= steps /\ steps < Word32 THEN Steps(steps) ELSE Fails
        [] wire = "mint" -> IF v.value \in WideMantissa THEN Fails ELSE v

InRange(wire, v) ==
  CASE wire = "text" -> TRUE
    [] wire = "word8" -> v.value \div Tick \in 0 .. 255
    [] wire \in {"word32", "uint32"} -> v.value \div Tick \in 0 .. Word32 - 1
    [] wire = "word64" -> v.value \div Tick \in 0 .. Word64 - 1
    [] wire = "mint" -> v.value \notin WideMantissa
=============================================================================
