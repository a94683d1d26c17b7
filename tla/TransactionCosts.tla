---------------------------- MODULE TransactionCosts ----------------------------
(***************************************************************************)
(* What a transaction costs: the energy that transactionCosts.ts puts on   *)
(* it, and the fee the forms show before the transaction exists.  Energy   *)
(* is exact, a fee is energy at the exchange rate of the moment, rounded   *)
(* up to a whole microCCD when an amount is compared with it.              *)
(***************************************************************************)
EXTENDS TransactionSerialization

CONSTANT ExchangeRate           \* microCCD per energy, a fraction

ASSUME ExchangeRateAssumption ==
  ExchangeRate \in [numerator : Nat \ {0}, denominator : Nat \ {0}]

energyConstants ==
  [SimpleTransferCost |-> 300, EncryptedTransferCost |-> 27000,
   TransferToEncryptedCost |-> 600, TransferToPublicCost |-> 14850,
   ScheduledTransferPerRelease |-> 300 + 64,
   UpdateCredentialsBaseCost |-> 500,
   UpdateCredentialsCostPerCurrentCredential |-> 500,
   UpdateCredentialsCostPerNewCredential |-> 54000 + 100,
   RegisterData |-> 300, ConfigureBaker |-> 300, ConfigureBakerWithKeys |-> 4050,
   ConfigureDelegation |-> 300]

(* The sizes assumed for payloads that are not known yet, the kind included. *)
payloadSizeEstimate ==
  [SimpleTransfer |-> 41, EncryptedTransfer |-> 2617, TransferToEncrypted |-> 9,
   TransferToPublic |-> 1405,
   ConfigureBakerFull |-> 1 + 2 + 8 + 1 + 1 + 3 * 32 + 0 + 160 + 192]

transactionHeaderSize == 32 + 8 + 8 + 4 + 8

calculateCost(signatureAmount, payloadSize, transactionTypeCost) ==
  100 * signatureAmount + (transactionHeaderSize + payloadSize) + transactionTypeCost

(* A fraction is collapsed upwards. *)
collapseFraction(f) == (f.numerator + f.denominator - 1) \div f.denominator

energyToCost(energy) ==
  [numerator |-> energy * ExchangeRate.numerator, denominator |-> ExchangeRate.denominator]

Fee(energy) == collapseFraction(energyToCost(energy))
-----------------------------------------------------------------------------
(***************************************************************************)
(* Configurations.  A payload is known by the fields that are in it, by    *)
(* the length of its metadata URL, and by whether it delegates passively.  *)
(***************************************************************************)
BakerFields ==
  {"stake", "restakeEarnings", "openForDelegation", "keys", "metadataUrl",
   "transactionFeeCommission", "bakingRewardCommission", "finalizationRewardCommission",
   "suspended"}

DelegationFields == {"stake", "restakeEarnings", "delegationTarget"}

ConfigureBakerSize(fields, url) ==
  Size(serializeConfigureBaker([fields |-> fields, url |-> url]))

ConfigureDelegationSize(fields, passive) ==
  Size(serializeConfigureDelegation([fields |-> fields, passive |-> passive]))

getConfigureBakerEnergyCost(fields) ==
  IF "keys" \in fields THEN energyConstants.ConfigureBakerWithKeys
  ELSE energyConstants.ConfigureBaker

getConfigureBakerCost(signatureAmount, payloadSize, fields) ==
  calculateCost(signatureAmount, payloadSize, getConfigureBakerEnergyCost(fields))

getConfigureBakerFullCost(signatureAmount, payloadSize) ==
  calculateCost(signatureAmount, payloadSize, energyConstants.ConfigureBakerWithKeys)

getConfigureDelegationCost(signatureAmount, payloadSize) ==
  calculateCost(signatureAmount, payloadSize, energyConstants.ConfigureDelegation)
=============================================================================
