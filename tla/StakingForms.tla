------------------------------ MODULE StakingForms ------------------------------
(***************************************************************************)
(* The forms that make an account a validator or a delegator and change    *)
(* it: what a form shows of the account, which values its pages let        *)
(* through, and the payload that is made of them.                          *)
(*                                                                         *)
(* A value that TypeScript leaves undefined is a field that is not in the  *)
(* domain: the values of a form, its changes and a payload are functions   *)
(* from some of the fields of a configuration.  A metadata URL is known by *)
(* its length.                                                             *)
(***************************************************************************)
EXTENDS TransactionCosts

CONSTANTS
  MinStake,           \* getMinimumStakeForBaking(chainParameters)
  CommissionRange,    \* of each commission, in fractions of fractionResolution
  FallsShort,         \* commissions whose double, times fractionResolution, falls below
  ReadsDifferent,     \* commissions that are another double once the page had them
  CommissionInputs,   \* what a user sets a commission to
  UrlInputs,          \* the lengths of the URLs a user enters
  RestakeInputs,      \* whether the user restakes earnings
  NoChange,           \* no change of the stake is pending
  Passive             \* the delegation target null

CommissionFields ==
  {"transactionFeeCommission", "bakingRewardCommission", "finalizationRewardCommission"}

ASSUME StakingAssumption ==
  /\ MinStake \in Nat \ {0}
  /\ CommissionRange \in [CommissionFields -> [min : Nat, max : Nat]]
  /\ \A f \in CommissionFields :
       /\ CommissionRange[f].min <= CommissionRange[f].max
       /\ FallsShort \cap {CommissionRange[f].min, CommissionRange[f].max} = {}
  /\ CommissionInputs \subseteq Nat /\ UrlInputs \subseteq Nat
  /\ RestakeInputs \subseteq {"yes", "no"} /\ NoChange \in Int \ Nat

(* What is there of g, and of h where g says nothing. *)
Over(g, h) == [f \in DOMAIN g \cup DOMAIN h |-> IF f \in DOMAIN g THEN g[f] ELSE h[f]]

Only(g, fields) == [f \in DOMAIN g \cap fields |-> g[f]]

Has(values, field) == field \in DOMAIN values
-----------------------------------------------------------------------------
(***************************************************************************)
(* A commission in a form is a double.  The page shows it in percent and   *)
(* divides by a hundred again, which need not give the double the chain's  *)
(* fraction has.                                                           *)
(***************************************************************************)
Decimal(n) == [n |-> n, read |-> "chain"]

fromPercentagesToDecimals(n) ==
  [n |-> n, read |-> IF n \in ReadsDifferent THEN "page" ELSE "chain"]

(* d * fractionResolution is written as a whole number: the rest is cut off. *)
decimalToRewardFraction(d) == IF d.n \in FallsShort THEN d.n - 1 ELSE d.n
-----------------------------------------------------------------------------
(* The account information: its role, its configuration and a pending stake. *)
isBakerAccount(info) == info.role = "Baker"

isDelegatorAccount(info) == info.role = "Delegator"

hasPendingChange(info) == info.pending # NoChange

getExistingBakerValues(info) ==
  IF ~isBakerAccount(info) THEN <<>>
  ELSE [f \in BakerFields \ {"keys"} |->
         IF f \in CommissionFields THEN Decimal(info.config[f]) ELSE info.config[f]]

getExistingDelegationValues(info) ==
  IF isDelegatorAccount(info) THEN info.config ELSE <<>>

(* The fields whose new value is not the existing one; all if nothing exists. *)
getBakerFlowChanges(newValues, existing) ==
  Only(newValues,
       {f \in DOMAIN newValues : ~Has(existing, f) \/ existing[f] # newValues[f]})

(* Mutant: the arguments change places, as they do in the multi-signature preview. *)
changesBackwards(existing, newValues) == getBakerFlowChanges(existing, newValues)

getDelegationFlowChanges(existing, newValues) == getBakerFlowChanges(newValues, existing)

(* A pool that is closed for all keeps its commissions. *)
getSanitizedBakerPoolValues(values, info) ==
  IF Has(values, "openForDelegation") /\ values.openForDelegation = "closedForAll"
  THEN Over(Only(getExistingBakerValues(info), CommissionFields),
            Only(values, DOMAIN values \ CommissionFields))
  ELSE values

toConfigureBakerPayload(changes) ==
  [f \in DOMAIN changes |->
    IF f \in CommissionFields THEN decimalToRewardFraction(changes[f]) ELSE changes[f]]

(* A conversion throws when nothing is to change: an empty payload. *)
convertToBakerTransaction(values, existing) ==
  toConfigureBakerPayload(getBakerFlowChanges(values, existing))

convertToUpdateBakerPoolTransaction(values, info) ==
  convertToBakerTransaction(getSanitizedBakerPoolValues(values, info),
                            getExistingBakerValues(info))

convertToConfigureDelegationTransaction(values, info) ==
  getDelegationFlowChanges(getExistingDelegationValues(info), values)

convertToRemoveTransaction == [f \in {"stake"} |-> 0]

convertToBakerSuspensionTransaction(suspended) == [f \in {"suspended"} |-> suspended]
-----------------------------------------------------------------------------
(* The fees the forms estimate, in microCCD. *)
BakerPayloadSize(values) ==
  ConfigureBakerSize(DOMAIN values, IF Has(values, "metadataUrl") THEN values.metadataUrl ELSE 0)

IsPassive(values) == Has(values, "delegationTarget") /\ values.delegationTarget = Passive

DelegationPayloadSize(values) == ConfigureDelegationSize(DOMAIN values, IsPassive(values))

getEstimatedConfigureBakerFee(values, signatures) ==
  Fee(getConfigureBakerCost(signatures, BakerPayloadSize(values), DOMAIN values))

getEstimatedConfigureDelegationFee(values, signatures) ==
  Fee(getConfigureDelegationCost(signatures, DelegationPayloadSize(values)))

(* Mutant: the estimate stays when there is a payload to measure. *)
estimateOnly(values, signatures) ==
  Fee(getConfigureBakerFullCost(signatures, payloadSizeEstimate.ConfigureBakerFull))

(* Until there are keys the size of a full configuration is assumed. *)
getEstimatedAddBakerFee(values, signatures) ==
  Fee(getConfigureBakerFullCost(signatures,
        IF Has(values, "keys") THEN BakerPayloadSize(values)
        ELSE payloadSizeEstimate.ConfigureBakerFull))
-----------------------------------------------------------------------------
(* The rules of the pages. *)
validateBakerStake(amount, info, fee) ==
  /\ \/ MinStake <= amount
     \/ isBakerAccount(info) /\ info.config.stake # 0 /\ amount = info.config.stake
  /\ amount + fee <= info.amount

validateDelegateAmount(amount, info, fee, pool, target) ==
  /\ amount # 0
  /\ target # Passive => amount <= pool.cap
  /\ amount + fee <= info.amount

(* A validator whose pool takes the stake the account delegates by now. *)
validateBakerId(target, info, pool) ==
  \/ Only(getExistingDelegationValues(info), {"delegationTarget"})
       = [f \in {"delegationTarget"} |-> target]
  \/ /\ pool.openStatus = "openForAll"
     /\ isDelegatorAccount(info) => info.config.stake <= pool.cap - pool.delegated

(* The form as a whole, before it is done: the page that is not valid. *)
validateAddBakerValues(values, info, signatures) ==
  IF validateBakerStake(values.stake, info, getEstimatedAddBakerFee(values, signatures))
  THEN "valid" ELSE "stake"
-----------------------------------------------------------------------------
(***************************************************************************)
(* The values a page lets the user continue with.  Amounts are tried at    *)
(* the bounds of the rules, on both sides.                                 *)
(***************************************************************************)
(* A stake that is about to change cannot be set: its input is disabled. *)
StakeValues(amounts, pending) ==
  IF pending THEN {[f \in {"restakeEarnings"} |-> r] : r \in RestakeInputs}
  ELSE {[stake |-> s, restakeEarnings |-> r] : s \in amounts, r \in RestakeInputs}

StakeBounds(info, fee) ==
  {MinStake - 1, MinStake, info.amount - fee, info.amount - fee + 1}
    \cup (IF info.role = "None" THEN {} ELSE {info.config.stake})

BakerStakeSettings(info, fee) ==
  StakeValues({s \in StakeBounds(info, fee) \cap Nat : validateBakerStake(s, info, fee)},
              isBakerAccount(info) /\ hasPendingChange(info))

AddBakerStakePage(values, info, signatures) ==
  BakerStakeSettings(info, getEstimatedAddBakerFee(values, signatures))

(* The fee is that of the existing values that differ from the page's earlier ones. *)
UpdateBakerStakePage(values, info, signatures) ==
  LET stakeFields == {"stake", "restakeEarnings"}
      changes == getBakerFlowChanges(Only(getExistingBakerValues(info), stakeFields),
                                     Only(values, stakeFields))
  IN  BakerStakeSettings(info, getEstimatedConfigureBakerFee(changes, signatures))

DelegationStatusPage(info) ==
  {[f \in {"openForDelegation"} |-> s] :
     s \in {"openForAll", "closedForAll"}
             \cup (IF isBakerAccount(info) THEN {"closedForNew"} ELSE {})}

InRange(field, n) == CommissionRange[field].min <= n /\ n <= CommissionRange[field].max

(* The finalization commission is not shown and always the highest. *)
CommissionsPage ==
  LET inputs(field) == {n \in CommissionInputs : InRange(field, n)}
  IN  {[transactionFeeCommission |-> fromPercentagesToDecimals(t),
        bakingRewardCommission |-> fromPercentagesToDecimals(b),
        finalizationRewardCommission |->
          Decimal(CommissionRange["finalizationRewardCommission"].max)] :
         t \in inputs("transactionFeeCommission"), b \in inputs("bakingRewardCommission")}

MetadataUrlPage == {[f \in {"metadataUrl"} |-> url] : url \in UrlInputs}

DelegationTargetPage(info, pool) ==
  {[f \in {"delegationTarget"} |-> t] :
     t \in {Passive} \cup {b \in {pool.baker} : validateBakerId(b, info, pool)}}

DelegationAmountPage(values, info, pool, signatures) ==
  LET target == values.delegationTarget
      existing == getExistingDelegationValues(info)
      fee(v) == getEstimatedConfigureDelegationFee(
                  getDelegationFlowChanges(existing, Over(v, Only(values, {"delegationTarget"}))),
                  signatures)
      pending == isDelegatorAccount(info) /\ hasPendingChange(info)
      full == Fee(getConfigureDelegationCost(signatures, ConfigureDelegationSize(DelegationFields, FALSE)))
      amounts == {0, 1, pool.cap, pool.cap + 1, info.amount - full, info.amount - full + 1}
                   \cup (IF isDelegatorAccount(info) THEN {info.config.stake} ELSE {})
  IN  {v \in StakeValues(amounts \cap Nat, pending) :
         pending \/ validateDelegateAmount(v.stake, info, fee(v), pool, target)}
=============================================================================
