------------------------ MODULE MCAccountTransactionFlow ------------------------
EXTENDS AccountTransactionFlow

CONSTANTS a, b

MCExchangeRate == [numerator |-> 1, denominator |-> 100]

MCRange(min, max) == [min |-> min, max |-> max]

MCCommissionRange ==
  [transactionFeeCommission |-> MCRange(10000, 10000),
   bakingRewardCommission |-> MCRange(0, 12000),
   finalizationRewardCommission |-> MCRange(100000, 100000)]

MCNoChange == -1

NoStake(name) ==
  [name |-> name, role |-> "None", amount |-> 1000, config |-> <<>>, pending |-> NoChange]

(* A validator with that stake, some of it by an old minimum. *)
BakerWith(name, stake, url, baking, pending) ==
  [name |-> name, role |-> "Baker", amount |-> 1000, pending |-> pending,
   config |-> [stake |-> stake, restakeEarnings |-> "yes", openForDelegation |-> "openForAll",
               keys |-> [no |-> 0, account |-> name], metadataUrl |-> url,
               transactionFeeCommission |-> 10000, bakingRewardCommission |-> baking,
               finalizationRewardCommission |-> 100000, suspended |-> "no"]]

DelegatorWith(name, target, pending) ==
  [name |-> name, role |-> "Delegator", amount |-> 1000, pending |-> pending,
   config |-> [stake |-> 200, restakeEarnings |-> "no", delegationTarget |-> target]]

Both(first, second) == [x \in Accounts |-> IF x = a THEN first ELSE second]

(* Accounts of the same role, so that the sender can be changed, and of others. *)
MCInitialChains ==
  {Both(NoStake(a), NoStake(b)),
   Both(BakerWith(a, 600, 2048, 35, NoChange), BakerWith(b, 700, 0, 12000, NoChange)),
   Both(BakerWith(a, 400, 2048, 12000, NoChange), NoStake(b)),
   Both(BakerWith(a, 600, 2048, 12000, 500), DelegatorWith(b, Passive, NoChange)),
   Both(DelegatorWith(a, "7", NoChange), DelegatorWith(b, Passive, 100))}

MCInitialPools ==
  {[baker |-> "7", openStatus |-> "openForAll", cap |-> 300, delegated |-> 200]}
=============================================================================
