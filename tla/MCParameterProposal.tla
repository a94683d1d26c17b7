-------------------------- MODULE MCParameterProposal --------------------------
EXTENDS ParameterProposal

Rate(n, d) == [numerator |-> Steps(n), denominator |-> Steps(d)]

Range(min, max) == [min |-> Steps(min), max |-> Steps(max)]

(* A share of the chain's is not always on the grid when it has been multiplied. *)
FeeShares == [first |-> Number(1801), second |-> Steps(450)]

Empties(update) == [label \in DOMAIN UpdateComponent(update) |-> Empty]

MCPoolParameters ==
  [label \in DOMAIN UpdatePoolParameters |->
     CASE label \in PassiveCommissions -> Steps(120)
       [] label \in CommissionRanges -> Range(50, 100)
       [] label = "capitalBound" -> Steps(100)
       [] label = "leverageBound" -> Rate(3, 1)
       [] label = "minimumEquityCapital" -> Steps(500)]

MCCurrent ==
  [update \in Types |->
     CASE update = "UpdateMicroGTUPerEuro" -> [microGtuPerEuroRate |-> Rate(10, 4)]
       [] update = "UpdateEuroPerEnergy" -> [euroPerEnergyRate |-> Rate(1, 500)]
       [] update = "UpdateTransactionFeeDistribution" -> [rewardDistribution |-> FeeShares]
       [] update = "UpdateMintDistribution" ->
            [rewardDistribution |-> FeeShares, mintPerSlot |-> Steps(2)]
       [] update = "UpdateMintDistributionV1" -> [rewardDistribution |-> FeeShares]
       [] update \in {"UpdateGASRewards", "UpdateGASRewardsV1"} ->
            [label \in DOMAIN UpdateComponent(update) |-> Number(999)]
       [] update = "UpdateBakerStakeThreshold" -> [threshold |-> Steps(500)]
       [] update = "UpdateElectionDifficulty" -> [electionDifficulty |-> Steps(25)]
       [] update = "TimeParameters" ->
            [mintPerPayday |-> Steps(2), rewardPeriodLength |-> Steps(4)]
       [] update = "CooldownParameters" ->
            [poolOwnerCooldown |-> Steps(40), delegatorCooldown |-> Steps(30)]
       [] update = "PoolParameters" -> MCPoolParameters
       [] update = "BlockEnergyLimit" -> [blockEnergyLimit |-> Steps(3000)]
       [] update = "FinalizationCommitteeParameters" ->
            [minFinalizers |-> Steps(40), maxFinalizers |-> Steps(1000),
             relativeStakeThresholdFraction |-> Steps(10)]
       [] update = "MinBlockTime" -> [minBlockTime |-> Steps(2)]
       [] update = "TimeoutParameters" ->
            [timeoutBase |-> Steps(10), timeoutIncrease |-> Rate(6, 5),
             timeoutDecrease |-> Rate(4, 5)]
       [] update = "UpdateValidatorScoreParameters" -> [maxMissedRounds |-> Steps(2)]
       [] update = "UpdateCreatePltParameters" ->
            [Empties(update) EXCEPT !.moduleRef = Word(0)]
       [] OTHER -> Empties(update)]

(* Forms whose inputs have texts: all but the words of an identity. *)
Filled(update) ==
  [label \in DOMAIN UpdateComponent(update) |->
     LET rule == UpdateComponent(update)[label].rule
     IN  IF rule = "onChain" THEN Word(2)
         ELSE IF rule \in {"unique", "decimals"} THEN Steps(6)
         ELSE IF rule \in {"required", "word", "notOnChain"} THEN Word(0)
         ELSE MCCurrent[update][label]]

MCDrafts == [update \in Types |-> {MCCurrent[update], Filled(update)}]

MCTexts ==
  [RelativeRateField |-> {Steps(0), Steps(6), Steps(9000), Number(10), Junk, Empty},
   RewardFractionField |-> {Steps(0), Steps(100), Number(402), Steps(1001), Junk, Empty},
   CommissionRangeField |-> {Steps(-1), Steps(0), Steps(100), Number(402), Steps(1001), Junk},
   RewardDistribution |-> {Steps(0), Steps(100), Number(2001), Steps(700), Steps(1000),
                           Steps(1001), Junk, Empty},
   MintRateInput |-> {Steps(0), Steps(3), Steps(40), Number(6), Junk, Empty},
   Input |-> {Steps(-1), Steps(0), Steps(3), Steps(6), Steps(300), Steps(9000), Number(6), Junk, Empty},
   text |-> {Word(0), Word(1), Word(2), Junk, Empty}]
=============================================================================
