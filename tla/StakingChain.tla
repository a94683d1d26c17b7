------------------------------ MODULE StakingChain ------------------------------
(***************************************************************************)
(* What the chain does with the configurations of the staking forms: the   *)
(* reasons it has to refuse one, and the account after one it accepts.     *)
(* This is code of the node, known here from the reasons and the account   *)
(* information the wallet handles.  A lowered stake stays until the        *)
(* cooldown is over, as in the protocol versions that report a pending     *)
(* change.                                                                 *)
(***************************************************************************)
EXTENDS StakingForms

When(condition, reason) == IF condition THEN {reason} ELSE {}

(* An account has the configuration of its role, and a pending stake only with one. *)
IsAccount(acc) ==
  /\ acc = [name |-> acc.name, role |-> acc.role, amount |-> acc.amount,
            config |-> acc.config, pending |-> acc.pending]
  /\ acc.pending \in Nat \cup {NoChange}
  /\ \/ acc.role = "None" /\ DOMAIN acc.config = {} /\ acc.pending = NoChange
     \/ acc.role = "Baker" /\ DOMAIN acc.config = BakerFields /\ acc.config.stake \in Nat \ {0}
     \/ /\ acc.role = "Delegator" /\ DOMAIN acc.config = DelegationFields
        /\ acc.config.stake \in Nat \ {0}

StakeOf(acc) == IF acc.role = "None" THEN 0 ELSE acc.config.stake

AtDisposal(acc) == acc.amount - StakeOf(acc)

StakeReasons(acc, payload, fee, minimum) ==
  IF ~Has(payload, "stake") THEN {}
  ELSE When(acc.role # "None" /\ hasPendingChange(acc), "InCooldown")
         \cup When(payload.stake # 0 /\ payload.stake < minimum, "StakeUnderMinimum")
         \cup When(~(payload.stake + fee <= acc.amount), "InsufficientBalanceForStake")

CommissionReasons(payload) ==
  When(\E f \in CommissionFields : Has(payload, f) /\ ~InRange(f, payload[f]),
       "CommissionNotInRange")

KeyReasons(acc, payload) ==
  When(Has(payload, "keys") /\ payload.keys.account # acc.name, "InvalidProof")

(* Why the chain refuses a validator's configuration; nothing if it does not. *)
BakerReasons(acc, payload, fee) ==
  When(acc.role = "Delegator", "AlreadyADelegator")
    \cup When(acc.role = "None" /\ ~(BakerFields \ {"suspended"} \subseteq DOMAIN payload),
              "MissingAddParameters")
    \cup StakeReasons(acc, payload, fee, MinStake)
    \cup CommissionReasons(payload) \cup KeyReasons(acc, payload)

PoolReasons(acc, pool, payload) ==
  LET existing == getExistingDelegationValues(acc)
      new == Over(payload, existing)
      moves == ~Has(existing, "delegationTarget") \/ existing.delegationTarget # new.delegationTarget
      old == IF moves THEN 0 ELSE existing.stake
  IN  IF ~(DelegationFields \subseteq DOMAIN new) \/ new.delegationTarget = Passive THEN {}
      ELSE When(moves /\ pool.openStatus # "openForAll", "PoolClosed")
             \cup When(new.stake > old /\ pool.delegated - old + new.stake > pool.cap,
                       "PoolWouldBecomeOverDelegated")

DelegationReasons(acc, pool, payload, fee) ==
  When(acc.role = "Baker", "AlreadyABaker")
    \cup When(acc.role = "None" /\ ~(DelegationFields \subseteq DOMAIN payload), "MissingAddParameters")
    \cup StakeReasons(acc, payload, fee, 0)
    \cup PoolReasons(acc, pool, payload)

(* Without its fee a transaction is not looked into. *)
Reasons(acc, pool, type, payload, fee) ==
  IF AtDisposal(acc) < fee THEN {"InsufficientFee"}
  ELSE IF type = "configureBaker" THEN BakerReasons(acc, payload, fee)
  ELSE DelegationReasons(acc, pool, payload, fee)

(* The account after a configuration the chain takes. *)
Configured(acc, type, payload) ==
  LET role == IF type = "configureBaker" THEN "Baker" ELSE "Delegator"
      start == IF acc.role # "None" THEN <<>>
               ELSE IF role = "Baker" THEN [f \in {"suspended"} |-> "no"] ELSE <<>>
      lowers == acc.role # "None" /\ Has(payload, "stake") /\ payload.stake < acc.config.stake
      now == IF lowers THEN Only(payload, DOMAIN payload \ {"stake"}) ELSE payload
  IN  [acc EXCEPT !.role = role,
                  !.config = Over(now, IF acc.role = "None" THEN start ELSE @),
                  !.pending = IF lowers THEN payload.stake ELSE @]

(* The cooldown ends. *)
Settled(acc) ==
  IF acc.pending = 0 THEN [acc EXCEPT !.role = "None", !.config = <<>>, !.pending = NoChange]
  ELSE [acc EXCEPT !.config.stake = acc.pending, !.pending = NoChange]
=============================================================================
