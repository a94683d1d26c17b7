---------------------------- MODULE MCLedgerSigning ----------------------------
(***************************************************************************)
(* Transactions of every kind, with sizes on both sides of each boundary:  *)
(* a chunk of 255 bytes, fifteen points, 127 indices, an empty field.      *)
(***************************************************************************)
EXTENDS LedgerSigning

Plain == {"Simple_transfer", "Transfer_to_encrypted", "Add_baker", "Update_baker_keys",
          "Remove_baker", "Update_baker_stake", "Update_baker_restake_earnings"}
Memos == {1, 255, 256}
Proofs == {509, 510, 511}
Counts == {1, 15, 16, 255}
BakerFields ==
  {"stake", "restakeEarnings", "openForDelegation", "keys", "metadataUrl",
   "transactionFeeCommission", "bakingRewardCommission", "finalizationRewardCommission",
   "suspended"}
ABaker == {{f} : f \in BakerFields} \union {BakerFields, {"stake", "keys", "metadataUrl"}}
ACredential(keys, attributes) ==
  [keys |-> keys, ars |-> 2, attributes |-> attributes, proofs |-> 300]

ATransaction ==
  [kind : Plain]
    \union [kind : {"Simple_transfer_with_memo"}, memo : Memos]
    \union [kind : {"Encrypted_transfer_with_memo"}, memo : Memos, proof : Proofs]
    \union [kind : {"Transfer_with_schedule"}, points : Counts]
    \union [kind : {"Transfer_with_schedule_and_memo"}, points : Counts, memo : Memos]
    \union [kind : {"Transfer_to_public", "Encrypted_transfer"}, proof : Proofs]
    \union [kind : {"Register_data"}, data : Memos]
    \union [kind : {"Configure_baker"}, fields : ABaker, url : {0, 255, 256}]
    \union [kind : {"Configure_delegation"}, passive : BOOLEAN,
            fields : SUBSET {"stake", "restakeEarnings", "delegationTarget"} \ {{}}]
    \union [kind : {"Update_credentials"}, removed : 0 .. 2,
            added : {<<>>, <<ACredential({0}, <<>>)>>,
                     <<ACredential({0, 2, 9}, <<4, 7>>), ACredential({1}, <<3>>)>>}]

Below(n) == [i \in 1 .. n |-> i - 1]

AnUpdate ==
  [kind : Parameters \union {"PoolParameters"}]
    \union [kind : {"UpdateProtocol"}, message : Memos, url : {1, 256}, auxiliary : {0, 255, 256}]
    \union [kind : HigherLevelKeys, keys : {1, 3}]
    \union [kind : Level2Keys, keys : {3}, structures : {<<Below(1), Below(3)>>, <<<<0, 2>>>>}]
    \union [kind : Level2Keys, keys : {128},
            structures : {<<Below(127)>>, <<Below(128), <<127>>>>}]
    \union [kind : {"AddIdentityProvider"}, name : {1, 256}, url : {0, 255}, description : {0, 300},
            verifyKey : {255, 700}]
    \union [kind : {"AddAnonymityRevoker"}, name : {1, 256}, url : {0, 255}, description : {0, 300}]
    \union [kind : {"UpdateCreatePltParameters"}, tokenId : {1, 128}, parameters : {1, 255, 256}]
=============================================================================
