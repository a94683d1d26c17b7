---------------------- MODULE AccountTransactionFlowProofs ----------------------
(***************************************************************************)
(* Proofs about AccountTransactionFlow for every set of accounts, every    *)
(* configuration they begin with and every number of forms, of pages that  *)
(* are gone through, of keys and of changes by others.                     *)
(***************************************************************************)
EXTENDS AccountTransactionFlow, SequenceTheorems, TLAPS

PageNames(k) == {FlowPages[k][i] : i \in DOMAIN FlowPages[k]}

\* The fields a form of the kind may have.
FormFields(k) ==
  CASE k \in {"removeBaker", "removeDelegation"} -> {}
    [] k = "bakerSuspension" -> {"suspended"}
    [] k \in {"addDelegation", "updateDelegation"} -> DelegationFields
    [] k = "updateBakerKeys" -> {"keys"}
    [] k = "updateBakerStake" -> {"stake", "restakeEarnings"}
    [] k = "updateBakerPool" -> CommissionFields \cup {"openForDelegation", "metadataUrl"}
    [] OTHER -> BakerFields \ {"suspended"}

\* What the pages have let through: nobody stakes nothing.
IsForm(k, v) ==
  /\ v = [f \in DOMAIN v |-> v[f]] /\ DOMAIN v \subseteq FormFields(k)
  /\ Has(v, "stake") => v.stake \in Nat \ {0}

\* A payload for the chain: a stake of nothing comes alone.
IsPayload(type, p) ==
  /\ p = [f \in DOMAIN p |-> p[f]]
  /\ DOMAIN p \subseteq (IF type = "configureBaker" THEN BakerFields ELSE DelegationFields)
  /\ Has(p, "stake") => p.stake \in Nat
  /\ Has(p, "stake") /\ p.stake = 0 => DOMAIN p = {"stake"}

-----------------------------------------------------------------------------
(* What the chain does with a payload. *)
LEMMA FieldsAreDistinct ==
  /\ "stake" \notin CommissionFields /\ "keys" \notin CommissionFields
  /\ CommissionFields \subseteq BakerFields
BY DEF CommissionFields, BakerFields

LEMMA ConfiguredFields ==
  ASSUME NEW acc, NEW type, NEW p, IsAccount(acc), IsPayload(type, p)
  PROVE  LET new == Configured(acc, type, p)
         IN  /\ \A f \in DOMAIN p : f # "stake" => new.config[f] = p[f]
             /\ Has(p, "stake") => p.stake \in {new.config.stake, new.pending}
             /\ \A f \in DOMAIN acc.config : f \notin DOMAIN p => new.config[f] = acc.config[f]
<1> DEFINE new == Configured(acc, type, p)
           lowers == acc.role # "None" /\ Has(p, "stake") /\ p.stake < acc.config.stake
           now == IF lowers THEN Only(p, DOMAIN p \ {"stake"}) ELSE p
           role == IF type = "configureBaker" THEN "Baker" ELSE "Delegator"
           start == IF acc.role # "None" THEN <<>>
               ELSE IF role = "Baker" THEN [f \in {"suspended"} |-> "no"] ELSE <<>>
           old == IF acc.role = "None" THEN start ELSE acc.config
<1>1. /\ new.config = Over(now, old)
      /\ new.pending = IF lowers THEN p.stake ELSE acc.pending
      /\ new.role = role
  BY DEF Configured, IsAccount
<1> HIDE DEF new
<1>2. DOMAIN now \subseteq DOMAIN p /\ \A f \in DOMAIN p : f # "stake" => f \in DOMAIN now /\ now[f] = p[f]
  BY DEF Only
<1>3. ~lowers => now = p
  OBVIOUS
<1> HIDE DEF now
<1>4. \A f \in DOMAIN now : new.config[f] = now[f]
  BY <1>1 DEF Over
<1>5. \A f \in DOMAIN acc.config : f \notin DOMAIN p => new.config[f] = acc.config[f]
  BY <1>1, <1>2 DEF Over, IsAccount
<1>6. Has(p, "stake") => p.stake \in {new.config.stake, new.pending}
  BY <1>1, <1>3, <1>4 DEF Has
<1> QED BY <1>2, <1>4, <1>5, <1>6 DEF new

\* What the chain takes turns an account into an account.
LEMMA ConfiguredIsAccount ==
  ASSUME NEW acc, NEW type, NEW p, NEW thePool, NEW fee,
         IsAccount(acc), type \in {"configureBaker", "configureDelegation"}, IsPayload(type, p),
         Reasons(acc, thePool, type, p, fee) = {}
  PROVE  /\ IsAccount(Configured(acc, type, p))
         /\ acc.role # (IF type = "configureBaker" THEN "Baker" ELSE "Delegator") =>
              acc.role = "None" /\ DOMAIN p # {"stake"}
         /\ Has(p, "stake") /\ p.stake = 0 => Removed(Configured(acc, type, p))
         /\ Configured(acc, type, p).name = acc.name
<1> DEFINE new == Configured(acc, type, p)
           lowers == acc.role # "None" /\ Has(p, "stake") /\ p.stake < acc.config.stake
           now == IF lowers THEN Only(p, DOMAIN p \ {"stake"}) ELSE p
           role == IF type = "configureBaker" THEN "Baker" ELSE "Delegator"
           start == IF acc.role # "None" THEN <<>>
               ELSE IF role = "Baker" THEN [f \in {"suspended"} |-> "no"] ELSE <<>>
           old == IF acc.role = "None" THEN start ELSE acc.config
           fields == IF role = "Baker" THEN BakerFields ELSE DelegationFields
<1>1. /\ new = [acc EXCEPT !.role = role, !.config = Over(now, old),
                           !.pending = IF lowers THEN p.stake ELSE acc.pending]
      /\ new.config = Over(now, old)
      /\ new.pending = (IF lowers THEN p.stake ELSE acc.pending)
      /\ new.role = role
      /\ new.name = acc.name
  BY DEF Configured, IsAccount
<1>2. new = [name |-> new.name, role |-> new.role, amount |-> new.amount,
            config |-> new.config, pending |-> new.pending]
  BY <1>1 DEF IsAccount
<1> HIDE DEF new
<1>3. /\ \/ acc.role = role
         \/ acc.role = "None" /\ fields \ {"suspended"} \subseteq DOMAIN p
      /\ acc.role = "None" => DOMAIN p # {"stake"}
  <2>1. CASE type = "configureBaker"
    BY <2>1 DEF Reasons, BakerReasons, When, IsAccount, BakerFields
  <2>2. CASE type = "configureDelegation"
    BY <2>2 DEF Reasons, DelegationReasons, When, IsAccount, DelegationFields
  <2> QED BY <2>1, <2>2
<1>4. /\ DOMAIN now \subseteq DOMAIN p /\ DOMAIN p \ {"stake"} \subseteq DOMAIN now
      /\ "stake" \in DOMAIN now => now.stake = p.stake
      /\ ~lowers => now = p
      /\ lowers => "stake" \notin DOMAIN now
  BY DEF Only
<1>5. /\ DOMAIN p \subseteq fields /\ "stake" \in fields
      /\ acc.role = "None" => DOMAIN start = fields \cap {"suspended"}
  BY DEF IsPayload, BakerFields, DelegationFields
<1>6. DOMAIN new.config = fields
  <2>1. CASE acc.role = "None"
    <3>1. fields \ {"suspended"} \subseteq DOMAIN p /\ now = p
      BY <2>1, <1>3, <1>4
    <3>2. DOMAIN start = fields \cap {"suspended"}
      BY <2>1, <1>5
    <3> HIDE DEF now, start, fields
    <3> QED BY <3>1, <3>2, <2>1, <1>1, <1>5 DEF Over
  <2>2. CASE acc.role = role
    <3>1. DOMAIN old = fields
      BY <2>2 DEF IsAccount
    <3> HIDE DEF now, old, fields
    <3> QED BY <3>1, <1>1, <1>4, <1>5 DEF Over
  <2> QED BY <2>1, <2>2, <1>3
<1>7. acc.role # "None" => acc.role = role /\ acc.config.stake \in Nat \ {0}
  BY <1>3 DEF IsAccount
<1>8. Has(p, "stake") => p.stake \in Nat /\ (p.stake = 0 => DOMAIN p = {"stake"})
  BY DEF IsPayload
<1>9. new.config.stake \in Nat \ {0}
  <2>1. CASE lowers
    <3>1. "stake" \notin DOMAIN now /\ old = acc.config
      BY <2>1, <1>4
    <3>2. new.config.stake = acc.config.stake
      BY <3>1, <1>1, <1>5, <1>6 DEF Over
    <3> QED BY <3>2, <2>1, <1>7
  <2>2. CASE ~lowers /\ Has(p, "stake")
    <3>1. new.config.stake = p.stake
      BY <2>2, <1>1, <1>4 DEF Over, Has
    <3> QED BY <3>1, <2>2, <1>3, <1>7, <1>8
  <2>3. CASE ~Has(p, "stake")
    <3>1. acc.role # "None" /\ "stake" \notin DOMAIN now
      BY <2>3, <1>3, <1>4, <1>5 DEF Has, BakerFields, DelegationFields
    <3>2. new.config.stake = acc.config.stake
      BY <3>1, <1>1, <1>5, <1>6 DEF Over
    <3> QED BY <3>1, <3>2, <1>7
  <2> QED BY <2>1, <2>2, <2>3
<1>10. new.pending \in Nat \cup {NoChange}
  BY <1>1, <1>8 DEF IsAccount
<1>11. IsAccount(new)
  BY <1>1, <1>2, <1>6, <1>9, <1>10 DEF IsAccount
<1>12. Has(p, "stake") /\ p.stake = 0 => Removed(new)
  BY <1>1, <1>3, <1>7, <1>8 DEF Removed, Has
<1> QED BY <1>1, <1>3, <1>11, <1>12 DEF new

LEMMA SettledIsAccount ==
  ASSUME NEW acc, IsAccount(acc), hasPendingChange(acc)
  PROVE  IsAccount(Settled(acc)) /\ Settled(acc).name = acc.name
<1>1. acc.pending \in Nat /\ acc.role # "None"
  BY DEF IsAccount, hasPendingChange
<1>2. CASE acc.pending = 0
  <2> DEFINE new == Settled(acc)
  <2>1. \E config : DOMAIN config = {}
                  /\ new = [acc EXCEPT !.role = "None", !.config = config, !.pending = NoChange]
    <3>1. new = [acc EXCEPT !.role = "None", !.config = <<>>, !.pending = NoChange]
      BY <1>2 DEF Settled
    <3>2. DOMAIN <<>> = {}
      OBVIOUS
    <3> HIDE DEF new
    <3> WITNESS <<>>
    <3> QED BY <3>1, <3>2
  <2> HIDE DEF new
  <2>2. PICK config : DOMAIN config = {}
                  /\ new = [acc EXCEPT !.role = "None", !.config = config, !.pending = NoChange]
    BY <2>1
  <2>3. /\ new.name = acc.name /\ new.role = "None" /\ new.pending = NoChange
        /\ new.config = config
    BY <2>2 DEF IsAccount
  <2>4. new = [name |-> new.name, role |-> new.role, amount |-> new.amount,
               config |-> new.config, pending |-> new.pending]
    BY <2>2 DEF IsAccount
  <2>5. IsAccount(new)
    BY <2>2, <2>3, <2>4 DEF IsAccount
  <2> QED BY <2>3, <2>5 DEF new
<1>3. CASE acc.pending # 0
  <2> DEFINE new == Settled(acc)
  <2>1. new = [acc EXCEPT !.config = [acc.config EXCEPT !.stake = acc.pending], !.pending = NoChange]
    BY <1>3 DEF Settled, IsAccount
  <2>2. /\ new = [name |-> new.name, role |-> new.role, amount |-> new.amount,
                 config |-> new.config, pending |-> new.pending]
        /\ new.name = acc.name /\ new.role = acc.role /\ new.pending = NoChange
        /\ new.config = [acc.config EXCEPT !.stake = acc.pending]
    BY <2>1 DEF IsAccount
  <2> HIDE DEF new
  <2>3. DOMAIN new.config = DOMAIN acc.config
    BY <2>2
  <2>4. "stake" \in DOMAIN acc.config
    BY <1>1 DEF IsAccount, BakerFields, DelegationFields
  <2>5. new.config.stake = acc.pending
    BY <2>2, <2>4
  <2>6. IsAccount(new)
    BY <1>1, <1>3, <2>2, <2>3, <2>5 DEF IsAccount
  <2> QED BY <2>2, <2>6 DEF new
<1> QED BY <1>2, <1>3

\* An account pays, or is paid.
LEMMA PaidIsAccount ==
  ASSUME NEW acc, NEW paid, IsAccount(acc)
  PROVE  IsAccount([acc EXCEPT !.amount = paid]) /\ [acc EXCEPT !.amount = paid].name = acc.name
BY DEF IsAccount

-----------------------------------------------------------------------------
(* The payload of a form. *)
PayloadOf(m, k, v, i) ==
  CASE k \in {"addBaker", "updateBakerKeys"} -> convertToBakerTransaction(v, <<>>)
    [] k = "updateBakerStake" -> convertToBakerTransaction(v, getExistingBakerValues(i))
    [] k = "updateBakerPool" -> convertToUpdateBakerPoolTransaction(v, i)
    [] k = "bakerSuspension" ->
         convertToBakerSuspensionTransaction(IF m = "yes" THEN "no" ELSE v.suspended)
    [] k \in {"addDelegation", "updateDelegation"} ->
         convertToConfigureDelegationTransaction(v, i)
    [] OTHER -> convertToRemoveTransaction

\* What is not among the changes is what exists.
LEMMA ChangesAreAll ==
  ASSUME NEW v, NEW existing
  PROVE  LET c == getBakerFlowChanges(v, existing)
         IN  /\ c = [f \in DOMAIN c |-> c[f]] /\ DOMAIN c \subseteq DOMAIN v
             /\ \A f \in DOMAIN c : c[f] = v[f]
             /\ \A f \in DOMAIN v : f \notin DOMAIN c => Has(existing, f) /\ existing[f] = v[f]
BY DEF getBakerFlowChanges, Only

\* A commission may lose the last of its parts.
LEMMA BakerPayloadIsForm ==
  ASSUME NEW v, NEW existing
  PROVE  LET p == convertToBakerTransaction(v, existing)
         IN  /\ p = [f \in DOMAIN p |-> p[f]] /\ DOMAIN p \subseteq DOMAIN v
             /\ \A f \in DOMAIN p : f \notin CommissionFields => p[f] = v[f]
             /\ \A f \in DOMAIN p : f \in CommissionFields => p[f] \in {v[f].n, v[f].n - 1}
             /\ \A f \in DOMAIN v : f \notin DOMAIN p => Has(existing, f) /\ existing[f] = v[f]
<1> DEFINE c == getBakerFlowChanges(v, existing)
           p == convertToBakerTransaction(v, existing)
<1>1. /\ DOMAIN c \subseteq DOMAIN v /\ \A f \in DOMAIN c : c[f] = v[f]
      /\ \A f \in DOMAIN v : f \notin DOMAIN c => Has(existing, f) /\ existing[f] = v[f]
  BY ChangesAreAll
<1>2. p = [f \in DOMAIN c |->
            IF f \in CommissionFields THEN decimalToRewardFraction(c[f]) ELSE c[f]]
  BY DEF convertToBakerTransaction, toConfigureBakerPayload
<1> HIDE DEF c, p
<1>3. DOMAIN p = DOMAIN c /\ p = [f \in DOMAIN p |-> p[f]]
  BY <1>2
<1>4. \A f \in DOMAIN p : f \notin CommissionFields => p[f] = v[f]
  BY <1>1, <1>2
<1>5. \A f \in DOMAIN p : f \in CommissionFields => p[f] \in {v[f].n, v[f].n - 1}
  BY <1>1, <1>2 DEF decimalToRewardFraction
<1> QED BY <1>1, <1>3, <1>4, <1>5 DEF p

\* The values of the pool that are converted, and those of the form.
LEMMA SanitizedValues ==
  ASSUME NEW v, NEW i
  PROVE  LET s == getSanitizedBakerPoolValues(v, i)
             closes == Has(v, "openForDelegation") /\ v.openForDelegation = "closedForAll"
         IN  /\ DOMAIN s \subseteq DOMAIN v \cup CommissionFields
             /\ \A f \in DOMAIN v : f \notin CommissionFields \/ ~closes => f \in DOMAIN s /\ s[f] = v[f]
<1> DEFINE closes == Has(v, "openForDelegation") /\ v.openForDelegation = "closedForAll"
           kept == Only(getExistingBakerValues(i), CommissionFields)
           rest == Only(v, DOMAIN v \ CommissionFields)
           s == getSanitizedBakerPoolValues(v, i)
<1>1. s = IF closes THEN Over(kept, rest) ELSE v
  BY DEF getSanitizedBakerPoolValues
<1>2. DOMAIN kept \subseteq CommissionFields
  BY DEF Only
<1>3. DOMAIN rest = DOMAIN v \ CommissionFields /\ \A f \in DOMAIN rest : rest[f] = v[f]
  BY DEF Only
<1> HIDE DEF kept, rest, s, closes
<1>4. CASE closes
  BY <1>1, <1>2, <1>3, <1>4 DEF Over, s, closes
<1>5. CASE ~closes
  BY <1>1, <1>5 DEF s, closes
<1> QED BY <1>4, <1>5

LEMMA KindOfForm ==
  ASSUME NEW k, k \in Kinds
  PROVE  /\ k \in {"addBaker", "updateBakerStake", "updateBakerPool", "updateBakerKeys",
                   "removeBaker", "bakerSuspension", "addDelegation", "updateDelegation",
                   "removeDelegation"}
         /\ TypeOf(k) = (IF k \in {"addDelegation", "updateDelegation", "removeDelegation"}
                         THEN "configureDelegation" ELSE "configureBaker")
BY DEF Kinds, FlowPages, TypeOf, DelegationKinds

\* A form of the validator: its payload has fields of the form, and what it lacks exists.
LEMMA BakerPayload ==
  ASSUME NEW m, NEW k \in {"addBaker", "updateBakerKeys", "updateBakerStake"}, NEW v, NEW i, IsForm(k, v)
  PROVE  LET p == PayloadOf(m, k, v, i)
         IN  /\ IsPayload("configureBaker", p)
             /\ Has(p, "keys") => Has(v, "keys") /\ p.keys = v.keys
<1>1. PICK e : PayloadOf(m, k, v, i) = convertToBakerTransaction(v, e)
  BY DEF PayloadOf
<1> DEFINE p == convertToBakerTransaction(v, e)
<1>2. /\ p = [f \in DOMAIN p |-> p[f]] /\ DOMAIN p \subseteq DOMAIN v
      /\ \A f \in DOMAIN p : f \notin CommissionFields => p[f] = v[f]
  BY BakerPayloadIsForm
<1> HIDE DEF p
<1>3. DOMAIN v \subseteq BakerFields /\ (Has(v, "stake") => v.stake \in Nat \ {0})
  BY DEF IsForm, FormFields, BakerFields, CommissionFields
<1>4. IsPayload("configureBaker", p)
  BY <1>2, <1>3, FieldsAreDistinct DEF IsPayload, Has
<1>5. Has(p, "keys") => Has(v, "keys") /\ p.keys = v.keys
  BY <1>2, FieldsAreDistinct DEF Has
<1> QED BY <1>1, <1>4, <1>5 DEF p

LEMMA PoolPayload ==
  ASSUME NEW m, NEW v, NEW i, IsForm("updateBakerPool", v)
  PROVE  LET p == PayloadOf(m, "updateBakerPool", v, i)
         IN  /\ IsPayload("configureBaker", p)
             /\ Has(p, "keys") => Has(v, "keys") /\ p.keys = v.keys
<1> DEFINE s == getSanitizedBakerPoolValues(v, i)
           p == convertToBakerTransaction(s, getExistingBakerValues(i))
<1>1. PayloadOf(m, "updateBakerPool", v, i) = p
  BY DEF PayloadOf, convertToUpdateBakerPoolTransaction
<1>2. /\ DOMAIN s \subseteq DOMAIN v \cup CommissionFields
      /\ \A f \in DOMAIN v : f \notin CommissionFields => f \in DOMAIN s /\ s[f] = v[f]
  BY SanitizedValues
<1> HIDE DEF s
<1>3. /\ p = [f \in DOMAIN p |-> p[f]] /\ DOMAIN p \subseteq DOMAIN s
      /\ \A f \in DOMAIN p : f \notin CommissionFields => p[f] = s[f]
  BY BakerPayloadIsForm
<1> HIDE DEF p
<1>4. DOMAIN v \subseteq BakerFields /\ (Has(v, "stake") => v.stake \in Nat \ {0})
  BY DEF IsForm, FormFields, BakerFields, CommissionFields
<1>5. IsPayload("configureBaker", p)
  BY <1>2, <1>3, <1>4, FieldsAreDistinct DEF IsPayload, Has
<1>6. Has(p, "keys") => Has(v, "keys") /\ p.keys = v.keys
  BY <1>2, <1>3, FieldsAreDistinct DEF Has
<1> QED BY <1>1, <1>5, <1>6

LEMMA DelegationPayload ==
  ASSUME NEW m, NEW k \in {"addDelegation", "updateDelegation"}, NEW v, NEW i, IsForm(k, v)
  PROVE  LET p == PayloadOf(m, k, v, i)
         IN  IsPayload("configureDelegation", p) /\ ~Has(p, "keys")
<1> DEFINE p == getBakerFlowChanges(v, getExistingDelegationValues(i))
<1>1. PayloadOf(m, k, v, i) = p
  BY DEF PayloadOf, convertToConfigureDelegationTransaction, getDelegationFlowChanges
<1>2. /\ p = [f \in DOMAIN p |-> p[f]] /\ DOMAIN p \subseteq DOMAIN v
      /\ \A f \in DOMAIN p : p[f] = v[f]
  BY ChangesAreAll
<1> HIDE DEF p
<1>3. DOMAIN v \subseteq DelegationFields /\ (Has(v, "stake") => v.stake \in Nat \ {0})
  BY DEF IsForm, FormFields
<1> QED BY <1>1, <1>2, <1>3 DEF IsPayload, Has, DelegationFields

LEMMA OtherPayload ==
  ASSUME NEW m, NEW k \in {"removeBaker", "removeDelegation", "bakerSuspension"}, NEW v, NEW i
  PROVE  LET p == PayloadOf(m, k, v, i)
         IN  IsPayload(TypeOf(k), p) /\ ~Has(p, "keys")
<1>1. CASE k = "bakerSuspension"
  <2>1. PICK x : PayloadOf(m, k, v, i) = [f \in {"suspended"} |-> x]
    BY <1>1 DEF PayloadOf, convertToBakerSuspensionTransaction
  <2> QED BY <1>1, <2>1 DEF IsPayload, Has, BakerFields, TypeOf, DelegationKinds
<1>2. CASE k # "bakerSuspension"
  <2>1. PayloadOf(m, k, v, i) = [f \in {"stake"} |-> 0]
    BY <1>2 DEF PayloadOf, convertToRemoveTransaction
  <2> QED BY <1>2, <2>1 DEF IsPayload, Has, BakerFields, DelegationFields
<1> QED BY <1>1, <1>2

\* The payload of any form.
LEMMA PayloadIsRight ==
  ASSUME NEW m, NEW k, k \in Kinds, NEW v, NEW i, IsForm(k, v)
  PROVE  LET p == PayloadOf(m, k, v, i)
         IN  /\ IsPayload(TypeOf(k), p)
             /\ Has(p, "keys") => Has(v, "keys") /\ p.keys = v.keys
BY KindOfForm, BakerPayload, PoolPayload, DelegationPayload, OtherPayload

-----------------------------------------------------------------------------
(* The account after a transaction that was made of its own information. *)
LEMMA ExistingBakerValues ==
  ASSUME NEW i, IsAccount(i), NEW f, Has(getExistingBakerValues(i), f)
  PROVE  /\ f \in DOMAIN i.config
         /\ getExistingBakerValues(i)[f]
              = IF f \in CommissionFields THEN Decimal(i.config[f]) ELSE i.config[f]
<1>1. isBakerAccount(i)
  <2>1. DOMAIN <<>> = {}
    OBVIOUS
  <2> QED BY <2>1 DEF getExistingBakerValues, Has
<1>2. getExistingBakerValues(i)
        = [g \in BakerFields \ {"keys"} |->
            IF g \in CommissionFields THEN Decimal(i.config[g]) ELSE i.config[g]]
  BY <1>1 DEF getExistingBakerValues
<1>3. f \in BakerFields \ {"keys"}
  BY <1>2 DEF Has
<1>4. DOMAIN i.config = BakerFields
  BY <1>1 DEF IsAccount, isBakerAccount
<1> QED BY <1>2, <1>3, <1>4

LEMMA ExistingDelegationValues ==
  ASSUME NEW i, NEW f, Has(getExistingDelegationValues(i), f)
  PROVE  f \in DOMAIN i.config /\ getExistingDelegationValues(i)[f] = i.config[f]
<1>1. DOMAIN <<>> = {}
  OBVIOUS
<1> QED BY <1>1 DEF getExistingDelegationValues, Has

\* A field agrees that is in the payload as it is in the form, or is not in the
\* payload because the account has it.
LEMMA FieldAgrees ==
  ASSUME NEW acc, NEW type, NEW p, NEW v, NEW f,
         IsAccount(acc), IsPayload(type, p),
         \/ f \in DOMAIN p /\ f \notin CommissionFields /\ p[f] = v[f]
         \/ f \in DOMAIN p /\ f \in CommissionFields /\ p[f] \in {v[f].n, v[f].n - 1}
         \/ /\ f \notin DOMAIN p /\ f \in DOMAIN acc.config
            /\ v[f] = IF f \in CommissionFields THEN Decimal(acc.config[f]) ELSE acc.config[f]
  PROVE  Agrees(Configured(acc, type, p), v, f)
<1> DEFINE new == Configured(acc, type, p)
<1>1. /\ \A g \in DOMAIN p : g # "stake" => new.config[g] = p[g]
      /\ Has(p, "stake") => p.stake \in {new.config.stake, new.pending}
      /\ \A g \in DOMAIN acc.config : g \notin DOMAIN p => new.config[g] = acc.config[g]
  BY ConfiguredFields
<1> HIDE DEF new
<1>2. f \in DOMAIN p /\ f \notin CommissionFields /\ p[f] = v[f] => Agrees(new, v, f)
  BY <1>1 DEF Agrees, Has
<1>3. f \in DOMAIN p /\ f \in CommissionFields /\ p[f] \in {v[f].n, v[f].n - 1} => Agrees(new, v, f)
  BY <1>1, FieldsAreDistinct DEF Agrees
<1>4. ASSUME f \notin DOMAIN p, f \in DOMAIN acc.config,
             v[f] = IF f \in CommissionFields THEN Decimal(acc.config[f]) ELSE acc.config[f]
      PROVE  Agrees(new, v, f)
  <2>1. new.config[f] = acc.config[f]
    BY <1>1, <1>4
  <2>2. CASE f \in CommissionFields
    <3>1. v[f].n = acc.config[f]
      BY <1>4, <2>2 DEF Decimal
    <3> QED BY <2>1, <2>2, <3>1, FieldsAreDistinct DEF Agrees
  <2>3. CASE f \notin CommissionFields
    BY <1>4, <2>1, <2>3 DEF Agrees
  <2> QED BY <2>2, <2>3
<1> QED BY <1>2, <1>3, <1>4 DEF new

\* The fields of a form that its transaction sets.
SetFields(k, v) ==
  IF k = "updateBakerPool" /\ Has(v, "openForDelegation") /\ v.openForDelegation = "closedForAll"
  THEN DOMAIN v \ CommissionFields ELSE DOMAIN v

LEMMA BakerFormAgrees ==
  ASSUME NEW m, NEW k \in {"addBaker", "updateBakerKeys", "updateBakerStake", "updateBakerPool"},
         NEW v, NEW i, NEW acc, IsForm(k, v), IsAccount(i), IsAccount(acc), SameStaking(i, acc),
         NEW f, f \in SetFields(k, v)
  PROVE  Agrees(Configured(acc, "configureBaker", PayloadOf(m, k, v, i)), v, f)
<1>1. PICK s, e : /\ PayloadOf(m, k, v, i) = convertToBakerTransaction(s, e)
                  /\ f \in DOMAIN s /\ s[f] = v[f]
                  /\ Has(e, f) => e = getExistingBakerValues(i)
  <2>0. DOMAIN <<>> = {}
    OBVIOUS
  <2>1. CASE k \in {"addBaker", "updateBakerKeys"}
    <3>1. PayloadOf(m, k, v, i) = convertToBakerTransaction(v, <<>>)
      BY <2>1 DEF PayloadOf
    <3>2. f \in DOMAIN v
      BY <2>1 DEF SetFields
    <3>3. ~Has(<<>>, f)
      BY <2>0 DEF Has
    <3> QED BY <3>1, <3>2, <3>3
  <2>2. CASE k = "updateBakerStake"
    BY <2>2 DEF PayloadOf, SetFields
  <2>3. CASE k = "updateBakerPool"
    <3> DEFINE s == getSanitizedBakerPoolValues(v, i)
    <3>1. PayloadOf(m, k, v, i) = convertToBakerTransaction(s, getExistingBakerValues(i))
      BY <2>3 DEF PayloadOf, convertToUpdateBakerPoolTransaction
    <3>2. f \in DOMAIN s /\ s[f] = v[f]
      BY <2>3, SanitizedValues DEF SetFields
    <3> QED BY <3>1, <3>2
  <2> QED BY <2>1, <2>2, <2>3
<1> DEFINE p == convertToBakerTransaction(s, e)
<1>2. IsPayload("configureBaker", p)
  BY <1>1, BakerPayload, PoolPayload
<1>3. /\ f \in DOMAIN p => (IF f \in CommissionFields THEN p[f] \in {s[f].n, s[f].n - 1}
                            ELSE p[f] = s[f])
      /\ f \notin DOMAIN p => Has(e, f) /\ e[f] = s[f]
  BY <1>1, BakerPayloadIsForm
<1> HIDE DEF p
<1>4. f \notin DOMAIN p =>
        /\ f \in DOMAIN acc.config
        /\ v[f] = IF f \in CommissionFields THEN Decimal(acc.config[f]) ELSE acc.config[f]
  BY <1>1, <1>3, ExistingBakerValues DEF SameStaking
<1>5. Agrees(Configured(acc, "configureBaker", p), v, f)
  BY <1>1, <1>2, <1>3, <1>4, FieldAgrees
<1> QED BY <1>1, <1>5 DEF p

LEMMA DelegationFormAgrees ==
  ASSUME NEW m, NEW k \in {"addDelegation", "updateDelegation"},
         NEW v, NEW i, NEW acc, IsForm(k, v), IsAccount(acc), SameStaking(i, acc),
         NEW f \in DOMAIN v
  PROVE  Agrees(Configured(acc, "configureDelegation", PayloadOf(m, k, v, i)), v, f)
<1> DEFINE e == getExistingDelegationValues(i)
           p == getBakerFlowChanges(v, e)
<1>1. PayloadOf(m, k, v, i) = p
  BY DEF PayloadOf, convertToConfigureDelegationTransaction, getDelegationFlowChanges
<1>2. IsPayload("configureDelegation", p)
  BY <1>1, DelegationPayload
<1>3. /\ \A g \in DOMAIN p : p[g] = v[g]
      /\ f \notin DOMAIN p => Has(e, f) /\ e[f] = v[f]
  BY ChangesAreAll
<1>4. f \notin CommissionFields
  BY DEF IsForm, FormFields, DelegationFields, CommissionFields
<1>5. f \notin DOMAIN p => f \in DOMAIN acc.config /\ v[f] = acc.config[f]
  BY <1>3, ExistingDelegationValues DEF SameStaking
<1> HIDE DEF p
<1>6. Agrees(Configured(acc, "configureDelegation", p), v, f)
  BY <1>2, <1>3, <1>4, <1>5, FieldAgrees
<1> QED BY <1>1, <1>6

LEMMA SuspensionAgrees ==
  ASSUME NEW m, NEW v, NEW i, NEW acc, IsForm("bakerSuspension", v), IsAccount(acc), m # "yes",
         NEW f \in DOMAIN v
  PROVE  Agrees(Configured(acc, "configureBaker", PayloadOf(m, "bakerSuspension", v, i)), v, f)
<1> DEFINE p == PayloadOf(m, "bakerSuspension", v, i)
<1>1. p = [g \in {"suspended"} |-> v.suspended]
  BY DEF PayloadOf, convertToBakerSuspensionTransaction
<1>2. f = "suspended"
  BY DEF IsForm, FormFields
<1>3. IsPayload("configureBaker", p)
  BY OtherPayload, KindOfForm DEF TypeOf, DelegationKinds
<1> HIDE DEF p
<1>4. f \in DOMAIN p /\ p[f] = v[f] /\ f \notin CommissionFields
  BY <1>1, <1>2 DEF CommissionFields
<1>5. Agrees(Configured(acc, "configureBaker", p), v, f)
  BY <1>3, <1>4, FieldAgrees
<1> QED BY <1>5 DEF p

\* The account after a transaction of the form, if nobody changed its staking.
LEMMA TakenIsTheForm ==
  ASSUME NEW m, NEW k, k \in Kinds, NEW v, NEW i, NEW acc, NEW thePool, NEW fee,
         IsForm(k, v), IsAccount(i), IsAccount(acc), SameStaking(i, acc),
         Reasons(acc, thePool, TypeOf(k), PayloadOf(m, k, v, i), fee) = {},
         ~(k = "bakerSuspension" /\ m = "yes")
  PROVE  LET new == Configured(acc, TypeOf(k), PayloadOf(m, k, v, i))
         IN  /\ \A f \in SetFields(k, v) : Agrees(new, v, f)
             /\ k \in {"removeBaker", "removeDelegation"} => Removed(new)
<1> DEFINE p == PayloadOf(m, k, v, i)
           new == Configured(acc, TypeOf(k), p)
<1>1. SetFields(k, v) \subseteq DOMAIN v
  BY DEF SetFields
<1>2. CASE k \in {"addBaker", "updateBakerKeys", "updateBakerStake", "updateBakerPool"}
  <2>1. TypeOf(k) = "configureBaker"
    BY <1>2 DEF TypeOf, DelegationKinds
  <2> QED BY <1>2, <2>1, BakerFormAgrees
<1>3. CASE k \in {"addDelegation", "updateDelegation"}
  <2>1. TypeOf(k) = "configureDelegation"
    BY <1>3 DEF TypeOf, DelegationKinds
  <2> QED BY <1>1, <1>3, <2>1, DelegationFormAgrees
<1>4. CASE k = "bakerSuspension"
  <2>1. TypeOf(k) = "configureBaker"
    BY <1>4 DEF TypeOf, DelegationKinds
  <2> QED BY <1>1, <1>4, <2>1, SuspensionAgrees
<1>5. CASE k \in {"removeBaker", "removeDelegation"}
  <2>1. DOMAIN v = {}
    BY <1>5 DEF IsForm, FormFields
  <2>2. Has(p, "stake") /\ p.stake = 0
    BY <1>5 DEF PayloadOf, convertToRemoveTransaction, Has
  <2>3. TypeOf(k) \in {"configureBaker", "configureDelegation"}
    BY DEF TypeOf
  <2>4. Removed(new)
    BY <2>2, <2>3, PayloadIsRight, ConfiguredIsAccount
  <2> QED BY <1>1, <2>1, <2>4
<1> QED BY <1>2, <1>3, <1>4, <1>5, KindOfForm

-----------------------------------------------------------------------------
(* The pages of the forms, and what they let through. *)
LEMMA PagesOfForm ==
  ASSUME NEW k, k \in Kinds
  PROVE  /\ FlowPages[k] \in Seq(PageNames(k)) /\ Len(FlowPages[k]) > 0
         /\ k = "addBaker" =>
              PageNames(k) = {"stake", "openForDelegation", "commissions", "metadataUrl", "keys"}
         /\ k = "updateBakerStake" => PageNames(k) = {"stake"}
         /\ k = "updateBakerPool" =>
              PageNames(k) = {"openForDelegation", "commissions", "metadataUrl"}
         /\ k = "updateBakerKeys" => PageNames(k) = {"keys"}
         /\ k \in {"removeBaker", "removeDelegation"} => PageNames(k) = {"confirm"}
         /\ k = "bakerSuspension" => PageNames(k) = {"suspended"}
         /\ k \in {"addDelegation", "updateDelegation"} =>
              PageNames(k) = {"delegationTarget", "delegate"}
<1> DEFINE Pages1(p) == {p[i] : i \in DOMAIN p}
<1>1. PageNames(k) = Pages1(FlowPages[k])
  BY DEF PageNames
<1>2. CASE k = "addBaker"
  <2>1. FlowPages[k] = <<"stake", "openForDelegation", "commissions", "metadataUrl", "keys">>
    BY <1>2 DEF FlowPages, AddBaker
  <2> HIDE DEF PageNames
  <2> QED BY <1>1, <1>2, <2>1
<1>3. CASE k = "updateBakerStake"
  <2>1. FlowPages[k] = <<"stake">>
    BY <1>3 DEF FlowPages, UpdateBakerStake
  <2> QED BY <1>1, <1>3, <2>1
<1>4. CASE k = "updateBakerPool"
  <2>1. FlowPages[k] = <<"openForDelegation", "commissions", "metadataUrl">>
    BY <1>4 DEF FlowPages, UpdateBakerPool
  <2> QED BY <1>1, <1>4, <2>1
<1>5. CASE k = "updateBakerKeys"
  <2>1. FlowPages[k] = <<"keys">>
    BY <1>5 DEF FlowPages, UpdateBakerKeys
  <2> QED BY <1>1, <1>5, <2>1
<1>6. CASE k \in {"removeBaker", "removeDelegation"}
  <2>1. FlowPages[k] = <<"confirm">>
    BY <1>6 DEF FlowPages, RemoveBaker, RemoveDelegation
  <2> QED BY <1>1, <1>6, <2>1
<1>7. CASE k = "bakerSuspension"
  <2>1. FlowPages[k] = <<"suspended">>
    BY <1>7 DEF FlowPages, BakerSuspension
  <2> QED BY <1>1, <1>7, <2>1
<1>8. CASE k \in {"addDelegation", "updateDelegation"}
  <2>1. FlowPages[k] = <<"delegationTarget", "delegate">>
    BY <1>8 DEF FlowPages, ConfigureDelegation
  <2> QED BY <1>1, <1>8, <2>1
<1> QED BY <1>2, <1>3, <1>4, <1>5, <1>6, <1>7, <1>8, KindOfForm

\* The pages of a form, and of the one that is open.
FormPages(m, k, first) ==
  PageNames(k)
    \cup (IF m = "yes" THEN {"expiry"} \cup (IF first = "account" THEN {"account"} ELSE {})
          ELSE {})

Showable == FormPages(multi, kind, trail[1])

\* The page of the account may come first, and that of the expiry last.
AreInOrder(pages, m, k, n) ==
  /\ n \in {0, 1} /\ Len(pages) = n + Len(FlowPages[k]) + (IF m = "yes" THEN 1 ELSE 0)
  /\ \A i \in 1 .. Len(pages) :
       \/ i = n /\ pages[i] = "account"
       \/ i - n \in DOMAIN FlowPages[k] /\ pages[i] = FlowPages[k][i - n]
       \/ i = Len(pages) /\ m = "yes" /\ pages[i] = "expiry"

LEMMA PagesAreFormPages ==
  ASSUME kind \in Kinds
  PROVE  /\ Len(Pages) \in Nat \ {0} /\ DOMAIN Pages = 1 .. Len(Pages)
         /\ \A i \in DOMAIN Pages : Pages[i] \in Showable
         /\ \A page \in Showable : \E i \in DOMAIN Pages : Pages[i] = page
         /\ multi = "yes" => Pages[Len(Pages)] = "expiry"
         /\ \E n : AreInOrder(Pages, multi, kind, n)
<1> DEFINE first == IF multi = "yes" /\ trail[1] = "account" THEN <<"account">> ELSE <<>>
           middle == FlowPages[kind]
           last == IF multi = "yes" THEN <<"expiry">> ELSE <<>>
           S == PageNames(kind) \cup {"account", "expiry"}
<1>1. middle \in Seq(S) /\ Len(middle) > 0 /\ PageNames(kind) = {middle[i] : i \in DOMAIN middle}
  <2>1. middle \in Seq(PageNames(kind)) /\ Len(middle) > 0
    BY PagesOfForm
  <2> QED BY <2>1 DEF PageNames
<1>2. first \in Seq(S) /\ last \in Seq(S)
  <2>1. <<>> \in Seq(S) /\ <<"account">> \in Seq(S) /\ <<"expiry">> \in Seq(S)
    OBVIOUS
  <2>2. first \in {<<>>, <<"account">>} /\ last \in {<<>>, <<"expiry">>}
    OBVIOUS
  <2> HIDE DEF S, first, last
  <2> QED BY <2>1, <2>2
<1>3. Pages = (first \o middle) \o last
  BY DEF Pages
<1>l. /\ multi = "yes" => Len(last) = 1 /\ last[1] = "expiry"
      /\ multi # "yes" => Len(last) = 0
      /\ Len(first) \in {0, 1} /\ (Len(first) = 1 => first[1] = "account")
  OBVIOUS
<1>4. Showable = PageNames(kind) \cup {first[i] : i \in DOMAIN first} \cup {last[i] : i \in DOMAIN last}
  BY DEF Showable, FormPages
<1> HIDE DEF first, middle, last, S
<1>5. /\ first \o middle \in Seq(S) /\ Len(first \o middle) = Len(first) + Len(middle)
      /\ \A i \in 1 .. Len(first) + Len(middle) :
           (first \o middle)[i] = IF i <= Len(first) THEN first[i] ELSE middle[i - Len(first)]
  BY <1>1, <1>2, ConcatProperties
<1> DEFINE n1 == Len(first)
           n2 == Len(first) + Len(middle)
<1>6. /\ Pages \in Seq(S) /\ Len(Pages) = n2 + Len(last)
      /\ \A i \in 1 .. n2 + Len(last) :
           Pages[i] = IF i <= n2 THEN (first \o middle)[i] ELSE last[i - n2]
  BY <1>2, <1>3, <1>5, ConcatProperties
<1>7. /\ n1 \in Nat /\ Len(middle) \in Nat \ {0} /\ Len(last) \in Nat
      /\ DOMAIN first = 1 .. n1 /\ DOMAIN middle = 1 .. Len(middle) /\ DOMAIN last = 1 .. Len(last)
  BY <1>1, <1>2
<1>8. /\ \A i \in 1 .. n1 : Pages[i] = first[i]
      /\ \A i \in 1 .. Len(middle) : Pages[n1 + i] = middle[i]
      /\ \A i \in 1 .. Len(last) : Pages[n2 + i] = last[i]
  <2>1. ASSUME NEW i \in 1 .. n1 PROVE Pages[i] = first[i]
    BY <1>5, <1>6, <1>7
  <2>2. ASSUME NEW i \in 1 .. Len(middle) PROVE Pages[n1 + i] = middle[i]
    <3>1. n1 + i \in 1 .. n2 /\ ~(n1 + i <= n1) /\ (n1 + i) - n1 = i
      BY <1>7
    <3>2. (first \o middle)[n1 + i] = middle[i]
      BY <1>5, <1>7, <3>1
    <3>3. Pages[n1 + i] = (first \o middle)[n1 + i]
      BY <1>6, <1>7, <3>1
    <3> QED BY <3>2, <3>3
  <2>3. ASSUME NEW i \in 1 .. Len(last) PROVE Pages[n2 + i] = last[i]
    <3>1. n2 + i \in 1 .. n2 + Len(last) /\ ~(n2 + i <= n2) /\ (n2 + i) - n2 = i
      BY <1>7
    <3> QED BY <1>6, <3>1
  <2> QED BY <2>1, <2>2, <2>3
<1>9. \A i \in 1 .. Len(Pages) :
        \/ i \in DOMAIN first /\ Pages[i] = first[i]
        \/ i - n1 \in DOMAIN middle /\ Pages[i] = middle[i - n1]
        \/ i - n2 \in DOMAIN last /\ Pages[i] = last[i - n2]
  BY <1>5, <1>6, <1>7
<1>10. Len(Pages) \in Nat \ {0} /\ DOMAIN Pages = 1 .. Len(Pages)
  BY <1>6, <1>7
<1>11. \A i \in DOMAIN Pages : Pages[i] \in Showable
  BY <1>1, <1>4, <1>9, <1>10
<1>12. ASSUME NEW page \in Showable
       PROVE  \E i \in DOMAIN Pages : Pages[i] = page
  <2>1. CASE page \in {first[i] : i \in DOMAIN first}
    <3>1. PICK i \in 1 .. n1 : page = first[i]
      BY <2>1, <1>7
    <3>2. i \in DOMAIN Pages
      BY <1>6, <1>7, <1>10
    <3> QED BY <1>8, <3>1, <3>2
  <2>2. CASE page \in {middle[i] : i \in DOMAIN middle}
    <3>1. PICK i \in 1 .. Len(middle) : page = middle[i]
      BY <2>2, <1>7
    <3>2. n1 + i \in DOMAIN Pages
      BY <1>6, <1>7, <1>10
    <3> QED BY <1>8, <3>1, <3>2
  <2>3. CASE page \in {last[i] : i \in DOMAIN last}
    <3>1. PICK i \in 1 .. Len(last) : page = last[i]
      BY <2>3, <1>7
    <3>2. n2 + i \in DOMAIN Pages
      BY <1>6, <1>7, <1>10
    <3> QED BY <1>8, <3>1, <3>2
  <2> QED BY <1>1, <1>4, <2>1, <2>2, <2>3
<1>13. multi = "yes" => Pages[Len(Pages)] = "expiry"
  <2> SUFFICES ASSUME multi = "yes" PROVE Pages[Len(Pages)] = "expiry"
    OBVIOUS
  <2>1. Len(last) = 1 /\ last[1] = "expiry" /\ 1 \in 1 .. Len(last)
    BY <1>l
  <2>2. Pages[n2 + 1] = "expiry"
    BY <1>8, <2>1
  <2>3. Len(Pages) = n2 + 1
    BY <1>6, <2>1
  <2> QED BY <2>2, <2>3
<1>14. AreInOrder(Pages, multi, kind, n1)
  <2>1. Len(Pages) = n1 + Len(middle) + (IF multi = "yes" THEN 1 ELSE 0)
    BY <1>6, <1>7, <1>l
  <2>2. ASSUME NEW i \in 1 .. Len(Pages)
        PROVE  \/ i = n1 /\ Pages[i] = "account"
               \/ i - n1 \in DOMAIN middle /\ Pages[i] = middle[i - n1]
               \/ i = Len(Pages) /\ multi = "yes" /\ Pages[i] = "expiry"
    <3>1. CASE i \in DOMAIN first /\ Pages[i] = first[i]
      <4>1. i = 1 /\ n1 = 1
        BY <3>1, <1>7, <1>l
      <4> QED BY <3>1, <4>1, <1>l
    <3>2. CASE i - n2 \in DOMAIN last /\ Pages[i] = last[i - n2]
      <4>1. i - n2 = 1 /\ multi = "yes"
        BY <3>2, <1>7, <1>l
      <4>2. i = Len(Pages)
        BY <4>1, <2>1, <1>7
      <4> QED BY <3>2, <4>1, <4>2, <1>l
    <3> QED BY <2>2, <3>1, <3>2, <1>9
  <2> QED BY <2>1, <2>2, <1>l DEF AreInOrder, middle
<1> QED BY <1>10, <1>11, <1>12, <1>13, <1>14

\* After a page that is not the last one comes a page of the form.
LEMMA NextPageIsFormPage ==
  ASSUME kind \in Kinds, Shown \in Showable, ~IsLastPage
  PROVE  NextPage \in Showable
<1> DEFINE at == CHOOSE i \in DOMAIN Pages : Pages[i] = Shown
<1>1. /\ Len(Pages) \in Nat \ {0} /\ DOMAIN Pages = 1 .. Len(Pages)
      /\ \A i \in DOMAIN Pages : Pages[i] \in Showable
      /\ \E i \in DOMAIN Pages : Pages[i] = Shown
  BY PagesAreFormPages
<1>2. at \in DOMAIN Pages /\ Pages[at] = Shown
  BY <1>1
<1> HIDE DEF at
<1>3. at # Len(Pages)
  BY <1>2 DEF IsLastPage
<1>4. 1 + at \in DOMAIN Pages
  BY <1>1, <1>2, <1>3
<1>5. NextPage = Pages[1 + at]
  BY DEF NextPage, at
<1> QED BY <1>1, <1>4, <1>5

LEMMA StakeValuesAreFields ==
  ASSUME NEW amounts, NEW pending, NEW v \in StakeValues(amounts, pending)
  PROVE  /\ v = [f \in DOMAIN v |-> v[f]] /\ DOMAIN v \subseteq {"stake", "restakeEarnings"}
         /\ Has(v, "stake") => ~pending /\ v.stake \in amounts
<1>1. CASE pending
  <2>1. PICK r : v = [f \in {"restakeEarnings"} |-> r]
    BY <1>1 DEF StakeValues
  <2> QED BY <2>1 DEF Has
<1>2. CASE ~pending
  <2>1. PICK s \in amounts, r \in RestakeInputs : v = [stake |-> s, restakeEarnings |-> r]
    BY <1>2 DEF StakeValues
  <2> QED BY <1>2, <2>1 DEF Has
<1> QED BY <1>1, <1>2

\* A stake a page lets through is a stake.
LEMMA BakerStakeIsStake ==
  ASSUME NEW i, IsAccount(i), NEW fee, NEW v \in BakerStakeSettings(i, fee)
  PROVE  /\ v = [f \in DOMAIN v |-> v[f]] /\ DOMAIN v \subseteq {"stake", "restakeEarnings"}
         /\ Has(v, "stake") => v.stake \in Nat \ {0}
<1> DEFINE amounts == {s \in StakeBounds(i, fee) \cap Nat : validateBakerStake(s, i, fee)}
<1>1. v \in StakeValues(amounts, isBakerAccount(i) /\ hasPendingChange(i))
  BY DEF BakerStakeSettings
<1>2. \A s \in amounts : s \in Nat \ {0}
  <2> SUFFICES ASSUME NEW s \in Nat, validateBakerStake(s, i, fee) PROVE s # 0
    OBVIOUS
  <2>1. MinStake \in Nat \ {0}
    BY StakingAssumption
  <2>2. MinStake <= s \/ (i.config.stake # 0 /\ s = i.config.stake)
    BY DEF validateBakerStake
  <2> QED BY <2>1, <2>2
<1> HIDE DEF amounts
<1> QED BY <1>1, <1>2, StakeValuesAreFields

LEMMA DelegatedStakeIsStake ==
  ASSUME NEW w, NEW i, NEW thePool, NEW n, NEW v \in DelegationAmountPage(w, i, thePool, n)
  PROVE  /\ v = [f \in DOMAIN v |-> v[f]] /\ DOMAIN v \subseteq {"stake", "restakeEarnings"}
         /\ Has(v, "stake") => v.stake \in Nat \ {0}
<1>1. PICK amounts, fee :
        /\ v \in StakeValues(amounts \cap Nat, isDelegatorAccount(i) /\ hasPendingChange(i))
        /\ \/ isDelegatorAccount(i) /\ hasPendingChange(i)
           \/ validateDelegateAmount(v.stake, i, fee, thePool, w.delegationTarget)
  BY DEF DelegationAmountPage
<1>2. Has(v, "stake") => v.stake # 0
  BY <1>1, StakeValuesAreFields DEF validateDelegateAmount
<1> QED BY <1>1, <1>2, StakeValuesAreFields

\* What a page lets through has fields of the form; keys come from their own page.
LEMMA InputIsForm ==
  ASSUME kind \in Kinds, Shown \in Showable, Shown # "account" => IsAccount(info[account]),
         NEW v \in PageInputs(Shown)
  PROVE  IsForm(kind, v) /\ ~Has(v, "keys") /\ Shown \notin {"account", "keys"}
<1> DEFINE i == info[account]
           page == Shown
<1>0. /\ page \in Showable
      /\ v \in PageInputs(page)
  OBVIOUS
<1>1. page \notin {"account", "keys"}
  BY <1>0 DEF PageInputs
<1>2. page = "expiry" \/ page \in PageNames(kind)
  BY <1>0, <1>1 DEF Showable, FormPages
<1>i. IsAccount(i)
  BY <1>1
<1> HIDE DEF page
<1>3. CASE page = "stake"
  <2>1. kind \in {"addBaker", "updateBakerStake"}
    BY <1>2, <1>3, PagesOfForm, KindOfForm
  <2>2. PICK fee : v \in BakerStakeSettings(i, fee)
    BY <1>0, <1>3 DEF PageInputs, AddBakerStakePage, UpdateBakerStakePage
  <2>3. /\ v = [f \in DOMAIN v |-> v[f]] /\ DOMAIN v \subseteq {"stake", "restakeEarnings"}
        /\ Has(v, "stake") => v.stake \in Nat \ {0}
    BY <1>i, <2>2, BakerStakeIsStake
  <2> QED BY <1>1, <2>1, <2>3 DEF IsForm, FormFields, BakerFields, Has, page
<1>4. CASE page = "delegate"
  <2>1. kind \in {"addDelegation", "updateDelegation"}
    BY <1>2, <1>4, PagesOfForm, KindOfForm
  <2>2. v \in DelegationAmountPage(values, i, pool, Signatures)
    BY <1>0, <1>4 DEF PageInputs
  <2>3. /\ v = [f \in DOMAIN v |-> v[f]] /\ DOMAIN v \subseteq {"stake", "restakeEarnings"}
        /\ Has(v, "stake") => v.stake \in Nat \ {0}
    BY <2>2, DelegatedStakeIsStake
  <2> QED BY <1>1, <2>1, <2>3 DEF IsForm, FormFields, DelegationFields, Has, page
<1>5. CASE page \in {"openForDelegation", "metadataUrl"}
  <2>1. kind \in {"addBaker", "updateBakerPool"}
    BY <1>2, <1>5, PagesOfForm, KindOfForm
  <2>2. PICK x : v = [f \in {page} |-> x]
    BY <1>0, <1>5 DEF PageInputs, DelegationStatusPage, MetadataUrlPage
  <2> QED BY <1>1, <1>5, <2>1, <2>2 DEF IsForm, FormFields, BakerFields, Has, page
<1>6. CASE page = "commissions"
  <2>1. kind \in {"addBaker", "updateBakerPool"}
    BY <1>2, <1>6, PagesOfForm, KindOfForm
  <2>2. PICK x, y, z : v = [transactionFeeCommission |-> x, bakingRewardCommission |-> y,
                            finalizationRewardCommission |-> z]
    BY <1>0, <1>6 DEF PageInputs, CommissionsPage
  <2> QED BY <1>1, <2>1, <2>2 DEF IsForm, FormFields, BakerFields, CommissionFields, Has, page
<1>7. CASE page = "delegationTarget"
  <2>1. kind \in {"addDelegation", "updateDelegation"}
    BY <1>2, <1>7, PagesOfForm, KindOfForm
  <2>2. PICK x : v = [f \in {"delegationTarget"} |-> x]
    BY <1>0, <1>7 DEF PageInputs, DelegationTargetPage
  <2> QED BY <1>1, <2>1, <2>2 DEF IsForm, FormFields, DelegationFields, Has, page
<1>8. CASE page \in {"confirm", "expiry"}
  <2>1. v = <<>>
    BY <1>0, <1>8 DEF PageInputs
  <2>2. v = [f \in DOMAIN v |-> v[f]] /\ DOMAIN v = {}
    BY <2>1
  <2> QED BY <1>1, <2>2 DEF IsForm, Has, page
<1>9. CASE page = "suspended"
  <2>1. kind = "bakerSuspension"
    BY <1>2, <1>9, PagesOfForm, KindOfForm
  <2>2. PICK x : v = [f \in {"suspended"} |-> x]
    BY <1>0, <1>9 DEF PageInputs
  <2> QED BY <1>1, <2>1, <2>2 DEF IsForm, FormFields, Has, page
<1> QED
  <2>1. page \in {"stake", "openForDelegation", "commissions", "metadataUrl", "keys", "confirm",
                  "suspended", "delegationTarget", "delegate", "expiry"}
    BY <1>2, PagesOfForm, KindOfForm
  <2> QED BY <1>1, <1>3, <1>4, <1>5, <1>6, <1>7, <1>8, <1>9, <2>1 DEF page

-----------------------------------------------------------------------------
(* The pages that were gone through. *)
IsTrail(m, k, tr) == tr \in Seq(FormPages(m, k, tr[1])) /\ Len(tr) > 0

LEMMA PushedTrail ==
  ASSUME NEW m, NEW k, NEW tr, IsTrail(m, k, tr), NEW page \in FormPages(m, k, tr[1])
  PROVE  IsTrail(m, k, Append(tr, page)) /\ Append(tr, page)[1] = tr[1]
<1> DEFINE S == FormPages(m, k, tr[1])
<1>1. tr \in Seq(S) /\ Len(tr) > 0 /\ page \in S
  BY DEF IsTrail
<1> HIDE DEF S
<1>2. Append(tr, page) \in Seq(S) /\ Len(Append(tr, page)) > 0 /\ Append(tr, page)[1] = tr[1]
  BY <1>1
<1> QED BY <1>2 DEF IsTrail, S

LEMMA FrontOfTrail ==
  ASSUME NEW m, NEW k, NEW tr, IsTrail(m, k, tr), Len(tr) > 1
  PROVE  IsTrail(m, k, Front(tr)) /\ Front(tr)[1] = tr[1]
<1> DEFINE S == FormPages(m, k, tr[1])
<1>1. tr \in Seq(S) /\ Len(tr) > 1
  BY DEF IsTrail
<1> HIDE DEF S
<1>2. Front(tr) \in Seq(S) /\ Len(Front(tr)) > 0 /\ Front(tr)[1] = tr[1]
  BY <1>1 DEF Front
<1> QED BY <1>2 DEF IsTrail, S

LEMMA TrailOfPage ==
  ASSUME NEW m, NEW k, NEW page, page \in FormPages(m, k, page)
  PROVE  IsTrail(m, k, <<page>>)
<1> DEFINE S == FormPages(m, k, page)
           tr == <<page>>
<1>1. tr[1] = page /\ Len(tr) = 1
  OBVIOUS
<1>2. page \in S
  OBVIOUS
<1> HIDE DEF S
<1>3. tr \in Seq(S)
  BY <1>2
<1> HIDE DEF tr
<1>4. IsTrail(m, k, tr)
  BY <1>1, <1>3 DEF IsTrail, S
<1> QED BY <1>4 DEF tr

LEMMA RenderedTrail ==
  ASSUME NEW m, NEW k, k \in Kinds, NEW tr, IsTrail(m, k, tr), NEW v
  PROVE  IsTrail(m, k, Rendered(tr, v))
<1>1. CASE tr[Len(tr)] # "delegate" \/ Has(v, "delegationTarget")
  BY <1>1 DEF Rendered
<1>2. CASE tr[Len(tr)] = "delegate" /\ ~Has(v, "delegationTarget")
  <2>1. Rendered(tr, v) = Append(Front(tr), "delegationTarget")
    BY <1>2 DEF Rendered
  <2>2. "delegate" \in FormPages(m, k, tr[1])
    <3> DEFINE S == FormPages(m, k, tr[1])
    <3>1. tr \in Seq(S) /\ Len(tr) > 0
      BY DEF IsTrail
    <3> HIDE DEF S
    <3>2. tr[Len(tr)] \in S
      BY <3>1
    <3> QED BY <1>2, <3>2 DEF S
  <2>3. k \in {"addDelegation", "updateDelegation"}
    BY <2>2, PagesOfForm, KindOfForm DEF FormPages
  <2>4. \A first : "delegationTarget" \in FormPages(m, k, first)
    BY <2>3, PagesOfForm DEF FormPages
  <2>5. CASE Len(tr) > 1
    <3>1. IsTrail(m, k, Front(tr))
      BY <2>5, FrontOfTrail
    <3> QED BY <2>1, <2>4, <3>1, PushedTrail
  <2>6. CASE ~(Len(tr) > 1)
    <3> DEFINE S == FormPages(m, k, tr[1])
    <3>1. tr \in Seq(S) /\ Len(tr) > 0
      BY DEF IsTrail
    <3> HIDE DEF S
    <3>2. Len(tr) = 1
      <4>1. Len(tr) \in Nat
        BY <3>1, LenProperties
      <4>2. \A n \in Nat : n > 0 /\ ~(n > 1) => n = 1
        OBVIOUS
      <4> QED BY <2>6, <3>1, <4>1, <4>2, Zenon
    <3>3. Front(tr) = SubSeq(tr, 1, 0)
      BY <3>2 DEF Front
    <3>4. Front(tr) = <<>>
      BY <3>1, <3>3, SubSeqProperties
    <3>5. Append(<<>>, "delegationTarget") = <<"delegationTarget">>
      OBVIOUS
    <3> QED BY <2>1, <2>4, <3>4, <3>5, TrailOfPage
  <2> QED BY <2>5, <2>6
<1> QED BY <1>1, <1>2

-----------------------------------------------------------------------------
(* The inductive invariant. *)
KeysAreSaved(v, acc, unchanged, files) ==
  Has(v, "keys") => \E e \in files : e[1] = v.keys /\ (unchanged => e[2] = acc)

\* An open form has pages of its kind, and what they have let through.  Nothing
\* is filled in before there is an account.
FormIsRight ==
  place \in {"form", "submit"} =>
    /\ kind \in Kinds /\ account \in Accounts \cup {Nobody}
    /\ IsTrail(multi, kind, trail)
    /\ IsForm(kind, values) /\ IsForm(kind, saved)
    /\ account = Nobody => place = "form" /\ trail = <<"account">> /\ DOMAIN values = {}

AccountsAreRight ==
  /\ DOMAIN chain = Accounts /\ DOMAIN info = Accounts
  /\ \A a \in Accounts :
       IsAccount(chain[a]) /\ chain[a].name = a /\ IsAccount(info[a]) /\ info[a].name = a

\* Keys are saved before they are in a form.
KeysAreInFiles ==
  /\ KeysAreSaved(values, account, fresh, exported)
  /\ KeysAreSaved(saved, account, fresh, exported)

\* A transaction as it was made from a form.
IsMade(m, t) ==
  /\ DOMAIN t = {"outcome", "account", "kind", "type", "payload", "fee", "form", "base", "nonceOf"}
  /\ t.kind \in Kinds /\ t.type = TypeOf(t.kind) /\ IsForm(t.kind, t.form)
  /\ t.account \in Accounts /\ IsAccount(t.base)
  /\ t.payload = PayloadOf(m, t.kind, t.form, t.base)

TransactionIsRight ==
  /\ tx.outcome = "unsent" <=> place = "submit"
  /\ tx.outcome = "unsent" => IsMade(multi, tx)

IInv ==
  /\ FormIsRight /\ AccountsAreRight /\ KeysAreInFiles
  /\ TransactionIsRight /\ SubmittedKeysAreSaved /\ ConfigurationIsTheForm

\* The two properties of the transaction, as formulas about the record.
TransactionKeysAreSaved(t, unchanged, files) ==
  t.outcome # "none" =>
    KeysAreSaved(t.payload, t.account, IF t.outcome = "unsent" THEN unchanged ELSE t.fresh, files)

TransactionIsTheForm(m, t) ==
  t.outcome = "success" /\ SameStaking(t.base, t.before) /\ ~(t.kind = "bakerSuspension" /\ m = "yes") =>
    /\ \A f \in FieldsOf(t) : Agrees(t.after, t.form, f)
    /\ t.kind \in {"removeBaker", "removeDelegation"} => Removed(t.after)

LEMMA PropertiesOfTransaction ==
  /\ SubmittedKeysAreSaved <=> TransactionKeysAreSaved(tx, fresh, exported)
  /\ ConfigurationIsTheForm <=> TransactionIsTheForm(multi, tx)
<1>1. SubmittedKeysAreSaved <=> TransactionKeysAreSaved(tx, fresh, exported)
  BY DEF SubmittedKeysAreSaved, TransactionKeysAreSaved, KeysAreSaved
<1>2. ConfigurationIsTheForm <=> TransactionIsTheForm(multi, tx)
  BY DEF ConfigurationIsTheForm, TransactionIsTheForm, Executed
<1> QED BY <1>1, <1>2

LEMMA SavedStaySaved ==
  ASSUME NEW v, NEW acc, NEW unchanged \in BOOLEAN, NEW later \in BOOLEAN, NEW files, NEW more,
         KeysAreSaved(v, acc, unchanged, files), later => unchanged, files \subseteq more
  PROVE  KeysAreSaved(v, acc, later, more)
BY DEF KeysAreSaved

\* A step that leaves the transaction alone.
LEMMA TransactionStays ==
  ASSUME IInv, tx' = tx, multi' = multi, exported \subseteq exported',
         place = "submit" /\ fresh' => fresh, place' = "submit" <=> place = "submit"
  PROVE  TransactionIsRight' /\ SubmittedKeysAreSaved' /\ ConfigurationIsTheForm'
<1>1. TransactionIsRight'
  BY DEF IInv, TransactionIsRight
<1>2. TransactionKeysAreSaved(tx, fresh, exported) /\ TransactionIsTheForm(multi, tx)
  BY PropertiesOfTransaction DEF IInv
<1>3. tx.outcome = "unsent" => (fresh' => fresh)
  BY DEF IInv, TransactionIsRight
<1>4. TransactionKeysAreSaved(tx, fresh', exported')
  BY <1>2, <1>3 DEF TransactionKeysAreSaved, KeysAreSaved
<1>5. (SubmittedKeysAreSaved <=> TransactionKeysAreSaved(tx, fresh, exported))'
  BY PropertiesOfTransaction, PTL
<1>6. (ConfigurationIsTheForm <=> TransactionIsTheForm(multi, tx))'
  BY PropertiesOfTransaction, PTL
<1> QED BY <1>1, <1>2, <1>4, <1>5, <1>6

\* A step that drops the transaction.
LEMMA TransactionGoes ==
  ASSUME tx'.outcome = "none", place' # "submit"
  PROVE  TransactionIsRight' /\ SubmittedKeysAreSaved' /\ ConfigurationIsTheForm'
BY DEF TransactionIsRight, SubmittedKeysAreSaved, ConfigurationIsTheForm, Executed

\* A step that closes the form.
LEMMA FormCloses ==
  ASSUME place' = "menu", Closed
  PROVE  FormIsRight' /\ KeysAreInFiles'
<1>1. DOMAIN values' = {} /\ DOMAIN saved' = {}
  BY DEF Closed
<1> QED BY <1>1 DEF FormIsRight, KeysAreInFiles, KeysAreSaved, Has

LEMMA AccountsStay ==
  ASSUME AccountsAreRight, UNCHANGED <<chain, info>>
  PROVE  AccountsAreRight'
BY DEF AccountsAreRight

\* A step that leaves what is filled in alone, or forgets that it is fresh.
LEMMA FormStays ==
  ASSUME IInv, UNCHANGED <<multi, place, kind, account, trail, values, saved>>,
         exported \subseteq exported', fresh' => fresh
  PROVE  FormIsRight' /\ KeysAreInFiles'
<1>1. FormIsRight'
  BY DEF IInv, FormIsRight
<1>2. KeysAreInFiles'
  BY DEF IInv, KeysAreInFiles, KeysAreSaved
<1> QED BY <1>1, <1>2

-----------------------------------------------------------------------------
(* Every step keeps the invariant. *)
LEMMA InitIsRight == Init => IInv
<1> SUFFICES ASSUME Init PROVE IInv
  OBVIOUS
<1>1. DOMAIN values = {} /\ DOMAIN saved = {}
  BY DEF Init
<1>2. FormIsRight /\ KeysAreInFiles
  BY <1>1 DEF Init, FormIsRight, KeysAreInFiles, KeysAreSaved, Has
<1>3. AccountsAreRight
  BY FlowAssumption DEF Init, AccountsAreRight
<1>4. tx.outcome = "none" /\ place = "menu"
  BY DEF Init, NoTransaction
<1>5. TransactionIsRight /\ SubmittedKeysAreSaved /\ ConfigurationIsTheForm
  BY <1>4 DEF TransactionIsRight, SubmittedKeysAreSaved, ConfigurationIsTheForm, Executed
<1> QED BY <1>2, <1>3, <1>5 DEF IInv

LEMMA OpenIsRight ==
  ASSUME IInv, NEW k \in Kinds, NEW a \in Accounts \cup {Nobody}, NEW first,
         first \in FormPages(multi, k, first), a = Nobody => first = "account", Open(k, a, first)
  PROVE  IInv'
<1>1. DOMAIN values' = {} /\ DOMAIN saved' = {} /\ values' = <<>> /\ saved' = <<>>
  BY DEF Open
<1>2. /\ place' = "form" /\ place = "menu" /\ kind' = k /\ account' = a /\ trail' = <<first>>
      /\ UNCHANGED <<multi, tx, exported, chain, info>>
  BY DEF Open, chainVars
<1>3. IsTrail(multi', kind', trail')
  BY <1>2, TrailOfPage
<1>4. /\ values' = [f \in DOMAIN values' |-> values'[f]]
      /\ saved' = [f \in DOMAIN saved' |-> saved'[f]]
  BY <1>1
<1>5. IsForm(kind', values') /\ IsForm(kind', saved')
  BY <1>1, <1>4 DEF IsForm, Has
<1>6. FormIsRight'
  BY <1>1, <1>2, <1>3, <1>5 DEF FormIsRight
<1>7. KeysAreInFiles'
  BY <1>1 DEF KeysAreInFiles, KeysAreSaved, Has
<1>8. TransactionIsRight' /\ SubmittedKeysAreSaved' /\ ConfigurationIsTheForm'
  BY <1>2, TransactionStays
<1> QED BY <1>2, <1>6, <1>7, <1>8, AccountsStay DEF IInv

LEMMA StartIsRight ==
  ASSUME IInv, NEW k \in Kinds,
         StartMulti(k) \/ \E a \in Accounts : StartSingle(k, a) \/ StartRedirected(k, a)
  PROVE  IInv'
<1>1. FlowPages[k][1] \in FormPages(multi, k, FlowPages[k][1])
  <2>1. FlowPages[k] \in Seq(PageNames(k)) /\ Len(FlowPages[k]) > 0
    BY PagesOfForm
  <2> HIDE DEF PageNames
  <2>2. FlowPages[k][1] \in PageNames(k)
    BY <2>1
  <2> QED BY <2>2 DEF FormPages
<1>2. CASE StartMulti(k)
  <2>1. "account" \in FormPages(multi, k, "account")
    BY <1>2 DEF StartMulti, FormPages
  <2> QED BY <1>2, <2>1, OpenIsRight DEF StartMulti
<1>3. ASSUME NEW a \in Accounts, StartSingle(k, a) \/ StartRedirected(k, a)
      PROVE  IInv'
  <2>1. a # Nobody
    BY FlowAssumption
  <2> QED BY <1>1, <1>3, <2>1, OpenIsRight DEF StartSingle, StartRedirected
<1> QED BY <1>2, <1>3

LEMMA NonceIsRight ==
  ASSUME IInv, NEW a \in Accounts, NonceArrives(a)
  PROVE  IInv'
<1>1. UNCHANGED <<multi, place, kind, account, trail, values, saved, exported, fresh, tx, chain, info>>
  BY DEF NonceArrives, chainVars
<1> QED BY <1>1, FormStays, TransactionStays, AccountsStay DEF IInv

\* What a page adds to the values.
Filled(v, w, fields) == Over(v, Only(w, DOMAIN w \ fields))

LEMMA FilledForm ==
  ASSUME NEW k, NEW v, NEW w, NEW fields, IsForm(k, v), IsForm(k, w)
  PROVE  LET new == Filled(v, w, fields)
         IN  /\ IsForm(k, new)
             /\ Has(new, "keys") => \/ Has(v, "keys") /\ new.keys = v.keys
                                    \/ Has(w, "keys") /\ new.keys = w.keys
<1> DEFINE old == Only(w, DOMAIN w \ fields)
           new == Filled(v, w, fields)
<1>1. DOMAIN old \subseteq DOMAIN w /\ \A f \in DOMAIN old : old[f] = w[f]
  BY DEF Only
<1>0. new = Over(v, old)
  BY DEF Filled
<1> HIDE DEF old, new
<1>2. /\ new = [f \in DOMAIN new |-> new[f]]
      /\ DOMAIN new = DOMAIN v \cup DOMAIN old
      /\ \A f \in DOMAIN v : new[f] = v[f]
      /\ \A f \in DOMAIN old : f \notin DOMAIN v => new[f] = old[f]
  BY <1>0 DEF Over
<1>3. IsForm(k, new)
  BY <1>1, <1>2 DEF IsForm, Has
<1>4. Has(new, "keys") => \/ Has(v, "keys") /\ new.keys = v.keys
                          \/ Has(w, "keys") /\ new.keys = w.keys
  BY <1>1, <1>2 DEF Has
<1> QED BY <1>3, <1>4 DEF new

LEMMA PayloadOfForm ==
  ASSUME NEW v, kind \in Kinds
  PROVE  convert(v) = PayloadOf(multi, kind, v, info[account])
<1>1. CASE kind \in {"addBaker", "updateBakerKeys"}
  BY <1>1 DEF convert, PayloadOf
<1>2. CASE kind = "updateBakerStake"
  BY <1>2 DEF convert, PayloadOf
<1>3. CASE kind \in {"updateBakerPool", "bakerSuspension"}
  BY <1>3 DEF convert, PayloadOf
<1>4. CASE kind \in {"addDelegation", "updateDelegation"}
  BY <1>4 DEF convert, PayloadOf
<1>5. CASE kind \in {"removeBaker", "removeDelegation"}
  BY <1>5 DEF convert, PayloadOf
<1> QED BY <1>1, <1>2, <1>3, <1>4, <1>5, KindOfForm

\* The page of the form that is shown is one of the form.
LEMMA ShownIsFormPage ==
  ASSUME IInv, place = "form"
  PROVE  /\ kind \in Kinds /\ Shown \in Showable
         /\ Shown # "account" => account \in Accounts /\ IsAccount(info[account])
<1>1. /\ kind \in Kinds /\ account \in Accounts \cup {Nobody} /\ IsTrail(multi, kind, trail)
      /\ account = Nobody => trail = <<"account">>
  BY DEF IInv, FormIsRight
<1>2. Shown \in Showable
  <2> DEFINE S == FormPages(multi, kind, trail[1])
  <2>1. trail \in Seq(S) /\ Len(trail) > 0
    BY <1>1 DEF IsTrail
  <2> HIDE DEF S
  <2>2. trail[Len(trail)] \in S
    BY <2>1
  <2> QED BY <2>2 DEF Shown, Showable, S
<1>3. ASSUME Shown # "account" PROVE account \in Accounts
  <2>1. <<"account">>[Len(<<"account">>)] = "account"
    OBVIOUS
  <2> QED BY <1>1, <1>3, <2>1 DEF Shown
<1> QED BY <1>1, <1>2, <1>3 DEF IInv, AccountsAreRight

\* The page that is shown again is one of the form.
LEMMA ValidatedPage ==
  ASSUME NEW v, kind \in Kinds, validate(v) \notin {"valid", "throws"}
  PROVE  validate(v) \in Showable
<1>1. CASE kind = "addBaker"
  <2>1. validate(v) = "stake"
    BY <1>1 DEF validate, validateAddBakerValues
  <2> QED BY <1>1, <2>1, PagesOfForm DEF Showable, FormPages
<1>2. CASE kind # "addBaker"
  <2>1. validate(v) = FlowPages[kind][1]
    BY <1>2 DEF validate
  <2>2. FlowPages[kind] \in Seq(PageNames(kind)) /\ Len(FlowPages[kind]) > 0
    BY PagesOfForm
  <2> HIDE DEF PageNames
  <2>3. FlowPages[kind][1] \in PageNames(kind)
    BY <2>2
  <2> QED BY <2>1, <2>3 DEF Showable, FormPages
<1> QED BY <1>1, <1>2

LEMMA MadeTransaction ==
  ASSUME NEW v, kind \in Kinds, IsForm(kind, v), account \in Accounts, IsAccount(info[account]),
         NEW unchanged, NEW files, KeysAreSaved(v, account, unchanged, files)
  PROVE  LET t == createTransaction(v)
         IN  /\ t.outcome = "unsent" /\ IsMade(multi, t)
             /\ TransactionKeysAreSaved(t, unchanged, files) /\ TransactionIsTheForm(multi, t)
<1> DEFINE t == createTransaction(v)
           p == convert(v)
<1>1. /\ DOMAIN t = {"outcome", "account", "kind", "type", "payload", "fee", "form", "base", "nonceOf"}
      /\ t.outcome = "unsent" /\ t.kind = kind /\ t.type = TypeOf(kind) /\ t.form = v
      /\ t.account = account /\ t.base = info[account] /\ t.payload = p
  BY DEF createTransaction
<1>2. p = PayloadOf(multi, kind, v, info[account])
  BY PayloadOfForm
<1>3. Has(p, "keys") => Has(v, "keys") /\ p.keys = v.keys
  BY <1>2, PayloadIsRight
<1> HIDE DEF t, p
<1>4. IsMade(multi, t)
  BY <1>1, <1>2 DEF IsMade
<1>5. TransactionKeysAreSaved(t, unchanged, files)
  BY <1>1, <1>3 DEF TransactionKeysAreSaved, KeysAreSaved
<1>6. TransactionIsTheForm(multi, t)
  BY <1>1 DEF TransactionIsTheForm
<1> QED BY <1>1, <1>4, <1>5, <1>6 DEF t

\* A page that is not the account's lets the user on.
LEMMA HandleNextIsRight ==
  ASSUME IInv, place = "form", Shown # "account", NEW v, IsForm(kind, v), handleNext(v),
         UNCHANGED <<chain, info, multi, kind, account, fresh>>, exported \subseteq exported',
         KeysAreSaved(v, account, fresh, exported')
  PROVE  IInv'
<1> DEFINE new == Over(v, Only(values, DOMAIN values \ PageFields(Shown)))
<1>1. /\ kind \in Kinds /\ Shown \in Showable /\ account \in Accounts /\ IsAccount(info[account])
      /\ account # Nobody
  BY ShownIsFormPage, FlowAssumption
<1>2. IsTrail(multi, kind, trail) /\ IsForm(kind, values) /\ IsForm(kind, saved)
  BY DEF IInv, FormIsRight
<1>3. KeysAreSaved(values, account, fresh, exported) /\ KeysAreSaved(saved, account, fresh, exported)
  BY DEF IInv, KeysAreInFiles
<1>4. /\ IsForm(kind, new)
      /\ Has(new, "keys") => \/ Has(v, "keys") /\ new.keys = v.keys
                             \/ Has(values, "keys") /\ new.keys = values.keys
  <2>1. new = Filled(v, values, PageFields(Shown))
    BY DEF Filled
  <2> QED BY <1>2, <2>1, FilledForm
<1>5. /\ values' = new
      /\ \/ ~IsLastPage /\ Push(NextPage)
         \/ validate(new) = "valid" /\ handleDone(new)
         \/ UNCHANGED <<place, trail, tx, saved>>
         \/ validate(new) \notin {"valid", "throws"} /\ Push(validate(new))
  BY DEF handleNext
<1> HIDE DEF new
<1>6. KeysAreSaved(new, account, fresh, exported')
  BY <1>3, <1>4 DEF KeysAreSaved
<1>7. KeysAreSaved(saved, account, fresh, exported')
  BY <1>3 DEF KeysAreSaved
<1>e. DOMAIN <<>> = {} /\ <<>> = [f \in {} |-> <<>>[f]]
  OBVIOUS
<1>f. /\ \A k : IsForm(k, <<>>)
      /\ \A acc, unchanged, files : KeysAreSaved(<<>>, acc, unchanged, files)
  BY <1>e DEF IsForm, KeysAreSaved, Has
<1>8. /\ IsTrail(multi, kind, trail')
      /\ IsForm(kind, saved') /\ KeysAreSaved(saved', account, fresh, exported')
      /\ \/ place' = place /\ tx' = tx
         \/ place' = "submit" /\ tx' = createTransaction(new)
  <2>1. CASE \E page \in Showable : Push(page)
    BY <1>2, <1>f, <2>1, PushedTrail DEF Push, Showable
  <2>2. CASE UNCHANGED <<place, trail, tx, saved>>
    BY <1>2, <1>7, <2>2
  <2>3. CASE handleDone(new)
    <3>1. CASE UNCHANGED <<place, trail, tx, saved>>
      BY <1>2, <1>7, <3>1
    <3>2. CASE /\ tx' = createTransaction(new) /\ place' = "submit" /\ UNCHANGED trail
               /\ saved' = (IF multi = "no" THEN new ELSE <<>>)
      BY <1>2, <1>4, <1>6, <1>f, <3>2
    <3> QED BY <2>3, <3>1, <3>2 DEF handleDone
  <2>4. ~IsLastPage => NextPage \in Showable
    BY <1>1, NextPageIsFormPage
  <2>5. validate(new) \notin {"valid", "throws"} => validate(new) \in Showable
    BY <1>1, ValidatedPage
  <2> QED BY <1>5, <2>1, <2>2, <2>3, <2>4, <2>5
<1>9. FormIsRight' /\ KeysAreInFiles'
  <2>1. FormIsRight'
    BY <1>1, <1>4, <1>5, <1>8 DEF FormIsRight
  <2> QED BY <1>5, <1>6, <1>8, <2>1 DEF KeysAreInFiles
<1>10. TransactionIsRight' /\ SubmittedKeysAreSaved' /\ ConfigurationIsTheForm'
  <2>1. CASE place' = place /\ tx' = tx
    BY <2>1, TransactionStays
  <2>2. CASE place' = "submit" /\ tx' = createTransaction(new)
    <3>1. /\ tx'.outcome = "unsent" /\ IsMade(multi, tx')
          /\ TransactionKeysAreSaved(tx', fresh, exported') /\ TransactionIsTheForm(multi, tx')
      BY <1>1, <1>4, <1>6, <2>2, MadeTransaction
    <3>2. TransactionIsRight'
      BY <2>2, <3>1 DEF TransactionIsRight
    <3>3. (SubmittedKeysAreSaved <=> TransactionKeysAreSaved(tx, fresh, exported))'
      BY PropertiesOfTransaction, PTL
    <3>4. (ConfigurationIsTheForm <=> TransactionIsTheForm(multi, tx))'
      BY PropertiesOfTransaction, PTL
    <3> QED BY <3>1, <3>2, <3>3, <3>4
  <2> QED BY <1>8, <2>1, <2>2
<1> QED BY <1>9, <1>10, AccountsStay DEF IInv

LEMMA NextIsRight ==
  ASSUME IInv, place = "form", NEW v \in PageInputs(Shown), Next(v)
  PROVE  IInv'
<1>1. kind \in Kinds /\ Shown \in Showable /\ (Shown # "account" => IsAccount(info[account]))
  BY ShownIsFormPage
<1>2. IsForm(kind, v) /\ ~Has(v, "keys") /\ Shown # "account"
  BY <1>1, InputIsForm
<1>3. /\ handleNext(v) /\ UNCHANGED <<chain, info, multi, kind, account, fresh>>
      /\ exported \subseteq exported'
  BY DEF Next, chainVars
<1>4. KeysAreSaved(v, account, fresh, exported')
  BY <1>2 DEF KeysAreSaved
<1> QED BY <1>2, <1>3, <1>4, HandleNextIsRight

\* The keys a form goes on with are in a file of the account.
LEMMA KeysPageIsRight ==
  ASSUME IInv, place = "form", Shown = "keys", NEW k, KeysPage(k), exported \subseteq exported',
         \E e \in exported' : e[1] = k /\ (fresh => e[2] = account)
  PROVE  IInv'
<1> DEFINE v == [f \in {"keys"} |-> k]
<1>1. kind \in {"addBaker", "updateBakerKeys"}
  <2>1. kind \in Kinds /\ "keys" \in FormPages(multi, kind, trail[1])
    BY ShownIsFormPage DEF Showable
  <2> QED BY <2>1, PagesOfForm, KindOfForm DEF FormPages
<1>2. IsForm(kind, v)
  BY <1>1 DEF IsForm, FormFields, BakerFields, Has
<1>3. KeysAreSaved(v, account, fresh, exported')
  BY DEF KeysAreSaved, Has
<1>4. handleNext(v) /\ UNCHANGED <<chain, info, multi, kind, account, fresh>>
  BY DEF KeysPage, chainVars
<1> HIDE DEF v
<1> QED BY <1>2, <1>3, <1>4, HandleNextIsRight

LEMMA ExportIsRight ==
  ASSUME IInv, ExportKeys
  PROVE  IInv'
<1>1. PICK k \in keys : KeysPage(k) /\ exported' = exported \cup {<<k, account>>}
  BY DEF ExportKeys
<1>2. exported \subseteq exported' /\ \E e \in exported' : e[1] = k /\ e[2] = account
  <2>1. <<k, account>>[1] = k /\ <<k, account>>[2] = account
    OBVIOUS
  <2>2. exported \subseteq exported' /\ <<k, account>> \in exported'
    BY <1>1
  <2> QED BY <2>1, <2>2
<1>3. place = "form" /\ Shown = "keys"
  BY DEF ExportKeys
<1> QED BY <1>1, <1>2, <1>3, KeysPageIsRight

LEMMA ContinueIsRight ==
  ASSUME IInv, ContinueWithKeys
  PROVE  IInv'
<1>1. /\ place = "form" /\ Shown = "keys" /\ Has(values, "keys")
      /\ KeysPage(values.keys) /\ exported' = exported
  BY DEF ContinueWithKeys
<1>2. \E e \in exported' : e[1] = values.keys /\ (fresh => e[2] = account)
  BY <1>1 DEF IInv, KeysAreInFiles, KeysAreSaved
<1> QED BY <1>1, <1>2, KeysPageIsRight

LEMMA GenerateIsRight ==
  ASSUME IInv, GenerateBakerKeys
  PROVE  IInv'
<1>1. UNCHANGED <<multi, place, kind, account, trail, values, saved, exported, fresh, tx, chain, info>>
  BY DEF GenerateBakerKeys, chainVars
<1> QED BY <1>1, FormStays, TransactionStays, AccountsStay DEF IInv

LEMMA NothingIsForm ==
  /\ DOMAIN <<>> = {}
  /\ \A k : IsForm(k, <<>>)
  /\ \A acc, unchanged, files : KeysAreSaved(<<>>, acc, unchanged, files)
<1>1. DOMAIN <<>> = {} /\ <<>> = [f \in {} |-> <<>>[f]]
  OBVIOUS
<1> QED BY <1>1 DEF IsForm, KeysAreSaved, Has

LEMMA PickIsRight ==
  ASSUME IInv, NEW a \in Accounts, PickAccount(a)
  PROVE  IInv'
<1>1. /\ place = "form" /\ Shown = "account" /\ account' = a /\ Push(NextPage)
      /\ fresh' = (fresh /\ (account \in {a, Nobody} \/ values = <<>>))
      /\ UNCHANGED <<chain, info, multi, kind, values, exported>>
  BY DEF PickAccount, chainVars
<1>2. /\ place' = "form" /\ trail' = Append(trail, NextPage) /\ saved' = <<>> /\ tx' = tx
  BY <1>1 DEF Push
<1>3. /\ kind \in Kinds /\ Shown \in Showable /\ IsTrail(multi, kind, trail) /\ IsForm(kind, values)
      /\ account = Nobody => DOMAIN values = {}
  BY <1>1, ShownIsFormPage DEF IInv, FormIsRight
<1>4. ~IsLastPage
  <2>1. "account" \in FormPages(multi, kind, trail[1])
    BY <1>1, <1>3 DEF Showable
  <2>2. multi = "yes"
    BY <1>3, <2>1, PagesOfForm, KindOfForm DEF FormPages
  <2>3. Pages[Len(Pages)] = "expiry"
    BY <1>3, <2>2, PagesAreFormPages
  <2> QED BY <1>1, <2>3 DEF IsLastPage
<1>5. IsTrail(multi, kind, trail')
  BY <1>2, <1>3, <1>4, NextPageIsFormPage, PushedTrail DEF Showable
<1>6. FormIsRight'
  BY <1>1, <1>2, <1>3, <1>5, NothingIsForm, FlowAssumption DEF FormIsRight
<1>7. KeysAreInFiles'
  <2>1. KeysAreSaved(values, account, fresh, exported)
    BY DEF IInv, KeysAreInFiles
  <2>2. ASSUME Has(values, "keys") PROVE fresh' => fresh /\ account = a
    <3>1. DOMAIN values # {} /\ values # <<>>
      BY <2>2, NothingIsForm DEF Has
    <3> QED BY <1>1, <1>3, <3>1
  <2>3. KeysAreSaved(values, a, fresh', exported)
    BY <2>1, <2>2 DEF KeysAreSaved
  <2> QED BY <1>1, <1>2, <2>3, NothingIsForm DEF KeysAreInFiles
<1>8. TransactionIsRight' /\ SubmittedKeysAreSaved' /\ ConfigurationIsTheForm'
  BY <1>1, <1>2, TransactionStays
<1> QED BY <1>1, <1>6, <1>7, <1>8, AccountsStay DEF IInv

LEMMA LeaveIsRight ==
  ASSUME IInv, Leave
  PROVE  IInv'
<1>1. /\ place' = "menu" /\ Closed /\ UNCHANGED <<chain, info, multi, exported, fresh>>
      /\ tx' = (IF tx.outcome = "unsent" THEN NoTransaction ELSE tx)
  BY DEF Leave, chainVars
<1>2. TransactionIsRight' /\ SubmittedKeysAreSaved' /\ ConfigurationIsTheForm'
  <2>1. CASE tx.outcome = "unsent"
    <3>1. tx'.outcome = "none"
      BY <1>1, <2>1 DEF NoTransaction
    <3> QED BY <1>1, <3>1, TransactionGoes
  <2>2. CASE tx.outcome # "unsent"
    <3>1. place # "submit"
      BY <2>2 DEF IInv, TransactionIsRight
    <3> QED BY <1>1, <2>2, <3>1, TransactionStays
  <2> QED BY <2>1, <2>2
<1> QED BY <1>1, <1>2, FormCloses, AccountsStay DEF IInv

LEMMA BackIsRight ==
  ASSUME IInv, Back
  PROVE  IInv'
<1>1. /\ place = "form" /\ Len(trail) > 1 /\ trail' = Rendered(Front(trail), values) /\ saved' = <<>>
      /\ UNCHANGED <<chain, info, multi, place, kind, account, values, fresh, tx, exported>>
  BY DEF Back, chainVars
<1>2. /\ kind \in Kinds /\ account \in Accounts \cup {Nobody} /\ IsTrail(multi, kind, trail)
      /\ IsForm(kind, values) /\ (account = Nobody => trail = <<"account">>)
  BY <1>1 DEF IInv, FormIsRight
<1>3. account # Nobody
  <2>1. Len(<<"account">>) = 1 /\ ~(1 > 1)
    OBVIOUS
  <2> QED BY <1>1, <1>2, <2>1, Zenon
<1>4. IsTrail(multi, kind, trail')
  BY <1>1, <1>2, FrontOfTrail, RenderedTrail
<1>5. FormIsRight'
  BY <1>1, <1>2, <1>3, <1>4, NothingIsForm DEF FormIsRight
<1>6. KeysAreInFiles'
  BY <1>1, NothingIsForm DEF IInv, KeysAreInFiles
<1> QED BY <1>1, <1>5, <1>6, TransactionStays, AccountsStay DEF IInv

LEMMA BackToFormIsRight ==
  ASSUME IInv, BackToForm
  PROVE  IInv'
<1>1. /\ place = "submit" /\ tx' = NoTransaction
      /\ UNCHANGED <<chain, info, multi, exported, fresh>>
      /\ \/ place' = "menu" /\ Closed
         \/ /\ place' = "form" /\ values' \in {saved, values}
            /\ UNCHANGED <<kind, account, trail, saved>>
  BY DEF BackToForm, chainVars
<1>2. FormIsRight' /\ KeysAreInFiles'
  <2>1. CASE place' = "menu" /\ Closed
    BY <2>1, FormCloses
  <2>2. CASE /\ place' = "form" /\ values' \in {saved, values}
             /\ UNCHANGED <<kind, account, trail, saved>>
    <3>1. FormIsRight'
      BY <1>1, <2>2 DEF IInv, FormIsRight
    <3>2. KeysAreInFiles'
      BY <1>1, <2>2 DEF IInv, KeysAreInFiles
    <3> QED BY <3>1, <3>2
  <2> QED BY <1>1, <2>1, <2>2
<1>3. tx'.outcome = "none" /\ place' # "submit"
  BY <1>1 DEF NoTransaction
<1> QED BY <1>1, <1>2, <1>3, TransactionGoes, AccountsStay DEF IInv

LEMMA SwitchIsRight ==
  ASSUME IInv, NEW a \in Accounts, SwitchAccount(a)
  PROVE  IInv'
<1>1. /\ place = "form" /\ UNCHANGED <<chain, info, multi, tx, exported>>
      /\ \/ /\ account' = a /\ values' = saved /\ trail' = Rendered(trail, saved)
            /\ fresh' = (fresh /\ saved = <<>> /\ Len(trail) = 1)
            /\ UNCHANGED <<place, kind, saved>>
         \/ place' = "menu" /\ Closed /\ UNCHANGED fresh
  BY DEF SwitchAccount, chainVars
<1>2. FormIsRight' /\ KeysAreInFiles'
  <2>1. CASE place' = "menu" /\ Closed
    BY <2>1, FormCloses
  <2>2. CASE /\ account' = a /\ values' = saved /\ trail' = Rendered(trail, saved)
             /\ fresh' = (fresh /\ saved = <<>> /\ Len(trail) = 1)
             /\ UNCHANGED <<place, kind, saved>>
    <3>1. kind \in Kinds /\ IsTrail(multi, kind, trail) /\ IsForm(kind, saved)
      BY <1>1 DEF IInv, FormIsRight
    <3>2. IsTrail(multi, kind, trail')
      BY <2>2, <3>1, RenderedTrail
    <3>3. FormIsRight'
      BY <1>1, <2>2, <3>1, <3>2, FlowAssumption DEF FormIsRight
    <3>4. KeysAreSaved(saved, account, fresh, exported)
      BY DEF IInv, KeysAreInFiles
    <3>5. ASSUME Has(saved, "keys") PROVE ~fresh'
      <4>1. saved # <<>>
        BY <3>5, NothingIsForm DEF Has
      <4> QED BY <2>2, <4>1
    <3>6. KeysAreSaved(saved, a, fresh', exported)
      BY <3>4, <3>5 DEF KeysAreSaved
    <3> QED BY <1>1, <2>2, <3>3, <3>6 DEF KeysAreInFiles
  <2> QED BY <1>1, <2>1, <2>2
<1>3. TransactionIsRight' /\ SubmittedKeysAreSaved' /\ ConfigurationIsTheForm'
  <2>1. place' = "submit" <=> place = "submit"
    BY <1>1
  <2> QED BY <1>1, <2>1, TransactionStays
<1> QED BY <1>1, <1>2, <1>3, AccountsStay DEF IInv

\* What others configure is a payload like that of a form.
LEMMA OthersPayload ==
  ASSUME NEW acc, NEW p \in OtherPayloads(acc)
  PROVE  p[1] \in {"configureBaker", "configureDelegation"} /\ IsPayload(p[1], p[2])
<1> DEFINE registration == [f \in BakerFields \ {"suspended"} |->
             CASE f = "stake" -> MinStake [] f = "restakeEarnings" -> "yes"
               [] f = "openForDelegation" -> "openForAll" [] f = "metadataUrl" -> 0
               [] f = "keys" -> [no |-> 0, account |-> acc.name]
               [] OTHER -> CommissionRange[f].max]
           delegation == [stake |-> 1, restakeEarnings |-> "yes", delegationTarget |-> Passive]
           suspension == convertToBakerSuspensionTransaction("yes")
<1>1. IsPayload("configureBaker", registration)
  <2>1. /\ DOMAIN registration = BakerFields \ {"suspended"}
        /\ registration = [f \in DOMAIN registration |-> registration[f]]
    OBVIOUS
  <2>2. registration.stake = MinStake
    BY DEF BakerFields
  <2> HIDE DEF registration
  <2> QED BY <2>1, <2>2, StakingAssumption DEF IsPayload, Has
<1>2. IsPayload("configureDelegation", delegation)
  BY DEF IsPayload, Has, DelegationFields
<1>3. \A x : /\ IsPayload("configureBaker", [f \in {"restakeEarnings"} |-> x])
             /\ IsPayload("configureDelegation", [f \in {"restakeEarnings"} |-> x])
  BY DEF IsPayload, Has, DelegationFields, BakerFields
<1>4. /\ IsPayload("configureBaker", convertToRemoveTransaction)
      /\ IsPayload("configureDelegation", convertToRemoveTransaction)
  BY DEF IsPayload, Has, DelegationFields, BakerFields, convertToRemoveTransaction
<1>5. IsPayload("configureBaker", suspension)
  BY DEF IsPayload, Has, BakerFields, convertToBakerSuspensionTransaction
<1>6. \/ p = <<"configureBaker", registration>>
      \/ p = <<"configureDelegation", delegation>>
      \/ p \in {<<"configureBaker", suspension>>,
                <<"configureBaker", convertToRemoveTransaction>>,
                <<"configureDelegation", convertToRemoveTransaction>>}
      \/ \E x : p \in {<<"configureBaker", [f \in {"restakeEarnings"} |-> x]>>,
                       <<"configureDelegation", [f \in {"restakeEarnings"} |-> x]>>}
  BY DEF OtherPayloads
<1> HIDE DEF registration, delegation, suspension
<1>7. \E type \in {"configureBaker", "configureDelegation"} : \E q : p = <<type, q>> /\ IsPayload(type, q)
  BY <1>1, <1>2, <1>3, <1>4, <1>5, <1>6
<1> QED BY <1>7

\* Another account takes the place of one.
LEMMA AccountChanges ==
  ASSUME AccountsAreRight, NEW a \in Accounts, NEW acc, IsAccount(acc), acc.name = a,
         chain' = [chain EXCEPT ![a] = acc], info' = info
  PROVE  AccountsAreRight'
BY DEF AccountsAreRight

LEMMA ExecuteIsRight ==
  ASSUME IInv, Execute
  PROVE  IInv'
<1> DEFINE acc == chain[tx.account]
           reasons == Reasons(acc, pool, tx.type, tx.payload, tx.fee)
           after == IF reasons = {} THEN Configured(acc, tx.type, tx.payload) ELSE acc
           outcome == IF tx.nonceOf # tx.account THEN "wrongNonce"
                      ELSE IF reasons = {} THEN "success" ELSE "refused"
           result == [outcome |-> outcome, reasons |-> reasons, before |-> acc, after |-> after,
                      fresh |-> fresh]
           charged == [after EXCEPT !.amount = @ - tx.fee]
<1>1. /\ place = "submit" /\ place' = "menu" /\ Closed /\ UNCHANGED <<info, multi, fresh, exported>>
      /\ tx' = Over(result, tx)
      /\ \/ chain' = chain
         \/ chain' = [chain EXCEPT ![tx.account] = charged]
  BY DEF Execute
<1>2. tx.outcome = "unsent" /\ IsMade(multi, tx)
  BY <1>1 DEF IInv, TransactionIsRight
<1>3. /\ tx.account \in Accounts /\ IsAccount(acc) /\ acc.name = tx.account /\ IsAccount(tx.base)
      /\ tx.kind \in Kinds /\ tx.type = TypeOf(tx.kind) /\ IsForm(tx.kind, tx.form)
      /\ tx.payload = PayloadOf(multi, tx.kind, tx.form, tx.base)
  BY <1>2 DEF IsMade, IInv, AccountsAreRight
<1>4. tx.type \in {"configureBaker", "configureDelegation"} /\ IsPayload(tx.type, tx.payload)
  BY <1>3, PayloadIsRight DEF TypeOf
<1>5. IsAccount(after) /\ after.name = tx.account
  <2>1. CASE reasons = {}
    BY <1>3, <1>4, <2>1, ConfiguredIsAccount
  <2>2. CASE reasons # {}
    BY <1>3, <2>2
  <2> QED BY <2>1, <2>2
<1>6. IsAccount(charged) /\ charged.name = tx.account
  BY <1>5, PaidIsAccount
<1>7. DOMAIN result = {"outcome", "reasons", "before", "after", "fresh"}
  OBVIOUS
<1>8. /\ result.outcome = outcome /\ result.before = acc /\ result.after = after
      /\ result.fresh = fresh
  OBVIOUS
<1>9. outcome \in {"wrongNonce", "success", "refused"} /\ (outcome = "success" => reasons = {})
  OBVIOUS
<1>10. reasons = {} => after = Configured(acc, tx.type, tx.payload)
  OBVIOUS
<1>11. tx' = Over(result, tx)
  BY <1>1
<1> HIDE DEF result
<1>12. /\ tx'.outcome = outcome /\ tx'.before = acc /\ tx'.after = after /\ tx'.fresh = fresh
       /\ tx'.kind = tx.kind /\ tx'.base = tx.base /\ tx'.form = tx.form
       /\ tx'.payload = tx.payload /\ tx'.account = tx.account
  BY <1>2, <1>7, <1>8, <1>11 DEF Over, IsMade
<1> HIDE DEF after, outcome, charged
<1>13. AccountsAreRight'
  <2>1. AccountsAreRight
    BY DEF IInv
  <2> QED BY <1>1, <1>3, <1>6, <2>1, AccountChanges, AccountsStay
<1>14. TransactionKeysAreSaved(tx', fresh', exported')
  <2>1. TransactionKeysAreSaved(tx, fresh, exported)
    BY PropertiesOfTransaction DEF IInv
  <2>2. KeysAreSaved(tx.payload, tx.account, fresh, exported)
    BY <1>2, <2>1 DEF TransactionKeysAreSaved
  <2> QED BY <1>1, <1>9, <1>12, <2>2 DEF TransactionKeysAreSaved
<1>15. TransactionIsTheForm(multi', tx')
  <2> SUFFICES ASSUME tx'.outcome = "success", SameStaking(tx'.base, tx'.before),
                      ~(tx'.kind = "bakerSuspension" /\ multi' = "yes")
               PROVE  /\ \A f \in FieldsOf(tx') : Agrees(tx'.after, tx'.form, f)
                      /\ tx'.kind \in {"removeBaker", "removeDelegation"} => Removed(tx'.after)
    BY DEF TransactionIsTheForm
  <2>1. reasons = {} /\ SameStaking(tx.base, acc) /\ ~(tx.kind = "bakerSuspension" /\ multi = "yes")
    BY <1>1, <1>9, <1>12
  <2>2. FieldsOf(tx') = SetFields(tx.kind, tx.form)
    BY <1>12 DEF FieldsOf, SetFields
  <2>3. Reasons(acc, pool, TypeOf(tx.kind), PayloadOf(multi, tx.kind, tx.form, tx.base), tx.fee) = {}
    BY <1>3, <2>1
  <2>4. tx'.after = Configured(acc, TypeOf(tx.kind), PayloadOf(multi, tx.kind, tx.form, tx.base))
    BY <1>3, <1>10, <1>12, <2>1
  <2> HIDE DEF acc, reasons
  <2>5. /\ \A f \in SetFields(tx.kind, tx.form) : Agrees(tx'.after, tx.form, f)
        /\ tx.kind \in {"removeBaker", "removeDelegation"} => Removed(tx'.after)
    BY <1>3, <2>1, <2>3, <2>4, TakenIsTheForm
  <2> QED BY <1>12, <2>2, <2>5
<1>16. TransactionIsRight'
  BY <1>1, <1>9, <1>12 DEF TransactionIsRight
<1>17. (SubmittedKeysAreSaved <=> TransactionKeysAreSaved(tx, fresh, exported))'
  BY PropertiesOfTransaction, PTL
<1>18. (ConfigurationIsTheForm <=> TransactionIsTheForm(multi, tx))'
  BY PropertiesOfTransaction, PTL
<1>19. FormIsRight' /\ KeysAreInFiles'
  BY <1>1, FormCloses
<1> QED BY <1>13, <1>14, <1>15, <1>16, <1>17, <1>18, <1>19 DEF IInv

LEMMA OthersChangeIsRight ==
  ASSUME AccountsAreRight, NEW a \in Accounts, OthersChange(a), info' = info
  PROVE  AccountsAreRight'
<1> DEFINE acc == chain[a]
<1>1. IsAccount(acc) /\ acc.name = a
  BY DEF AccountsAreRight
<1>2. \E new : IsAccount(new) /\ new.name = a /\ chain' = [chain EXCEPT ![a] = new]
  <2>1. ASSUME NEW p \in OtherPayloads(acc), Reasons(acc, pool, p[1], p[2], 0) = {},
               chain' = [chain EXCEPT ![a] = Configured(acc, p[1], p[2])]
        PROVE  \E new : IsAccount(new) /\ new.name = a /\ chain' = [chain EXCEPT ![a] = new]
    <3>1. IsAccount(Configured(acc, p[1], p[2])) /\ Configured(acc, p[1], p[2]).name = a
      BY <1>1, <2>1, OthersPayload, ConfiguredIsAccount
    <3> QED BY <2>1, <3>1
  <2>2. CASE chain' = [chain EXCEPT ![a].amount = @ - Spent]
    <3>1. chain' = [chain EXCEPT ![a] = [acc EXCEPT !.amount = acc.amount - Spent]]
      BY <2>2
    <3>2. /\ IsAccount([acc EXCEPT !.amount = acc.amount - Spent])
          /\ [acc EXCEPT !.amount = acc.amount - Spent].name = a
      BY <1>1, PaidIsAccount
    <3> QED BY <3>1, <3>2
  <2>3. CASE hasPendingChange(acc) /\ chain' = [chain EXCEPT ![a] = Settled(acc)]
    <3>1. IsAccount(Settled(acc)) /\ Settled(acc).name = a
      BY <1>1, <2>3, SettledIsAccount
    <3> QED BY <2>3, <3>1
  <2> QED BY <2>1, <2>2, <2>3 DEF OthersChange
<1> QED BY <1>2, AccountChanges

LEMMA ChangeIsRight ==
  ASSUME IInv, Change
  PROVE  IInv'
<1>1. /\ fresh' = FALSE
      /\ UNCHANGED <<info, multi, place, kind, account, trail, values, saved, tx, exported>>
      /\ chain' = chain \/ \E a \in Accounts : OthersChange(a)
  BY DEF Change, PoolChanges, formVars
<1>2. AccountsAreRight'
  BY <1>1, OthersChangeIsRight, AccountsStay DEF IInv
<1> QED BY <1>1, <1>2, FormStays, TransactionStays DEF IInv

LEMMA UpdateIsRight ==
  ASSUME IInv, NEW a \in Accounts, UpdateInfo(a)
  PROVE  IInv'
<1>1. /\ info' = [info EXCEPT ![a] = chain[a]]
      /\ UNCHANGED <<chain, multi, fresh, tx, exported>>
      /\ \/ place = "form" /\ place' = "menu" /\ Closed
         \/ UNCHANGED <<place, kind, account, trail, values, saved>>
  BY DEF UpdateInfo, chainVars, formVars
<1>2. AccountsAreRight'
  BY <1>1 DEF IInv, AccountsAreRight
<1>3. FormIsRight' /\ KeysAreInFiles'
  BY <1>1, FormCloses, FormStays
<1>4. place' = "submit" <=> place = "submit"
  BY <1>1
<1> QED BY <1>1, <1>2, <1>3, <1>4, TransactionStays DEF IInv

THEOREM InvariantHolds == Spec => []IInv
<1>1. Init => IInv
  BY InitIsRight
<1>2. IInv /\ [Step]_vars => IInv'
  <2> SUFFICES ASSUME IInv, [Step]_vars PROVE IInv'
    OBVIOUS
  <2>1. CASE UNCHANGED vars
    <3>1. UNCHANGED <<multi, place, kind, account, trail, values, saved, exported, fresh, tx, chain, info>>
      BY <2>1 DEF vars
    <3> QED BY <3>1, FormStays, TransactionStays, AccountsStay DEF IInv
  <2>2. CASE Step
    <3>1. CASE \E k \in Kinds : StartMulti(k) \/ \E a \in Accounts : StartSingle(k, a) \/ StartRedirected(k, a)
      BY <3>1, StartIsRight
    <3>2. CASE \E a \in Accounts : NonceArrives(a) \/ PickAccount(a) \/ SwitchAccount(a) \/ UpdateInfo(a)
      BY <3>2, NonceIsRight, PickIsRight, SwitchIsRight, UpdateIsRight
    <3>3. CASE place = "form" /\ \E v \in PageInputs(Shown) : Next(v)
      BY <3>3, NextIsRight
    <3>4. CASE GenerateBakerKeys \/ ExportKeys \/ ContinueWithKeys
      BY <3>4, GenerateIsRight, ExportIsRight, ContinueIsRight
    <3>5. CASE Leave \/ Back \/ BackToForm \/ Execute \/ Change
      BY <3>5, LeaveIsRight, BackIsRight, BackToFormIsRight, ExecuteIsRight, ChangeIsRight
    <3> QED BY <2>2, <3>1, <3>2, <3>3, <3>4, <3>5 DEF Step
  <2> QED BY <2>1, <2>2
<1> QED BY <1>1, <1>2, PTL DEF Spec

-----------------------------------------------------------------------------
(* Why the chain does not refuse what the pages have let through. *)
Checked(role) ==
  {"InCooldown", "StakeUnderMinimum", "CommissionNotInRange", "InvalidProof",
   "AlreadyABaker", "AlreadyADelegator", "MissingAddParameters", "PoolClosed"}
    \cup (IF role = "None" THEN {"InsufficientBalanceForStake"} ELSE {})

\* A stake the account may set, and can pay for if it has none yet.
IsSettable(i, p, fee, minimum) ==
  Has(p, "stake") =>
    /\ i.role # "None" => ~hasPendingChange(i)
    /\ p.stake # 0 => ~(p.stake < minimum)
    /\ i.role = "None" => p.stake + fee <= i.amount

LEMMA StakeIsNotRefused ==
  ASSUME NEW i, NEW p, NEW fee, NEW minimum, IsSettable(i, p, fee, minimum)
  PROVE  StakeReasons(i, p, fee, minimum) \cap Checked(i.role) = {}
<1>1. CASE ~Has(p, "stake")
  BY <1>1 DEF StakeReasons
<1>2. CASE Has(p, "stake")
  <2>1. ~(i.role # "None" /\ hasPendingChange(i)) /\ ~(p.stake # 0 /\ p.stake < minimum)
    BY <1>2 DEF IsSettable
  <2>2. StakeReasons(i, p, fee, minimum)
          = When(~(p.stake + fee <= i.amount), "InsufficientBalanceForStake")
    BY <1>2, <2>1 DEF StakeReasons, When
  <2>3. i.role = "None" => p.stake + fee <= i.amount
    BY <1>2 DEF IsSettable
  <2>4. CASE i.role = "None"
    BY <2>2, <2>3, <2>4 DEF When
  <2>5. CASE i.role # "None"
    BY <2>2, <2>5 DEF When, Checked
  <2> QED BY <2>4, <2>5
<1> QED BY <1>1, <1>2

LEMMA BakerIsNotRefused ==
  ASSUME NEW i, NEW thePool, NEW p, NEW fee,
         i.role # "Delegator", i.role = "None" => BakerFields \ {"suspended"} \subseteq DOMAIN p,
         IsSettable(i, p, fee, MinStake),
         \A f \in CommissionFields : Has(p, f) => InRange(f, p[f]),
         Has(p, "keys") => p.keys.account = i.name
  PROVE  Reasons(i, thePool, "configureBaker", p, fee) \cap Checked(i.role) = {}
<1>1. CASE AtDisposal(i) < fee
  <2>1. Reasons(i, thePool, "configureBaker", p, fee) = {"InsufficientFee"}
    BY <1>1 DEF Reasons
  <2> QED BY <2>1 DEF Checked
<1>2. CASE ~(AtDisposal(i) < fee)
  <2>1. Reasons(i, thePool, "configureBaker", p, fee) = BakerReasons(i, p, fee)
    BY <1>2 DEF Reasons
  <2>2. CommissionReasons(p) = {} /\ KeyReasons(i, p) = {}
    BY DEF CommissionReasons, KeyReasons, When
  <2>3. BakerReasons(i, p, fee) = StakeReasons(i, p, fee, MinStake)
    BY <2>2 DEF BakerReasons, When
  <2> QED BY <2>1, <2>3, StakeIsNotRefused
<1> QED BY <1>1, <1>2

LEMMA DelegationIsNotRefused ==
  ASSUME NEW i, NEW thePool, NEW p, NEW fee, IsAccount(i),
         i.role # "Baker", i.role = "None" => DelegationFields \subseteq DOMAIN p,
         IsSettable(i, p, fee, 0),
         Has(p, "delegationTarget") =>
           \/ p.delegationTarget = Passive
           \/ validateBakerId(p.delegationTarget, i, thePool)
  PROVE  Reasons(i, thePool, "configureDelegation", p, fee) \cap Checked(i.role) = {}
<1>1. CASE AtDisposal(i) < fee
  <2>1. Reasons(i, thePool, "configureDelegation", p, fee) = {"InsufficientFee"}
    BY <1>1 DEF Reasons
  <2> QED BY <2>1 DEF Checked
<1>2. CASE ~(AtDisposal(i) < fee)
  <2>1. Reasons(i, thePool, "configureDelegation", p, fee) = DelegationReasons(i, thePool, p, fee)
    BY <1>2 DEF Reasons
  <2> DEFINE existing == getExistingDelegationValues(i)
             new == Over(p, existing)
             moves == ~Has(existing, "delegationTarget") \/ existing.delegationTarget # new.delegationTarget
  <2>2. ASSUME DelegationFields \subseteq DOMAIN new, new.delegationTarget # Passive
        PROVE  ~(moves /\ thePool.openStatus # "openForAll")
    <3>1. /\ "delegationTarget" \in DOMAIN new
          /\ Has(p, "delegationTarget") => new.delegationTarget = p.delegationTarget
          /\ ~Has(p, "delegationTarget") =>
               Has(existing, "delegationTarget") /\ new.delegationTarget = existing.delegationTarget
      BY <2>2 DEF Over, Has, DelegationFields
    <3>2. CASE ~Has(p, "delegationTarget")
      BY <3>1, <3>2
    <3>3. CASE Has(p, "delegationTarget")
      <4> DEFINE target == p.delegationTarget
      <4>1. \/ Only(existing, {"delegationTarget"}) = [f \in {"delegationTarget"} |-> target]
            \/ thePool.openStatus = "openForAll"
        BY <2>2, <3>1, <3>3 DEF validateBakerId
      <4>2. ASSUME Only(existing, {"delegationTarget"}) = [f \in {"delegationTarget"} |-> target]
            PROVE  Has(existing, "delegationTarget") /\ existing.delegationTarget = target
        <5>1. DOMAIN Only(existing, {"delegationTarget"}) = DOMAIN existing \cap {"delegationTarget"}
          BY DEF Only
        <5>2. "delegationTarget" \in DOMAIN Only(existing, {"delegationTarget"})
          BY <4>2
        <5>3. Only(existing, {"delegationTarget"})["delegationTarget"] = target
          BY <4>2
        <5> HIDE DEF existing, target
        <5> QED BY <5>1, <5>2, <5>3 DEF Only, Has
      <4> QED BY <3>1, <3>3, <4>1, <4>2
    <3> QED BY <3>2, <3>3
  <2>3. PoolReasons(i, thePool, p) \subseteq {"PoolWouldBecomeOverDelegated"}
    <3>1. CASE ~(DelegationFields \subseteq DOMAIN new) \/ new.delegationTarget = Passive
      BY <3>1 DEF PoolReasons
    <3>2. CASE DelegationFields \subseteq DOMAIN new /\ new.delegationTarget # Passive
      <4>1. ~(moves /\ thePool.openStatus # "openForAll")
        BY <2>2, <3>2
      <4> QED BY <3>2, <4>1 DEF PoolReasons, When
    <3> QED BY <3>1, <3>2
  <2>4. DelegationReasons(i, thePool, p, fee)
          = StakeReasons(i, p, fee, 0) \cup PoolReasons(i, thePool, p)
    BY DEF DelegationReasons, When
  <2>5. StakeReasons(i, p, fee, 0) \cap Checked(i.role) = {}
    BY StakeIsNotRefused
  <2>6. "PoolWouldBecomeOverDelegated" \notin Checked(i.role)
    BY DEF Checked
  <2> QED BY <2>1, <2>3, <2>4, <2>5, <2>6
<1> QED BY <1>1, <1>2

\* What a form has was let through for the account i named acc as it is.
AreValid(k, i, acc, thePool, v) ==
  /\ Has(v, "stake") =>
       /\ i.role # "None" => ~hasPendingChange(i)
       /\ TypeOf(k) = "configureBaker" =>
            \/ MinStake <= v.stake
            \/ i.role = "Baker" /\ v.stake = i.config.stake
  /\ \A f \in CommissionFields : Has(v, f) => v[f].n \in Nat /\ InRange(f, v[f].n)
  /\ Has(v, "keys") => v.keys.account = acc
  /\ Has(v, "delegationTarget") =>
       v.delegationTarget = Passive \/ validateBakerId(v.delegationTarget, i, thePool)

\* The last of its parts does not take a commission out of its range.
LEMMA CommissionStaysInRange ==
  ASSUME NEW f \in CommissionFields, NEW d, d.n \in Nat, InRange(f, d.n)
  PROVE  InRange(f, decimalToRewardFraction(d))
<1> DEFINE lo == CommissionRange[f].min
           hi == CommissionRange[f].max
<1>1. lo \in Nat /\ hi \in Nat /\ FallsShort \cap {lo, hi} = {} /\ lo <= d.n /\ d.n <= hi
  BY StakingAssumption DEF InRange
<1>2. decimalToRewardFraction(d) = IF d.n \in FallsShort THEN d.n - 1 ELSE d.n
  BY DEF decimalToRewardFraction
<1>3. d.n \in FallsShort => d.n # lo
  BY <1>1
<1> HIDE DEF lo, hi
<1>4. lo <= decimalToRewardFraction(d) /\ decimalToRewardFraction(d) <= hi
  BY <1>1, <1>2, <1>3
<1> QED BY <1>4 DEF InRange, lo, hi

\* The values of a validator's payload: they differ from the existing ones.
LEMMA BakerPayloadDiffers ==
  ASSUME NEW v, NEW existing
  PROVE  LET p == convertToBakerTransaction(v, existing)
         IN  /\ \A f \in DOMAIN p : f \in DOMAIN v /\ (~Has(existing, f) \/ existing[f] # v[f])
             /\ \A f \in DOMAIN p : f \in CommissionFields => p[f] = decimalToRewardFraction(v[f])
             /\ (\A f \in DOMAIN v : ~Has(existing, f)) => DOMAIN p = DOMAIN v
<1> DEFINE c == getBakerFlowChanges(v, existing)
           p == convertToBakerTransaction(v, existing)
<1>1. /\ \A f \in DOMAIN c : f \in DOMAIN v /\ c[f] = v[f] /\ (~Has(existing, f) \/ existing[f] # v[f])
      /\ (\A f \in DOMAIN v : ~Has(existing, f)) => DOMAIN c = DOMAIN v
  BY DEF getBakerFlowChanges, Only
<1>2. p = [f \in DOMAIN c |->
            IF f \in CommissionFields THEN decimalToRewardFraction(c[f]) ELSE c[f]]
  BY DEF convertToBakerTransaction, toConfigureBakerPayload
<1> HIDE DEF c, p
<1>3. DOMAIN p = DOMAIN c /\ \A f \in DOMAIN p : f \in CommissionFields => p[f] = decimalToRewardFraction(c[f])
  BY <1>2
<1>4. /\ \A f \in DOMAIN p : f \in DOMAIN v /\ (~Has(existing, f) \/ existing[f] # v[f])
      /\ \A f \in DOMAIN p : f \in CommissionFields => p[f] = decimalToRewardFraction(v[f])
      /\ (\A f \in DOMAIN v : ~Has(existing, f)) => DOMAIN p = DOMAIN v
  BY <1>1, <1>3
<1> QED BY <1>4 DEF p

LEMMA AddBakerIsNotRefused ==
  ASSUME NEW m, NEW v, NEW i, NEW thePool, NEW fee, IsForm("addBaker", v), i.role = "None",
         AreValid("addBaker", i, i.name, thePool, v), BakerFields \ {"suspended"} \subseteq DOMAIN v,
         v.stake + fee <= i.amount
  PROVE  Reasons(i, thePool, "configureBaker", PayloadOf(m, "addBaker", v, i), fee)
           \cap Checked(i.role) = {}
<1> DEFINE p == convertToBakerTransaction(v, <<>>)
<1>1. PayloadOf(m, "addBaker", v, i) = p
  BY DEF PayloadOf
<1>2. \A f : ~Has(<<>>, f)
  <2>1. DOMAIN <<>> = {}
    OBVIOUS
  <2> QED BY <2>1 DEF Has
<1>3. DOMAIN p = DOMAIN v /\ \A f \in DOMAIN p : f \in CommissionFields => p[f] = decimalToRewardFraction(v[f])
  BY <1>2, BakerPayloadDiffers
<1>4. \A f \in DOMAIN p : f \notin CommissionFields => p[f] = v[f]
  BY BakerPayloadIsForm
<1> HIDE DEF p
<1>5. Has(p, "stake") => p.stake = v.stake /\ MinStake <= v.stake /\ v.stake \in Nat
  BY <1>3, <1>4, FieldsAreDistinct DEF Has, AreValid, TypeOf, DelegationKinds, IsForm
<1>6. IsSettable(i, p, fee, MinStake)
  BY <1>5, StakingAssumption DEF IsSettable
<1>7. \A f \in CommissionFields : Has(p, f) => InRange(f, p[f])
  BY <1>3, CommissionStaysInRange DEF Has, AreValid
<1>8. Has(p, "keys") => p.keys.account = i.name
  BY <1>3, <1>4, FieldsAreDistinct DEF Has, AreValid
<1> QED BY <1>1, <1>3, <1>6, <1>7, <1>8, BakerIsNotRefused

LEMMA UpdateStakeIsNotRefused ==
  ASSUME NEW m, NEW k \in {"updateBakerStake", "updateBakerKeys"}, NEW v, NEW i, NEW thePool, NEW fee,
         IsForm(k, v), IsAccount(i), i.role = "Baker", AreValid(k, i, i.name, thePool, v)
  PROVE  Reasons(i, thePool, "configureBaker", PayloadOf(m, k, v, i), fee) \cap Checked(i.role) = {}
<1>1. PICK e : /\ PayloadOf(m, k, v, i) = convertToBakerTransaction(v, e)
               /\ k = "updateBakerStake" => e = getExistingBakerValues(i)
  BY DEF PayloadOf
<1> DEFINE p == convertToBakerTransaction(v, e)
<1>2. \A f \in DOMAIN p : f \in DOMAIN v /\ (~Has(e, f) \/ e[f] # v[f])
  BY BakerPayloadDiffers
<1>3. \A f \in DOMAIN p : f \notin CommissionFields => p[f] = v[f]
  BY BakerPayloadIsForm
<1> HIDE DEF p
<1>4. DOMAIN v \subseteq (IF k = "updateBakerStake" THEN {"stake", "restakeEarnings"} ELSE {"keys"})
  BY DEF IsForm, FormFields
<1>5. Has(p, "stake") => p.stake = v.stake /\ v.stake \in Nat /\ MinStake <= v.stake /\ ~hasPendingChange(i)
  <2> SUFFICES ASSUME Has(p, "stake")
               PROVE  p.stake = v.stake /\ v.stake \in Nat /\ MinStake <= v.stake /\ ~hasPendingChange(i)
    OBVIOUS
  <2>1. Has(v, "stake") /\ p.stake = v.stake /\ k = "updateBakerStake"
    BY <1>2, <1>3, <1>4, FieldsAreDistinct DEF Has
  <2>2. e = [f \in BakerFields \ {"keys"} |->
              IF f \in CommissionFields THEN Decimal(i.config[f]) ELSE i.config[f]]
    BY <1>1, <2>1 DEF getExistingBakerValues, isBakerAccount
  <2>3. Has(e, "stake") /\ e.stake = i.config.stake
    BY <2>2, FieldsAreDistinct DEF Has, BakerFields
  <2>4. v.stake # i.config.stake
    BY <1>2, <2>3 DEF Has
  <2>5. MinStake <= v.stake /\ ~hasPendingChange(i)
    BY <2>1, <2>4 DEF AreValid, TypeOf, DelegationKinds
  <2> QED BY <2>1, <2>5 DEF IsForm
<1>6. IsSettable(i, p, fee, MinStake)
  BY <1>5, StakingAssumption DEF IsSettable
<1>7. \A f \in CommissionFields : Has(p, f) => InRange(f, p[f])
  BY <1>2, <1>4 DEF Has, CommissionFields
<1>8. Has(p, "keys") => p.keys.account = i.name
  BY <1>2, <1>3, FieldsAreDistinct DEF Has, AreValid
<1>9. Reasons(i, thePool, "configureBaker", p, fee) \cap Checked(i.role) = {}
  BY <1>6, <1>7, <1>8, BakerIsNotRefused
<1> QED BY <1>1, <1>9 DEF p

LEMMA UpdatePoolIsNotRefused ==
  ASSUME NEW m, NEW v, NEW i, NEW thePool, NEW fee, IsForm("updateBakerPool", v), IsAccount(i),
         i.role = "Baker", AreValid("updateBakerPool", i, i.name, thePool, v)
  PROVE  Reasons(i, thePool, "configureBaker", PayloadOf(m, "updateBakerPool", v, i), fee)
           \cap Checked(i.role) = {}
<1> DEFINE s == getSanitizedBakerPoolValues(v, i)
           e == getExistingBakerValues(i)
           p == convertToBakerTransaction(s, e)
           closes == Has(v, "openForDelegation") /\ v.openForDelegation = "closedForAll"
<1>1. PayloadOf(m, "updateBakerPool", v, i) = p
  BY DEF PayloadOf, convertToUpdateBakerPoolTransaction
<1>2. /\ \A f \in DOMAIN p : f \in DOMAIN s /\ (~Has(e, f) \/ e[f] # s[f])
      /\ \A f \in DOMAIN p : f \in CommissionFields => p[f] = decimalToRewardFraction(s[f])
  BY BakerPayloadDiffers
<1>3. /\ DOMAIN s \subseteq DOMAIN v \cup CommissionFields
      /\ ~closes => s = v
      /\ closes => \A f \in DOMAIN s : f \in CommissionFields => Has(e, f) /\ s[f] = e[f]
  <2>1. DOMAIN s \subseteq DOMAIN v \cup CommissionFields
    BY SanitizedValues
  <2>2. ~closes => s = v
    BY DEF getSanitizedBakerPoolValues
  <2>3. ASSUME closes, NEW f \in DOMAIN s, f \in CommissionFields
        PROVE  Has(e, f) /\ s[f] = e[f]
    <3> DEFINE kept == Only(e, CommissionFields)
               rest == Only(v, DOMAIN v \ CommissionFields)
    <3>1. s = Over(kept, rest)
      BY <2>3 DEF getSanitizedBakerPoolValues
    <3>2. f \notin DOMAIN rest
      BY <2>3 DEF Only
    <3> HIDE DEF rest, s, e
    <3>3. f \in DOMAIN kept /\ s[f] = kept[f]
      BY <3>1, <3>2, <2>3 DEF Over
    <3> QED BY <3>3 DEF Only, Has
  <2> QED BY <2>1, <2>2, <2>3
<1> HIDE DEF s, e, p, closes
<1>4. DOMAIN p \cap {"stake", "keys"} = {}
  BY <1>2, <1>3 DEF IsForm, FormFields, CommissionFields
<1>5. ASSUME NEW f \in CommissionFields, Has(p, f)
      PROVE  InRange(f, p[f])
  <2>1. ~closes /\ s = v
    BY <1>2, <1>3, <1>5 DEF Has
  <2>2. v[f].n \in Nat /\ InRange(f, v[f].n)
    BY <1>2, <1>5, <2>1 DEF Has, AreValid
  <2> QED BY <1>2, <1>5, <2>1, <2>2, CommissionStaysInRange DEF Has
<1>6. IsSettable(i, p, fee, MinStake) /\ ~Has(p, "keys")
  BY <1>4 DEF IsSettable, Has
<1> QED BY <1>1, <1>5, <1>6, BakerIsNotRefused

LEMMA SuspensionIsNotRefused ==
  ASSUME NEW m, NEW v, NEW i, NEW thePool, NEW fee, i.role = "Baker"
  PROVE  Reasons(i, thePool, "configureBaker", PayloadOf(m, "bakerSuspension", v, i), fee)
           \cap Checked(i.role) = {}
<1>1. PICK x : PayloadOf(m, "bakerSuspension", v, i) = [f \in {"suspended"} |-> x]
  BY DEF PayloadOf, convertToBakerSuspensionTransaction
<1> DEFINE p == PayloadOf(m, "bakerSuspension", v, i)
<1>2. DOMAIN p = {"suspended"}
  BY <1>1
<1> HIDE DEF p
<1>3. IsSettable(i, p, fee, MinStake) /\ ~Has(p, "keys")
  BY <1>2 DEF IsSettable, Has
<1>4. \A f \in CommissionFields : ~Has(p, f)
  BY <1>2 DEF CommissionFields, Has
<1>5. Reasons(i, thePool, "configureBaker", p, fee) \cap Checked(i.role) = {}
  BY <1>3, <1>4, BakerIsNotRefused
<1> QED BY <1>5 DEF p

LEMMA RemovalIsNotRefused ==
  ASSUME NEW m, NEW k \in {"removeBaker", "removeDelegation"}, NEW v, NEW i, NEW thePool, NEW fee,
         IsAccount(i), i.role = (IF k = "removeBaker" THEN "Baker" ELSE "Delegator"),
         ~hasPendingChange(i)
  PROVE  Reasons(i, thePool, TypeOf(k), PayloadOf(m, k, v, i), fee) \cap Checked(i.role) = {}
<1> DEFINE p == PayloadOf(m, k, v, i)
<1>1. p = [f \in {"stake"} |-> 0]
  BY DEF PayloadOf, convertToRemoveTransaction
<1>2. DOMAIN p = {"stake"} /\ p.stake = 0
  BY <1>1
<1> HIDE DEF p
<1>3. \A minimum : IsSettable(i, p, fee, minimum)
  BY <1>2 DEF IsSettable
<1>4. ~Has(p, "keys") /\ ~Has(p, "delegationTarget") /\ \A f \in CommissionFields : ~Has(p, f)
  BY <1>2 DEF CommissionFields, Has
<1>5. CASE k = "removeBaker"
  <2>1. TypeOf(k) = "configureBaker"
    BY <1>5 DEF TypeOf, DelegationKinds
  <2>2. Reasons(i, thePool, "configureBaker", p, fee) \cap Checked(i.role) = {}
    BY <1>3, <1>4, <1>5, BakerIsNotRefused
  <2> QED BY <2>1, <2>2 DEF p
<1>6. CASE k = "removeDelegation"
  <2>1. TypeOf(k) = "configureDelegation"
    BY <1>6 DEF TypeOf, DelegationKinds
  <2>2. Reasons(i, thePool, "configureDelegation", p, fee) \cap Checked(i.role) = {}
    BY <1>3, <1>4, <1>6, DelegationIsNotRefused
  <2> QED BY <2>1, <2>2 DEF p
<1> QED BY <1>5, <1>6

LEMMA DelegatorIsNotRefused ==
  ASSUME NEW m, NEW k \in {"addDelegation", "updateDelegation"}, NEW v, NEW i, NEW thePool, NEW fee,
         IsForm(k, v), IsAccount(i), i.role # "Baker", AreValid(k, i, i.name, thePool, v),
         i.role = "None" => DelegationFields \subseteq DOMAIN v /\ v.stake + fee <= i.amount
  PROVE  Reasons(i, thePool, "configureDelegation", PayloadOf(m, k, v, i), fee) \cap Checked(i.role) = {}
<1> DEFINE e == getExistingDelegationValues(i)
           p == getBakerFlowChanges(v, e)
<1>1. PayloadOf(m, k, v, i) = p
  BY DEF PayloadOf, convertToConfigureDelegationTransaction, getDelegationFlowChanges
<1>2. /\ \A f \in DOMAIN p : f \in DOMAIN v /\ p[f] = v[f]
      /\ \A f \in DOMAIN v : f \notin DOMAIN p => Has(e, f)
  BY ChangesAreAll
<1>3. i.role = "None" => \A f : ~Has(e, f)
  <2>1. DOMAIN <<>> = {}
    OBVIOUS
  <2> QED BY <2>1 DEF getExistingDelegationValues, isDelegatorAccount, Has
<1> HIDE DEF p, e
<1>4. i.role = "None" => DelegationFields \subseteq DOMAIN p
  BY <1>2, <1>3
<1>5. IsSettable(i, p, fee, 0)
  <2>1. Has(p, "stake") => Has(v, "stake") /\ p.stake = v.stake /\ v.stake \in Nat
    BY <1>2 DEF Has, IsForm
  <2> QED BY <2>1 DEF IsSettable, AreValid
<1>6. Has(p, "delegationTarget") =>
        p.delegationTarget = Passive \/ validateBakerId(p.delegationTarget, i, thePool)
  BY <1>2 DEF Has, AreValid
<1> QED BY <1>1, <1>4, <1>5, <1>6, DelegationIsNotRefused

-----------------------------------------------------------------------------
(* The order of the pages. *)
\* The page q comes before that page.
Before(k, q, page) ==
  \/ page = "expiry" /\ q \in PageNames(k)
  \/ \E i, j \in DOMAIN FlowPages[k] : i < j /\ FlowPages[k][i] = q /\ FlowPages[k][j] = page

LEMMA PagesAreDistinct ==
  ASSUME NEW k, k \in Kinds
  PROVE  /\ Len(FlowPages[k]) \in Nat \ {0} /\ DOMAIN FlowPages[k] = 1 .. Len(FlowPages[k])
         /\ \A i, j \in DOMAIN FlowPages[k] : FlowPages[k][i] = FlowPages[k][j] => i = j
         /\ PageNames(k) \cap {"account", "expiry"} = {}
<1>1. Len(FlowPages[k]) \in Nat \ {0} /\ DOMAIN FlowPages[k] = 1 .. Len(FlowPages[k])
  <2>1. FlowPages[k] \in Seq(PageNames(k)) /\ Len(FlowPages[k]) > 0
    BY PagesOfForm
  <2> HIDE DEF PageNames
  <2> QED BY <2>1
<1>2. PageNames(k) \cap {"account", "expiry"} = {}
  BY PagesOfForm, KindOfForm
<1>3. \A i, j \in DOMAIN FlowPages[k] : FlowPages[k][i] = FlowPages[k][j] => i = j
  <2>1. CASE k = "addBaker"
    <3>1. FlowPages[k] = <<"stake", "openForDelegation", "commissions", "metadataUrl", "keys">>
      BY <2>1 DEF FlowPages, AddBaker
    <3> QED BY <3>1
  <2>2. CASE k = "updateBakerPool"
    <3>1. FlowPages[k] = <<"openForDelegation", "commissions", "metadataUrl">>
      BY <2>2 DEF FlowPages, UpdateBakerPool
    <3> QED BY <3>1
  <2>3. CASE k \in {"addDelegation", "updateDelegation"}
    <3>1. FlowPages[k] = <<"delegationTarget", "delegate">>
      BY <2>3 DEF FlowPages, ConfigureDelegation
    <3> QED BY <3>1
  <2>4. CASE k \in {"updateBakerStake", "updateBakerKeys", "removeBaker", "removeDelegation",
                    "bakerSuspension"}
    <3>1. \E page : FlowPages[k] = <<page>>
      BY <2>4 DEF FlowPages, UpdateBakerStake, UpdateBakerKeys, RemoveBaker, RemoveDelegation,
                  BakerSuspension
    <3> QED BY <3>1
  <2> QED BY <2>1, <2>2, <2>3, <2>4, KindOfForm
<1> QED BY <1>1, <1>2, <1>3

\* Before a page of the form are the earlier ones, before the account's there is none.
LEMMA PagesBefore ==
  ASSUME NEW k, k \in Kinds
  PROVE  /\ \A q, j \in DOMAIN FlowPages[k] :
              Before(k, FlowPages[k][q], FlowPages[k][j]) <=> q < j
         /\ \A q : ~Before(k, q, "account")
         /\ \A q : ~Before(k, q, FlowPages[k][1])
         /\ \A q \in PageNames(k) : Before(k, q, "expiry")
         /\ \A q, page : Before(k, q, page) => q \in PageNames(k)
<1> DEFINE M == FlowPages[k]
           Names == {M[i] : i \in DOMAIN M}
<1>1. /\ Len(M) \in Nat \ {0} /\ DOMAIN M = 1 .. Len(M)
      /\ \A i, j \in DOMAIN M : M[i] = M[j] => i = j
      /\ "account" \notin Names /\ "expiry" \notin Names
  BY PagesAreDistinct DEF PageNames
<1>2. \A q, page : Before(k, q, page) <=>
        \/ page = "expiry" /\ q \in Names
        \/ \E i, j \in DOMAIN M : i < j /\ M[i] = q /\ M[j] = page
  BY DEF Before, PageNames
<1>3. PageNames(k) = Names
  BY DEF PageNames
<1> HIDE DEF M
<1>4. ASSUME NEW q \in DOMAIN M, NEW j \in DOMAIN M
      PROVE  Before(k, M[q], M[j]) <=> q < j
  <2>1. M[j] # "expiry"
    BY <1>1
  <2> QED BY <1>1, <1>2, <2>1
<1>5. \A q : ~Before(k, q, "account")
  BY <1>1, <1>2
<1>6. \A q : ~Before(k, q, M[1])
  <2>1. 1 \in DOMAIN M
    BY <1>1
  <2>2. M[1] # "expiry"
    BY <1>1, <2>1
  <2>3. ASSUME NEW i \in DOMAIN M, NEW j \in DOMAIN M, i < j, M[j] = M[1]
        PROVE  FALSE
    <3>1. j = 1
      BY <1>1, <2>1, <2>3
    <3> QED BY <1>1, <2>3, <3>1
  <2> QED BY <1>2, <2>2, <2>3
<1>7. \A q \in Names : Before(k, q, "expiry")
  BY <1>2
<1>8. \A q, page : Before(k, q, page) => q \in Names
  BY <1>2
<1> QED BY <1>3, <1>4, <1>5, <1>6, <1>7, <1>8 DEF M

\* Before the next page are the shown one and those before it.
LEMMA NextComesAfter ==
  ASSUME kind \in Kinds, Shown \in Showable, ~IsLastPage
  PROVE  /\ NextPage # "account"
         /\ \A q : Before(kind, q, NextPage) => q = Shown \/ Before(kind, q, Shown)
<1> DEFINE M == FlowPages[kind]
           at == CHOOSE i \in DOMAIN Pages : Pages[i] = Shown
<1>1. /\ Len(Pages) \in Nat \ {0} /\ DOMAIN Pages = 1 .. Len(Pages)
      /\ \E i \in DOMAIN Pages : Pages[i] = Shown
      /\ \E n : AreInOrder(Pages, multi, kind, n)
  BY PagesAreFormPages
<1>2. PICK n : AreInOrder(Pages, multi, kind, n)
  BY <1>1
<1>3. at \in DOMAIN Pages /\ Pages[at] = Shown
  BY <1>1
<1>4. NextPage = Pages[1 + at]
  BY DEF NextPage
<1> HIDE DEF at
<1>5. at # Len(Pages)
  BY <1>3 DEF IsLastPage
<1>6. /\ n \in {0, 1} /\ Len(M) \in Nat \ {0} /\ DOMAIN M = 1 .. Len(M)
      /\ at \in 1 .. Len(Pages) /\ 1 + at \in 1 .. Len(Pages)
      /\ Len(Pages) = n + Len(M) + (IF multi = "yes" THEN 1 ELSE 0)
      /\ \A i \in 1 .. Len(Pages) :
           \/ i = n /\ Pages[i] = "account"
           \/ i - n \in DOMAIN M /\ Pages[i] = M[i - n]
           \/ i = Len(Pages) /\ multi = "yes" /\ Pages[i] = "expiry"
  <2>1. Len(M) \in Nat \ {0} /\ DOMAIN M = 1 .. Len(M)
    BY PagesAreDistinct
  <2>2. at \in 1 .. Len(Pages) /\ 1 + at \in 1 .. Len(Pages)
    BY <1>1, <1>3, <1>5
  <2> QED BY <1>2, <2>1, <2>2 DEF AreInOrder
<1>7. /\ PageNames(kind) = {M[i] : i \in DOMAIN M}
      /\ "account" \notin PageNames(kind)
  BY PagesAreDistinct DEF PageNames
<1>8. /\ \A i, j \in DOMAIN M : Before(kind, M[i], M[j]) <=> i < j
      /\ \A q : ~Before(kind, q, M[1])
      /\ \A q, page : Before(kind, q, page) => q \in PageNames(kind)
  BY PagesBefore
<1> HIDE DEF M
<1>9. \/ at = n
      \/ at - n \in DOMAIN M /\ Shown = M[at - n]
  <2>1. ~(at = Len(Pages))
    BY <1>5
  <2> QED BY <1>3, <1>6, <2>1
<1>10. \/ (1 + at) - n \in DOMAIN M /\ NextPage = M[(1 + at) - n]
       \/ NextPage = "expiry" /\ 1 + at = n + Len(M) + 1
  <2>1. 1 + at # n
    BY <1>6
  <2> QED BY <1>4, <1>6, <2>1
<1>11. NextPage # "account"
  BY <1>7, <1>10
<1>12. ASSUME NEW q, Before(kind, q, NextPage)
       PROVE  q = Shown \/ Before(kind, q, Shown)
  <2>1. PICK j \in DOMAIN M : q = M[j]
    BY <1>7, <1>8, <1>12
  <2>2. CASE at = n
    <3>1. NextPage = M[1]
      BY <1>6, <1>10, <2>2
    <3> QED BY <1>8, <1>12, <3>1
  <2>3. CASE at - n \in DOMAIN M /\ Shown = M[at - n]
    <3>1. j <= at - n
      <4>1. CASE (1 + at) - n \in DOMAIN M /\ NextPage = M[(1 + at) - n]
        <5>1. j < (1 + at) - n
          BY <1>8, <1>12, <2>1, <4>1
        <5> QED BY <1>6, <2>1, <5>1
      <4>2. CASE 1 + at = n + Len(M) + 1
        BY <1>6, <2>1, <4>2
      <4> QED BY <1>10, <4>1, <4>2
    <3>2. CASE j = at - n
      BY <2>1, <2>3, <3>2
    <3>3. CASE j # at - n
      <4>1. j < at - n
        BY <1>6, <2>1, <3>1, <3>3
      <4> QED BY <1>8, <2>1, <2>3, <4>1
    <3> QED BY <3>2, <3>3
  <2> QED BY <1>9, <2>2, <2>3
<1> QED BY <1>11, <1>12

\* When the last page is shown all others have been.
LEMMA LastComesAfter ==
  ASSUME kind \in Kinds, Shown \in Showable, IsLastPage, NEW q \in PageNames(kind)
  PROVE  q = Shown \/ Before(kind, q, Shown)
<1> DEFINE M == FlowPages[kind]
<1>1. CASE multi = "yes"
  <2>1. Shown = "expiry"
    BY <1>1, PagesAreFormPages DEF IsLastPage
  <2> QED BY <2>1, PagesBefore
<1>2. CASE multi # "yes"
  <2>1. PICK n : AreInOrder(Pages, multi, kind, n)
    BY PagesAreFormPages
  <2>2. /\ n \in {0, 1} /\ Len(M) \in Nat \ {0} /\ DOMAIN M = 1 .. Len(M)
        /\ Len(Pages) = n + Len(M)
        /\ \/ Len(Pages) = n
           \/ Len(Pages) - n \in DOMAIN M /\ Pages[Len(Pages)] = M[Len(Pages) - n]
    BY <1>2, <2>1, PagesAreDistinct, PagesAreFormPages DEF AreInOrder
  <2>3. Shown = M[Len(M)]
    BY <2>2 DEF IsLastPage
  <2>4. PICK j \in DOMAIN M : q = M[j]
    BY DEF PageNames
  <2>5. \A i, j2 \in DOMAIN M : Before(kind, M[i], M[j2]) <=> i < j2
    BY PagesBefore
  <2> HIDE DEF M
  <2>6. j = Len(M) \/ j < Len(M)
    BY <2>2, <2>4
  <2> QED BY <2>2, <2>3, <2>4, <2>5, <2>6
<1> QED BY <1>1, <1>2

-----------------------------------------------------------------------------
(* What the pages let through is valid. *)
SignaturesOf(m) == IF m = "yes" THEN Threshold ELSE 1

\* The amount pays for the stake and for the fee of the changes.
IsPaid(i, n, v) ==
  /\ Has(v, "stake")
  /\ v.stake + Fee(getConfigureDelegationCost(n,
         DelegationPayloadSize(getBakerFlowChanges(v, getExistingDelegationValues(i))))) <= i.amount

\* What a page that was gone through leaves behind.
Passed(k, i, v, page) ==
  /\ page = "confirm" => ~hasPendingChange(i)
  /\ i.role = "None" => PageFields(page) \cap FormFields(k) \subseteq DOMAIN v

LEMMA NothingIsValid ==
  ASSUME NEW k, NEW i, NEW acc, NEW thePool, NEW v, DOMAIN v = {}
  PROVE  AreValid(k, i, acc, thePool, v)
BY DEF AreValid, Has

LEMMA FilledIsValid ==
  ASSUME NEW k, NEW i, NEW acc, NEW thePool, NEW v, NEW w, NEW fields,
         AreValid(k, i, acc, thePool, v), AreValid(k, i, acc, thePool, w)
  PROVE  AreValid(k, i, acc, thePool, Filled(v, w, fields))
<1> DEFINE new == Filled(v, w, fields)
           old == Only(w, DOMAIN w \ fields)
<1>1. new = Over(v, old)
  BY DEF Filled
<1>2. DOMAIN old = DOMAIN w \ fields /\ \A f \in DOMAIN old : old[f] = w[f]
  BY DEF Only
<1> HIDE DEF new, old
<1>3. \A f \in DOMAIN new : \/ f \in DOMAIN v /\ new[f] = v[f]
                            \/ f \in DOMAIN w /\ new[f] = w[f]
  BY <1>1, <1>2 DEF Over
<1>4. Has(new, "stake") =>
        /\ i.role # "None" => ~hasPendingChange(i)
        /\ TypeOf(k) = "configureBaker" =>
             MinStake <= new.stake \/ (i.role = "Baker" /\ new.stake = i.config.stake)
  BY <1>3 DEF AreValid, Has
<1>5. ASSUME NEW f \in CommissionFields, Has(new, f)
      PROVE  new[f].n \in Nat /\ InRange(f, new[f].n)
  BY <1>3, <1>5 DEF AreValid, Has
<1>6. Has(new, "keys") => new.keys.account = acc
  BY <1>3 DEF AreValid, Has
<1>7. Has(new, "delegationTarget") =>
        new.delegationTarget = Passive \/ validateBakerId(new.delegationTarget, i, thePool)
  BY <1>3 DEF AreValid, Has
<1>8. AreValid(k, i, acc, thePool, new)
  BY <1>4, <1>5, <1>6, <1>7 DEF AreValid
<1> QED BY <1>8 DEF new

\* A page without stake, commissions, keys and target.
LEMMA OtherInputIsValid ==
  ASSUME NEW k, NEW i, NEW acc, NEW thePool, NEW v,
         DOMAIN v \cap ({"stake", "keys", "delegationTarget"} \cup CommissionFields) = {}
  PROVE  AreValid(k, i, acc, thePool, v)
BY DEF AreValid, Has

LEMMA BakerStakeIsValid ==
  ASSUME NEW k, NEW i, NEW acc, NEW thePool, NEW fee, i.role \in {"None", "Baker"},
         NEW v \in BakerStakeSettings(i, fee)
  PROVE  /\ AreValid(k, i, acc, thePool, v)
         /\ i.role = "None" => {"stake", "restakeEarnings"} \subseteq DOMAIN v
<1> DEFINE amounts == {s \in StakeBounds(i, fee) \cap Nat : validateBakerStake(s, i, fee)}
           pending == isBakerAccount(i) /\ hasPendingChange(i)
<1>1. v \in StakeValues(amounts, pending)
  BY DEF BakerStakeSettings
<1>2. /\ DOMAIN v \subseteq {"stake", "restakeEarnings"}
      /\ Has(v, "stake") => ~pending /\ v.stake \in amounts
  BY <1>1, StakeValuesAreFields
<1>3. ~pending => {"stake", "restakeEarnings"} \subseteq DOMAIN v
  <2> SUFFICES ASSUME ~pending PROVE {"stake", "restakeEarnings"} \subseteq DOMAIN v
    OBVIOUS
  <2>1. PICK s, r : v = [stake |-> s, restakeEarnings |-> r]
    BY <1>1 DEF StakeValues
  <2> QED BY <2>1
<1>4. \A s \in amounts : MinStake <= s \/ (i.role = "Baker" /\ s = i.config.stake)
  BY DEF validateBakerStake, isBakerAccount
<1>6. Has(v, "stake") => (i.role = "Baker" => ~hasPendingChange(i))
  BY <1>2 DEF isBakerAccount
<1>7. i.role = "None" => ~pending
  BY DEF isBakerAccount
<1> HIDE DEF amounts, pending
<1>8. ~Has(v, "keys") /\ ~Has(v, "delegationTarget") /\ \A f \in CommissionFields : ~Has(v, f)
  BY <1>2 DEF Has, CommissionFields
<1> QED BY <1>2, <1>3, <1>4, <1>6, <1>7, <1>8 DEF AreValid

LEMMA DelegatedStakeIsValid ==
  ASSUME NEW k, NEW i, NEW acc, NEW thePool, NEW w, NEW n,
         TypeOf(k) # "configureBaker", i.role \in {"None", "Delegator"},
         DOMAIN w \subseteq DelegationFields, NEW v \in DelegationAmountPage(w, i, thePool, n)
  PROVE  /\ AreValid(k, i, acc, thePool, v)
         /\ i.role = "None" =>
              /\ {"stake", "restakeEarnings"} \subseteq DOMAIN v
              /\ IsPaid(i, n, Filled(v, w, {"stake", "restakeEarnings"}))
<1> DEFINE existing == getExistingDelegationValues(i)
           shown == Over(v, Only(w, {"delegationTarget"}))
           pending == isDelegatorAccount(i) /\ hasPendingChange(i)
           fee == Fee(getConfigureDelegationCost(n,
                        DelegationPayloadSize(getBakerFlowChanges(shown, existing))))
<1>1. PICK amounts :
        /\ v \in StakeValues(amounts, pending)
        /\ pending \/ validateDelegateAmount(v.stake, i, fee, thePool, w.delegationTarget)
  BY DEF DelegationAmountPage, getEstimatedConfigureDelegationFee, getDelegationFlowChanges
<1>2. /\ DOMAIN v \subseteq {"stake", "restakeEarnings"}
      /\ Has(v, "stake") => ~pending
  BY <1>1, StakeValuesAreFields
<1>3. ~pending => {"stake", "restakeEarnings"} \subseteq DOMAIN v
  <2> SUFFICES ASSUME ~pending PROVE {"stake", "restakeEarnings"} \subseteq DOMAIN v
    OBVIOUS
  <2>1. PICK s, r : v = [stake |-> s, restakeEarnings |-> r]
    BY <1>1 DEF StakeValues
  <2> QED BY <2>1
<1>4. Only(w, {"delegationTarget"}) = Only(w, DOMAIN w \ {"stake", "restakeEarnings"})
  <2>1. DOMAIN w \cap {"delegationTarget"} = DOMAIN w \cap (DOMAIN w \ {"stake", "restakeEarnings"})
    BY DEF DelegationFields
  <2> QED BY <2>1 DEF Only
<1>5. shown = Filled(v, w, {"stake", "restakeEarnings"})
  BY <1>4 DEF Filled
<1>6. "stake" \in DOMAIN v => Has(shown, "stake") /\ shown.stake = v.stake
  BY DEF Over, Has
<1>7. ~pending => v.stake + fee <= i.amount
  BY <1>1 DEF validateDelegateAmount
<1>8. i.role = "None" => ~pending
  BY DEF isDelegatorAccount
<1>9. Has(v, "stake") => (i.role # "None" => ~hasPendingChange(i))
  BY <1>2 DEF isDelegatorAccount
<1> HIDE DEF pending
<1>10. AreValid(k, i, acc, thePool, v)
  <2>1. ~Has(v, "keys") /\ ~Has(v, "delegationTarget") /\ \A f \in CommissionFields : ~Has(v, f)
    BY <1>2 DEF Has, CommissionFields
  <2> QED BY <1>9, <2>1 DEF AreValid
<1>11. ASSUME i.role = "None" PROVE IsPaid(i, n, shown)
  <2>1. Has(shown, "stake") /\ shown.stake = v.stake /\ v.stake + fee <= i.amount
    BY <1>3, <1>6, <1>7, <1>8, <1>11
  <2> HIDE DEF shown
  <2> QED BY <2>1 DEF IsPaid
<1> QED BY <1>3, <1>5, <1>8, <1>10, <1>11

LEMMA CommissionsAreValid ==
  ASSUME NEW k, NEW i, NEW acc, NEW thePool, NEW v \in CommissionsPage
  PROVE  AreValid(k, i, acc, thePool, v) /\ CommissionFields \subseteq DOMAIN v
<1> DEFINE inputs(field) == {n \in CommissionInputs : InRange(field, n)}
           highest == CommissionRange["finalizationRewardCommission"].max
<1>1. PICK t \in inputs("transactionFeeCommission"), b \in inputs("bakingRewardCommission") :
        v = [transactionFeeCommission |-> fromPercentagesToDecimals(t),
             bakingRewardCommission |-> fromPercentagesToDecimals(b),
             finalizationRewardCommission |-> Decimal(highest)]
  BY DEF CommissionsPage
<1>2. /\ DOMAIN v = CommissionFields
      /\ v.transactionFeeCommission.n = t /\ v.bakingRewardCommission.n = b
      /\ v.finalizationRewardCommission.n = highest
  BY <1>1 DEF CommissionFields, fromPercentagesToDecimals, Decimal
<1>3. highest \in Nat /\ InRange("finalizationRewardCommission", highest)
  <2>1. "finalizationRewardCommission" \in CommissionFields
    BY DEF CommissionFields
  <2>2. /\ CommissionRange["finalizationRewardCommission"].min \in Nat /\ highest \in Nat
        /\ CommissionRange["finalizationRewardCommission"].min <= highest
    BY <2>1, StakingAssumption
  <2> HIDE DEF highest
  <2> QED BY <2>2 DEF InRange, highest
<1>4. t \in Nat /\ InRange("transactionFeeCommission", t) /\ b \in Nat /\ InRange("bakingRewardCommission", b)
  BY StakingAssumption
<1> HIDE DEF highest
<1>5. \A f \in CommissionFields : v[f].n \in Nat /\ InRange(f, v[f].n)
  BY <1>2, <1>3, <1>4 DEF CommissionFields
<1>6. ~Has(v, "keys") /\ ~Has(v, "delegationTarget") /\ ~Has(v, "stake")
  BY <1>2 DEF Has, CommissionFields
<1> QED BY <1>2, <1>5, <1>6 DEF AreValid

LEMMA RoleOfForm ==
  ASSUME NEW k, k \in Kinds, NEW i, IsAccount(i), accountFilter(k, i)
  PROVE  i.role \in (CASE k = "addBaker" -> {"None"}
                       [] k \in {"addDelegation", "updateDelegation"} -> {"None", "Delegator"}
                       [] k = "removeDelegation" -> {"Delegator"}
                       [] OTHER -> {"Baker"})
BY KindOfForm DEF accountFilter, MultiSigAddBaker, MultiSigConfigureDelegation,
   MultiSigRemoveDelegation, MultiSigBaker, IsAccount

LEMMA InputIsValid ==
  ASSUME kind \in Kinds, Shown \in Showable, IsAccount(info[account]),
         accountFilter(kind, info[account]), DOMAIN values \subseteq FormFields(kind),
         NEW v \in PageInputs(Shown)
  PROVE  /\ AreValid(kind, info[account], account, pool, v)
         /\ Shown = "confirm" => ~hasPendingChange(info[account])
         /\ info[account].role = "None" =>
              /\ PageFields(Shown) \cap FormFields(kind) \subseteq DOMAIN v
              /\ Shown = "delegate" =>
                   IsPaid(info[account], Signatures, Filled(v, values, PageFields(Shown)))
<1> DEFINE i == info[account]
           page == Shown
<1>0. page \in Showable /\ v \in PageInputs(page)
  OBVIOUS
<1>1. page \notin {"account", "keys"}
  BY <1>0 DEF PageInputs
<1>2. page = "expiry" \/ page \in PageNames(kind)
  BY <1>0, <1>1 DEF Showable, FormPages
<1>3. i.role \in (CASE kind = "addBaker" -> {"None"}
                    [] kind \in {"addDelegation", "updateDelegation"} -> {"None", "Delegator"}
                    [] kind = "removeDelegation" -> {"Delegator"}
                    [] OTHER -> {"Baker"})
  BY RoleOfForm
<1> HIDE DEF i, page
<1>4. CASE page = "stake"
  <2>1. kind \in {"addBaker", "updateBakerStake"}
    BY <1>2, <1>4, PagesOfForm, KindOfForm
  <2>2. i.role \in {"None", "Baker"}
    BY <1>3, <2>1
  <2>3. PICK fee : v \in BakerStakeSettings(i, fee)
    BY <1>0, <1>4 DEF PageInputs, AddBakerStakePage, UpdateBakerStakePage, i
  <2>4. /\ AreValid(kind, i, account, pool, v)
        /\ i.role = "None" => {"stake", "restakeEarnings"} \subseteq DOMAIN v
    BY <2>2, <2>3, BakerStakeIsValid
  <2> QED BY <1>4, <2>4 DEF page, i, PageFields
<1>5. CASE page = "delegate"
  <2>1. kind \in {"addDelegation", "updateDelegation"}
    BY <1>2, <1>5, PagesOfForm, KindOfForm
  <2>2. i.role \in {"None", "Delegator"} /\ TypeOf(kind) # "configureBaker" /\ DOMAIN values \subseteq DelegationFields
    BY <1>3, <2>1 DEF TypeOf, DelegationKinds, FormFields
  <2>3. v \in DelegationAmountPage(values, i, pool, Signatures)
    BY <1>0, <1>5 DEF PageInputs, i
  <2>4. /\ AreValid(kind, i, account, pool, v)
        /\ i.role = "None" =>
              /\ {"stake", "restakeEarnings"} \subseteq DOMAIN v
              /\ IsPaid(i, Signatures, Filled(v, values, {"stake", "restakeEarnings"}))
    BY <2>2, <2>3, DelegatedStakeIsValid
  <2>5. PageFields(page) = {"stake", "restakeEarnings"}
    BY <1>5 DEF PageFields
  <2> QED BY <1>5, <2>4, <2>5 DEF page, i
<1>6. CASE page = "commissions"
  <2>1. AreValid(kind, i, account, pool, v) /\ CommissionFields \subseteq DOMAIN v
    BY <1>0, <1>6, CommissionsAreValid DEF PageInputs
  <2>2. PageFields(page) = CommissionFields
    BY <1>6 DEF PageFields
  <2> QED BY <1>6, <2>1, <2>2 DEF page, i
<1>7. CASE page \in {"openForDelegation", "metadataUrl", "suspended"}
  <2>1. PICK x : v = [f \in {page} |-> x]
    BY <1>0, <1>7 DEF PageInputs, DelegationStatusPage, MetadataUrlPage
  <2>2. DOMAIN v = {page} /\ PageFields(page) = {page}
    BY <1>7, <2>1 DEF PageFields
  <2>3. AreValid(kind, i, account, pool, v)
    BY <1>7, <2>2, OtherInputIsValid DEF CommissionFields
  <2> QED BY <1>7, <2>2, <2>3 DEF page, i
<1>8. CASE page = "delegationTarget"
  <2>1. PICK x : /\ v = [f \in {"delegationTarget"} |-> x]
                 /\ x = Passive \/ validateBakerId(x, i, pool)
    BY <1>0, <1>8 DEF PageInputs, DelegationTargetPage, i
  <2>2. DOMAIN v = {"delegationTarget"} /\ v.delegationTarget = x /\ PageFields(page) = {page}
    BY <1>8, <2>1 DEF PageFields
  <2>3. AreValid(kind, i, account, pool, v)
    BY <2>1, <2>2 DEF AreValid, Has, CommissionFields
  <2> QED BY <1>8, <2>2, <2>3 DEF page, i
<1>9. CASE page \in {"confirm", "expiry"}
  <2>1. v = <<>> /\ (page = "confirm" => ~hasPendingChange(i))
    BY <1>0, <1>9 DEF PageInputs, i
  <2>2. DOMAIN v = {} /\ PageFields(page) = {page}
    BY <1>9, <2>1, NothingIsForm DEF PageFields
  <2>3. page \notin FormFields(kind)
    BY <1>9, KindOfForm DEF FormFields, DelegationFields, CommissionFields, BakerFields
  <2> QED BY <1>9, <2>1, <2>2, <2>3, NothingIsValid DEF page, i
<1> QED
  <2>1. page \in {"stake", "openForDelegation", "commissions", "metadataUrl", "keys", "confirm",
                  "suspended", "delegationTarget", "delegate", "expiry"}
    BY <1>2, PagesOfForm, KindOfForm
  <2> QED BY <1>1, <1>4, <1>5, <1>6, <1>7, <1>8, <1>9, <2>1

\* The fee of a transaction.
FeeFor(n, type, p) ==
  Fee(IF type = "configureBaker"
      THEN getConfigureBakerCost(n, BakerPayloadSize(p), DOMAIN p)
      ELSE getConfigureDelegationCost(n, DelegationPayloadSize(p)))

\* A form that registers a validator has the fee of its transaction in the end.
LEMMA AddBakerIsPaid ==
  ASSUME NEW v, NEW i, NEW n, BakerFields \ {"suspended"} \subseteq DOMAIN v,
         validateAddBakerValues(v, i, n) = "valid"
  PROVE  v.stake + FeeFor(n, "configureBaker", convertToBakerTransaction(v, <<>>)) <= i.amount
<1> DEFINE p == convertToBakerTransaction(v, <<>>)
<1>1. Has(v, "keys") /\ Has(v, "metadataUrl") /\ "metadataUrl" \notin CommissionFields
  BY DEF Has, BakerFields, CommissionFields
<1>2. DOMAIN p = DOMAIN v
  <2>1. \A f : ~Has(<<>>, f)
    BY NothingIsForm DEF Has
  <2> QED BY <2>1, BakerPayloadDiffers
<1>3. p.metadataUrl = v.metadataUrl
  BY <1>1, <1>2, BakerPayloadIsForm DEF Has
<1> HIDE DEF p
<1>4. BakerPayloadSize(p) = BakerPayloadSize(v)
  BY <1>1, <1>2, <1>3 DEF BakerPayloadSize, Has
<1>5. FeeFor(n, "configureBaker", p) = getEstimatedAddBakerFee(v, n)
  <2>1. getConfigureBakerCost(n, BakerPayloadSize(v), DOMAIN p)
          = getConfigureBakerFullCost(n, BakerPayloadSize(v))
    BY <1>1, <1>2 DEF getConfigureBakerCost, getConfigureBakerFullCost, getConfigureBakerEnergyCost, Has
  <2> QED BY <1>1, <1>4, <2>1 DEF FeeFor, getEstimatedAddBakerFee
<1>6. validateBakerStake(v.stake, i, getEstimatedAddBakerFee(v, n))
  BY DEF validateAddBakerValues
<1>7. v.stake + getEstimatedAddBakerFee(v, n) <= i.amount
  BY <1>6 DEF validateBakerStake
<1> QED BY <1>5, <1>7 DEF p

\* A form whose pages were all gone through is not refused as long as nothing changes.
LEMMA CompletedIsNotRefused ==
  ASSUME NEW m, NEW k, k \in Kinds, NEW v, NEW i, NEW thePool, NEW n,
         IsForm(k, v), IsAccount(i), accountFilter(k, i), AreValid(k, i, i.name, thePool, v),
         \A q \in PageNames(k) : Passed(k, i, v, q),
         k = "addBaker" => validateAddBakerValues(v, i, n) = "valid",
         i.role = "None" /\ k \in {"addDelegation", "updateDelegation"} => IsPaid(i, n, v)
  PROVE  LET p == PayloadOf(m, k, v, i)
         IN  Reasons(i, thePool, TypeOf(k), p, FeeFor(n, TypeOf(k), p)) \cap Checked(i.role) = {}
<1> DEFINE p == PayloadOf(m, k, v, i)
           fee == FeeFor(n, TypeOf(k), p)
<1>1. i.role \in (CASE k = "addBaker" -> {"None"}
                    [] k \in {"addDelegation", "updateDelegation"} -> {"None", "Delegator"}
                    [] k = "removeDelegation" -> {"Delegator"}
                    [] OTHER -> {"Baker"})
  BY RoleOfForm
<1>2. i.role = "None" => \A q \in PageNames(k) : PageFields(q) \cap FormFields(k) \subseteq DOMAIN v
  BY DEF Passed
<1>3. TypeOf(k) = (IF k \in {"addDelegation", "updateDelegation", "removeDelegation"}
                   THEN "configureDelegation" ELSE "configureBaker")
  BY KindOfForm
<1>4. CASE k = "addBaker"
  <2>1. PageNames(k) = {"stake", "openForDelegation", "commissions", "metadataUrl", "keys"}
    BY <1>4, PagesOfForm
  <2>2. i.role = "None"
    BY <1>1, <1>4
  <2>3. FormFields(k) = BakerFields \ {"suspended"}
    BY <1>4 DEF FormFields
  <2>4. BakerFields \ {"suspended"} \subseteq DOMAIN v
    <3>1. /\ PageFields("stake") \cap FormFields(k) \subseteq DOMAIN v
          /\ PageFields("openForDelegation") \cap FormFields(k) \subseteq DOMAIN v
          /\ PageFields("commissions") \cap FormFields(k) \subseteq DOMAIN v
          /\ PageFields("metadataUrl") \cap FormFields(k) \subseteq DOMAIN v
          /\ PageFields("keys") \cap FormFields(k) \subseteq DOMAIN v
      BY <1>2, <2>1, <2>2
    <3> QED BY <2>3, <3>1 DEF PageFields, BakerFields, CommissionFields
  <2>5. p = convertToBakerTransaction(v, <<>>)
    BY <1>4 DEF PayloadOf
  <2>6. v.stake + fee <= i.amount
    BY <1>3, <1>4, <2>4, <2>5, AddBakerIsPaid
  <2> HIDE DEF fee
  <2>7. Reasons(i, thePool, "configureBaker", PayloadOf(m, "addBaker", v, i), fee)
           \cap Checked(i.role) = {}
    BY <1>4, <2>2, <2>4, <2>6, AddBakerIsNotRefused
  <2> QED BY <1>3, <1>4, <2>7 DEF fee
<1>5. CASE k \in {"addDelegation", "updateDelegation"}
  <2>1. PageNames(k) = {"delegationTarget", "delegate"} /\ FormFields(k) = DelegationFields
    BY <1>5, PagesOfForm DEF FormFields
  <2>2. i.role = "None" => DelegationFields \subseteq DOMAIN v
    <3> SUFFICES ASSUME i.role = "None" PROVE DelegationFields \subseteq DOMAIN v
      OBVIOUS
    <3>1. /\ PageFields("delegationTarget") \cap FormFields(k) \subseteq DOMAIN v
          /\ PageFields("delegate") \cap FormFields(k) \subseteq DOMAIN v
      BY <1>2, <2>1
    <3> QED BY <2>1, <3>1 DEF PageFields, DelegationFields
  <2>3. p = getBakerFlowChanges(v, getExistingDelegationValues(i))
    BY <1>5 DEF PayloadOf, convertToConfigureDelegationTransaction, getDelegationFlowChanges
  <2>4. i.role = "None" => v.stake + fee <= i.amount
    BY <1>3, <1>5, <2>3 DEF IsPaid, FeeFor
  <2>5. i.role # "Baker"
    BY <1>1, <1>5
  <2> HIDE DEF fee
  <2>6. Reasons(i, thePool, "configureDelegation", PayloadOf(m, k, v, i), fee) \cap Checked(i.role) = {}
    BY <1>5, <2>2, <2>4, <2>5, DelegatorIsNotRefused
  <2> QED BY <1>3, <1>5, <2>6 DEF fee
<1>6. CASE k \in {"removeBaker", "removeDelegation"}
  <2>1. "confirm" \in PageNames(k)
    BY <1>6, PagesOfForm
  <2>2. ~hasPendingChange(i)
    BY <2>1 DEF Passed
  <2>3. i.role = (IF k = "removeBaker" THEN "Baker" ELSE "Delegator")
    BY <1>1, <1>6
  <2> HIDE DEF fee
  <2> QED BY <1>6, <2>2, <2>3, RemovalIsNotRefused
<1>7. CASE k \in {"updateBakerStake", "updateBakerKeys", "updateBakerPool", "bakerSuspension"}
  <2>1. i.role = "Baker"
    BY <1>1, <1>7
  <2> HIDE DEF fee
  <2>2. Reasons(i, thePool, "configureBaker", PayloadOf(m, k, v, i), fee) \cap Checked(i.role) = {}
    BY <1>7, <2>1, UpdateStakeIsNotRefused, UpdatePoolIsNotRefused, SuspensionIsNotRefused
  <2> QED BY <1>3, <1>7, <2>2 DEF fee
<1> QED BY <1>4, <1>5, <1>6, <1>7, KindOfForm

-----------------------------------------------------------------------------
(* The invariant of a form while nothing changes.  It holds next to IInv. *)
PagesArePassed(k, i, tr, v) ==
  \A p \in DOMAIN tr : \A q \in PageNames(k) : Before(k, q, tr[p]) => Passed(k, i, v, q)

\* Who delegates for the first time comes to the expiry with an amount that is
\* paid for, and never goes on from there but to the end.
AmountIsPaid(m, k, i, tr, v) ==
  i.role = "None" /\ k \in {"addDelegation", "updateDelegation"} =>
    \A p \in DOMAIN tr : tr[p] = "expiry" => p = Len(tr) /\ IsPaid(i, SignaturesOf(m), v)

FormIsValid(m, k, i, thePool, tr, v, w) ==
  /\ accountFilter(k, i)
  /\ AreValid(k, i, i.name, thePool, v) /\ AreValid(k, i, i.name, thePool, w)
  /\ PagesArePassed(k, i, tr, v) /\ AmountIsPaid(m, k, i, tr, v)

\* The history begins with the first page; that of the account is nowhere else.
StartsRight(k, tr) ==
  /\ tr[1] \in {"account", FlowPages[k][1]}
  /\ \A p \in DOMAIN tr : tr[p] = "account" => p = 1

TrailIsRight ==
  place \in {"form", "submit"} =>
    StartsRight(kind, trail) /\ (place = "submit" /\ multi = "no" => saved = values)

KeysAreOwn ==
  /\ keys # {} => place = "form" /\ Shown = "keys"
  /\ \A k \in keys : k.account = account

FreshIsRight ==
  fresh /\ place \in {"form", "submit"} =>
    /\ \A x \in Accounts : info[x] = chain[x]
    /\ account # Nobody => FormIsValid(multi, kind, info[account], pool, trail, values, saved)

IsNotRefused(t, thePool) ==
  Reasons(t.base, thePool, t.type, t.payload, t.fee) \cap CheckedReasons(t) = {}

TransactionIsFresh ==
  tx.outcome = "unsent" /\ fresh => tx.base = chain[tx.account] /\ IsNotRefused(tx, pool)

FreshInv == TrailIsRight /\ KeysAreOwn /\ FreshIsRight /\ TransactionIsFresh /\ RefusedIsStale

LEMMA FreshFormCloses ==
  ASSUME place' = "menu", Closed
  PROVE  TrailIsRight' /\ KeysAreOwn' /\ FreshIsRight'
BY DEF TrailIsRight, KeysAreOwn, FreshIsRight, Closed

LEMMA FreshTransactionStays ==
  ASSUME IInv, FreshInv, tx' = tx,
         place = "submit" /\ fresh' => fresh /\ UNCHANGED <<chain, pool>>
  PROVE  TransactionIsFresh' /\ RefusedIsStale'
<1>1. tx.outcome = "unsent" => place = "submit"
  BY DEF IInv, TransactionIsRight
<1>2. TransactionIsFresh'
  BY <1>1 DEF FreshInv, TransactionIsFresh
<1>3. RefusedIsStale'
  BY DEF FreshInv, RefusedIsStale, Executed
<1> QED BY <1>2, <1>3

LEMMA FreshTransactionGoes ==
  ASSUME tx'.outcome = "none"
  PROVE  TransactionIsFresh' /\ RefusedIsStale'
BY DEF TransactionIsFresh, RefusedIsStale, Executed

LEMMA FreshFormStays ==
  ASSUME IInv, FreshInv, UNCHANGED <<multi, place, kind, account, trail, values, saved>>,
         fresh' /\ place \in {"form", "submit"} =>
           fresh /\ UNCHANGED <<chain, pool>> /\ \A x \in Accounts : info'[x] = info[x]
  PROVE  TrailIsRight' /\ FreshIsRight'
<1>1. TrailIsRight'
  BY DEF FreshInv, TrailIsRight
<1>2. FreshIsRight'
  <2> SUFFICES ASSUME fresh', place \in {"form", "submit"}
               PROVE  /\ \A x \in Accounts : info'[x] = chain'[x]
                      /\ account # Nobody =>
                           FormIsValid(multi, kind, info'[account], pool', trail, values, saved)
    BY DEF FreshIsRight
  <2>1. account # Nobody => account \in Accounts
    BY DEF IInv, FormIsRight
  <2> QED BY <2>1 DEF FreshInv, FreshIsRight
<1> QED BY <1>1, <1>2

\* The history without its last pages, or with the target in the place of the amount.
IsOlder(tr, new) ==
  /\ 1 \in DOMAIN new
  /\ \A p \in DOMAIN new :
       /\ p \in DOMAIN tr /\ (p = Len(tr) => p = Len(new))
       /\ \/ new[p] = tr[p]
          \/ tr[p] = "delegate" /\ new[p] = "delegationTarget"

LEMMA FrontIsOlder ==
  ASSUME NEW S, NEW tr \in Seq(S), Len(tr) > 1
  PROVE  IsOlder(tr, Front(tr)) /\ Front(tr) \in Seq(S)
<1>1. Front(tr) = SubSeq(tr, 1, Len(tr) - 1)
  BY DEF Front
<1>2. /\ Front(tr) \in Seq(S) /\ Len(Front(tr)) = Len(tr) - 1
      /\ DOMAIN Front(tr) = 1 .. Len(tr) - 1 /\ DOMAIN tr = 1 .. Len(tr)
      /\ \A p \in 1 .. Len(tr) - 1 : Front(tr)[p] = tr[p]
  BY <1>1
<1> QED BY <1>2 DEF IsOlder

LEMMA RenderedIsOlder ==
  ASSUME NEW S, NEW tr \in Seq(S), Len(tr) > 0, NEW v
  PROVE  IsOlder(tr, Rendered(tr, v))
<1>1. CASE ~(tr[Len(tr)] = "delegate" /\ ~Has(v, "delegationTarget"))
  BY <1>1 DEF Rendered, IsOlder
<1>2. CASE tr[Len(tr)] = "delegate" /\ ~Has(v, "delegationTarget")
  <2> DEFINE T == S \cup {"delegationTarget"}
             front == SubSeq(tr, 1, Len(tr) - 1)
             new == Append(front, "delegationTarget")
  <2>1. Rendered(tr, v) = new
    BY <1>2 DEF Rendered, Front
  <2>2. /\ front \in Seq(T) /\ Len(front) = Len(tr) - 1
        /\ \A p \in 1 .. Len(tr) - 1 : front[p] = tr[p]
    <3>1. front \in Seq(S) /\ Len(front) = Len(tr) - 1 /\ \A p \in 1 .. Len(tr) - 1 : front[p] = tr[p]
      <4> DEFINE n == Len(tr) - 1
      <4>1. n \in Nat /\ \A i \in 1 .. n : tr[i] \in S
        OBVIOUS
      <4>2. front = SubSeq(tr, 1, n)
        OBVIOUS
      <4> HIDE DEF n, front
      <4>3. /\ front \in Seq(S) /\ Len(front) = IF 1 <= n THEN n - 1 + 1 ELSE 0
            /\ \A i \in 1 .. n - 1 + 1 : front[i] = tr[1 + i - 1]
        BY <4>1, <4>2, SubSeqProperties
      <4>4. Len(front) = n /\ \A i \in 1 .. n : front[i] = tr[i]
        BY <4>1, <4>3
      <4> QED BY <4>3, <4>4 DEF n
    <3> HIDE DEF front
    <3>2. front \in Seq(T)
      BY <3>1
    <3> QED BY <3>1, <3>2
  <2> HIDE DEF front, T
  <2>3. "delegationTarget" \in T
    BY DEF T
  <2>4. /\ DOMAIN new = 1 .. Len(tr) /\ Len(new) = Len(tr)
        /\ \A p \in 1 .. Len(tr) - 1 : new[p] = tr[p]
        /\ new[Len(tr)] = "delegationTarget"
    BY <2>2, <2>3
  <2> HIDE DEF new
  <2>5. IsOlder(tr, new)
    BY <1>2, <2>4 DEF IsOlder
  <2> QED BY <2>1, <2>5
<1> QED BY <1>1, <1>2

LEMMA NothingBeforeTarget ==
  ASSUME NEW k, k \in Kinds
  PROVE  /\ \A q : ~Before(k, q, "delegationTarget")
         /\ \A page : k \in {"addDelegation", "updateDelegation"} /\ Before(k, "delegate", page)
              => page = "expiry"
         /\ FlowPages[k][1] \notin {"delegate", "account", "expiry"}
<1>1. FlowPages[k][1] \in PageNames(k)
  BY PagesAreDistinct DEF PageNames
<1>2. CASE k \in {"addDelegation", "updateDelegation"}
  <2>1. FlowPages[k] = <<"delegationTarget", "delegate">>
    BY <1>2 DEF FlowPages, ConfigureDelegation
  <2>2. FlowPages[k][1] = "delegationTarget" /\ FlowPages[k][2] = "delegate" /\ DOMAIN FlowPages[k] = {1, 2}
    BY <2>1
  <2>3. \A q : ~Before(k, q, "delegationTarget")
    BY <2>2, PagesBefore
  <2>4. ASSUME NEW page, Before(k, "delegate", page) PROVE page = "expiry"
    <3> SUFFICES ASSUME NEW i \in {1, 2}, NEW j \in {1, 2}, i < j, FlowPages[k][i] = "delegate"
                 PROVE  FALSE
      BY <2>2, <2>4 DEF Before
    <3>1. i = 1
      OBVIOUS
    <3> QED BY <2>2, <3>1
  <2> QED BY <2>2, <2>3, <2>4
<1>3. CASE k \notin {"addDelegation", "updateDelegation"}
  <2>1. PageNames(k) \cap {"delegate", "delegationTarget", "account", "expiry"} = {}
    BY <1>3, PagesOfForm, KindOfForm
  <2>2. \A q : ~Before(k, q, "delegationTarget")
    BY <2>1 DEF Before, PageNames
  <2> QED BY <1>1, <1>3, <2>1, <2>2
<1> QED BY <1>2, <1>3

LEMMA OlderTrail ==
  ASSUME NEW m, NEW k, k \in Kinds, NEW tr, NEW new, IsOlder(tr, new)
  PROVE  /\ StartsRight(k, tr) => StartsRight(k, new)
         /\ \A i, v : PagesArePassed(k, i, tr, v) => PagesArePassed(k, i, new, v)
         /\ \A i, v : AmountIsPaid(m, k, i, tr, v) => AmountIsPaid(m, k, i, new, v)
<1>1. ASSUME StartsRight(k, tr) PROVE StartsRight(k, new)
  <2>1. tr[1] # "delegate"
    BY <1>1, NothingBeforeTarget DEF StartsRight
  <2> QED BY <1>1, <2>1 DEF StartsRight, IsOlder
<1>2. ASSUME NEW i, NEW v, PagesArePassed(k, i, tr, v) PROVE PagesArePassed(k, i, new, v)
  BY <1>2, NothingBeforeTarget DEF PagesArePassed, IsOlder
<1>3. ASSUME NEW i, NEW v, AmountIsPaid(m, k, i, tr, v) PROVE AmountIsPaid(m, k, i, new, v)
  BY <1>3 DEF AmountIsPaid, IsOlder
<1> QED BY <1>1, <1>2, <1>3

\* Another page after the last one.
LEMMA PushedPage ==
  ASSUME NEW S, NEW tr \in Seq(S), NEW page \in S, NEW k
  PROVE  LET new == Append(tr, page)
         IN  /\ StartsRight(k, tr) /\ Len(tr) > 0 /\ page # "account" => StartsRight(k, new)
             /\ \A i, v : /\ PagesArePassed(k, i, tr, v)
                          /\ \A q \in PageNames(k) : Before(k, q, page) => Passed(k, i, v, q)
                          => PagesArePassed(k, i, new, v)
             /\ \A m, i, v : /\ \A p \in DOMAIN tr : tr[p] # "expiry"
                             /\ page = "expiry" => IsPaid(i, SignaturesOf(m), v)
                             => AmountIsPaid(m, k, i, new, v)
<1> DEFINE new == Append(tr, page)
<1>1. /\ DOMAIN new = 1 .. Len(tr) + 1 /\ Len(new) = Len(tr) + 1 /\ Len(tr) \in Nat
      /\ DOMAIN tr = 1 .. Len(tr)
      /\ \A p \in 1 .. Len(tr) : new[p] = tr[p]
      /\ new[Len(tr) + 1] = page
  OBVIOUS
<1> HIDE DEF new
<1>2. \A p \in DOMAIN new : \/ p \in DOMAIN tr /\ new[p] = tr[p]
                            \/ p = Len(new) /\ new[p] = page
  BY <1>1
<1>3. ASSUME StartsRight(k, tr), Len(tr) > 0, page # "account" PROVE StartsRight(k, new)
  <2>1. new[1] = tr[1]
    BY <1>1, <1>3
  <2> QED BY <1>2, <1>3, <2>1 DEF StartsRight
<1>4. ASSUME NEW i, NEW v, PagesArePassed(k, i, tr, v),
             \A q \in PageNames(k) : Before(k, q, page) => Passed(k, i, v, q)
      PROVE  PagesArePassed(k, i, new, v)
  BY <1>2, <1>4 DEF PagesArePassed
<1>5. ASSUME NEW m, NEW i, NEW v, \A p \in DOMAIN tr : tr[p] # "expiry",
             page = "expiry" => IsPaid(i, SignaturesOf(m), v)
      PROVE  AmountIsPaid(m, k, i, new, v)
  BY <1>2, <1>5 DEF AmountIsPaid
<1> QED BY <1>3, <1>4, <1>5 DEF new

-----------------------------------------------------------------------------
(* Every step keeps it. *)
LEMMA InitIsFresh == Init => FreshInv
<1> SUFFICES ASSUME Init PROVE FreshInv
  OBVIOUS
<1>1. place = "menu" /\ keys = {} /\ tx.outcome = "none"
  BY DEF Init, NoTransaction
<1> QED BY <1>1 DEF FreshInv, TrailIsRight, KeysAreOwn, FreshIsRight, TransactionIsFresh,
                    RefusedIsStale, Executed

LEMMA OpenIsFresh ==
  ASSUME IInv, FreshInv, NEW k \in Kinds, NEW a \in Accounts \cup {Nobody}, NEW first,
         first \in {"account", FlowPages[k][1]}, a # Nobody => accountFilter(k, info[a]),
         Open(k, a, first)
  PROVE  FreshInv'
<1>1. /\ place = "menu" /\ place' = "form" /\ kind' = k /\ account' = a /\ trail' = <<first>>
      /\ values' = <<>> /\ saved' = <<>> /\ keys' = {} /\ fresh' = (info = chain)
      /\ UNCHANGED <<chain, pool, info, multi, tx>>
  BY DEF Open, chainVars
<1>2. DOMAIN <<first>> = {1} /\ <<first>>[1] = first
  OBVIOUS
<1>3. StartsRight(k, <<first>>)
  BY <1>2 DEF StartsRight
<1>4. /\ \A i, v : PagesArePassed(k, i, <<first>>, v)
      /\ \A m, i, v : AmountIsPaid(m, k, i, <<first>>, v)
  <2>1. \A q : ~Before(k, q, first)
    BY PagesBefore
  <2>2. first # "expiry"
    BY NothingBeforeTarget
  <2> QED BY <1>2, <2>1, <2>2 DEF PagesArePassed, AmountIsPaid
<1>5. TrailIsRight' /\ KeysAreOwn'
  BY <1>1, <1>3 DEF TrailIsRight, KeysAreOwn
<1>6. FreshIsRight'
  <2>1. \A i, acc, thePool : AreValid(k, i, acc, thePool, <<>>)
    BY NothingIsForm, NothingIsValid
  <2> QED BY <1>1, <1>4, <2>1 DEF FreshIsRight, FormIsValid
<1> QED BY <1>1, <1>5, <1>6, FreshTransactionStays DEF FreshInv

LEMMA StartIsFresh ==
  ASSUME IInv, FreshInv, NEW k \in Kinds,
         StartMulti(k) \/ \E a \in Accounts : StartSingle(k, a) \/ StartRedirected(k, a)
  PROVE  FreshInv'
<1>1. CASE StartMulti(k)
  BY <1>1, OpenIsFresh DEF StartMulti
<1>2. ASSUME NEW a \in Accounts, StartSingle(k, a) \/ StartRedirected(k, a)
      PROVE  FreshInv'
  BY <1>2, OpenIsFresh DEF StartSingle, StartRedirected, InMenu, Offered
<1> QED BY <1>1, <1>2

LEMMA NonceIsFresh ==
  ASSUME IInv, FreshInv, NEW a \in Accounts, NonceArrives(a)
  PROVE  FreshInv'
<1>1. UNCHANGED <<multi, place, kind, account, trail, values, saved, keys, fresh, tx, chain, pool, info>>
  BY DEF NonceArrives, chainVars
<1>2. KeysAreOwn'
  BY <1>1 DEF FreshInv, KeysAreOwn, Shown
<1> QED BY <1>1, <1>2, FreshFormStays, FreshTransactionStays DEF FreshInv

LEMMA GenerateIsFresh ==
  ASSUME IInv, FreshInv, GenerateBakerKeys
  PROVE  FreshInv'
<1>1. /\ UNCHANGED <<multi, place, kind, account, trail, values, saved, fresh, tx, chain, pool, info>>
      /\ place = "form" /\ Shown = "keys" /\ keys' = {[no |-> made + 1, account |-> account]}
  BY DEF GenerateBakerKeys, chainVars
<1>2. KeysAreOwn'
  BY <1>1 DEF KeysAreOwn, Shown
<1> QED BY <1>1, <1>2, FreshFormStays, FreshTransactionStays DEF FreshInv

LEMMA LeaveIsFresh ==
  ASSUME IInv, FreshInv, Leave
  PROVE  FreshInv'
<1>1. /\ place' = "menu" /\ Closed /\ UNCHANGED <<chain, pool, fresh>>
      /\ tx' = (IF tx.outcome = "unsent" THEN NoTransaction ELSE tx)
  BY DEF Leave, chainVars
<1>2. NoTransaction.outcome = "none"
  BY DEF NoTransaction
<1>3. TransactionIsFresh' /\ RefusedIsStale'
  BY <1>1, <1>2, FreshTransactionStays, FreshTransactionGoes
<1> QED BY <1>1, <1>3, FreshFormCloses DEF FreshInv

LEMMA BackIsFresh ==
  ASSUME IInv, FreshInv, Back
  PROVE  FreshInv'
<1>1. /\ place = "form" /\ Len(trail) > 1 /\ trail' = Rendered(Front(trail), values)
      /\ saved' = <<>> /\ keys' = {}
      /\ UNCHANGED <<chain, pool, info, multi, place, kind, account, values, fresh, tx>>
  BY DEF Back, chainVars
<1>2. kind \in Kinds /\ IsTrail(multi, kind, trail)
  BY <1>1 DEF IInv, FormIsRight
<1> DEFINE S == FormPages(multi, kind, trail[1])
<1>3. trail \in Seq(S)
  BY <1>2 DEF IsTrail
<1> HIDE DEF S
<1>4. IsOlder(trail, Front(trail)) /\ Front(trail) \in Seq(S)
  BY <1>1, <1>3, FrontIsOlder
<1>5. Len(Front(trail)) > 0
  BY <1>4 DEF IsOlder
<1>6. IsOlder(Front(trail), trail')
  BY <1>1, <1>4, <1>5, RenderedIsOlder
<1>7. /\ StartsRight(kind, trail) => StartsRight(kind, trail')
      /\ \A i, v : PagesArePassed(kind, i, trail, v) => PagesArePassed(kind, i, trail', v)
      /\ \A i, v : AmountIsPaid(multi, kind, i, trail, v) => AmountIsPaid(multi, kind, i, trail', v)
  <2>1. /\ StartsRight(kind, trail) => StartsRight(kind, Front(trail))
        /\ \A i, v : PagesArePassed(kind, i, trail, v) => PagesArePassed(kind, i, Front(trail), v)
        /\ \A i, v : AmountIsPaid(multi, kind, i, trail, v) => AmountIsPaid(multi, kind, i, Front(trail), v)
    BY <1>2, <1>4, OlderTrail
  <2>2. /\ StartsRight(kind, Front(trail)) => StartsRight(kind, trail')
        /\ \A i, v : PagesArePassed(kind, i, Front(trail), v) => PagesArePassed(kind, i, trail', v)
        /\ \A i, v : AmountIsPaid(multi, kind, i, Front(trail), v) => AmountIsPaid(multi, kind, i, trail', v)
    BY <1>2, <1>6, OlderTrail
  <2> QED BY <2>1, <2>2
<1>8. TrailIsRight' /\ KeysAreOwn'
  BY <1>1, <1>7 DEF FreshInv, TrailIsRight, KeysAreOwn
<1>9. FreshIsRight'
  <2>1. \A k, i, acc, thePool : AreValid(k, i, acc, thePool, <<>>)
    BY NothingIsForm, NothingIsValid
  <2>2. ASSUME FormIsValid(multi, kind, info[account], pool, trail, values, saved)
        PROVE  FormIsValid(multi, kind, info[account], pool, trail', values, <<>>)
    BY <1>7, <2>1, <2>2 DEF FormIsValid
  <2> QED BY <1>1, <2>2 DEF FreshInv, FreshIsRight
<1> QED BY <1>1, <1>8, <1>9, FreshTransactionStays DEF FreshInv

LEMMA BackToFormIsFresh ==
  ASSUME IInv, FreshInv, BackToForm
  PROVE  FreshInv'
<1>1. /\ place = "submit" /\ tx' = NoTransaction
      /\ UNCHANGED <<chain, pool, info, multi, fresh>>
      /\ \/ place' = "menu" /\ Closed
         \/ /\ place' = "form" /\ values' = (IF multi = "no" THEN saved ELSE values)
            /\ UNCHANGED <<kind, account, trail, saved, keys>>
  BY DEF BackToForm, chainVars
<1>2. TransactionIsFresh' /\ RefusedIsStale'
  BY <1>1, FreshTransactionGoes DEF NoTransaction
<1>3. CASE place' = "menu" /\ Closed
  BY <1>2, <1>3, FreshFormCloses DEF FreshInv
<1>4. CASE /\ place' = "form" /\ values' = (IF multi = "no" THEN saved ELSE values)
           /\ UNCHANGED <<kind, account, trail, saved, keys>>
  <2>1. values' = values /\ StartsRight(kind, trail)
    BY <1>1, <1>4 DEF FreshInv, TrailIsRight
  <2>2. keys' = {}
    BY <1>1, <1>4 DEF FreshInv, KeysAreOwn
  <2>3. TrailIsRight' /\ KeysAreOwn'
    BY <1>4, <2>1, <2>2 DEF TrailIsRight, KeysAreOwn
  <2>4. FreshIsRight'
    BY <1>1, <1>4, <2>1 DEF FreshInv, FreshIsRight
  <2> QED BY <1>2, <2>3, <2>4 DEF FreshInv
<1> QED BY <1>1, <1>3, <1>4

LEMMA SwitchIsFresh ==
  ASSUME IInv, FreshInv, NEW a \in Accounts, SwitchAccount(a)
  PROVE  FreshInv'
<1>1. /\ place = "form" /\ multi = "no" /\ UNCHANGED <<chain, pool, info, multi, tx>>
      /\ \/ /\ account' = a /\ values' = saved /\ trail' = Rendered(trail, saved) /\ keys' = {}
            /\ Offered(kind, info[a])
            /\ fresh' = (fresh /\ saved = <<>> /\ Len(trail) = 1)
            /\ UNCHANGED <<place, kind, saved>>
         \/ place' = "menu" /\ Closed /\ UNCHANGED fresh
  BY DEF SwitchAccount, chainVars
<1>2. TransactionIsFresh' /\ RefusedIsStale'
  BY <1>1, FreshTransactionStays
<1>3. CASE place' = "menu" /\ Closed
  BY <1>2, <1>3, FreshFormCloses DEF FreshInv
<1>4. CASE /\ account' = a /\ values' = saved /\ trail' = Rendered(trail, saved) /\ keys' = {}
           /\ Offered(kind, info[a])
           /\ fresh' = (fresh /\ saved = <<>> /\ Len(trail) = 1)
           /\ UNCHANGED <<place, kind, saved>>
  <2>1. kind \in Kinds /\ IsTrail(multi, kind, trail) /\ StartsRight(kind, trail)
    BY <1>1 DEF IInv, FormIsRight, FreshInv, TrailIsRight
  <2> DEFINE S == FormPages(multi, kind, trail[1])
  <2>2. trail \in Seq(S) /\ Len(trail) > 0
    BY <2>1 DEF IsTrail
  <2> HIDE DEF S
  <2>3. IsOlder(trail, trail')
    BY <1>4, <2>2, RenderedIsOlder
  <2>4. StartsRight(kind, trail')
    BY <2>1, <2>3, OlderTrail
  <2>5. TrailIsRight' /\ KeysAreOwn'
    BY <1>1, <1>4, <2>4 DEF TrailIsRight, KeysAreOwn
  <2>6. ASSUME fresh'
        PROVE  FormIsValid(multi, kind, info[a], pool, trail', <<>>, <<>>)
    <3>1. accountFilter(kind, info[a])
      BY <1>4 DEF Offered
    <3>2. DOMAIN trail = {1}
      <4>1. DOMAIN trail = 1 .. Len(trail)
        BY <2>2
      <4>2. Len(trail) = 1
        BY <1>4, <2>6, Zenon
      <4>3. 1 .. 1 = {1}
        OBVIOUS
      <4> QED BY <4>1, <4>2, <4>3, Zenon
    <3>3. trail[1] \in {"account", FlowPages[kind][1]}
      BY <2>1 DEF StartsRight
    <3>4. /\ \A i, v : PagesArePassed(kind, i, trail, v)
          /\ \A i, v : AmountIsPaid(multi, kind, i, trail, v)
      <4>1. \A q : ~Before(kind, q, trail[1])
        BY <2>1, <3>3, PagesBefore
      <4>2. trail[1] # "expiry"
        BY <2>1, <3>3, NothingBeforeTarget
      <4> QED BY <3>2, <4>1, <4>2 DEF PagesArePassed, AmountIsPaid
    <3>5. /\ \A i, v : PagesArePassed(kind, i, trail', v)
          /\ \A i, v : AmountIsPaid(multi, kind, i, trail', v)
      BY <2>1, <2>3, <3>4, OlderTrail
    <3>6. \A i, acc : AreValid(kind, i, acc, pool, <<>>)
      BY NothingIsForm, NothingIsValid
    <3> QED BY <3>1, <3>5, <3>6 DEF FormIsValid
  <2>7. FreshIsRight'
    BY <1>1, <1>4, <2>6 DEF FreshInv, FreshIsRight
  <2> QED BY <1>2, <2>5, <2>7 DEF FreshInv
<1> QED BY <1>1, <1>3, <1>4

LEMMA ExecuteIsFresh ==
  ASSUME IInv, FreshInv, Execute
  PROVE  FreshInv'
<1> DEFINE acc == chain[tx.account]
           reasons == Reasons(acc, pool, tx.type, tx.payload, tx.fee)
           after == IF reasons = {} THEN Configured(acc, tx.type, tx.payload) ELSE acc
           outcome == IF tx.nonceOf # tx.account THEN "wrongNonce"
                      ELSE IF reasons = {} THEN "success" ELSE "refused"
           result == [outcome |-> outcome, reasons |-> reasons, before |-> acc, after |-> after,
                      fresh |-> fresh]
<1>1. place = "submit" /\ place' = "menu" /\ Closed /\ tx' = Over(result, tx)
  BY DEF Execute
<1>2. tx.outcome = "unsent" /\ DOMAIN tx = {"outcome", "account", "kind", "type", "payload", "fee", "form", "base", "nonceOf"}
  BY <1>1 DEF IInv, TransactionIsRight, IsMade
<1>3. /\ DOMAIN result = {"outcome", "reasons", "before", "after", "fresh"}
      /\ result.outcome = outcome /\ result.reasons = reasons /\ result.fresh = fresh
  OBVIOUS
<1>4. outcome \in {"wrongNonce", "success", "refused"}
  OBVIOUS
<1> HIDE DEF result, outcome
<1>5. tx'.outcome = outcome /\ tx'.reasons = reasons /\ tx'.fresh = fresh /\ tx'.base = tx.base
  BY <1>1, <1>2, <1>3 DEF Over
<1>6. CheckedReasons(tx') = CheckedReasons(tx)
  BY <1>5 DEF CheckedReasons
<1>7. fresh => reasons \cap CheckedReasons(tx) = {}
  BY <1>2 DEF FreshInv, TransactionIsFresh, IsNotRefused
<1> HIDE DEF reasons
<1>8. RefusedIsStale'
  BY <1>5, <1>6, <1>7 DEF RefusedIsStale, Executed, CheckedReasons
<1>9. TransactionIsFresh'
  BY <1>4, <1>5 DEF TransactionIsFresh
<1> QED BY <1>1, <1>8, <1>9, FreshFormCloses DEF FreshInv

LEMMA ChangeIsFresh ==
  ASSUME IInv, FreshInv, Change
  PROVE  FreshInv'
<1>1. /\ fresh' = FALSE
      /\ UNCHANGED <<info, multi, place, kind, account, trail, values, saved, keys, tx>>
  BY DEF Change, formVars
<1>2. KeysAreOwn'
  BY <1>1 DEF FreshInv, KeysAreOwn, Shown
<1> QED BY <1>1, <1>2, FreshFormStays, FreshTransactionStays DEF FreshInv

LEMMA UpdateIsFresh ==
  ASSUME IInv, FreshInv, NEW a \in Accounts, UpdateInfo(a)
  PROVE  FreshInv'
<1>1. /\ info' = [info EXCEPT ![a] = chain[a]] /\ UNCHANGED <<chain, pool, multi, fresh, tx>>
      /\ \/ place' = "menu" /\ Closed
         \/ UNCHANGED <<place, kind, account, trail, values, saved, keys>>
  BY DEF UpdateInfo, chainVars, formVars
<1>2. TransactionIsFresh' /\ RefusedIsStale'
  BY <1>1, FreshTransactionStays
<1>3. CASE place' = "menu" /\ Closed
  BY <1>2, <1>3, FreshFormCloses DEF FreshInv
<1>4. CASE UNCHANGED <<place, kind, account, trail, values, saved, keys>>
  <2>1. KeysAreOwn'
    BY <1>4 DEF FreshInv, KeysAreOwn, Shown
  <2>2. fresh /\ place \in {"form", "submit"} => \A x \in Accounts : info'[x] = info[x]
    BY <1>1 DEF IInv, AccountsAreRight, FreshInv, FreshIsRight
  <2> QED BY <1>1, <1>2, <1>4, <2>1, <2>2, FreshFormStays DEF FreshInv
<1> QED BY <1>1, <1>3, <1>4

LEMMA PickIsFresh ==
  ASSUME IInv, FreshInv, NEW a \in Accounts, PickAccount(a)
  PROVE  FreshInv'
<1>1. /\ place = "form" /\ Shown = "account" /\ accountFilter(kind, info[a]) /\ account' = a
      /\ fresh' = (fresh /\ (account \in {a, Nobody} \/ values = <<>>))
      /\ Push(NextPage) /\ UNCHANGED <<chain, pool, info, multi, kind, values, keys>>
  BY DEF PickAccount, chainVars
<1>2. /\ place' = "form" /\ trail' = Append(trail, NextPage) /\ saved' = <<>> /\ tx' = tx
  BY <1>1 DEF Push
<1>3. /\ kind \in Kinds /\ Shown \in Showable /\ IsTrail(multi, kind, trail)
      /\ account = Nobody => DOMAIN values = {}
      /\ StartsRight(kind, trail)
  BY <1>1, ShownIsFormPage DEF IInv, FormIsRight, FreshInv, TrailIsRight
<1>4. ~IsLastPage
  <2>1. "account" \in FormPages(multi, kind, trail[1])
    BY <1>1, <1>3 DEF Showable
  <2>2. multi = "yes"
    BY <1>3, <2>1, PagesOfForm, KindOfForm DEF FormPages
  <2>3. Pages[Len(Pages)] = "expiry"
    BY <1>3, <2>2, PagesAreFormPages
  <2> QED BY <1>1, <2>3 DEF IsLastPage
<1> DEFINE S == FormPages(multi, kind, trail[1])
<1>5. trail \in Seq(S) /\ Len(trail) > 0 /\ NextPage \in S
  BY <1>3, <1>4, NextPageIsFormPage DEF IsTrail, Showable
<1> HIDE DEF S
<1>6. /\ NextPage # "account"
      /\ \A q : ~(q \in PageNames(kind) /\ Before(kind, q, NextPage))
  <2>1. /\ NextPage # "account"
        /\ \A q : Before(kind, q, NextPage) => q = Shown \/ Before(kind, q, Shown)
    BY <1>3, <1>4, NextComesAfter
  <2> QED BY <1>1, <1>3, <2>1, PagesBefore, PagesAreDistinct
<1>7. NextPage # "expiry"
  <2>1. FlowPages[kind][1] \in PageNames(kind)
    BY <1>3, PagesAreDistinct DEF PageNames
  <2> QED BY <1>3, <1>6, <2>1, PagesBefore
<1>8. DOMAIN trail = {1} /\ trail[1] = "account"
  <2>1. DOMAIN trail = 1 .. Len(trail) /\ Len(trail) \in DOMAIN trail
    BY <1>5
  <2>2. Len(trail) = 1
    BY <1>1, <1>3, <2>1 DEF Shown, StartsRight
  <2> QED BY <1>1, <2>1, <2>2 DEF Shown
<1>9. StartsRight(kind, trail')
  BY <1>2, <1>3, <1>5, <1>6, PushedPage
<1>10. KeysAreOwn'
  BY <1>1, <1>2 DEF FreshInv, KeysAreOwn
<1>11. /\ \A i, v : PagesArePassed(kind, i, trail', v)
       /\ \A i, v : AmountIsPaid(multi, kind, i, trail', v)
  <2>1. \A i, v : PagesArePassed(kind, i, trail, v)
    BY <1>3, <1>8, PagesBefore DEF PagesArePassed
  <2> QED BY <1>2, <1>5, <1>6, <1>7, <1>8, <2>1, PushedPage
<1>12. ASSUME fresh'
       PROVE  FormIsValid(multi, kind, info[a], pool, trail', values, <<>>)
  <2>1. \A i, acc : AreValid(kind, i, acc, pool, <<>>)
    BY NothingIsForm, NothingIsValid
  <2>2. AreValid(kind, info[a], info[a].name, pool, values)
    <3>1. CASE account = Nobody \/ values = <<>>
      BY <1>3, <3>1, NothingIsForm, NothingIsValid
    <3>2. CASE account = a
      BY <1>1, <1>12, <3>2, FlowAssumption DEF FreshInv, FreshIsRight, FormIsValid
    <3> QED BY <1>1, <1>12, <3>1, <3>2
  <2> QED BY <1>1, <1>11, <2>1, <2>2 DEF FormIsValid
<1>13. FreshIsRight'
  BY <1>1, <1>2, <1>12 DEF FreshInv, FreshIsRight
<1>14. TrailIsRight'
  BY <1>1, <1>2, <1>9 DEF TrailIsRight
<1> QED BY <1>1, <1>2, <1>10, <1>13, <1>14, FreshTransactionStays DEF FreshInv

LEMMA FilledPages ==
  ASSUME NEW k, NEW i, NEW tr, NEW v, NEW w, NEW page,
         page = "confirm" => ~hasPendingChange(i),
         i.role = "None" => PageFields(page) \cap FormFields(k) \subseteq DOMAIN v
  PROVE  LET new == Filled(v, w, PageFields(page))
         IN  /\ Passed(k, i, new, page)
             /\ PagesArePassed(k, i, tr, w) => PagesArePassed(k, i, tr, new)
<1> DEFINE new == Filled(v, w, PageFields(page))
<1>1. DOMAIN new = DOMAIN v \cup (DOMAIN w \ PageFields(page))
  BY DEF Filled, Over, Only
<1> HIDE DEF new
<1>2. Passed(k, i, new, page)
  BY <1>1 DEF Passed
<1>3. \A q : Passed(k, i, w, q) => Passed(k, i, new, q)
  BY <1>1 DEF Passed
<1>4. PagesArePassed(k, i, tr, w) => PagesArePassed(k, i, tr, new)
  BY <1>3 DEF PagesArePassed
<1> QED BY <1>2, <1>4 DEF new

LEMMA ExpiryIsLast ==
  ASSUME kind \in Kinds, Shown \in Showable, Shown = "expiry"
  PROVE  IsLastPage
<1>1. "expiry" \in FormPages(multi, kind, trail[1])
  BY DEF Showable
<1>2. multi = "yes"
  BY <1>1, PagesAreDistinct DEF FormPages
<1> QED BY <1>2, PagesAreFormPages DEF IsLastPage

\* What a page lets through, as it matters later.
InputFits(v) ==
  /\ AreValid(kind, info[account], account, pool, v)
  /\ Shown = "confirm" => ~hasPendingChange(info[account])
  /\ Shown = "expiry" => v = <<>>
  /\ info[account].role = "None" =>
       /\ PageFields(Shown) \cap FormFields(kind) \subseteq DOMAIN v
       /\ Shown = "delegate" =>
            IsPaid(info[account], Signatures, Filled(v, values, PageFields(Shown)))

\* The form after a page was filled, before it is known where the user goes.
LEMMA FilledIsRight ==
  ASSUME kind \in Kinds, Shown \in Showable, IsTrail(multi, kind, trail),
         info[account].name = account, IsForm(kind, values),
         FormIsValid(multi, kind, info[account], pool, trail, values, saved),
         NEW v, InputFits(v)
  PROVE  LET i == info[account]
             new == Filled(v, values, PageFields(Shown))
         IN  /\ FormIsValid(multi, kind, i, pool, trail, new, saved)
             /\ Passed(kind, i, new, Shown)
             /\ \A q \in PageNames(kind) : Before(kind, q, Shown) => Passed(kind, i, new, q)
             /\ i.role = "None" /\ Shown = "delegate" => IsPaid(i, SignaturesOf(multi), new)
             /\ i.role = "None" /\ kind \in {"addDelegation", "updateDelegation"} =>
                  /\ Shown = "expiry" => IsPaid(i, SignaturesOf(multi), new)
                  /\ Shown # "expiry" => \A p \in DOMAIN trail : trail[p] # "expiry"
<1> DEFINE i == info[account]
           new == Filled(v, values, PageFields(Shown))
<1>1. Len(trail) \in DOMAIN trail /\ Shown = trail[Len(trail)]
  <2> DEFINE S == FormPages(multi, kind, trail[1])
  <2>1. trail \in Seq(S) /\ Len(trail) > 0
    BY DEF IsTrail
  <2> HIDE DEF S
  <2> QED BY <2>1 DEF Shown
<1>2. /\ accountFilter(kind, i) /\ AreValid(kind, i, account, pool, values)
      /\ AreValid(kind, i, account, pool, saved)
      /\ PagesArePassed(kind, i, trail, values) /\ AmountIsPaid(multi, kind, i, trail, values)
  BY DEF FormIsValid
<1>3. /\ AreValid(kind, i, account, pool, v)
      /\ Shown = "confirm" => ~hasPendingChange(i)
      /\ Shown = "expiry" => v = <<>>
      /\ i.role = "None" => PageFields(Shown) \cap FormFields(kind) \subseteq DOMAIN v
      /\ i.role = "None" /\ Shown = "delegate" => IsPaid(i, Signatures, new)
  BY DEF InputFits
<1>n. i.name = account
  OBVIOUS
<1>4. Shown = "expiry" => new = values
  <2> SUFFICES ASSUME Shown = "expiry" PROVE new = values
    OBVIOUS
  <2>1. PageFields(Shown) = {"expiry"} /\ v = <<>> /\ DOMAIN v = {}
    BY <1>3, NothingIsForm DEF PageFields
  <2>2. "expiry" \notin DOMAIN values /\ values = [f \in DOMAIN values |-> values[f]]
    BY KindOfForm DEF IsForm, FormFields, DelegationFields, CommissionFields, BakerFields
  <2>3. new = Over(v, Only(values, DOMAIN values \ {"expiry"}))
    BY <2>1 DEF Filled
  <2>4. Only(values, DOMAIN values \ {"expiry"}) = values
    BY <2>2 DEF Only
  <2> HIDE DEF new
  <2>5. new = [f \in DOMAIN values |-> values[f]]
    BY <2>1, <2>3, <2>4 DEF Over
  <2> QED BY <2>2, <2>5
<1>5. AreValid(kind, i, account, pool, new)
  BY <1>2, <1>3, FilledIsValid
<1>6. Passed(kind, i, new, Shown) /\ PagesArePassed(kind, i, trail, new)
  BY <1>2, <1>3, FilledPages
<1> HIDE DEF i, new
<1>7. Signatures = SignaturesOf(multi)
  BY DEF Signatures, SignaturesOf
<1>8. AmountIsPaid(multi, kind, i, trail, new)
  <2> SUFFICES ASSUME i.role = "None", kind \in {"addDelegation", "updateDelegation"},
                      NEW p \in DOMAIN trail, trail[p] = "expiry"
               PROVE  p = Len(trail) /\ IsPaid(i, SignaturesOf(multi), new)
    BY DEF AmountIsPaid
  <2>1. p = Len(trail) /\ IsPaid(i, SignaturesOf(multi), values)
    BY <1>2 DEF AmountIsPaid
  <2> QED BY <1>1, <1>4, <2>1
<1>9. FormIsValid(multi, kind, i, pool, trail, new, saved)
  BY <1>2, <1>5, <1>6, <1>8, <1>n DEF FormIsValid
<1>10. \A q \in PageNames(kind) : Before(kind, q, Shown) => Passed(kind, i, new, q)
  BY <1>1, <1>6 DEF PagesArePassed
<1>11. i.role = "None" /\ kind \in {"addDelegation", "updateDelegation"} =>
         /\ Shown = "expiry" => IsPaid(i, SignaturesOf(multi), new)
         /\ Shown # "expiry" => \A p \in DOMAIN trail : trail[p] # "expiry"
  BY <1>1, <1>8 DEF AmountIsPaid
<1>12. i.role = "None" /\ Shown = "delegate" => IsPaid(i, SignaturesOf(multi), new)
  BY <1>3, <1>7
<1> QED BY <1>6, <1>9, <1>10, <1>11, <1>12 DEF i, new

\* The form after a page was filled, and what that page has shown.
FilledIsFit(new) ==
  LET i == info[account]
  IN  /\ FormIsValid(multi, kind, i, pool, trail, new, saved)
      /\ Passed(kind, i, new, Shown)
      /\ \A q \in PageNames(kind) : Before(kind, q, Shown) => Passed(kind, i, new, q)
      /\ i.role = "None" /\ Shown = "delegate" => IsPaid(i, SignaturesOf(multi), new)
      /\ i.role = "None" /\ kind \in {"addDelegation", "updateDelegation"} =>
           /\ Shown = "expiry" => IsPaid(i, SignaturesOf(multi), new)
           /\ Shown # "expiry" => \A p \in DOMAIN trail : trail[p] # "expiry"

LEMMA PageIsPushed ==
  ASSUME kind \in Kinds, IsTrail(multi, kind, trail), NEW page \in Showable, NEW new,
         FilledIsFit(new),
         \A q \in PageNames(kind) : Before(kind, q, page) => Passed(kind, info[account], new, q),
         info[account].role = "None" /\ kind \in {"addDelegation", "updateDelegation"} =>
           /\ Shown # "expiry"
           /\ page = "expiry" => IsPaid(info[account], SignaturesOf(multi), new)
  PROVE  FormIsValid(multi, kind, info[account], pool, Append(trail, page), new, <<>>)
<1> DEFINE i == info[account]
           S == FormPages(multi, kind, trail[1])
<1>1. trail \in Seq(S) /\ page \in S
  BY DEF IsTrail, Showable
<1> HIDE DEF S
<1>2. /\ accountFilter(kind, i) /\ AreValid(kind, i, i.name, pool, new)
      /\ PagesArePassed(kind, i, trail, new)
  BY DEF FilledIsFit, FormIsValid
<1>3. AreValid(kind, i, i.name, pool, <<>>)
  BY NothingIsForm, NothingIsValid
<1>4. PagesArePassed(kind, i, Append(trail, page), new)
  BY <1>1, <1>2, PushedPage
<1>5. AmountIsPaid(multi, kind, i, Append(trail, page), new)
  <2>1. CASE i.role = "None" /\ kind \in {"addDelegation", "updateDelegation"}
    <3>1. \A p \in DOMAIN trail : trail[p] # "expiry"
      BY <2>1 DEF FilledIsFit
    <3> QED BY <1>1, <2>1, <3>1, PushedPage
  <2>2. CASE ~(i.role = "None" /\ kind \in {"addDelegation", "updateDelegation"})
    BY <2>2 DEF AmountIsPaid
  <2> QED BY <2>1, <2>2
<1> QED BY <1>2, <1>3, <1>4, <1>5 DEF FormIsValid

LEMMA NextPageIsPushed ==
  ASSUME kind \in Kinds, Shown \in Showable, ~IsLastPage, IsTrail(multi, kind, trail),
         NEW new, FilledIsFit(new)
  PROVE  FormIsValid(multi, kind, info[account], pool, Append(trail, NextPage), new, <<>>)
<1> DEFINE i == info[account]
<1>1. NextPage \in Showable
  BY NextPageIsFormPage
<1>2. \A q : Before(kind, q, NextPage) => q = Shown \/ Before(kind, q, Shown)
  BY NextComesAfter
<1>3. Shown # "expiry"
  BY ExpiryIsLast
<1>4. \A q \in PageNames(kind) : Before(kind, q, NextPage) => Passed(kind, i, new, q)
  BY <1>2 DEF FilledIsFit
<1>5. ASSUME i.role = "None", kind \in {"addDelegation", "updateDelegation"}, NextPage = "expiry"
      PROVE  IsPaid(i, SignaturesOf(multi), new)
  <2>1. Before(kind, "delegate", NextPage)
    BY <1>5, PagesOfForm, PagesBefore
  <2>2. Shown = "delegate"
    BY <1>2, <1>3, <1>5, <2>1, NothingBeforeTarget
  <2> QED BY <1>5, <2>2 DEF FilledIsFit
<1> QED BY <1>1, <1>3, <1>4, <1>5, PageIsPushed

\* The pages of a form that is at its end have all been gone through, and who
\* delegates for the first time pays for it.
LEMMA EndOfForm ==
  ASSUME kind \in Kinds, Shown \in Showable, IsLastPage, NEW new, FilledIsFit(new)
  PROVE  /\ \A q \in PageNames(kind) : Passed(kind, info[account], new, q)
         /\ info[account].role = "None" /\ kind \in {"addDelegation", "updateDelegation"} =>
              IsPaid(info[account], SignaturesOf(multi), new)
<1>1. \A q \in PageNames(kind) : q = Shown \/ Before(kind, q, Shown)
  BY LastComesAfter
<1>2. \A q \in PageNames(kind) : Passed(kind, info[account], new, q)
  BY <1>1 DEF FilledIsFit
<1>3. ASSUME info[account].role = "None", kind \in {"addDelegation", "updateDelegation"}
      PROVE  IsPaid(info[account], SignaturesOf(multi), new)
  <2>1. "delegate" \in PageNames(kind)
    BY <1>3, PagesOfForm
  <2>2. Shown \in {"delegate", "expiry"}
    BY <1>1, <1>3, <2>1, NothingBeforeTarget
  <2> QED BY <1>3, <2>2 DEF FilledIsFit
<1> QED BY <1>2, <1>3

LEMMA ValidatedPageIsPushed ==
  ASSUME kind \in Kinds, Shown \in Showable, IsLastPage, IsTrail(multi, kind, trail),
         NEW new, IsForm(kind, new), FilledIsFit(new), validate(new) \notin {"valid", "throws"}
  PROVE  /\ FormIsValid(multi, kind, info[account], pool, Append(trail, validate(new)), new, <<>>)
         /\ validate(new) = FlowPages[kind][1]
<1> DEFINE i == info[account]
<1>1. validate(new) \in Showable
  BY ValidatedPage
<1>2. validate(new) = FlowPages[kind][1]
  <2>1. CASE kind = "addBaker"
    BY <2>1 DEF validate, validateAddBakerValues, FlowPages, AddBaker
  <2>2. CASE kind # "addBaker"
    BY <2>2 DEF validate
  <2> QED BY <2>1, <2>2
<1>3. \A q : ~Before(kind, q, validate(new))
  BY <1>2, PagesBefore
<1>4. ~(i.role = "None" /\ kind \in {"addDelegation", "updateDelegation"})
  <2> SUFFICES ASSUME i.role = "None", kind \in {"addDelegation", "updateDelegation"}
               PROVE  FALSE
    OBVIOUS
  <2> DEFINE p == getBakerFlowChanges(new, getExistingDelegationValues(i))
  <2>1. IsPaid(i, SignaturesOf(multi), new)
    BY EndOfForm
  <2>2. convert(new) = p
    BY DEF convert, convertToConfigureDelegationTransaction, getDelegationFlowChanges
  <2>3. ~Has(getExistingDelegationValues(i), "stake")
    BY NothingIsForm DEF getExistingDelegationValues, isDelegatorAccount, Has
  <2>4. "stake" \in DOMAIN p
    BY <2>1, <2>3, ChangesAreAll DEF IsPaid, Has
  <2>5. DOMAIN convert(new) # {}
    BY <2>2, <2>4
  <2>6. validate(new) = "valid"
    BY <2>5 DEF validate
  <2> QED BY <2>6
<1>5. FormIsValid(multi, kind, i, pool, Append(trail, validate(new)), new, <<>>)
  BY <1>1, <1>3, <1>4, PageIsPushed
<1> QED BY <1>2, <1>5

\* The transaction of a form that is at its end is not refused.
LEMMA DoneIsNotRefused ==
  ASSUME kind \in Kinds, Shown \in Showable, IsLastPage, IsAccount(info[account]),
         NEW new, IsForm(kind, new), FilledIsFit(new), validate(new) = "valid"
  PROVE  LET t == createTransaction(new)
         IN  IsNotRefused(t, pool) /\ t.base = info[account] /\ t.account = account
<1> DEFINE t == createTransaction(new)
           i == info[account]
           p == convert(new)
<1>1. /\ t.base = i /\ t.account = account /\ t.type = TypeOf(kind) /\ t.payload = p
      /\ t.fee = EnergyFee(TypeOf(kind), p)
  BY DEF createTransaction
<1> HIDE DEF t
<1>2. p = PayloadOf(multi, kind, new, i)
  BY PayloadOfForm
<1> HIDE DEF p
<1>s. Signatures = SignaturesOf(multi)
  BY DEF Signatures, SignaturesOf
<1>3. EnergyFee(TypeOf(kind), p) = FeeFor(SignaturesOf(multi), TypeOf(kind), p)
  BY <1>s DEF EnergyFee, FeeFor
<1>4. kind = "addBaker" => validateAddBakerValues(new, i, SignaturesOf(multi)) = "valid"
  BY <1>s DEF validate
<1>5. accountFilter(kind, i) /\ AreValid(kind, i, i.name, pool, new)
  BY DEF FilledIsFit, FormIsValid
<1>6. /\ \A q \in PageNames(kind) : Passed(kind, i, new, q)
      /\ i.role = "None" /\ kind \in {"addDelegation", "updateDelegation"} =>
           IsPaid(i, SignaturesOf(multi), new)
  BY EndOfForm
<1> HIDE DEF i
<1>7. Reasons(i, pool, TypeOf(kind), p, FeeFor(SignaturesOf(multi), TypeOf(kind), p)) \cap Checked(i.role) = {}
  BY <1>2, <1>4, <1>5, <1>6, CompletedIsNotRefused DEF i
<1>8. CheckedReasons(t) = Checked(i.role)
  BY <1>1 DEF CheckedReasons, Checked
<1>9. IsNotRefused(t, pool)
  BY <1>1, <1>3, <1>7, <1>8 DEF IsNotRefused
<1> QED BY <1>1, <1>9 DEF t, i

LEMMA HandleNextIsFresh ==
  ASSUME IInv, FreshInv, place = "form", Shown # "account", NEW v, IsForm(kind, v), handleNext(v),
         UNCHANGED <<chain, pool, info, multi, kind, account, fresh>>, keys' = {},
         fresh => InputFits(v)
  PROVE  FreshInv'
<1> DEFINE new == Filled(v, values, PageFields(Shown))
           i == info[account]
<1>1. /\ kind \in Kinds /\ Shown \in Showable /\ account \in Accounts /\ IsAccount(i)
      /\ account # Nobody
  BY ShownIsFormPage, FlowAssumption
<1>2. /\ IsTrail(multi, kind, trail) /\ IsForm(kind, values) /\ StartsRight(kind, trail)
      /\ i.name = account
  BY <1>1 DEF IInv, FormIsRight, AccountsAreRight, FreshInv, TrailIsRight
<1>3. /\ values' = new
      /\ \/ ~IsLastPage /\ Push(NextPage)
         \/ IsLastPage /\ validate(new) = "valid" /\ handleDone(new)
         \/ UNCHANGED <<place, trail, tx, saved>>
         \/ IsLastPage /\ validate(new) \notin {"valid", "throws"} /\ Push(validate(new))
  BY DEF handleNext, Filled
<1>4. IsForm(kind, new)
  BY <1>2, FilledForm
<1> HIDE DEF new, i
<1>5. ASSUME fresh
      PROVE  FilledIsFit(new) /\ \A x \in Accounts : info[x] = chain[x]
  <2>1. /\ FormIsValid(multi, kind, info[account], pool, trail, values, saved)
        /\ \A x \in Accounts : info[x] = chain[x]
    BY <1>1, <1>5 DEF FreshInv, FreshIsRight
  <2>2. InputFits(v)
    BY <1>5
  <2> QED BY <1>1, <1>2, <2>1, <2>2, FilledIsRight DEF FilledIsFit, new, i
<1>s. tx.outcome # "unsent"
  BY DEF IInv, TransactionIsRight
<1>6. KeysAreOwn'
  BY DEF KeysAreOwn
<1>7. ASSUME NEW page \in Showable, page # "account", Push(page),
             fresh => FormIsValid(multi, kind, info[account], pool, Append(trail, page), new, <<>>)
      PROVE  FreshInv'
  <2>1. trail' = Append(trail, page) /\ saved' = <<>> /\ place' = "form" /\ tx' = tx
    BY <1>7 DEF Push
  <2>2. StartsRight(kind, trail')
    <3> DEFINE S == FormPages(multi, kind, trail[1])
    <3>1. trail \in Seq(S) /\ Len(trail) > 0 /\ page \in S
      BY <1>2, <1>7 DEF IsTrail, Showable
    <3> HIDE DEF S
    <3> QED BY <1>2, <1>7, <2>1, <3>1, PushedPage
  <2>3. TrailIsRight'
    BY <2>1, <2>2 DEF TrailIsRight
  <2>4. FreshIsRight'
    BY <1>3, <1>5, <1>7, <2>1 DEF FreshIsRight
  <2> QED BY <1>6, <2>1, <2>3, <2>4, FreshTransactionStays DEF FreshInv
<1>8. CASE ~IsLastPage /\ Push(NextPage)
  <2>1. NextPage \in Showable /\ NextPage # "account"
    BY <1>1, <1>8, NextPageIsFormPage, NextComesAfter
  <2>2. fresh => FormIsValid(multi, kind, info[account], pool, Append(trail, NextPage), new, <<>>)
    BY <1>1, <1>2, <1>5, <1>8, NextPageIsPushed
  <2> QED BY <1>7, <1>8, <2>1, <2>2
<1>9. CASE IsLastPage /\ validate(new) \notin {"valid", "throws"} /\ Push(validate(new))
  <2>1. validate(new) \in Showable
    BY <1>1, <1>9, ValidatedPage
  <2>2. validate(new) # "account"
    <3>1. CASE kind = "addBaker"
      BY <1>9, <3>1 DEF validate, validateAddBakerValues
    <3>2. CASE kind # "addBaker"
      BY <1>1, <1>9, <3>2, NothingBeforeTarget DEF validate
    <3> QED BY <3>1, <3>2
  <2>3. fresh => FormIsValid(multi, kind, info[account], pool, Append(trail, validate(new)), new, <<>>)
    BY <1>1, <1>2, <1>4, <1>5, <1>9, ValidatedPageIsPushed
  <2> QED BY <1>7, <1>9, <2>1, <2>2, <2>3
<1>10. CASE UNCHANGED <<place, trail, tx, saved>>
  <2>1. TrailIsRight'
    BY <1>2, <1>10 DEF TrailIsRight
  <2>2. FreshIsRight'
    BY <1>3, <1>5, <1>10 DEF FreshIsRight, FilledIsFit
  <2> QED BY <1>6, <1>10, <2>1, <2>2, FreshTransactionStays DEF FreshInv
<1>11. CASE /\ IsLastPage /\ validate(new) = "valid" /\ tx' = createTransaction(new)
            /\ place' = "submit" /\ saved' = (IF multi = "no" THEN new ELSE <<>>)
            /\ UNCHANGED trail
  <2>1. TrailIsRight'
    BY <1>2, <1>3, <1>11 DEF TrailIsRight
  <2>2. ASSUME fresh
        PROVE  FormIsValid(multi, kind, info[account], pool, trail, new, saved')
    <3>1. FormIsValid(multi, kind, info[account], pool, trail, new, saved)
      BY <1>5, <2>2 DEF FilledIsFit
    <3>2. AreValid(kind, info[account], info[account].name, pool, <<>>)
      BY NothingIsForm, NothingIsValid
    <3> QED BY <1>11, <3>1, <3>2 DEF FormIsValid
  <2>3. FreshIsRight'
    BY <1>3, <1>5, <1>11, <2>2 DEF FreshIsRight
  <2>4. tx'.outcome = "unsent"
    BY <1>11 DEF createTransaction
  <2>5. TransactionIsFresh'
    <3> SUFFICES ASSUME fresh
                 PROVE  tx'.base = chain'[tx'.account] /\ IsNotRefused(tx', pool')
      BY DEF TransactionIsFresh
    <3>1. IsNotRefused(tx', pool) /\ tx'.base = info[account] /\ tx'.account = account
      BY <1>1, <1>4, <1>5, <1>11, DoneIsNotRefused DEF i
    <3> QED BY <1>1, <1>5, <3>1
  <2>6. RefusedIsStale'
    BY <2>4 DEF RefusedIsStale, Executed
  <2> QED BY <1>6, <2>1, <2>3, <2>5, <2>6 DEF FreshInv
<1>12. CASE IsLastPage /\ validate(new) = "valid" /\ handleDone(new)
  BY <1>10, <1>11, <1>12 DEF handleDone
<1> QED BY <1>3, <1>8, <1>9, <1>10, <1>12

LEMMA NextIsFresh ==
  ASSUME IInv, FreshInv, place = "form", NEW v \in PageInputs(Shown), Next(v)
  PROVE  FreshInv'
<1>1. kind \in Kinds /\ Shown \in Showable /\ (Shown # "account" => account \in Accounts /\ IsAccount(info[account]))
  BY ShownIsFormPage
<1>2. IsForm(kind, v) /\ Shown # "account"
  BY <1>1, InputIsForm
<1>3. handleNext(v) /\ keys' = {} /\ UNCHANGED <<chain, pool, info, multi, kind, account, fresh>>
  BY DEF Next, chainVars
<1>4. DOMAIN values \subseteq FormFields(kind)
  BY DEF IInv, FormIsRight, IsForm
<1>5. fresh => InputFits(v)
  <2> SUFFICES ASSUME fresh PROVE InputFits(v)
    OBVIOUS
  <2>1. accountFilter(kind, info[account])
    BY <1>1, <1>2, FlowAssumption DEF FreshInv, FreshIsRight, FormIsValid
  <2>2. Shown = "expiry" => v = <<>>
    BY DEF PageInputs
  <2> QED BY <1>1, <1>2, <1>4, <2>1, <2>2, InputIsValid DEF InputFits
<1> QED BY <1>2, <1>3, <1>5, HandleNextIsFresh

LEMMA KeysPageIsFresh ==
  ASSUME IInv, FreshInv, place = "form", Shown = "keys", NEW k, KeysPage(k),
         fresh => k.account = account
  PROVE  FreshInv'
<1> DEFINE v == [f \in {"keys"} |-> k]
<1>1. kind \in {"addBaker", "updateBakerKeys"}
  <2>1. kind \in Kinds /\ "keys" \in FormPages(multi, kind, trail[1])
    BY ShownIsFormPage DEF Showable
  <2> QED BY <2>1, PagesOfForm, KindOfForm DEF FormPages
<1>2. IsForm(kind, v)
  BY <1>1 DEF IsForm, FormFields, BakerFields, Has
<1>3. DOMAIN v = {"keys"} /\ v.keys = k
  OBVIOUS
<1>4. handleNext(v) /\ keys' = {} /\ UNCHANGED <<chain, pool, info, multi, kind, account, fresh>>
  BY DEF KeysPage, chainVars
<1> HIDE DEF v
<1>5. fresh => InputFits(v)
  <2> SUFFICES ASSUME fresh PROVE InputFits(v)
    OBVIOUS
  <2>1. AreValid(kind, info[account], account, pool, v)
    BY <1>3 DEF AreValid, Has, CommissionFields
  <2>2. PageFields(Shown) = {"keys"}
    BY DEF PageFields
  <2> QED BY <1>3, <2>1, <2>2 DEF InputFits
<1> QED BY <1>2, <1>4, <1>5, HandleNextIsFresh

LEMMA KeysAreFresh ==
  ASSUME IInv, FreshInv, ExportKeys \/ ContinueWithKeys
  PROVE  FreshInv'
<1>1. CASE ExportKeys
  <2>1. PICK k \in keys : KeysPage(k)
    BY <1>1 DEF ExportKeys
  <2>2. k.account = account
    BY DEF FreshInv, KeysAreOwn
  <2> QED BY <1>1, <2>1, <2>2, KeysPageIsFresh DEF ExportKeys
<1>2. CASE ContinueWithKeys
  <2>1. place = "form" /\ Shown = "keys" /\ Has(values, "keys") /\ KeysPage(values.keys)
    BY <1>2 DEF ContinueWithKeys
  <2>2. account \in Accounts /\ account # Nobody
    BY <2>1, ShownIsFormPage, FlowAssumption
  <2>3. info[account].name = account
    BY <2>2 DEF IInv, AccountsAreRight
  <2>4. fresh => values.keys.account = account
    BY <2>1, <2>2, <2>3 DEF FreshInv, FreshIsRight, FormIsValid, AreValid
  <2> QED BY <2>1, <2>4, KeysPageIsFresh
<1> QED BY <1>1, <1>2

LEMMA StepIsFresh ==
  ASSUME IInv, FreshInv, [Step]_vars
  PROVE  FreshInv'
<1>1. CASE UNCHANGED vars
  <2>1. UNCHANGED <<multi, place, kind, account, trail, values, saved, keys, fresh, tx, chain, pool, info>>
    BY <1>1 DEF vars
  <2>2. KeysAreOwn'
    BY <2>1 DEF FreshInv, KeysAreOwn, Shown
  <2> QED BY <2>1, <2>2, FreshFormStays, FreshTransactionStays DEF FreshInv
<1>2. CASE Step
  <2>1. CASE \E k \in Kinds : StartMulti(k) \/ \E a \in Accounts : StartSingle(k, a) \/ StartRedirected(k, a)
    BY <2>1, StartIsFresh
  <2>2. CASE \E a \in Accounts : NonceArrives(a) \/ PickAccount(a) \/ SwitchAccount(a) \/ UpdateInfo(a)
    BY <2>2, NonceIsFresh, PickIsFresh, SwitchIsFresh, UpdateIsFresh
  <2>3. CASE place = "form" /\ \E v \in PageInputs(Shown) : Next(v)
    BY <2>3, NextIsFresh
  <2>4. CASE GenerateBakerKeys \/ ExportKeys \/ ContinueWithKeys
    BY <2>4, GenerateIsFresh, KeysAreFresh
  <2>5. CASE Leave \/ Back \/ BackToForm \/ Execute \/ Change
    BY <2>5, LeaveIsFresh, BackIsFresh, BackToFormIsFresh, ExecuteIsFresh, ChangeIsFresh
  <2> QED BY <1>2, <2>1, <2>2, <2>3, <2>4, <2>5 DEF Step
<1> QED BY <1>1, <1>2

\* Both invariants together: a form that nothing has changed under stays valid.
THEOREM FreshFormsAreValid == Spec => [](IInv /\ FreshInv)
<1>1. Init => FreshInv
  BY InitIsFresh
<1>2. IInv /\ FreshInv /\ [Step]_vars => FreshInv'
  BY StepIsFresh
<1>3. Spec => []IInv
  BY InvariantHolds
<1> QED BY <1>1, <1>2, <1>3, PTL DEF Spec

-----------------------------------------------------------------------------
(***************************************************************************)
(* A form that is open has only pages of its kind in its history, has only *)
(* values its pages have let through, and no stake of nothing; and every   *)
(* account, on the chain and in the wallet, has the configuration of its   *)
(* role (AccountTransactionFlow.tsx, MultiSigAccountTransactionFlow.tsx).  *)
(***************************************************************************)
THEOREM FormsAreRight == Spec => [](FormIsRight /\ AccountsAreRight)
BY InvariantHolds, PTL DEF IInv

(***************************************************************************)
(* Whatever is gone back to, switched or opened again, a transaction has   *)
(* only validator keys that are in a file, and in one of its own account   *)
(* unless something has changed since the form was opened                  *)
(* (ExportBakerCredentials.tsx, GenerateBakerKeys.tsx).                    *)
(***************************************************************************)
THEOREM KeysOfTransactionsAreSaved == Spec => []SubmittedKeysAreSaved
BY InvariantHolds, PTL DEF IInv

(***************************************************************************)
(* A transaction that is taken leaves the account as its form says, in     *)
(* every field: what is not in the payload is what the account has         *)
(* (configureBaker.ts, configureDelegation.ts getDelegationFlowChanges).   *)
(***************************************************************************)
THEOREM FormsAreConfigured == Spec => []ConfigurationIsTheForm
BY InvariantHolds, PTL DEF IInv

(***************************************************************************)
(* The chain refuses no transaction for a reason its form looks for, as    *)
(* long as nothing has changed since the form was opened: every way        *)
(* through the pages, back and forth, leads past the checks that matter.   *)
(***************************************************************************)
THEOREM RefusalsAreStale == Spec => []RefusedIsStale
BY FreshFormsAreValid, PTL DEF FreshInv

=============================================================================
