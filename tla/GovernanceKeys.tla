---------------------------- MODULE GovernanceKeys ----------------------------
(***************************************************************************)
(* The updates of the governance keys, as their editors change them.  A    *)
(* level 2 update has a list of keys and, for each access structure, the   *)
(* indices (from 0) of the keys that may sign; every index has a status,   *)
(* so that the editor can show what is new and what will go.  An update of *)
(* the root or level 1 keys is a list of keys with a status.               *)
(***************************************************************************)
EXTENDS Integers, Sequences, FiniteSets, SequencesExt, TLC

(* The authorization of the chain an access structure stands for. *)
AuthorizationOf ==
  [emergency |-> "emergency", protocol |-> "protocol",
   consensus |-> "electionDifficulty", euroPerEnergy |-> "euroPerEnergy",
   microGtuPerEuro |-> "microGTUPerEuro", foundationAccount |-> "foundationAccount",
   mintDistribution |-> "mintDistribution",
   transactionFeeDistribution |-> "transactionFeeDistribution",
   gasRewards |-> "paramGASRewards", poolParameters |-> "poolParameters",
   addAnonymityRevoker |-> "addAnonymityRevoker",
   addIdentityProvider |-> "addIdentityProvider",
   cooldownParameters |-> "cooldownParameters", timeParameters |-> "timeParameters",
   createPlt |-> "createPlt"]

AccessStructureEnum == DOMAIN AuthorizationOf

(* The structures of the chain parameters of a protocol version. *)
AccessStructures(protocolVersion) ==
  AccessStructureEnum
    \ ((IF protocolVersion < 4 THEN {"cooldownParameters", "timeParameters"} ELSE {})
       \union (IF protocolVersion < 9 THEN {"createPlt"} ELSE {}))

NotRemoved(indices) == SelectSeq(indices, LAMBDA x : x.status # "Removed")

(* What is the same function of every structure's indices. *)
MapIndices(structures, F(_)) ==
  [s \in DOMAIN structures |-> [structures[s] EXCEPT !.indices = F(@)]]

mapAuthorizationToAccessStructure(authorization) ==
  [indices |-> [i \in DOMAIN authorization.authorizedKeys |->
                  [index |-> authorization.authorizedKeys[i], status |-> "Unchanged"]],
   threshold |-> authorization.threshold]

mapCurrentAuthorizationsToUpdate(keys, authorizations, types) ==
  [keys |-> keys,
   structures |-> [s \in types |->
                     mapAuthorizationToAccessStructure(authorizations[AuthorizationOf[s]])]]

keyIsInUse(index, structures) ==
  \E s \in DOMAIN structures :
    \E x \in ToSet(structures[s].indices) : x.index = index

reduceIndicesByOne(structures, index) ==
  MapIndices(structures, LAMBDA indices :
    [i \in DOMAIN indices |->
       IF indices[i].index > index
       THEN [indices[i] EXCEPT !.index = @ - 1] ELSE indices[i]])

(* Mutant: the key before the key is taken out. *)
removeKeyBefore(update, index) ==
  [keys |-> RemoveAt(update.keys, IF index = 0 THEN 1 ELSE index),
   structures |-> reduceIndicesByOne(update.structures, index)]

removeKey(update, index) ==
  [keys |-> RemoveAt(update.keys, index + 1),
   structures |-> reduceIndicesByOne(update.structures, index)]

(***************************************************************************)
(* The update without what is marked as removed, as it is shown, signed    *)
(* and sent: the first key nobody refers to is taken out until there is no *)
(* such key.                                                               *)
(***************************************************************************)
Unused(update) ==
  {i \in 0 .. Len(update.keys) - 1 : ~keyIsInUse(i, update.structures)}

(* Mutant: one pass, which leaves out the key after a key it removes. *)
removeUnusedOnce(update) ==
  FoldLeft(LAMBDA u, i : IF i - 1 \in Unused(u) THEN removeKey(u, i - 1) ELSE u,
           update, [i \in DOMAIN update.keys |-> i])

removeUnused(update) ==
  FoldLeft(LAMBDA u, k : IF Unused(u) = {} THEN u ELSE removeKey(u, Min(Unused(u))),
           update, update.keys)

removeRemovedKeys(update) ==
  removeUnused([update EXCEPT !.structures = MapIndices(@, NotRemoved)])

(* A key the user has loaded is added to every structure that does not     *)
(* have it; a key that is in the list already keeps its index.             *)
addNewKey(update, key) ==
  LET existing == {i \in 0 .. Len(update.keys) - 1 : update.keys[i + 1] = key}
      addedKeyIndex == IF existing = {} THEN Len(update.keys) ELSE Min(existing)
      Insert(indices) ==
        IF \E x \in ToSet(indices) : x.index \in existing THEN indices
        ELSE SortSeq(Append(indices, [index |-> addedKeyIndex, status |-> "Added"]),
                     LAMBDA x, y : x.index < y.index)
  IN  [keys |-> IF existing = {} THEN Append(update.keys, key) ELSE update.keys,
       structures |-> MapIndices(update.structures, Insert)]

updateKeyStatus(status) == IF status = "Removed" THEN "Unchanged" ELSE "Removed"

(***************************************************************************)
(* The button of the key with this index in one structure.  A key that was *)
(* added there is taken out again, and out of the list when it was its     *)
(* last.  When some structure would have no key left, there is an error    *)
(* message and nothing changes.                                            *)
(***************************************************************************)
updateKey(update, structure, index) ==
  LET before == update.structures[structure].indices
      Pressed(x) == x.index = index
      removeAddedKey == \E x \in ToSet(before) : Pressed(x) /\ x.status = "Added"
      after == IF removeAddedKey THEN SelectSeq(before, LAMBDA x : ~Pressed(x))
               ELSE [i \in DOMAIN before |->
                       IF Pressed(before[i])
                       THEN [before[i] EXCEPT !.status = updateKeyStatus(@)] ELSE before[i]]
      updated == [update EXCEPT !.structures[structure].indices = after]
  IN  CASE \E s \in DOMAIN update.structures :
             NotRemoved(updated.structures[s].indices) = <<>> -> update
        [] removeAddedKey /\ ~keyIsInUse(index, updated.structures) -> removeKey(updated, index)
        [] OTHER -> updated

(* The root and level 1 keys: their editor refuses a key it has already,   *)
(* and leaves it to the threshold that some key remains.                   *)
addHigherLevelKey(update, key) ==
  IF \E k \in ToSet(update.updateKeys) : k.key = key THEN update
  ELSE [update EXCEPT !.updateKeys = Append(@, [key |-> key, status |-> "Added"])]

updateHigherLevelKey(update, i) ==
  IF update.updateKeys[i].status = "Added"
  THEN [update EXCEPT !.updateKeys = RemoveAt(@, i)]
  ELSE [update EXCEPT !.updateKeys[i].status = updateKeyStatus(@)]

removeRemovedHigherLevelKeys(update) ==
  [update EXCEPT !.updateKeys = NotRemoved(@)]

isInvalid(thresholds, structures) ==
  \E s \in DOMAIN structures :
    thresholds[s] \notin 1 .. Len(NotRemoved(structures[s].indices))

isInvalidKeySetThreshold(threshold, maxThreshold) == threshold \notin 1 .. maxThreshold
===============================================================================
