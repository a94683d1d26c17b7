--------------------------- MODULE GovernanceUpdate ---------------------------
(***************************************************************************)
(* The life of an update instruction.  Somebody chooses a type from the    *)
(* menu; the page reads the sequence numbers and the parameters of the     *)
(* chain, the details are filled in (for the governance keys in an editor  *)
(* of several pages), and the proposal is signed on a Ledger, or not, and  *)
(* stored.  The signatures of other custodians are loaded from files, and  *)
(* the proposal is submitted, with parameters that are read once more.     *)
(* Meanwhile the chain moves on: other updates are made, keys are rotated  *)
(* and thresholds raised.                                                  *)
(***************************************************************************)
EXTENDS GovernanceKeys, UpdateHandlers

CONSTANTS
  Custodian,         \* who has a root, a level 1 and a level 2 key
  NewKey,            \* the key files that are loaded into an editor
  Edited,            \* the access structures that are edited
  ProtocolVersions,  \* of the chains that are looked at
  MaxProposals,      \* a bound on the proposals of one chain
  MaxChanges,        \* a bound on what others do to the chain
  MaxEdits           \* a bound on what is done in an editor

ASSUME EditedAssumption == Edited \subseteq AccessStructureEnum

VARIABLES
  chain,      \* its protocol version, queues, keys and authorizations
  wanted,     \* the types the user is going to create
  page,       \* what is on the screen
  proposals,  \* the stored proposals, one after the other
  left        \* what is left of the bounds

vars == <<chain, wanted, page, proposals, left>>

Menu == [at |-> "menu"]

Queues == {UpdateQueue(t) : t \in updateInstructionTypes(3) \union updateInstructionTypes(9)}

Authorizations ==
  {AuthorizationOf[s] : s \in AccessStructureEnum} \union {"rootKeys", "level1Keys"}

KeySet(authorization) ==
  IF authorization \in {"rootKeys", "level1Keys"} THEN authorization ELSE "level2Keys"

(* What the node asks of an update of this type: a number and signatures. *)
Demand(type) ==
  LET a == RequiredAuthorization(type)
  IN  [sequenceNumber |-> chain.sequenceNumbers[UpdateQueue(type)],
       keys |-> chain.keys[KeySet(a)], authorization |-> chain.authorizations[a]]
-----------------------------------------------------------------------------
(***************************************************************************)
(* On every chain the types that share a queue are looked at.  What they   *)
(* need is different from what any other type needs: another number, other *)
(* keys and another threshold.  An editor gets a chain whose keys all have *)
(* rights in the structures that are edited; it is the only thing that     *)
(* happens there.                                                          *)
(***************************************************************************)
InitialKeys ==
  LET order == SetToSeq(Custodian)
  IN  [level2Keys |-> order, rootKeys |-> Reverse(order),
       level1Keys |-> Append(Tail(order), Head(order))]

Indices == [i \in 1 .. Cardinality(Custodian) |-> i - 1]

Sparse == <<0>> \o (IF Cardinality(Custodian) > 2 THEN <<2>> ELSE <<>>)

InitChain(types, edited) ==
  LET type == CHOOSE t \in types : TRUE
      needed == {RequiredAuthorization(t) : t \in types}
      Authorization(a) ==
        CASE edited /\ KeySet(a) = "level2Keys" -> [authorizedKeys |-> Indices, threshold |-> 1]
          [] KeySet(a) # "level2Keys" ->
               [authorizedKeys |-> Indices, threshold |-> IF a = "rootKeys" /\ ~edited THEN 2 ELSE 1]
          [] a \in needed -> [authorizedKeys |-> Sparse, threshold |-> 2]
          [] OTHER -> [authorizedKeys |-> <<1>>, threshold |-> 1]
  IN  \E v \in ProtocolVersions :
        /\ types \subseteq updateInstructionTypes(v)
        /\ chain = [protocolVersion |-> v,
                    sequenceNumbers |->
                      [q \in Queues |-> IF q = UpdateQueue(type) THEN 2 ELSE 1],
                    keys |-> InitialKeys,
                    authorizations |-> [a \in Authorizations |-> Authorization(a)]]

Init ==
  /\ \E v \in ProtocolVersions : \E t \in updateInstructionTypes(v) :
       wanted = getUpdateQueueTypes(t)
  /\ \E edits \in (IF wanted \subseteq KeyUpdates THEN {0, MaxEdits} ELSE {0}) :
       /\ InitChain(wanted, edits > 0)
       /\ left = IF edits > 0 THEN [proposals |-> 1, changes |-> 0, edits |-> edits]
                 ELSE [proposals |-> MaxProposals, changes |-> MaxChanges, edits |-> 0]
  /\ page = Menu
  /\ proposals = <<>>
-----------------------------------------------------------------------------
(* The create page: the sequence numbers are read, then the parameters. *)
ReadSequenceNumbers(type) ==
  /\ page.at = "menu"
  /\ left.proposals > 0
  /\ page' = [at |-> "loading", type |-> type,
              sequenceNumbers |-> chain.sequenceNumbers,
              made |-> Demand(type)]
  /\ UNCHANGED <<chain, wanted, proposals, left>>

openDuplicateTypeExists(type) ==
  \E i \in DOMAIN proposals :
    /\ proposals[i].status = "Open"
    /\ proposals[i].type \in getUpdateQueueTypes(type)

(* The key set that is edited, as the editor starts with it. *)
CurrentUpdate(type) ==
  LET target == UpdateQueue(type)
      structures == Edited \intersect AccessStructures(chain.protocolVersion)
  IN  IF target = "level2Keys"
      THEN mapCurrentAuthorizationsToUpdate(chain.keys.level2Keys, chain.authorizations, structures)
      ELSE [updateKeys |-> [i \in DOMAIN chain.keys[target] |->
                              [key |-> chain.keys[target][i], status |-> "Unchanged"]],
            threshold |-> chain.authorizations[target].threshold]

Unedited == [updateKeys |-> <<>>, threshold |-> 0]

ReadChainParameters ==
  /\ page.at = "loading"
  /\ page' =
       IF openDuplicateTypeExists(page.type) THEN Menu
       ELSE [at |-> IF page.type \in KeyUpdates THEN "keys" ELSE "details",
             type |-> page.type, sequenceNumbers |-> page.sequenceNumbers,
             authorizations |-> chain.authorizations, keys |-> chain.keys,
             current |-> IF page.type \in KeyUpdates THEN CurrentUpdate(page.type) ELSE Unedited,
             update |-> IF page.type \in KeyUpdates THEN CurrentUpdate(page.type) ELSE Unedited,
             thresholds |-> <<>>,
             made |-> [Demand(page.type) EXCEPT !.sequenceNumber = page.made.sequenceNumber]]
  /\ UNCHANGED <<chain, wanted, proposals, left>>

ClosePage ==
  /\ page.at \notin {"menu", "submitted"}
  /\ page' = Menu
  /\ UNCHANGED <<chain, wanted, proposals, left>>
-----------------------------------------------------------------------------
(***************************************************************************)
(* The editors of the keys have a page to add keys, one that shows the     *)
(* size of the key set, one for the thresholds and one for the times.  The *)
(* keys can be changed on the first two.                                   *)
(***************************************************************************)
IsLevel2(type) ==
  type \in {"UpdateLevel2KeysUsingRootKeys", "UpdateLevel2KeysUsingLevel1Keys"}

Edit(update) ==
  /\ left.edits > 0
  /\ left' = [left EXCEPT !.edits = @ - 1]
  /\ page' = [page EXCEPT !.update = update]
  /\ UNCHANGED <<chain, wanted, proposals>>

ProposeNewKey(key) ==
  /\ page.at = "keys"
  /\ Edit(IF IsLevel2(page.type) THEN addNewKey(page.update, key)
          ELSE addHigherLevelKey(page.update, key))

KeyUpdateEntry ==
  /\ page.at \in {"keys", "size"}
  /\ IF IsLevel2(page.type)
     THEN \E s \in DOMAIN page.update.structures :
            \E x \in ToSet(page.update.structures[s].indices) :
              Edit(updateKey(page.update, s, x.index))
     ELSE \E i \in DOMAIN page.update.updateKeys : Edit(updateHigherLevelKey(page.update, i))

(* The thresholds the page checks.  They start as the chain's, but every   *)
(* input field reports its value, the edited one, when the page opens.     *)
ThresholdsShown(p) ==
  IF IsLevel2(p.type)
  THEN [s \in DOMAIN p.update.structures |-> p.update.structures[s].threshold]
  ELSE [threshold |-> p.update.threshold]

AccessStructureThreshold(s, n) ==
  /\ page.at = "threshold"
  /\ IsLevel2(page.type)
  /\ left.edits > 0
  /\ left' = [left EXCEPT !.edits = @ - 1]
  /\ page' = [page EXCEPT !.thresholds[s] = n, !.update.structures[s].threshold = n]
  /\ UNCHANGED <<chain, wanted, proposals>>

KeySetThreshold(n) ==
  /\ page.at = "threshold"
  /\ ~IsLevel2(page.type)
  /\ left.edits > 0
  /\ left' = [left EXCEPT !.edits = @ - 1]
  /\ page' = [page EXCEPT !.thresholds.threshold = n, !.update.threshold = n]
  /\ UNCHANGED <<chain, wanted, proposals>>

ThresholdsAreInvalid ==
  IF IsLevel2(page.type) THEN isInvalid(page.thresholds, page.update.structures)
  ELSE isInvalidKeySetThreshold(page.thresholds.threshold,
                                Len(NotRemoved(page.update.updateKeys)))

(* The pages, in both directions. *)
Show(at) == page' = [page EXCEPT !.at = at]

ShowThresholds == page' = [page EXCEPT !.at = "threshold", !.thresholds = ThresholdsShown(page)]

Continue ==
  /\ CASE page.at = "keys" -> Show("size")
       [] page.at = "size" -> ShowThresholds
       [] page.at = "threshold" -> ~ThresholdsAreInvalid /\ Show("times")
       [] OTHER -> FALSE
  /\ UNCHANGED <<chain, wanted, proposals, left>>

Back ==
  /\ CASE page.at = "size" -> Show("keys")
       [] page.at = "threshold" -> Show("size")
       [] page.at = "times" -> ShowThresholds
       [] page.at = "sign" ->
            Show(IF page.type \in KeyUpdates THEN "times" ELSE "details")
       [] OTHER -> FALSE
  /\ UNCHANGED <<chain, wanted, proposals, left>>
-----------------------------------------------------------------------------
(* The handler of the chosen type makes the proposal, with the numbers and *)
(* thresholds the page has read.                                           *)
Handler(type) ==
  findUpdateInstructionHandler(type, ChainParametersVersion(chain.protocolVersion))

(* The payload is stored with what is marked as removed, but only read     *)
(* (shown, signed and sent) without it.                                    *)
Payload(p) ==
  CASE IsLevel2(p.type) -> removeRemovedKeys(p.update)
    [] p.type \in KeyUpdates -> removeRemovedHigherLevelKeys(p.update)
    [] OTHER -> p.update

createTransaction(p) ==
  LET h == Handler(p.type)
  IN  [type |-> h.type, sequenceNumber |-> p.sequenceNumbers[h.sequenceNumber],
       threshold |-> p.authorizations[h.threshold].threshold, payload |-> Payload(p),
       signatures |-> <<>>, status |-> "Open", refused |-> FALSE,
       made |-> p.made, current |-> p.current]

CreateTransaction ==
  /\ page.at \in {"details", "times"}
  /\ Show("sign")
  /\ UNCHANGED <<chain, wanted, proposals, left>>

(***************************************************************************)
(* Whether a custodian's key may sign, and as which: the index of the key  *)
(* in its key set, if it is among the indices that are authorized.         *)
(***************************************************************************)
(* Mutant: the position among the authorized keys. *)
findAuthorizationKeyPosition(keys, authorization, key) ==
  {i - 1 : i \in {j \in DOMAIN authorization.authorizedKeys :
                    keys[authorization.authorizedKeys[j] + 1] = key}}

findAuthorizationKeyIndex(keys, authorization, key) ==
  {i \in ToSet(authorization.authorizedKeys) :
     i + 1 \in DOMAIN keys /\ keys[i + 1] = key}

findHigherLevelKey(key, keys) == {i - 1 : i \in {j \in DOMAIN keys : keys[j] = key}}

(* The set of its index; it is empty when the key is not authorized. *)
findKeyIndex(custodian, keys, authorizations, type) ==
  CASE isUpdateUsingRootKeys(type) -> findHigherLevelKey(custodian, keys.rootKeys)
    [] isUpdateUsingLevel1Keys(type) -> findHigherLevelKey(custodian, keys.level1Keys)
    [] OTHER -> findAuthorizationKeyIndex(keys.level2Keys,
                                          authorizations[Handler(type).authorization], custodian)

(* A signature, made with the key on the handler's path and valid for the  *)
(* digest of the n-th proposal, goes with the public key on another path.  *)
Signature(custodian, type, n) ==
  [by |-> custodian, key |-> getUpdateKey(type), path |-> Handler(type).path, of |-> n]

isSignatureValid(signature, n) == signature.key = signature.path /\ signature.of = n

(* The proposal is stored with one signature or, if that is skipped, none. *)
Insert(signatures) ==
  /\ proposals' = Append(proposals, [createTransaction(page) EXCEPT !.signatures = signatures])
  /\ page' = Menu
  /\ left' = [left EXCEPT !.proposals = @ - 1]
  /\ UNCHANGED <<chain, wanted>>

SignTransactionProposal(custodian) ==
  LET type == createTransaction(page).type
      signature == Signature(custodian, type, Len(proposals) + 1)
  IN  /\ page.at = "sign"
      /\ findKeyIndex(custodian, page.keys, page.authorizations, type) # {}
      /\ isSignatureValid(signature, Len(proposals) + 1)
      /\ Insert(<<signature>>)

SkipSigning ==
  /\ page.at = "sign"
  /\ Insert(<<>>)
-----------------------------------------------------------------------------
(***************************************************************************)
(* A signature file is loaded: some custodian has signed an exported       *)
(* proposal, perhaps another than this one.  The file has one signature;   *)
(* it is refused when it is there already, when its key is not authorized  *)
(* now or when it is not valid for this proposal.                          *)
(***************************************************************************)
IsDuplicate(signature, signatures) == signature \in ToSet(signatures)

HandleUpdateInstructionSignatureFile(i, custodian, n) ==
  LET signature == Signature(custodian, proposals[i].type, n)
  IN  /\ page.at = "menu"
      /\ proposals[i].status = "Open"
      /\ signature.key = signature.path
      /\ ~IsDuplicate(signature, proposals[i].signatures)
      /\ findKeyIndex(custodian, chain.keys, chain.authorizations, proposals[i].type) # {}
      /\ isSignatureValid(signature, i)
      /\ proposals' = [proposals EXCEPT ![i].signatures = Append(@, signature)]
      /\ UNCHANGED <<chain, wanted, page, left>>

CloseProposal(i) ==
  /\ page.at = "menu"
  /\ proposals[i].status = "Open"
  /\ proposals' = [proposals EXCEPT ![i].status = "Closed"]
  /\ UNCHANGED <<chain, wanted, page, left>>

(* There is a box for each signature that is needed, all must be ticked. *)
submitTransaction(i) ==
  /\ page.at = "menu"
  /\ proposals[i].status = "Open"
  /\ Len(proposals[i].signatures) >= proposals[i].threshold
  /\ page' = [at |-> "submitted", proposal |-> i, keys |-> chain.keys,
              authorizations |-> chain.authorizations]
  /\ UNCHANGED <<chain, wanted, proposals, left>>

(* The indices of the keys are attached; a key without one stops it. *)
attachKeyIndex(signature, keys, authorizations, type) ==
  [signature |-> signature,
   index |-> Min(findKeyIndex(signature.by, keys, authorizations, type))]

Unauthorized(i) ==
  \E s \in ToSet(proposals[i].signatures) :
    findKeyIndex(s.by, page.keys, page.authorizations, proposals[i].type) = {}

(* The node takes an update whose number is next, all of whose signatures  *)
(* are by different authorized keys, and enough of them.                   *)
NodeAccepts(i) ==
  LET p == proposals[i]
      demand == Demand(p.type)
      attached == {attachKeyIndex(s, page.keys, page.authorizations, p.type) :
                     s \in ToSet(p.signatures)}
  IN  /\ Known(p.type, chain.protocolVersion)
      /\ p.sequenceNumber = demand.sequenceNumber
      /\ Cardinality(attached) = Len(p.signatures)
      /\ \A a \in attached :
           /\ a.index \in ToSet(demand.authorization.authorizedKeys)
           /\ demand.keys[a.index + 1] = a.signature.by
           /\ a.signature.path = KeySet(RequiredAuthorization(p.type))
           /\ a.signature.of = i
      /\ Cardinality(attached) >= demand.authorization.threshold

(* An unauthorized key leaves the proposal open, behind an error message;  *)
(* what the node does not take has failed.                                 *)
SubmittedProposal ==
  /\ page.at = "submitted"
  /\ LET i == page.proposal
         taken == ~Unauthorized(i) /\ NodeAccepts(i)
     IN  proposals' =
           [proposals EXCEPT
              ![i].status = CASE Unauthorized(i) -> @ [] taken -> "Submitted" [] OTHER -> "Failed",
              ![i].refused = ~taken]
  /\ page' = Menu
  /\ UNCHANGED <<chain, wanted, left>>
-----------------------------------------------------------------------------
(* A submitted update takes its place in the queue, if it still can. *)
Included(i) ==
  LET q == UpdateQueue(proposals[i].type)
  IN  /\ proposals[i].status = "Submitted"
      /\ chain.sequenceNumbers[q] = proposals[i].sequenceNumber
      /\ chain' = [chain EXCEPT !.sequenceNumbers[q] = @ + 1]
      /\ proposals' = [proposals EXCEPT ![i].status = "Finalized"]
      /\ UNCHANGED <<wanted, page, left>>

OthersChange(changed) ==
  /\ left.changes > 0
  /\ left' = [left EXCEPT !.changes = @ - 1]
  /\ chain' = changed
  /\ UNCHANGED <<wanted, page, proposals>>

OtherUpdate(type) ==
  OthersChange([chain EXCEPT !.sequenceNumbers[UpdateQueue(type)] = @ + 1])

KeysRotated(type) ==
  OthersChange([chain EXCEPT !.keys[KeySet(RequiredAuthorization(type))] =
                               Append(Tail(@), Head(@))])

ThresholdRaised(type) ==
  LET a == RequiredAuthorization(type)
  IN  /\ chain.authorizations[a].threshold < Len(chain.authorizations[a].authorizedKeys)
      /\ OthersChange([chain EXCEPT !.authorizations[a].threshold = @ + 1])

Next ==
  \/ \E t \in wanted : ReadSequenceNumbers(t)
  \/ ReadChainParameters
  \/ ClosePage
  \/ \E k \in Custodian \union NewKey : ProposeNewKey(k)
  \/ KeyUpdateEntry
  \/ \E s \in Edited, n \in 0 .. Cardinality(Custodian) + 1 : AccessStructureThreshold(s, n)
  \/ \E n \in 0 .. Cardinality(Custodian) + 1 : KeySetThreshold(n)
  \/ Continue
  \/ Back
  \/ CreateTransaction
  \/ \E c \in Custodian : SignTransactionProposal(c)
  \/ SkipSigning
  \/ \E i, n \in DOMAIN proposals, c \in Custodian :
       HandleUpdateInstructionSignatureFile(i, c, n)
  \/ \E i \in DOMAIN proposals : CloseProposal(i) \/ submitTransaction(i) \/ Included(i)
  \/ SubmittedProposal
  \/ \E t \in wanted : OtherUpdate(t) \/ KeysRotated(t) \/ ThresholdRaised(t)

Spec == Init /\ [][Next]_vars
-----------------------------------------------------------------------------
StatusOf == {"Open", "Closed", "Submitted", "Failed", "Finalized"}

(* What is on the screen is a page, the indices of an editor are indices   *)
(* of its keys, and the stored proposals are of the types the user wanted. *)
TypeOK ==
  /\ wanted \subseteq updateInstructionTypes(chain.protocolVersion)
  /\ chain.sequenceNumbers \in [Queues -> Nat]
  /\ page.at \in {"menu", "loading", "details", "keys", "size", "threshold", "times", "sign",
                  "submitted"}
  /\ page.at \in {"keys", "size", "threshold", "times", "sign"} /\ IsLevel2(page.type) =>
       \A s \in DOMAIN page.update.structures :
         \A x \in ToSet(page.update.structures[s].indices) :
           x.index \in 0 .. Len(page.update.keys) - 1
  /\ \A i \in DOMAIN proposals :
       /\ \E t \in wanted : proposals[i].type \in Versions(t)
       /\ proposals[i].status \in StatusOf

(***************************************************************************)
(* An update that cannot be submitted, or that the node refuses, was made  *)
(* for a chain that has moved on: another number is next, the keys or the  *)
(* threshold are others.  Nothing else the wallet lets through is wrong:   *)
(* not the queue or the authorization a handler names, not the key that    *)
(* signs, its index, nor a signature that is counted twice.  (The versions *)
(* of a type are the subject of VersionIsCurrent.)                         *)
(***************************************************************************)
RefusedIsOutdated ==
  \A i \in DOMAIN proposals :
    proposals[i].refused /\ Known(proposals[i].type, chain.protocolVersion) =>
      proposals[i].made # Demand(proposals[i].type)

(***************************************************************************)
(* What is signed and sent is in the form the node reads: every index is   *)
(* that of a key, they ascend, no key is listed twice or without any       *)
(* right, and every threshold can be reached.                              *)
(***************************************************************************)
IsWellFormed(type, payload) ==
  IF IsLevel2(type)
  THEN /\ IsInjective(payload.keys)
       /\ Unused(payload) = {}
       /\ \A s \in DOMAIN payload.structures :
            LET r == payload.structures[s]
            IN  /\ r.threshold \in 1 .. Len(r.indices)
                /\ \A j \in DOMAIN r.indices : r.indices[j].index \in 0 .. Len(payload.keys) - 1
                /\ \A j \in 1 .. Len(r.indices) - 1 :
                     r.indices[j].index < r.indices[j + 1].index
  ELSE /\ IsInjective([j \in DOMAIN payload.updateKeys |-> payload.updateKeys[j].key])
       /\ payload.threshold \in 1 .. Len(payload.updateKeys)

PayloadIsWellFormed ==
  \A i \in DOMAIN proposals :
    proposals[i].type \in KeyUpdates => IsWellFormed(proposals[i].type, proposals[i].payload)

(***************************************************************************)
(* The editors do what AccessRights says, whatever happens to indices and  *)
(* statuses: each step is about one key, and what is proposed is what has  *)
(* been chosen, in rights and in thresholds.                               *)
(***************************************************************************)
RightsOf(type, update) ==
  IF IsLevel2(type)
  THEN [keys |-> [s \in DOMAIN update.structures |->
                    {update.keys[x.index + 1] :
                       x \in ToSet(NotRemoved(update.structures[s].indices))}],
        threshold |-> [s \in DOMAIN update.structures |-> update.structures[s].threshold]]
  ELSE [keys |-> [s \in {"keys"} |-> {k.key : k \in ToSet(NotRemoved(update.updateKeys))}],
        threshold |-> [s \in {"keys"} |-> update.threshold]]

NoRights == [keys |-> <<>>, threshold |-> <<>>]

IsEditing == page.at \in {"keys", "size", "threshold", "times", "sign"} /\ page.type \in KeyUpdates

A == INSTANCE AccessRights WITH
       current <- IF IsEditing THEN RightsOf(page.type, page.current) ELSE NoRights,
       draft <- IF IsEditing THEN RightsOf(page.type, page.update) ELSE NoRights,
       proposed <- {RightsOf(proposals[i].type, proposals[i].payload) :
                      i \in {j \in DOMAIN proposals : proposals[j].type \in KeyUpdates}}

ImplementsAccessRights == A!Spec
-----------------------------------------------------------------------------
(* "An unsubmitted update of this type already exists, and must be         *)
(* submitted or cancelled, before a new update of the same kind can be     *)
(* created", says the create page.  Not checked by a run: the menu's types *)
(* are not all the types that are stored (README, "Deviations").           *)
OneOpenPerType ==
  \A i, j \in DOMAIN proposals :
    /\ proposals[i].status = "Open" /\ proposals[j].status = "Open"
    /\ proposals[i].type = proposals[j].type
    => i = j

(* The wallet has "support for the new version of the GAS rewards update": *)
(* the version of an update is the one the chain knows.                    *)
VersionIsCurrent ==
  \A i \in DOMAIN proposals : Known(proposals[i].type, chain.protocolVersion)
===============================================================================
