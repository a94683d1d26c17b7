---------------------------- MODULE ParameterProposal ----------------------------
(***************************************************************************)
(* A proposal to update chain parameters, from the form to the signing     *)
(* page and back (MultiSignatureCreateProposal, BuildProposal).            *)
(*                                                                         *)
(* The user changes the texts of the inputs; after each commit React runs  *)
(* the effects, and their changes make another commit, until a commit      *)
(* changes nothing.  An event of the user finds the effects run.  Continue *)
(* takes the values of the form as they are and lets react-hook-form check *)
(* them: it reads each field again when it comes to it, which only matters *)
(* for the token form, whose checks wait for the node.                     *)
(***************************************************************************)
EXTENDS ParameterForms

CONSTANTS
  Current,    \* the chain's parameters: a value for each label of each type
  Drafts,     \* what a form has when the user goes on: as mounted, or typed into before
  Texts,      \* the texts that are typed into a component
  MaxEdits,   \* bound: the texts the user types
  MaxBacks    \* bound: the returns from the signing page

(* Two numbers that leave the third party at least nothing. *)
TwoShares(v) ==
  /\ v = [first |-> v.first, second |-> v.second]
  /\ \A s \in Shares : IsNumber(v[s]) /\ v[s].value \in Nat
  /\ v.first.value + v.second.value <= Whole

(* A value of a component.  An input can have words, and numbers as the others. *)
IsValueOf(c, v) ==
  CASE c = "RelativeRateField" -> v \in [Parts -> Value]
    [] c = "CommissionRangeField" -> v \in [Ends -> Value]
    [] c = "RewardDistribution" -> TwoShares(v) /\ \A s \in Shares : v[s] \in Value
    [] c \in {"RewardFractionField", "MintRateInput"} -> v \in Value
    [] c = "Input" -> IsNumber(v) => v \in Numbers

(* The forms start with a value for each of their inputs, the shares from two of a whole. *)
ASSUME ValuesAssumption ==
  /\ \A update \in Types : \A values \in Drafts[update] \union {Current[update]} :
       /\ DOMAIN values = DOMAIN UpdateComponent(update)
       /\ \A label \in DOMAIN values : IsValueOf(UpdateComponent(update)[label].component, values[label])
  /\ \A c \in {"RelativeRateField", "CommissionRangeField", "RewardDistribution",
               "RewardFractionField", "MintRateInput"} : Texts[c] \subseteq Value
  /\ \A c \in {"Input", "text"} : \A text \in Texts[c] : IsValueOf("Input", text)

VARIABLES
  type,       \* the update, a parameter of the page's address
  was,        \* the fields at the commit before
  now,        \* the fields at the latest commit
  fresh,      \* the fields have just been mounted
  focus,      \* the input that has the focus: a label and a part
  stage,      \* "form", "token" or "account" (the node is asked), "sign"
  fields,     \* the values the form was submitted with
  texts,      \* the texts it showed then
  payload,    \* the payload of the proposal, Nothing without one
  edits, backs

vars == <<type, was, now, fresh, focus, stage, fields, texts, payload, edits, backs>>

Nothing == [none |-> TRUE]
NoFocus == [label |-> "none", part |-> "none"]

form == UpdateComponent(type)
component(label) == form[label].component
Values(w) == [label \in DOMAIN form |-> w[label].form]
-----------------------------------------------------------------------------
(* A commit whose effects have nothing to carry on. *)
quiet == was = now /\ ~fresh

focusIn(label) == IF focus.label = label THEN focus.part ELSE "none"

(* The period a year is divided by: the chain's while the field is empty, a slot before. *)
periodOf(w) ==
  IF type # "TimeParameters" THEN Steps(1)
  ELSE IF w["rewardPeriodLength"].form = Empty THEN Current[type]["rewardPeriodLength"]
  ELSE w["rewardPeriodLength"].form

FormMounted(update, values) ==
  [label \in DOMAIN values |-> Mounted(UpdateComponent(update)[label].component, values[label])]

Init ==
  /\ type \in Types
  /\ now \in {FormMounted(type, d) : d \in Drafts[type]} /\ was = now
  /\ fresh = TRUE /\ focus = NoFocus
  /\ stage = "form" /\ fields = Nothing /\ texts = Nothing /\ payload = Nothing
  /\ edits = 0 /\ backs = 0

UseEffect ==
  /\ stage # "sign" /\ ~quiet
  /\ was' = now
  /\ now' = [label \in DOMAIN form |->
               Effects(component(label), was[label], now[label], fresh, focusIn(label),
                       periodOf(was), periodOf(now))]
  /\ fresh' = FALSE
  /\ UNCHANGED <<type, focus, stage, fields, texts, payload, edits, backs>>

handleFocus(label, part) ==
  /\ stage # "sign" /\ quiet /\ focus = NoFocus
  /\ focus' = [label |-> label, part |-> part]
  /\ UNCHANGED <<type, was, now, fresh, stage, fields, texts, payload, edits, backs>>

onChange(text) ==
  /\ stage # "sign" /\ quiet /\ focus # NoFocus /\ edits < MaxEdits
  /\ was' = now
  /\ now' = [now EXCEPT ![focus.label] = Typed(component(focus.label), @, focus.part, text)]
  /\ edits' = edits + 1
  /\ UNCHANGED <<type, fresh, focus, stage, fields, texts, payload, backs>>

onBlur ==
  /\ stage # "sign" /\ quiet /\ focus # NoFocus
  /\ was' = now
  /\ now' = [now EXCEPT ![focus.label] = Blurred(component(focus.label), @, focus.part)]
  /\ focus' = NoFocus
  /\ UNCHANGED <<type, fresh, stage, fields, texts, payload, edits, backs>>
-----------------------------------------------------------------------------
(* The supply is looked at when there are decimals. *)
Accepts(label, f) ==
  IF form[label].rule = "supply"
  THEN \/ f["decimals"] \in {Empty, Junk, Number(0)}
       \/ f[label] = Empty
       \/ mustBeAnInteger(f[label]) /\ f[label].value \div Tick < Word64
  ELSE Passes(form[label].rule, f[label])

AllAccept(labels) == \A label \in labels : Accepts(label, Values(now))

CheckedByToken == {"tokenId"}
CheckedByAccount == {"name", "moduleRef", "metadataUrl", "metadataHash", "governanceAccount"}

Throwing(values) ==
  \E label \in DOMAIN values :
    \/ values[label] = Fails
    \/ form[label].component = "RelativeRateField" /\ values[label].numerator = Fails

(* createTransaction: when it throws, the form stays. *)
handleProposalSubmit(values, shown) ==
  LET p == createTransaction(type, values)
  IN  IF Throwing(View(type, p))
      THEN /\ stage' = "form" /\ fields' = Nothing /\ texts' = Nothing
           /\ UNCHANGED payload
      ELSE /\ stage' = "sign" /\ fields' = values /\ texts' = shown
           /\ payload' = p

ShownNow == [label \in DOMAIN form |-> Shown(component(label), now[label])]

Continue ==
  /\ stage = "form" /\ quiet
  /\ IF type = "UpdateCreatePltParameters"
     THEN /\ AllAccept(CheckedByToken)
          /\ stage' = "token" /\ fields' = Values(now) /\ texts' = ShownNow
          /\ UNCHANGED payload
     ELSE /\ AllAccept(DOMAIN form)
          /\ handleProposalSubmit(Values(now), ShownNow)
  /\ UNCHANGED <<type, was, now, fresh, focus, edits, backs>>

(* The node does not know the token: the fields up to the account come next. *)
TokenAnswered ==
  /\ stage = "token" /\ quiet
  /\ IF AllAccept(CheckedByAccount)
     THEN stage' = "account" /\ UNCHANGED <<fields, texts>>
     ELSE stage' = "form" /\ fields' = Nothing /\ texts' = Nothing
  /\ UNCHANGED <<type, was, now, fresh, focus, payload, edits, backs>>

(* The node knows the account. *)
AccountAnswered ==
  /\ stage = "account" /\ quiet
  /\ IF AllAccept(DOMAIN form \ (CheckedByToken \union CheckedByAccount))
     THEN handleProposalSubmit(fields, texts)
     ELSE stage' = "form" /\ fields' = Nothing /\ texts' = Nothing /\ UNCHANGED payload
  /\ UNCHANGED <<type, was, now, fresh, focus, edits, backs>>
-----------------------------------------------------------------------------
(***************************************************************************)
(* Back on the form, a field is mounted with defaults.x || current: a zero *)
(* or NaN that is a number, and an empty text, give way to the current     *)
(* value.  The gas rewards are spread over the current ones; the range of  *)
(* the finalization commission takes that of the transaction commission.   *)
(***************************************************************************)
Falsy(label) ==
  \/ fields[label] = Empty
  \/ component(label) = "RewardFractionField" /\ fields[label] \in {Number(0), Junk}

Restored(label) ==
  CASE type \in {"UpdateBakerStakeThreshold", "UpdateCreatePltParameters"} -> Current[type][label]
    [] type \in {"UpdateGASRewards", "UpdateGASRewardsV1"} -> fields[label]
    [] label = "finalizationCommissionRange" -> fields["transactionCommissionRange"]
    [] OTHER -> IF Falsy(label) THEN Current[type][label] ELSE fields[label]

Back ==
  /\ stage = "sign" /\ backs < MaxBacks
  /\ now' = FormMounted(type, [label \in DOMAIN form |-> Restored(label)]) /\ was' = now'
  /\ fresh' = TRUE /\ focus' = NoFocus
  /\ stage' = "form" /\ backs' = backs + 1
  /\ UNCHANGED <<type, fields, texts, payload, edits>>

TextsFor(label) ==
  Texts[IF component(label) = "Input" /\ form[label].wire = "text" THEN "text" ELSE component(label)]

Next ==
  \/ UseEffect
  \/ \E label \in DOMAIN form : \E part \in PartsOf(component(label)) : handleFocus(label, part)
  \/ focus # NoFocus /\ \E text \in TextsFor(focus.label) : onChange(text)
  \/ onBlur
  \/ Continue
  \/ TokenAnswered
  \/ AccountAnswered
  \/ Back

(* React runs the effects of every commit. *)
Spec == Init /\ [][Next]_vars /\ WF_vars(UseEffect)
-----------------------------------------------------------------------------
(***************************************************************************)
(* The two shares of a distribution never leave the third party less than  *)
(* nothing: whatever the user types into one, the form holds two shares of *)
(* a whole, in every commit on the way (RewardDistribution).               *)
(***************************************************************************)
SharesAddUp ==
  "rewardDistribution" \in DOMAIN form =>
    LET v == now["rewardDistribution"].form
    IN  /\ \A s \in Shares : v[s].value >= 0
        /\ v.first.value + v.second.value <= Whole

(* The parts of a value a field has, and of a text. *)
PartsShown(label, v) ==
  IF component(label) \in {"RelativeRateField", "CommissionRangeField", "RewardDistribution"}
  THEN {v[p] : p \in PartsOf(component(label))} ELSE {v}

Fits(wire, p) == wire = "text" \/ (IsNumber(p) /\ InRange(wire, p))

Agree(label, text, v) ==
  CASE component(label) = "RelativeRateField" ->
         text.numerator.value * v.denominator.value = text.denominator.value * v.numerator.value
    [] component(label) = "RewardDistribution" ->
         \A s \in Shares : isValid(toFractionResolution(text[s])) => v[s] = Number(round(text[s].value))
    [] component(label) = "CommissionRangeField" ->
         \A e \in Ends : OnGrid(fields[label][e]) => v[e] = text[e]
    [] component(label) = "RewardFractionField" -> OnGrid(fields[label]) => v = text
    [] OTHER -> v = text

WrittenValue(label, v) ==
  LET wire == form[label].wire
  IN  IF component(label) \in {"RelativeRateField", "CommissionRangeField", "RewardDistribution"}
      THEN [p \in PartsOf(component(label)) |-> Written(wire, v[p])]
      ELSE Written(wire, v)

(***************************************************************************)
(* What is written of a proposal is what the form showed when it was       *)
(* submitted, under the same label, rounded to the grid; rates are the     *)
(* same fraction.  It is stated of values that fit what they are written   *)
(* as, and of percentages that are on the grid.                            *)
(***************************************************************************)
ProposedIsShown ==
  stage = "sign" =>
    \A label \in DOMAIN form :
      LET v == View(type, payload)[label]
      IN  (/\ Accepts(label, fields)
           /\ \A p \in PartsShown(label, v) : Fits(form[label].wire, p)) => Agree(label, texts[label], WrittenValue(label, v))

(* A rate with more digits than an input shows is back on the form. *)
LongRateIsBack ==
  /\ backs > 0
  /\ \E label \in DOMAIN form :
       component(label) = "MintRateInput" /\ IsNumber(fields[label]) /\ ~OnGrid(fields[label])

(***************************************************************************)
(* The effects that copy values between the texts, the components and the  *)
(* form come to an end, whatever was typed, and also when a value of the   *)
(* chain, or one that was submitted, is mounted.  The exception is a rate  *)
(* that was submitted with more digits than its input shows: mounted again,*)
(* the annual rate and its text change places for ever.                    *)
(***************************************************************************)
EffectsSettle == []<>(quiet \/ stage = "sign" \/ LongRateIsBack)

(***************************************************************************)
(* The deviations, which no run checks.                                    *)
(***************************************************************************)
EffectsAlwaysSettle == []<>(quiet \/ stage = "sign")

(* What is back on the form is what was submitted from it. *)
BackRestores == [][(stage = "sign" /\ stage' = "form") => Values(now)' = fields]_vars

(* The account of a token's governance was found on the chain. *)
GovernanceAccountExists ==
  (stage = "sign" /\ type = "UpdateCreatePltParameters") => fields["governanceAccount"] = Word(2)

(* A value that fits is written, whatever was typed. *)
WhatIsProposedFits ==
  stage = "sign" =>
    \A label \in DOMAIN form : \A p \in PartsShown(label, fields[label]) :
      Fits(form[label].wire, p)

(* A percentage is written as it was shown. *)
PercentagesAreExact ==
  stage = "sign" =>
    \A label \in DOMAIN form :
      component(label) \in {"RewardFractionField", "CommissionRangeField"} =>
        WrittenValue(label, View(type, payload)[label]) = texts[label]
=============================================================================
