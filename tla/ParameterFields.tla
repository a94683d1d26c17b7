----------------------------- MODULE ParameterFields -----------------------------
(***************************************************************************)
(* The input components of the forms that propose a governance update.     *)
(*                                                                         *)
(* The components keep copies of a value - the text of an input, a number  *)
(* made of it, the value of the form - and effects of React carry a change *)
(* from one copy to another.  The effects of a commit run together: each   *)
(* compares the state of the commit before (w) with that of its own (n),   *)
(* reads n, and sets copies for the next commit.  The effects of children  *)
(* run before those of their parent, and of two that set a copy the later  *)
(* one wins.                                                               *)
(*                                                                         *)
(* A number is counted in parts of the grid its field is written in: Tick  *)
(* parts are one step (a thousandth of a percent, a second, a micro CCD).  *)
(***************************************************************************)
EXTENDS Integers

CONSTANTS
  Tick,            \* the parts of a step, more than one
  Resolution,      \* fractionResolution: the steps of a whole
  Inexact,         \* numbers whose product with percentageModifier falls short
  EpochsPerYear    \* the epochs (or slots) of a year

ASSUME FieldsAssumption ==
  /\ Tick \in Nat \ {0, 1} /\ Resolution \in Nat \ {0} /\ EpochsPerYear \in Nat \ {0}
  /\ Inexact \subseteq {n \in Nat : n % Tick = 0}

Whole == Resolution * Tick

(* What a text says, and what a number is: NaN is a number that says Junk. *)
Number(n) == [is |-> "number", value |-> n]
Empty == [is |-> "empty", value |-> 0]
Junk == [is |-> "junk", value |-> 0]

IsNumber(v) == v.is = "number"

Numbers == [is : {"number"}, value : Int]

(* What a text, or a copy of it, can say; a number can be negative. *)
Value == Numbers \union {Empty, Junk}

OnGrid(v) == IsNumber(v) /\ v.value % Tick = 0

Steps(n) == Number(n * Tick)

(* round: to the closest step, a half upwards. *)
round(n) == ((2 * n + Tick) \div (2 * Tick)) * Tick

AsNumber(v) == IF v = Empty THEN Number(0) ELSE v
-----------------------------------------------------------------------------
(***************************************************************************)
(* InlineNumber.  Its formatter is one of                                  *)
(*   "whole"   ensureValidBigInt                                           *)
(*   "three"   formatNumberStringWithDigits(0, 3): rounds to a step        *)
(*   "digits"  formatNumberStringWithDigits(3): adds zeros, rounds nothing *)
(*   "rate"    mintRateFormat, ten significant digits                      *)
(*   "annual"  Number(v).toString()                                        *)
(***************************************************************************)
format(how, v) ==
  CASE how = "whole" -> IF OnGrid(v) THEN v ELSE Empty
    [] how \in {"three", "rate"} -> IF IsNumber(v) THEN Number(round(v.value)) ELSE v
    [] how \in {"digits", "annual"} -> v

Throws(how, v) == how \in {"three", "digits"} /\ v = Junk

(* Mutant: the text of an input that is mounted has a digit less than the value. *)
initialShort(how, v, fallback) ==
  IF IsNumber(v) THEN Number((v.value \div (10 * Tick)) * 10 * Tick) ELSE fallback

(* The text of an input that is mounted with a value. *)
initialFormatted(how, v, fallback) ==
  IF Throws(how, v) \/ format(how, v) = Empty THEN fallback ELSE format(how, v)

(* The text after a new value came and the input has no focus. *)
formatted(how, text, v) == IF Throws(how, v) THEN text ELSE format(how, v)

handleBlur(how, text, v, fallback, invalid) ==
  IF text = Empty \/ invalid THEN fallback
  ELSE IF Throws(how, v) \/ format(how, v) = Empty THEN text ELSE format(how, v)

-----------------------------------------------------------------------------
(***************************************************************************)
(* RelativeRateField: the form has the two parts, each an InlineNumber.    *)
(* Both change handlers copy the rate of their render, so that of two      *)
(* changes in one commit the denominator's remains.                        *)
(***************************************************************************)
Parts == {"numerator", "denominator"}

RateMounted(v) ==
  [form |-> v,
   numerator |-> initialFormatted("whole", v.numerator, Number(0)),
   denominator |-> initialFormatted("whole", v.denominator, Number(0))]

RateEffects(w, n, fresh, focus) ==
  LET typed(p) == fresh \/ w[p] # n[p]
      arrived(p) == ~fresh /\ w.form[p] # n.form[p] /\ focus # p
      text(p) == IF arrived(p) THEN formatted("whole", n[p], n.form[p]) ELSE n[p]
  IN  [form |-> IF typed("denominator") THEN [n.form EXCEPT !.denominator = n.denominator]
                ELSE IF typed("numerator") THEN [n.form EXCEPT !.numerator = n.numerator]
                ELSE n.form,
       numerator |-> text("numerator"),
       denominator |-> text("denominator")]

RateBlurred(n, p) ==
  [n EXCEPT ![p] = handleBlur("whole", n[p], n.form[p], Number(0), FALSE)]
-----------------------------------------------------------------------------
(***************************************************************************)
(* RewardFractionField: a percentage with three decimals.  Its value is in *)
(* the form or in a CommissionRangeField, the inner value is the text that *)
(* goes back and forth.                                                    *)
(***************************************************************************)
(* v * percentageModifier, in doubles. *)
percentageToFractionResolution(n) == IF n \in Inexact THEN n - 1 ELSE n

parseValue(text) ==
  IF IsNumber(text) THEN Number(percentageToFractionResolution(text.value)) ELSE Junk

formatValue(v) == IF v = Junk THEN Empty ELSE v

FractionMounted(v) ==
  [form |-> v, inner |-> formatValue(v),
   text |-> initialFormatted("three", formatValue(v), Number(0))]

FractionEffects(w, n, fresh, focused) ==
  [form |-> IF ~fresh /\ w.inner # n.inner THEN parseValue(n.inner) ELSE n.form,
   inner |-> IF ~fresh /\ w.form # n.form THEN formatValue(n.form)
             ELSE IF fresh \/ w.text # n.text THEN n.text
             ELSE n.inner,
   text |-> IF ~fresh /\ w.inner # n.inner /\ ~focused
            THEN formatted("three", n.text, n.inner) ELSE n.text]

FractionBlurred(n) ==
  [n EXCEPT !.text = handleBlur("three", n.text, n.inner, Number(0), FALSE)]
-----------------------------------------------------------------------------
(* CommissionRangeField: a minimum and a maximum, with the state of each its value. *)
Ends == {"min", "max"}

RangeMounted(v) ==
  [form |-> v, min |-> FractionMounted(v.min), max |-> FractionMounted(v.max)]

RangeEffects(w, n, fresh, focus) ==
  LET moved == ~fresh /\ \E e \in Ends : w[e].form # n[e].form
      arrived == ~fresh /\ w.form # n.form
      end(e) == LET f == FractionEffects(w[e], n[e], fresh, focus = e)
                IN  IF arrived THEN [f EXCEPT !.form = n.form[e]] ELSE f
  IN  [form |-> IF moved THEN [min |-> n.min.form, max |-> n.max.form] ELSE n.form,
       min |-> end("min"),
       max |-> end("max")]

RangeBlurred(n, e) == [n EXCEPT ![e] = FractionBlurred(n[e])]
-----------------------------------------------------------------------------
(***************************************************************************)
(* RewardDistribution: two shares of a whole, the third party has the      *)
(* rest.  Each share has a control in a form of its own, and its field the *)
(* number of the text.                                                     *)
(***************************************************************************)
Shares == {"first", "second"}

Other(s) == IF s = "first" THEN "second" ELSE "first"

toFractionResolution(text) ==
  LET v == AsNumber(text)
  IN  IF IsNumber(v) THEN Number(round(percentageToFractionResolution(v.value))) ELSE Junk

isValid(v) == IsNumber(v) /\ v.value <= Whole /\ v.value >= 0

SharesMounted(v) ==
  LET share(s) == [control |-> v[s], inner |-> v[s],
                   text |-> initialFormatted("digits", v[s], v[s])]
  IN  [form |-> v, first |-> share("first"), second |-> share("second")]

(* Mutant: the other share is kept whatever the sum is. *)
handleChangeUncut(s, v, n) == [n.form EXCEPT ![s] = v]

(* The form a share that became v makes: the other one keeps what is left of the whole. *)
handleChange(s, v, n) ==
  LET kept == n[Other(s)].control
      other == IF v.value + n.form[Other(s)].value <= Whole THEN kept
               ELSE Number(Whole - v.value)
  IN  IF s = "first" THEN [first |-> v, second |-> other] ELSE [first |-> other, second |-> v]

SharesEffects(w, n, fresh, focus) ==
  LET changed(s) == ~fresh /\ w[s].inner # n[s].inner /\ isValid(n[s].inner)
      moved == fresh \/ w.form # n.form
      share(s) ==
        [control |-> IF moved THEN n.form[s]
                     ELSE IF changed(s) THEN n[s].inner ELSE n[s].control,
         inner |-> IF ~fresh /\ w[s].control # n[s].control THEN n[s].control
                   ELSE IF fresh \/ w[s].text # n[s].text THEN toFractionResolution(n[s].text)
                   ELSE n[s].inner,
         text |-> IF ~fresh /\ w[s].inner # n[s].inner /\ focus # s
                  THEN formatted("digits", n[s].text, n[s].inner) ELSE n[s].text]
  IN  [form |-> IF changed("second") THEN handleChange("second", n.second.inner, n)
                ELSE IF changed("first") THEN handleChange("first", n.first.inner, n)
                ELSE n.form,
       first |-> share("first"),
       second |-> share("second")]

(* A share without a valid text gets the last valid one back. *)
SharesBlurred(n, s) ==
  [n EXCEPT ![s].text = handleBlur("digits", n[s].text, n[s].inner, n[s].control,
                                   ~isValid(n[s].inner))]
-----------------------------------------------------------------------------
(***************************************************************************)
(* MintRateInput: the rate of a payday is in the form, the annual rate is  *)
(* computed from it, and while the user has the annual rate in focus the   *)
(* other way round.  The powers are modelled by a product and its inverse. *)
(* paydays is the text of the reward period the year is divided by.        *)
(***************************************************************************)
PaydaysPerYear(period) ==
  IF IsNumber(period) /\ period.value > 0 THEN (EpochsPerYear * Tick) \div period.value ELSE 0

calculateAnnualRate(rate, period) ==
  IF IsNumber(rate) /\ PaydaysPerYear(period) > 0
  THEN Number(rate.value * PaydaysPerYear(period)) ELSE Junk

calculateMintPerPayday(annual, period) ==
  IF IsNumber(annual) /\ PaydaysPerYear(period) > 0
  THEN Number(round(annual.value \div PaydaysPerYear(period))) ELSE Junk

mintRateFormat(v) == format("rate", AsNumber(v))

MintMounted(v) ==
  [form |-> v, annual |-> Empty, annualText |-> Number(0),
   text |-> initialFormatted("rate", mintRateFormat(v), Number(0))]

MintEffects(w, n, fresh, focus, before, period) ==
  LET moved == fresh \/ w.form # n.form \/ before # period
      annualMoved == ~fresh /\ (w.annual # n.annual \/ before # period)
  IN  [form |-> IF annualMoved /\ focus = "annual"
                THEN calculateMintPerPayday(AsNumber(n.annual), period)
                ELSE IF fresh \/ w.text # n.text THEN n.text
                ELSE n.form,
       annual |-> IF moved THEN calculateAnnualRate(AsNumber(n.form), period)
                  ELSE IF fresh \/ w.annualText # n.annualText THEN n.annualText
                  ELSE n.annual,
       annualText |-> IF ~fresh /\ w.annual # n.annual /\ focus # "annual"
                      THEN formatted("annual", n.annualText, n.annual) ELSE n.annualText,
       text |-> IF ~fresh /\ mintRateFormat(w.form) # mintRateFormat(n.form) /\ focus # "rate"
                THEN formatted("rate", n.text, mintRateFormat(n.form)) ELSE n.text]

MintBlurred(n, p) ==
  IF p = "annual"
  THEN [n EXCEPT !.annualText = handleBlur("annual", n.annualText, n.annual, Number(0), FALSE)]
  ELSE [n EXCEPT !.text = handleBlur("rate", n.text, mintRateFormat(n.form), Number(0), FALSE)]
-----------------------------------------------------------------------------
(***************************************************************************)
(* A field of a form, by its component.  A plain input has no copy: its    *)
(* text is the value of the form.                                          *)
(***************************************************************************)
PartsOf(component) ==
  CASE component = "RelativeRateField" -> Parts
    [] component = "CommissionRangeField" -> Ends
    [] component = "RewardDistribution" -> Shares
    [] component = "MintRateInput" -> {"annual", "rate"}
    [] component \in {"RewardFractionField", "Input"} -> {"text"}

Mounted(component, v) ==
  CASE component = "RelativeRateField" -> RateMounted(v)
    [] component = "RewardFractionField" -> FractionMounted(v)
    [] component = "CommissionRangeField" -> RangeMounted(v)
    [] component = "RewardDistribution" -> SharesMounted(v)
    [] component = "MintRateInput" -> MintMounted(v)
    [] component = "Input" -> [form |-> v]

Effects(component, w, n, fresh, focus, before, period) ==
  CASE component = "RelativeRateField" -> RateEffects(w, n, fresh, focus)
    [] component = "RewardFractionField" -> FractionEffects(w, n, fresh, focus = "text")
    [] component = "CommissionRangeField" -> RangeEffects(w, n, fresh, focus)
    [] component = "RewardDistribution" -> SharesEffects(w, n, fresh, focus)
    [] component = "MintRateInput" -> MintEffects(w, n, fresh, focus, before, period)
    [] component = "Input" -> n

Typed(component, n, part, text) ==
  CASE component = "RelativeRateField" -> [n EXCEPT ![part] = text]
    [] component = "RewardFractionField" -> [n EXCEPT !.text = text]
    [] component \in {"CommissionRangeField", "RewardDistribution"} -> [n EXCEPT ![part].text = text]
    [] component = "MintRateInput" ->
         IF part = "annual" THEN [n EXCEPT !.annualText = text] ELSE [n EXCEPT !.text = text]
    [] component = "Input" -> [form |-> text]

Blurred(component, n, part) ==
  CASE component = "RelativeRateField" -> RateBlurred(n, part)
    [] component = "RewardFractionField" -> FractionBlurred(n)
    [] component = "CommissionRangeField" -> RangeBlurred(n, part)
    [] component = "RewardDistribution" -> SharesBlurred(n, part)
    [] component = "MintRateInput" -> MintBlurred(n, part)
    [] component = "Input" -> n

(* The texts a field shows. *)
Shown(component, n) ==
  CASE component = "RelativeRateField" -> [numerator |-> n.numerator, denominator |-> n.denominator]
    [] component = "CommissionRangeField" -> [min |-> n.min.text, max |-> n.max.text]
    [] component = "RewardDistribution" -> [first |-> n.first.text, second |-> n.second.text]
    [] component \in {"RewardFractionField", "MintRateInput"} -> n.text
    [] component = "Input" -> n.form
=============================================================================
