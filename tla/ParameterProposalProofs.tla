------------------------ MODULE ParameterProposalProofs ------------------------
(***************************************************************************)
(* Proofs about ParameterProposal for every grid, every parameters of the  *)
(* chain, every draft and every text.                                      *)
(***************************************************************************)
EXTENDS ParameterProposal, WellFoundedInduction, TLAPS

(***************************************************************************)
(* A field of two shares, by the pair of its latest commits w and n.       *)
(***************************************************************************)
Amount(v) == IsNumber(v) => v.value \in Int

\* Whatever the phase: two shares of a whole, and copies that are amounts.
Whole2(n) ==
  /\ DOMAIN n = {"form", "first", "second"}
  /\ TwoShares(n.form)
  /\ \A s \in Shares :
       /\ DOMAIN n[s] = {"control", "inner", "text"}
       /\ Amount(n[s].control) /\ Amount(n[s].inner) /\ Amount(n[s].text)

\* The copies of a field that has just been mounted are its value.
MountedAsForm(n) ==
  \A s \in Shares : n[s].control = n.form[s] /\ n[s].inner = n.form[s] /\ n[s].text = n.form[s]

\* At most a number was made of a text (of both texts after a mount, when the
\* values are not on the grid).
Read(w, n) ==
  /\ w.form = n.form
  /\ \A s \in Shares :
       /\ w[s].control = n[s].control /\ w[s].text = n[s].text
       /\ n[s].control = n.form[s]
  /\ \/ \E s \in Shares : w[s].inner = n[s].inner
     \/ \A s \in Shares : isValid(n[s].inner) /\ n[s].inner # n.form[s]

\* At most a text changed.
Rewritten(w, n) ==
  /\ w.form = n.form
  /\ \A s \in Shares :
       /\ w[s].control = n[s].control /\ w[s].inner = n[s].inner
       /\ n[s].control = n.form[s]
  /\ \E s \in Shares : w[s].text = n[s].text

\* The form got the number of a share, and so did the share's control and text.
Carried(w, n) ==
  /\ w.form # n.form
  /\ \A s \in Shares :
       /\ w[s].inner = n[s].inner
       /\ w[s].control # n[s].control => n[s].control = n[s].inner
       /\ w[s].text # n[s].text => w[s].control # n[s].control
  /\ \E s \in Shares : n[s].control = n.form[s]

\* The controls got the values of the form, of which one was new to them.
Copied(w, n) ==
  /\ w.form = n.form
  /\ \A s \in Shares :
       /\ w[s].inner = n[s].inner /\ w[s].text = n[s].text
       /\ n[s].control = n.form[s]
  /\ \E s \in Shares : w[s].control = n[s].control

\* In none of the phases does a number change while a value of the form is
\* still on its way to the control of its share.
InPhase(w, n, f) ==
  /\ Whole2(n)
  /\ IF f THEN MountedAsForm(n)
     ELSE Read(w, n) \/ Rewritten(w, n) \/ Carried(w, n) \/ Copied(w, n)

Changed(w, n, s) == w[s].inner # n[s].inner /\ isValid(n[s].inner)

\* The copies x after the effects of a mount.
EffectsOfMount(n, x) ==
  /\ x.form = n.form
  /\ \A s \in Shares :
       /\ x[s].control = n.form[s]
       /\ x[s].inner = toFractionResolution(n[s].text)
       /\ x[s].text = n[s].text

\* The copies x after the effects of a later commit.
EffectsOfCommit(w, n, x) ==
  /\ x.form = IF Changed(w, n, "second") THEN handleChange("second", n["second"].inner, n)
              ELSE IF Changed(w, n, "first") THEN handleChange("first", n["first"].inner, n)
              ELSE n.form
  /\ \A s \in Shares :
       /\ x[s].control = IF w.form # n.form THEN n.form[s]
                         ELSE IF Changed(w, n, s) THEN n[s].inner ELSE n[s].control
       /\ x[s].inner = IF w[s].control # n[s].control THEN n[s].control
                       ELSE IF w[s].text # n[s].text THEN toFractionResolution(n[s].text)
                       ELSE n[s].inner
       /\ x[s].text \in {n[s].text, n[s].inner}
       /\ x[s].text # n[s].text => w[s].inner # n[s].inner

\* A number has three decimals in its text.
LEMMA Digits ==
  ASSUME NEW text, NEW v
  PROVE  formatted("digits", text, v) \in {text, v} /\ initialFormatted("digits", v, v) = v
BY DEF formatted, initialFormatted, format, Throws

LEMMA MountEffects ==
  ASSUME NEW w, NEW n, NEW focused
  PROVE  EffectsOfMount(n, SharesEffects(w, n, TRUE, focused))
BY DEF SharesEffects, Shares, EffectsOfMount

LEMMA CommitEffects ==
  ASSUME NEW w, NEW n, NEW focused
  PROVE  EffectsOfCommit(w, n, SharesEffects(w, n, FALSE, focused))
BY Digits DEF SharesEffects, Shares, Changed, EffectsOfCommit


LEMMA Amounts ==
  /\ Tick \in Nat \ {0, 1} /\ Resolution \in Nat \ {0} /\ Whole \in Nat
  /\ \A n \in Int : round(n) \in Int /\ percentageToFractionResolution(n) \in Int
<1>1. Tick \in Nat \ {0, 1} /\ Resolution \in Nat \ {0}
  BY FieldsAssumption
<1>2. Whole \in Nat
  BY <1>1 DEF Whole
<1>3. \A n \in Int : (2 * n + Tick) \div (2 * Tick) \in Int
  <2> SUFFICES ASSUME NEW n \in Int PROVE (2 * n + Tick) \div (2 * Tick) \in Int
    OBVIOUS
  <2>1. 2 * n + Tick \in Int /\ 2 * Tick \in Int
    BY <1>1
  <2>2. \A a \in Int, b \in Nat \ {0} : a \div b \in Int
    OBVIOUS
  <2>3. 2 * Tick \in Nat \ {0}
    BY <1>1
  <2> QED
    BY <2>1, <2>2, <2>3
<1>4. \A n \in Int : round(n) \in Int
  BY <1>1, <1>3 DEF round
<1> QED
  BY <1>1, <1>2, <1>4 DEF percentageToFractionResolution

\* The number of a text is an amount.
LEMMA ReadAmount ==
  ASSUME NEW text, Amount(text)
  PROVE  Amount(toFractionResolution(text))
<1> DEFINE v == AsNumber(text)
<1>1. IsNumber(v) => v.value \in Int
  BY DEF AsNumber, Amount, Number, IsNumber
<1> HIDE DEF v
<1>2. CASE IsNumber(v)
  <2>1. round(percentageToFractionResolution(v.value)) \in Int
    BY <1>1, <1>2, Amounts
  <2>2. toFractionResolution(text) = Number(round(percentageToFractionResolution(v.value)))
    BY <1>2 DEF toFractionResolution, v
  <2> HIDE DEF v
  <2> QED
    BY <2>1, <2>2 DEF Amount, Number
<1>3. CASE ~IsNumber(v)
  BY <1>3 DEF toFractionResolution, v, Amount, Junk, IsNumber
<1> QED
  BY <1>2, <1>3

\* A share of a whole is still one when it has been rounded to the grid.
LEMMA RoundedShare ==
  ASSUME NEW n \in Nat, n <= Whole
  PROVE  round(percentageToFractionResolution(n)) \in 0 .. Whole
<1>1. /\ Tick \in Nat \ {0, 1} /\ Resolution \in Nat \ {0} /\ Whole = Resolution * Tick
  BY Amounts DEF Whole
<1>2. ASSUME NEW m \in Int, -1 <= m, m <= Whole PROVE round(m) \in 0 .. Whole
  <2> DEFINE a == 2 * m + Tick
             b == 2 * Tick
             k == a \div b
  <2>1. a \in Int /\ b \in Nat \ {0} /\ a >= 0
    BY <1>1, <1>2
  <2>2. a <= 2 * Whole + Tick
    BY <1>1, <1>2, Amounts
  <2> HIDE DEF a, b
  <2>3. k \in Nat /\ b * k <= a
    BY <2>1
  <2> HIDE DEF k
  <2>4. 2 * (Tick * k) <= 2 * Whole + Tick /\ k * Tick \in Nat
    <3>1. 2 * (Tick * k) = b * k
      BY <1>1, <2>3 DEF b
    <3>2. Tick * k \in Nat /\ Whole \in Nat
      BY <1>1, <2>3
    <3>3. 2 * (Tick * k) <= a
      BY <2>3, <3>1
    <3>4. 2 * (Tick * k) <= 2 * Whole + Tick
      BY <1>1, <2>1, <2>2, <3>2, <3>3
    <3>5. k * Tick = Tick * k
      BY <1>1, <2>3
    <3> QED
      BY <3>2, <3>4, <3>5
  <2>5. k <= Resolution
    <3> SUFFICES ASSUME k >= Resolution + 1 PROVE FALSE
      BY <1>1, <2>3
    <3>1. Tick * k >= Tick * (Resolution + 1)
      BY <1>1, <2>3
    <3>2. Tick * (Resolution + 1) = Whole + Tick
      BY <1>1
    <3> QED
      BY <1>1, <2>3, <2>4, <3>1, <3>2, Amounts
  <2>6. k * Tick <= Resolution * Tick
    BY <1>1, <2>3, <2>5
  <2>7. round(m) = k * Tick
    BY DEF round, k, a, b
  <2> QED
    BY <1>1, <2>4, <2>6, <2>7
<1>3. percentageToFractionResolution(n) \in Int /\ percentageToFractionResolution(n) \in {n, n - 1}
  BY DEF percentageToFractionResolution
<1> QED
  BY <1>2, <1>3, Amounts

\* The effects keep the parts of a field, and that its copies are amounts.
LEMMA CopiesStay ==
  ASSUME NEW w, NEW n, NEW f \in BOOLEAN, NEW focused, Whole2(n)
  PROVE  LET x == SharesEffects(w, n, f, focused)
         IN  /\ DOMAIN x = {"form", "first", "second"}
             /\ \A s \in Shares :
                  /\ DOMAIN x[s] = {"control", "inner", "text"}
                  /\ Amount(x[s].control) /\ Amount(x[s].inner) /\ Amount(x[s].text)
<1> DEFINE x == SharesEffects(w, n, f, focused)
<1>1. DOMAIN x = {"form", "first", "second"}
  BY DEF SharesEffects
<1>2. ASSUME NEW s \in Shares PROVE DOMAIN x[s] = {"control", "inner", "text"}
  BY <1>2 DEF SharesEffects, Shares
<1>3. ASSUME NEW s \in Shares
      PROVE  Amount(x[s].control) /\ Amount(x[s].inner) /\ Amount(x[s].text)
  <2>1. Amount(n.form[s]) /\ Amount(n[s].control) /\ Amount(n[s].inner) /\ Amount(n[s].text)
    BY <1>3 DEF Whole2, TwoShares, Amount
  <2>2. Amount(toFractionResolution(n[s].text))
    BY <2>1, ReadAmount
  <2>3. CASE f = TRUE
    <3>1. x = SharesEffects(w, n, TRUE, focused)
      BY <2>3
    <3>3. EffectsOfMount(n, x)
      BY <3>1, MountEffects
    <3> HIDE DEF x
    <3>2. /\ x[s].control = n.form[s] /\ x[s].text = n[s].text
          /\ x[s].inner = toFractionResolution(n[s].text)
      BY <1>3, <3>3 DEF EffectsOfMount
    <3> QED
      BY <2>1, <2>2, <3>2
  <2>4. CASE f = FALSE
    <3>1. x = SharesEffects(w, n, FALSE, focused)
      BY <2>4
    <3>2. EffectsOfCommit(w, n, x)
      BY <3>1, CommitEffects
    <3> HIDE DEF x
    <3>3. /\ x[s].control \in {n.form[s], n[s].inner, n[s].control}
          /\ x[s].inner \in {n[s].control, toFractionResolution(n[s].text), n[s].inner}
          /\ x[s].text \in {n[s].text, n[s].inner}
      BY <1>3, <3>2 DEF EffectsOfCommit
    <3> QED
      BY <2>1, <2>2, <3>3
  <2> QED
    BY <2>3, <2>4
<1> QED
  BY <1>1, <1>2, <1>3

\* A share that is carried to the form leaves the other one at most the rest.
LEMMA HandleChangeAddsUp ==
  ASSUME NEW s \in Shares, NEW v, NEW n, Whole2(n), Amount(v), isValid(v),
         n[Other(s)].control = n.form[Other(s)],
         NEW y, y = handleChange(s, v, n)
  PROVE  /\ TwoShares(y) /\ y[s] = v
         /\ v = n.form[s] => y = n.form
<1> DEFINE o == Other(s)
           kept == n.form[o].value
           rest == IF v.value + kept <= Whole THEN n.form[o] ELSE Number(Whole - v.value)
<1>1. v.value \in Nat /\ v.value <= Whole /\ Whole \in Nat
  BY Amounts DEF isValid, Amount, IsNumber
<1>2. o \in Shares /\ kept \in Nat /\ IsNumber(n.form[o])
  BY DEF Other, Shares, Whole2, TwoShares
<1>3. IsNumber(rest) /\ rest.value \in Nat /\ v.value + rest.value <= Whole
  BY <1>1, <1>2 DEF IsNumber, Number
<1>4. y = IF s = "first" THEN [first |-> v, second |-> rest] ELSE [first |-> rest, second |-> v]
  BY DEF handleChange
<1>5. IsNumber(v)
  BY DEF isValid
<1>6. v = n.form[s] => rest = n.form[o]
  <2> SUFFICES ASSUME v = n.form[s] PROVE v.value + kept <= Whole
    OBVIOUS
  <2>1. n.form["first"].value \in Nat /\ n.form["second"].value \in Nat
    BY DEF Whole2, TwoShares, Shares
  <2>2. n.form["first"].value + n.form["second"].value <= Whole
    BY DEF Whole2, TwoShares
  <2> QED
    BY <2>1, <2>2 DEF Other, Shares
<1> DEFINE form0 == n.form
<1>7. form0 = [first |-> form0.first, second |-> form0.second]
  BY DEF Whole2, TwoShares
<1> HIDE DEF rest, kept
<1>8. CASE s = "first"
  <2>1. y = [first |-> v, second |-> rest] /\ o = "second"
    BY <1>4, <1>8 DEF Other
  <2>2. TwoShares(y)
    BY <1>1, <1>3, <1>5, <2>1 DEF TwoShares, Shares
  <2>3. v = n.form[s] => y = n.form
    BY <1>6, <1>7, <1>8, <2>1
  <2> QED
    BY <1>8, <2>1, <2>2, <2>3
<1>9. CASE s = "second"
  <2>1. y = [first |-> rest, second |-> v] /\ o = "first"
    BY <1>4, <1>9 DEF Other
  <2>2. TwoShares(y)
    BY <1>1, <1>3, <1>5, <2>1 DEF TwoShares, Shares
  <2>3. v = n.form[s] => y = n.form
    BY <1>6, <1>7, <1>9, <2>1
  <2> QED
    BY <1>9, <2>1, <2>2, <2>3
<1> QED
  BY <1>8, <1>9 DEF Shares

\* The effects of the mount read both texts.
LEMMA MountIsRead ==
  ASSUME NEW w, NEW n, NEW focused, Whole2(n), MountedAsForm(n)
  PROVE  LET x == SharesEffects(w, n, TRUE, focused) IN Whole2(x) /\ Read(n, x)
<1> DEFINE x == SharesEffects(w, n, TRUE, focused)
<1> SUFFICES Whole2(x) /\ Read(n, x)
  OBVIOUS
<1>0. EffectsOfMount(n, x)
  BY MountEffects
<1>6. /\ DOMAIN x = {"form", "first", "second"}
      /\ \A s \in Shares :
           /\ DOMAIN x[s] = {"control", "inner", "text"}
           /\ Amount(x[s].control) /\ Amount(x[s].inner) /\ Amount(x[s].text)
  BY CopiesStay
<1> HIDE DEF x
<1>1. x.form = n.form
  BY <1>0 DEF EffectsOfMount
<1>2. ASSUME NEW s \in Shares
      PROVE  /\ x[s].control = n.form[s] /\ x[s].text = n[s].text
             /\ x[s].inner = toFractionResolution(n.form[s])
  BY <1>0, <1>2 DEF EffectsOfMount, MountedAsForm
<1>3. ASSUME NEW s \in Shares PROVE isValid(x[s].inner)
  <2> DEFINE v == n.form[s].value
  <2>1. v \in Nat /\ v <= Whole /\ IsNumber(n.form[s])
    <3>1. n.form["first"].value \in Nat /\ n.form["second"].value \in Nat
      BY DEF Whole2, TwoShares, Shares
    <3>2. n.form["first"].value + n.form["second"].value <= Whole
      BY DEF Whole2, TwoShares
    <3>3. IsNumber(n.form[s])
      BY <1>3 DEF Whole2, TwoShares
    <3> QED
      BY <3>1, <3>2, <3>3, Amounts DEF Shares
  <2>2. AsNumber(n.form[s]) = n.form[s]
    BY <2>1 DEF AsNumber, IsNumber, Empty
  <2>3. x[s].inner = Number(round(percentageToFractionResolution(v)))
    BY <1>2, <2>1, <2>2 DEF toFractionResolution
  <2>4. round(percentageToFractionResolution(v)) \in 0 .. Whole
    BY <2>1, RoundedShare
  <2> QED
    <3> DEFINE r == round(percentageToFractionResolution(v))
    <3>1. x[s].inner = [is |-> "number", value |-> r]
      BY <2>3 DEF Number
    <3> HIDE DEF r, x
    <3>2. r \in 0 .. Whole
      BY <2>4 DEF r
    <3> QED
      BY <3>1, <3>2, Amounts DEF isValid, IsNumber
<1>4. Whole2(x)
  <2>2. TwoShares(x.form)
    BY <1>1 DEF Whole2
  <2> QED
    BY <1>6, <2>2 DEF Whole2
<1>5. Read(n, x)
  <2>1. \A s \in Shares : n[s].control = x[s].control /\ n[s].text = x[s].text /\ x[s].control = x.form[s]
    BY <1>1, <1>2 DEF MountedAsForm
  <2>2. \/ \E s \in Shares : n[s].inner = x[s].inner
        \/ \A s \in Shares : isValid(x[s].inner) /\ x[s].inner # x.form[s]
    BY <1>1, <1>3 DEF MountedAsForm
  <2> QED
    BY <1>1, <2>1, <2>2 DEF Read
<1> QED
  BY <1>4, <1>5

\* The effects after a text was read: a share that changed goes to the form.
LEMMA ReadIsCarried ==
  ASSUME NEW w, NEW n, Whole2(n), Read(w, n), NEW x, EffectsOfCommit(w, n, x)
  PROVE  TwoShares(x.form) /\ (Rewritten(n, x) \/ Carried(n, x))
<1>1. /\ w.form = n.form /\ TwoShares(n.form)
      /\ \A s \in Shares :
           /\ w[s].control = n[s].control /\ w[s].text = n[s].text
           /\ n[s].control = n.form[s]
  BY DEF Read, Whole2
<1>2. \/ \E s \in Shares : w[s].inner = n[s].inner
      \/ \A s \in Shares : isValid(n[s].inner) /\ n[s].inner # n.form[s]
  BY DEF Read
<1>3. \A s \in Shares :
        /\ x[s].inner = n[s].inner
        /\ x[s].control = IF Changed(w, n, s) THEN n[s].inner ELSE n[s].control
        /\ x[s].text # n[s].text => w[s].inner # n[s].inner
  BY <1>1 DEF EffectsOfCommit
<1>4. "first" \in Shares /\ "second" \in Shares /\ \A s \in Shares : s \in {"first", "second"}
  BY DEF Shares
<1>5. ASSUME NEW s \in Shares, Changed(w, n, s), x.form = handleChange(s, n[s].inner, n)
      PROVE  TwoShares(x.form) /\ x.form[s] = n[s].inner /\ (n[s].inner = n.form[s] => x.form = n.form)
  <2>1. Amount(n[s].inner) /\ isValid(n[s].inner)
    BY <1>5 DEF Whole2, Changed
  <2>2. n[Other(s)].control = n.form[Other(s)]
    BY <1>1 DEF Other, Shares
  <2> QED
    BY <1>5, <2>1, <2>2, HandleChangeAddsUp
<1>6. CASE ~Changed(w, n, "first") /\ ~Changed(w, n, "second")
  <2>1. x.form = n.form
    BY <1>6 DEF EffectsOfCommit
  <2>2. \A s \in Shares : n[s].control = x[s].control /\ x[s].control = x.form[s]
    BY <1>1, <1>3, <1>4, <1>6, <2>1
  <2>3. \E s \in Shares : w[s].inner = n[s].inner
    BY <1>2, <1>4, <1>6 DEF Changed
  <2>4. \E s \in Shares : n[s].text = x[s].text
    BY <1>3, <2>3
  <2> QED
    BY <1>1, <1>3, <2>1, <2>2, <2>4 DEF Rewritten
<1>7. ASSUME NEW s \in Shares, NEW o \in Shares, o # s, Changed(w, n, s), ~Changed(w, n, o),
             x.form = handleChange(s, n[s].inner, n)
      PROVE  TwoShares(x.form) /\ (Rewritten(n, x) \/ Carried(n, x))
  <2>1. TwoShares(x.form) /\ x.form[s] = n[s].inner /\ (n[s].inner = n.form[s] => x.form = n.form)
    BY <1>5, <1>7
  <2>2. x[s].control = x.form[s] /\ x[o].control = n[o].control
    BY <1>3, <1>7, <2>1
  <2>3. w[s].inner # n[s].inner
    BY <1>7 DEF Changed
  <2>4. \A z \in Shares : z \in {s, o}
    BY <1>7 DEF Shares
  <2>5. CASE n[s].inner = n.form[s]
    <3>1. w[o].inner = n[o].inner
      BY <1>2, <2>3, <2>4, <2>5
    <3>2. n[o].text = x[o].text
      BY <1>3, <3>1
    <3>3. x.form = n.form
      BY <2>1, <2>5
    <3>4. \A z \in Shares : n[z].control = x[z].control /\ x[z].control = x.form[z]
      BY <1>1, <2>2, <2>4, <3>3
    <3>5. Rewritten(n, x)
      BY <1>3, <3>2, <3>3, <3>4 DEF Rewritten
    <3> QED
      BY <2>1, <3>5
  <2>6. CASE n[s].inner # n.form[s]
    <3>1. w[o].inner = n[o].inner
      BY <1>2, <1>7, <2>3, <2>4 DEF Changed
    <3>2. n.form # x.form /\ n[s].control # x[s].control /\ x[s].control = x[s].inner
      BY <1>1, <1>3, <2>1, <2>2, <2>6
    <3>3. n[o].text = x[o].text
      BY <1>3, <3>1
    <3>4. \A z \in Shares :
            /\ n[z].inner = x[z].inner
            /\ n[z].control # x[z].control => x[z].control = x[z].inner
            /\ n[z].text # x[z].text => n[z].control # x[z].control
      BY <1>3, <2>2, <2>4, <3>2, <3>3
    <3>5. Carried(n, x)
      BY <2>2, <3>2, <3>4 DEF Carried
    <3> QED
      BY <2>1, <3>5
  <2> QED
    BY <2>5, <2>6
<1>8. CASE Changed(w, n, "first") /\ Changed(w, n, "second")
  <2>1. x.form = handleChange("second", n["second"].inner, n)
    BY <1>8 DEF EffectsOfCommit
  <2>2. TwoShares(x.form) /\ x.form["second"] = n["second"].inner
    BY <1>4, <1>5, <1>8, <2>1
  <2>3. \A s \in Shares : n[s].inner # n.form[s]
    BY <1>2, <1>4, <1>8 DEF Changed
  <2>4. \A s \in Shares : x[s].control = x[s].inner /\ x[s].inner = n[s].inner
    BY <1>3, <1>4, <1>8
  <2>5. \A s \in Shares : n[s].control # x[s].control
    BY <1>1, <2>3, <2>4
  <2>6. n.form # x.form /\ x["second"].control = x.form["second"]
    BY <1>4, <2>2, <2>3, <2>4
  <2>7. Carried(n, x)
    BY <1>4, <2>4, <2>5, <2>6 DEF Carried
  <2> QED
    BY <2>2, <2>7
<1>9. CASE Changed(w, n, "first") /\ ~Changed(w, n, "second")
  BY <1>4, <1>7, <1>9 DEF EffectsOfCommit
<1>10. CASE ~Changed(w, n, "first") /\ Changed(w, n, "second")
  BY <1>4, <1>7, <1>10 DEF EffectsOfCommit
<1> QED
  BY <1>6, <1>8, <1>9, <1>10

\* The effects of the other commits leave the form as it is.
LEMMA RewrittenIsRead ==
  ASSUME NEW w, NEW n, Rewritten(w, n), NEW x, EffectsOfCommit(w, n, x)
  PROVE  x.form = n.form /\ Read(n, x)
<1>1. "first" \in Shares /\ "second" \in Shares
  BY DEF Shares
<1>2. x.form = n.form
  BY <1>1 DEF EffectsOfCommit, Rewritten, Changed
<1>3. \A s \in Shares : n[s].control = x[s].control /\ n[s].text = x[s].text /\ x[s].control = x.form[s]
  BY <1>2 DEF EffectsOfCommit, Rewritten, Changed
<1>4. \E s \in Shares : n[s].inner = x[s].inner
  BY DEF EffectsOfCommit, Rewritten
<1> QED
  BY <1>2, <1>3, <1>4 DEF Read

LEMMA CarriedIsCopied ==
  ASSUME NEW w, NEW n, Carried(w, n), NEW x, EffectsOfCommit(w, n, x)
  PROVE  x.form = n.form /\ Copied(n, x)
<1>1. "first" \in Shares /\ "second" \in Shares
  BY DEF Shares
<1>2. x.form = n.form
  BY <1>1 DEF EffectsOfCommit, Carried, Changed
<1>3. \A s \in Shares : n[s].inner = x[s].inner /\ n[s].text = x[s].text /\ x[s].control = x.form[s]
  BY <1>2 DEF EffectsOfCommit, Carried
<1>4. \E s \in Shares : n[s].control = x[s].control
  BY <1>2, <1>3 DEF Carried
<1> QED
  BY <1>2, <1>3, <1>4 DEF Copied

LEMMA CopiedIsRead ==
  ASSUME NEW w, NEW n, Copied(w, n), NEW x, EffectsOfCommit(w, n, x)
  PROVE  x.form = n.form /\ Read(n, x)
<1>1. "first" \in Shares /\ "second" \in Shares
  BY DEF Shares
<1>2. x.form = n.form
  BY <1>1 DEF EffectsOfCommit, Copied, Changed
<1>3. \A s \in Shares : n[s].control = x[s].control /\ n[s].text = x[s].text /\ x[s].control = x.form[s]
  BY <1>2 DEF EffectsOfCommit, Copied, Changed
<1>4. \E s \in Shares : n[s].inner = x[s].inner
  BY DEF EffectsOfCommit, Copied
<1> QED
  BY <1>2, <1>3, <1>4 DEF Read

\* The effects of any commit keep the invariant.
LEMMA EffectsKeepShares ==
  ASSUME NEW w, NEW n, NEW f \in BOOLEAN, NEW focused, InPhase(w, n, f)
  PROVE  InPhase(n, SharesEffects(w, n, f, focused), FALSE)
<1> DEFINE x == SharesEffects(w, n, f, focused)
<1>1. Whole2(n)
  BY DEF InPhase
<1>2. /\ DOMAIN x = {"form", "first", "second"}
      /\ \A s \in Shares :
           /\ DOMAIN x[s] = {"control", "inner", "text"}
           /\ Amount(x[s].control) /\ Amount(x[s].inner) /\ Amount(x[s].text)
  BY <1>1, CopiesStay
<1>3. f = TRUE => x = SharesEffects(w, n, TRUE, focused)
  OBVIOUS
<1>4. f = FALSE => x = SharesEffects(w, n, FALSE, focused)
  OBVIOUS
<1> SUFFICES InPhase(n, x, FALSE)
  OBVIOUS
<1> HIDE DEF x
<1>5. CASE f = TRUE
  <2>1. MountedAsForm(n)
    BY <1>5 DEF InPhase
  <2>2. Whole2(x) /\ Read(n, x)
    BY <1>1, <1>3, <1>5, <2>1, MountIsRead
  <2> QED
    BY <2>2 DEF InPhase
<1>6. CASE f = FALSE
  <2>1. EffectsOfCommit(w, n, x)
    BY <1>4, <1>6, CommitEffects
  <2>2. Read(w, n) \/ Rewritten(w, n) \/ Carried(w, n) \/ Copied(w, n)
    BY <1>6 DEF InPhase
  <2>3. TwoShares(n.form)
    BY <1>1 DEF Whole2
  <2>4. TwoShares(x.form) /\ (Read(n, x) \/ Rewritten(n, x) \/ Carried(n, x) \/ Copied(n, x))
    BY <1>1, <2>1, <2>2, <2>3, ReadIsCarried, RewrittenIsRead, CarriedIsCopied, CopiedIsRead
  <2>5. Whole2(x)
    BY <1>2, <2>4 DEF Whole2
  <2> QED
    BY <2>4, <2>5 DEF InPhase
<1> QED
  BY <1>5, <1>6

\* A mount of two shares of a whole.
LEMMA SharesAreMounted ==
  ASSUME NEW v, TwoShares(v), NEW w
  PROVE  InPhase(w, SharesMounted(v), TRUE)
<1> DEFINE n == SharesMounted(v)
<1>1. /\ DOMAIN n = {"form", "first", "second"} /\ n.form = v
      /\ \A s \in Shares : DOMAIN n[s] = {"control", "inner", "text"}
      /\ \A s \in Shares : n[s].control = v[s] /\ n[s].inner = v[s] /\ n[s].text = v[s]
  BY Digits DEF SharesMounted, Shares
<1> SUFFICES InPhase(w, n, TRUE)
  OBVIOUS
<1> HIDE DEF n
<1>2. \A s \in Shares : Amount(v[s])
  BY DEF TwoShares, Amount
<1>3. Whole2(n)
  BY <1>1, <1>2 DEF Whole2
<1>4. MountedAsForm(n)
  BY <1>1 DEF MountedAsForm
<1> QED
  BY <1>3, <1>4 DEF InPhase

\* A text that is typed, or written again, in a quiet commit.
LEMMA TextIsRewritten ==
  ASSUME NEW n, InPhase(n, n, FALSE), NEW part \in Shares, NEW text, Amount(text)
  PROVE  InPhase(n, [n EXCEPT ![part].text = text], FALSE)
<1> DEFINE x == [n EXCEPT ![part].text = text]
<1>1. Whole2(n) /\ \A s \in Shares : n[s].control = n.form[s]
  BY DEF InPhase, Read, Rewritten, Carried, Copied
<1>2. DOMAIN n = {"form", "first", "second"} /\ part \in {"first", "second"}
  BY <1>1 DEF Whole2, Shares
<1>3. DOMAIN x = DOMAIN n /\ x.form = n.form
  BY <1>2
<1>4. \A s \in Shares : s # part => x[s] = n[s]
  BY <1>2 DEF Shares
<1>5. /\ DOMAIN x[part] = DOMAIN n[part] /\ x[part].text = text
      /\ x[part].control = n[part].control /\ x[part].inner = n[part].inner
  BY <1>1, <1>2 DEF Whole2
<1> SUFFICES InPhase(n, x, FALSE)
  OBVIOUS
<1> HIDE DEF x
<1>6. Whole2(x)
  BY <1>1, <1>3, <1>4, <1>5 DEF Whole2
<1>7. \A s \in Shares :
        n[s].control = x[s].control /\ n[s].inner = x[s].inner /\ x[s].control = x.form[s]
  BY <1>1, <1>3, <1>4, <1>5
<1>8. \E s \in Shares : n[s].text = x[s].text
  BY <1>4 DEF Shares
<1> QED
  BY <1>3, <1>6, <1>7, <1>8 DEF InPhase, Rewritten
-----------------------------------------------------------------------------
(***************************************************************************)
(* The field of the shares in the page.                                    *)
(***************************************************************************)
rd == "rewardDistribution"

FocusIsInput ==
  focus # NoFocus => focus.label \in DOMAIN form /\ focus.part \in PartsOf(component(focus.label))

FieldIsInPhase == rd \in DOMAIN form => InPhase(was[rd], now[rd], fresh)

SubmittedAddUp == (rd \in DOMAIN form /\ stage # "form") => TwoShares(fields[rd])

AddsUp ==
  /\ type \in Types /\ fresh \in BOOLEAN
  /\ DOMAIN now = DOMAIN form
  /\ FocusIsInput
  /\ FieldIsInPhase
  /\ SubmittedAddUp

\* The input of the shares is a RewardDistribution, whatever the update.
LEMMA SharesHaveTheirField ==
  ASSUME NEW t \in Types, rd \in DOMAIN UpdateComponent(t)
  PROVE  UpdateComponent(t)[rd].component = "RewardDistribution"
<1>1. CASE t = "UpdateTransactionFeeDistribution"
  BY <1>1 DEF UpdateComponent, UpdateTransactionFeeDistribution, Distribution, Field, rd
<1>2. CASE t = "UpdateMintDistribution"
  <2>1. UpdateComponent(t) = UpdateMintDistribution(0)
    BY <1>2 DEF UpdateComponent
  <2> QED
    BY <2>1 DEF UpdateMintDistribution, Distribution, Field, rd
<1>3. CASE t = "UpdateMintDistributionV1"
  <2>1. UpdateComponent(t) = UpdateMintDistribution(1)
    BY <1>3 DEF UpdateComponent
  <2> QED
    BY <2>1 DEF UpdateMintDistribution, Distribution, Field, rd
<1>4. CASE t \in {"UpdateMicroGTUPerEuro", "UpdateEuroPerEnergy", "UpdateFoundationAccount", "UpdateProtocol"}
  BY <1>4 DEF UpdateComponent, UpdateMicroGtuPerEuroRate, UpdateEuroPerEnergy, UpdateFoundationAccount,
              UpdateProtocol, rd
<1>5. CASE t \in {"UpdateGASRewards", "UpdateGASRewardsV1"}
  <2>1. UpdateComponent(t) = UpdateGasRewards(0) \/ UpdateComponent(t) = UpdateGasRewards(1)
    BY <1>5 DEF UpdateComponent
  <2> QED
    BY <2>1 DEF UpdateGasRewards, rd
<1>6. CASE t \in {"UpdateBakerStakeThreshold", "UpdateElectionDifficulty", "TimeParameters", "CooldownParameters"}
  BY <1>6 DEF UpdateComponent, UpdateBakerStakeThreshold, UpdateElectionDifficulty, UpdateTimeParameters,
              UpdateCooldownParameters, rd
<1>7. CASE t \in {"AddIdentityProvider", "AddAnonymityRevoker"}
  <2>1. UpdateComponent(t) \in {CreateAddIdentityProvider, CreateAddAnonymityRevoker}
    BY <1>7 DEF UpdateComponent
  <2>2. rd \notin DOMAIN CreateAddIdentityProvider
    BY DEF CreateAddIdentityProvider, Described, rd
  <2>3. rd \notin DOMAIN CreateAddAnonymityRevoker
    BY DEF CreateAddAnonymityRevoker, Described, rd
  <2> QED
    BY <2>1, <2>2, <2>3
<1>8. CASE t \in {"PoolParameters", "BlockEnergyLimit", "FinalizationCommitteeParameters"}
  BY <1>8 DEF UpdateComponent, UpdatePoolParameters, PassiveCommissions, CommissionRanges,
              UpdateBlockEnergyLimit, UpdateFinalizationCommitteeParameters, rd
<1>9. CASE t \in {"MinBlockTime", "TimeoutParameters", "UpdateValidatorScoreParameters"}
  BY <1>9 DEF UpdateComponent, UpdateMinBlockTime, UpdateTimeoutParameters,
              UpdateValidatorScoreParameters, rd
<1>10. CASE t = "UpdateCreatePltParameters"
  BY <1>10 DEF UpdateComponent, CreatePltParameters, Switches, rd
<1> QED
  BY <1>1, <1>2, <1>3, <1>4, <1>5, <1>6, <1>7, <1>8, <1>9, <1>10 DEF Types

LEMMA SharesAreGiven ==
  \A update \in Types :
    /\ \A values \in Drafts[update] \union {Current[update]} :
         /\ DOMAIN values = DOMAIN UpdateComponent(update)
         /\ "rewardDistribution" \in DOMAIN values => TwoShares(values["rewardDistribution"])
    /\ \A text \in Texts["RewardDistribution"] : IsNumber(text) => text.value \in Int
<1>1. ASSUME NEW update \in Types, NEW values \in Drafts[update] \union {Current[update]}
      PROVE  /\ DOMAIN values = DOMAIN UpdateComponent(update)
             /\ "rewardDistribution" \in DOMAIN values => TwoShares(values["rewardDistribution"])
  <2>1. DOMAIN values = DOMAIN UpdateComponent(update)
    BY ValuesAssumption
  <2>2. ASSUME "rewardDistribution" \in DOMAIN values PROVE TwoShares(values["rewardDistribution"])
    <3>1. UpdateComponent(update)["rewardDistribution"].component = "RewardDistribution"
      BY <2>1, <2>2, SharesHaveTheirField DEF rd
    <3>2. IsValueOf(UpdateComponent(update)["rewardDistribution"].component, values["rewardDistribution"])
      BY <2>2, ValuesAssumption
    <3> QED
      BY <3>1, <3>2 DEF IsValueOf
  <2> QED
    BY <2>1, <2>2
<1>2. \A text \in Value : IsNumber(text) => text.value \in Int
  BY DEF Value, Numbers, Empty, Junk, IsNumber
<1>3. Texts["RewardDistribution"] \subseteq Value
  BY ValuesAssumption
<1> QED
  BY <1>1, <1>2, <1>3

\* A form that is mounted with two shares of a whole starts in phase.
LEMMA FormIsMounted ==
  ASSUME NEW t \in Types, NEW values, NEW w, DOMAIN values = DOMAIN UpdateComponent(t),
         rd \in DOMAIN values => TwoShares(values[rd])
  PROVE  /\ DOMAIN FormMounted(t, values) = DOMAIN UpdateComponent(t)
         /\ rd \in DOMAIN UpdateComponent(t) => InPhase(w, FormMounted(t, values)[rd], TRUE)
<1>1. DOMAIN FormMounted(t, values) = DOMAIN UpdateComponent(t)
  BY DEF FormMounted
<1>2. ASSUME rd \in DOMAIN UpdateComponent(t) PROVE InPhase(w, FormMounted(t, values)[rd], TRUE)
  <2>1. FormMounted(t, values)[rd] = Mounted(UpdateComponent(t)[rd].component, values[rd])
    BY <1>2 DEF FormMounted
  <2>2. FormMounted(t, values)[rd] = SharesMounted(values[rd])
    BY <1>2, <2>1, SharesHaveTheirField DEF Mounted
  <2> QED
    BY <1>2, <2>2, SharesAreMounted
<1> QED
  BY <1>1, <1>2

LEMMA FormStarts == Init => AddsUp
<1> SUFFICES ASSUME Init PROVE AddsUp
  OBVIOUS
<1> USE DEF Init
<1>1. type \in Types /\ fresh = TRUE /\ focus = NoFocus /\ stage = "form"
  OBVIOUS
<1>2. PICK d \in Drafts[type] : now = FormMounted(type, d)
  OBVIOUS
<1>3. DOMAIN d = DOMAIN UpdateComponent(type) /\ (rd \in DOMAIN d => TwoShares(d[rd]))
  BY <1>1, <1>2, SharesAreGiven DEF rd
<1>4. DOMAIN now = DOMAIN form /\ (rd \in DOMAIN form => InPhase(was[rd], now[rd], TRUE))
  BY <1>1, <1>2, <1>3, FormIsMounted DEF form
<1> QED
  BY <1>1, <1>4 DEF AddsUp, FocusIsInput, FieldIsInPhase, SubmittedAddUp

\* In a commit that is quiet, the next one starts a phase.
LEMMA QuietIsInPhase ==
  ASSUME AddsUp, quiet, rd \in DOMAIN form
  PROVE  InPhase(now[rd], now[rd], FALSE)
BY DEF AddsUp, FieldIsInPhase, quiet

LEMMA FormHasShares ==
  ASSUME AddsUp, rd \in DOMAIN form
  PROVE  TwoShares(now[rd].form) /\ component(rd) = "RewardDistribution"
BY SharesHaveTheirField DEF AddsUp, FieldIsInPhase, InPhase, Whole2, component, form

LEMMA EffectAddsUp == ASSUME AddsUp, UseEffect PROVE AddsUp'
<1> USE DEF UseEffect
<1>1. type' = type /\ form' = form /\ fresh' = FALSE /\ DOMAIN now' = DOMAIN form
  BY DEF form
<1>2. FocusIsInput' /\ SubmittedAddUp'
  BY <1>1 DEF AddsUp, FocusIsInput, SubmittedAddUp, component, form
<1>3. ASSUME rd \in DOMAIN form PROVE InPhase(now[rd], now'[rd], FALSE)
  <2>1. now'[rd] = Effects(component(rd), was[rd], now[rd], fresh, focusIn(rd), periodOf(was), periodOf(now))
    BY <1>3
  <2>2. now'[rd] = SharesEffects(was[rd], now[rd], fresh, focusIn(rd))
    BY <1>3, <2>1, FormHasShares DEF Effects
  <2>3. InPhase(was[rd], now[rd], fresh) /\ fresh \in BOOLEAN
    BY <1>3 DEF AddsUp, FieldIsInPhase
  <2> QED
    BY <2>2, <2>3, EffectsKeepShares
<1>4. FieldIsInPhase'
  BY <1>1, <1>3 DEF FieldIsInPhase
<1> QED
  BY <1>1, <1>2, <1>4 DEF AddsUp

LEMMA FocusAddsUp ==
  ASSUME AddsUp, NEW label \in DOMAIN form, NEW part \in PartsOf(component(label)),
         handleFocus(label, part)
  PROVE  AddsUp'
<1>1. UNCHANGED <<type, was, now, fresh, stage, fields>> /\ focus' = [label |-> label, part |-> part]
  BY DEF handleFocus
<1>2. form' = form /\ component(label)' = component(label)
  BY <1>1 DEF form, component
<1>3. FocusIsInput'
  BY <1>1, <1>2 DEF FocusIsInput, component, form
<1>4. FieldIsInPhase' /\ SubmittedAddUp'
  BY <1>1, <1>2 DEF AddsUp, FieldIsInPhase, SubmittedAddUp
<1> QED
  BY <1>1, <1>2, <1>3, <1>4 DEF AddsUp

\* An event that changes the field in focus, the shares by a text.
LEMMA EventAddsUp ==
  ASSUME AddsUp, quiet, focus # NoFocus, NEW field, was' = now,
         now' = [now EXCEPT ![focus.label] = field],
         type' = type, fresh' = fresh, stage' = stage, fields' = fields,
         focus' = focus \/ focus' = NoFocus,
         focus.label = rd => \E text : /\ Amount(text)
                                       /\ field = [now[rd] EXCEPT ![focus.part].text = text]
  PROVE  AddsUp'
<1>1. form' = form /\ DOMAIN now' = DOMAIN form
  BY DEF form, AddsUp
<1>2. FocusIsInput' /\ SubmittedAddUp'
  BY <1>1 DEF AddsUp, FocusIsInput, SubmittedAddUp, component, form
<1>3. fresh = FALSE
  BY DEF quiet, AddsUp
<1>4. ASSUME rd \in DOMAIN form PROVE InPhase(now[rd], now'[rd], FALSE)
  <2>1. InPhase(now[rd], now[rd], FALSE)
    BY <1>4, QuietIsInPhase
  <2>2. CASE focus.label # rd
    BY <1>4, <2>1, <2>2 DEF AddsUp
  <2>3. CASE focus.label = rd
    <3>1. focus.part \in Shares
      BY <1>4, <2>3, FormHasShares DEF AddsUp, FocusIsInput, PartsOf
    <3>2. PICK text : Amount(text) /\ field = [now[rd] EXCEPT ![focus.part].text = text]
      BY <2>3
    <3>3. now'[rd] = field
      BY <1>4, <2>3 DEF AddsUp
    <3>4. Amount(text)
      BY <3>2
    <3>5. InPhase(now[rd], [now[rd] EXCEPT ![focus.part].text = text], FALSE)
      BY <2>1, <3>1, <3>4, TextIsRewritten
    <3> QED
      BY <3>2, <3>3, <3>5
  <2> QED
    BY <2>2, <2>3
<1>5. FieldIsInPhase'
  BY <1>1, <1>3, <1>4 DEF FieldIsInPhase
<1> QED
  BY <1>1, <1>2, <1>3, <1>5 DEF AddsUp

LEMMA ChangeAddsUp ==
  ASSUME AddsUp, focus # NoFocus, NEW text \in TextsFor(focus.label), onChange(text)
  PROVE  AddsUp'
<1> DEFINE field == Typed(component(focus.label), now[focus.label], focus.part, text)
<1>1. /\ quiet /\ was' = now /\ now' = [now EXCEPT ![focus.label] = field]
      /\ type' = type /\ fresh' = fresh /\ stage' = stage /\ fields' = fields /\ focus' = focus
  BY DEF onChange
<1>2. ASSUME focus.label = rd
      PROVE  Amount(text) /\ field = [now[rd] EXCEPT ![focus.part].text = text]
  <2>1. rd \in DOMAIN form
    BY <1>2 DEF AddsUp, FocusIsInput
  <2>2. component(rd) = "RewardDistribution"
    BY <2>1, FormHasShares
  <2>3. text \in Texts["RewardDistribution"]
    BY <1>2, <2>2 DEF TextsFor
  <2>4. Amount(text)
    BY <2>3, SharesAreGiven DEF Amount, AddsUp
  <2>5. field = [now[rd] EXCEPT ![focus.part].text = text]
    BY <1>2, <2>2 DEF Typed
  <2> QED
    BY <2>4, <2>5
<1> HIDE DEF field
<1> QED
  BY <1>1, <1>2, EventAddsUp

LEMMA BlurAddsUp == ASSUME AddsUp, onBlur PROVE AddsUp'
<1> DEFINE field == Blurred(component(focus.label), now[focus.label], focus.part)
<1>1. /\ quiet /\ focus # NoFocus /\ was' = now /\ now' = [now EXCEPT ![focus.label] = field]
      /\ type' = type /\ fresh' = fresh /\ stage' = stage /\ fields' = fields /\ focus' = NoFocus
  BY DEF onBlur
<1>2. ASSUME focus.label = rd
      PROVE  \E text : Amount(text) /\ field = [now[rd] EXCEPT ![focus.part].text = text]
  <2>1. rd \in DOMAIN form
    BY <1>1, <1>2 DEF AddsUp, FocusIsInput
  <2>2. component(rd) = "RewardDistribution"
    BY <2>1, FormHasShares
  <2>3. focus.part \in Shares
    BY <1>1, <1>2, <2>2 DEF AddsUp, FocusIsInput, PartsOf
  <2> DEFINE share == now[rd][focus.part]
             text == handleBlur("digits", share.text, share.inner, share.control, ~isValid(share.inner))
  <2>4. Amount(share.text) /\ Amount(share.inner) /\ Amount(share.control)
    BY <2>1, <2>3 DEF AddsUp, FieldIsInPhase, InPhase, Whole2
  <2>5. text \in {share.text, share.inner, share.control}
    BY DEF handleBlur, format
  <2>6. field = [now[rd] EXCEPT ![focus.part].text = text]
    BY <1>2, <2>2 DEF Blurred, SharesBlurred
  <2> HIDE DEF text
  <2> QED
    BY <2>4, <2>5, <2>6
<1> HIDE DEF field
<1> QED
  BY <1>1, <1>2, EventAddsUp

\* A step that leaves the fields as they are, and submits at most their values.
LEMMA SubmitAddsUp ==
  ASSUME AddsUp, UNCHANGED <<type, was, now, fresh, focus>>,
         \/ stage' = "form"
         \/ fields' = Values(now)
         \/ fields' = fields /\ stage # "form"
  PROVE  AddsUp'
<1>1. form' = form
  BY DEF form
<1>2. FocusIsInput' /\ FieldIsInPhase'
  BY <1>1 DEF AddsUp, FocusIsInput, FieldIsInPhase, component, form
<1>3. rd \in DOMAIN form => TwoShares(Values(now)[rd])
  BY FormHasShares DEF Values
<1>4. SubmittedAddUp'
  BY <1>1, <1>3 DEF SubmittedAddUp, AddsUp
<1> QED
  BY <1>1, <1>2, <1>4 DEF AddsUp

LEMMA BackAddsUp == ASSUME AddsUp, Back PROVE AddsUp'
<1> DEFINE values == [label \in DOMAIN form |-> Restored(label)]
<1>1. /\ stage = "sign" /\ stage' = "form" /\ now' = FormMounted(type, values) /\ was' = now'
      /\ fresh' = TRUE /\ focus' = NoFocus /\ type' = type
  BY DEF Back
<1>2. form' = form /\ type \in Types
  BY <1>1 DEF form, AddsUp
<1>3. ASSUME rd \in DOMAIN form PROVE TwoShares(values[rd])
  <2>1. TwoShares(fields[rd])
    BY <1>1, <1>3 DEF AddsUp, SubmittedAddUp
  <2>2. TwoShares(Current[type][rd])
    BY <1>2, <1>3, SharesAreGiven DEF form, rd
  <2>3. rd # "finalizationCommissionRange"
    BY DEF rd
  <2>4. Restored(rd) \in {fields[rd], Current[type][rd]}
    BY <2>3 DEF Restored
  <2> QED
    BY <1>3, <2>1, <2>2, <2>4
<1>4. DOMAIN values = DOMAIN UpdateComponent(type)
  BY DEF form
<1> HIDE DEF values
<1>5. DOMAIN now' = DOMAIN form /\ (rd \in DOMAIN form => InPhase(was'[rd], now'[rd], TRUE))
  BY <1>1, <1>2, <1>3, <1>4, FormIsMounted DEF form
<1> QED
  BY <1>1, <1>2, <1>5 DEF AddsUp, FocusIsInput, FieldIsInPhase, SubmittedAddUp

LEMMA StepAddsUp == AddsUp /\ [Next]_vars => AddsUp'
<1> SUFFICES ASSUME AddsUp, [Next]_vars PROVE AddsUp'
  OBVIOUS
<1>1. CASE UseEffect
  BY <1>1, EffectAddsUp
<1>2. CASE \E label \in DOMAIN form : \E part \in PartsOf(component(label)) : handleFocus(label, part)
  BY <1>2, FocusAddsUp
<1>3. CASE focus # NoFocus /\ \E text \in TextsFor(focus.label) : onChange(text)
  BY <1>3, ChangeAddsUp
<1>4. CASE onBlur
  BY <1>4, BlurAddsUp
<1>5. CASE Continue
  BY <1>5, SubmitAddsUp DEF Continue, handleProposalSubmit
<1>6. CASE TokenAnswered
  BY <1>6, SubmitAddsUp DEF TokenAnswered
<1>7. CASE AccountAnswered
  BY <1>7, SubmitAddsUp DEF AccountAnswered, handleProposalSubmit
<1>8. CASE Back
  BY <1>8, BackAddsUp
<1>9. CASE UNCHANGED vars
  BY <1>9 DEF vars, AddsUp, FocusIsInput, FieldIsInPhase, SubmittedAddUp, component, form
<1> QED
  BY <1>1, <1>2, <1>3, <1>4, <1>5, <1>6, <1>7, <1>8, <1>9 DEF Next

\* The invariant, for the other theorems.
THEOREM AlwaysAddsUp == Spec => []AddsUp
BY FormStarts, StepAddsUp, PTL DEF Spec

(***************************************************************************)
(* Whatever the user types into one share, and while the effects carry it  *)
(* to the other, the form holds two shares of a whole (RewardDistribution).*)
(***************************************************************************)
THEOREM SharesAlwaysAddUp == Spec => []SharesAddUp
<1>1. AddsUp => SharesAddUp
  <2> SUFFICES ASSUME AddsUp, rd \in DOMAIN form
               PROVE  LET v == now[rd].form
                      IN  /\ \A s \in Shares : v[s].value >= 0
                          /\ v.first.value + v.second.value <= Whole
    BY DEF SharesAddUp, rd
  <2>1. TwoShares(now[rd].form)
    BY FormHasShares
  <2> QED
    BY <2>1 DEF TwoShares
<1> QED
  BY <1>1, AlwaysAddsUp, PTL

-------------------------------------------------------------------------------

(***************************************************************************)
(* The greatest common divisor: the recursive function has a value at      *)
(* every pair, and what it divides.                                        *)
(***************************************************************************)
Divides(d, n) == \E k \in Nat : n = d * k

Common(a, b) == {d \in Nat : Divides(d, a) /\ Divides(d, b)}

\* A definition without recursion, which shows that the recursive one has a value.
Greatest(a, b) ==
  IF b = 0 THEN a ELSE CHOOSE g \in Common(a, b) : \A d \in Common(a, b) : d <= g

LEMMA Remainder ==
  ASSUME NEW a \in Nat, NEW b \in Nat \ {0}
  PROVE  a = b * (a \div b) + (a % b) /\ a \div b \in Nat /\ a % b \in 0 .. (b - 1)
OBVIOUS

LEMMA DivisorOfSum ==
  ASSUME NEW d \in Nat, NEW a \in Nat, NEW b \in Nat, NEW q \in Nat, Divides(d, a), Divides(d, b)
  PROVE  Divides(d, q * b + a)
<1>1. PICK k \in Nat : a = d * k
  BY DEF Divides
<1>2. PICK l \in Nat : b = d * l
  BY DEF Divides
<1>3. q * l + k \in Nat
  OBVIOUS
<1>4. q * (d * l) = d * (q * l)
  OBVIOUS
<1>5. d * (q * l + k) = d * (q * l) + d * k
  OBVIOUS
<1> QED
  BY <1>1, <1>2, <1>3, <1>4, <1>5 DEF Divides

LEMMA DivisorOfRest ==
  ASSUME NEW d \in Nat, NEW a \in Nat, NEW b \in Nat, NEW q \in Nat, Divides(d, q * b + a), Divides(d, b)
  PROVE  Divides(d, a)
<1>1. PICK k \in Nat : q * b + a = d * k
  BY DEF Divides
<1>2. PICK l \in Nat : b = d * l
  BY DEF Divides
<1>3. q * (d * l) = d * (q * l)
  OBVIOUS
<1>4. a = d * k - d * (q * l)
  BY <1>1, <1>2, <1>3
<1>5. d * (k - q * l) = d * k - d * (q * l)
  OBVIOUS
<1>6. CASE k - q * l \in Nat
  BY <1>4, <1>5, <1>6 DEF Divides
<1>7. CASE k - q * l \notin Nat
  <2>1. k - q * l \in Int /\ k - q * l < 0
    BY <1>7
  <2>2. d * (k - q * l) <= 0
    BY <2>1
  <2>3. a = 0
    BY <1>4, <1>5, <2>2
  <2>4. d * 0 = 0
    OBVIOUS
  <2> QED
    BY <2>3, <2>4 DEF Divides
<1> QED
  BY <1>6, <1>7

LEMMA DivisorIsLess ==
  ASSUME NEW d \in Nat, NEW n \in Nat \ {0}, Divides(d, n)
  PROVE  d <= n
<1>1. PICK k \in Nat : n = d * k
  BY DEF Divides
<1>2. k >= 1
  BY <1>1
<1>3. d * k >= d * 1
  BY <1>2
<1> QED
  BY <1>1, <1>3

LEMMA CommonOfRest ==
  ASSUME NEW a \in Nat, NEW b \in Nat \ {0}
  PROVE  Common(a, b) = Common(b, a % b)
<1> DEFINE q == a \div b
           r == a % b
<1>1. q \in Nat /\ r \in Nat /\ a = q * b + r
  BY Remainder
<1> HIDE DEF q, r
<1>2. ASSUME NEW d \in Nat, Divides(d, b) PROVE Divides(d, a) <=> Divides(d, r)
  <2>1. Divides(d, r) => Divides(d, q * b + r)
    BY <1>1, <1>2, DivisorOfSum
  <2>2. Divides(d, q * b + r) => Divides(d, r)
    BY <1>1, <1>2, DivisorOfRest
  <2> QED
    BY <1>1, <2>1, <2>2
<1>3. Common(a, b) = Common(b, r)
  BY <1>2 DEF Common
<1> QED
  BY <1>3 DEF r

LEMMA GreatestOfRest ==
  ASSUME NEW a \in Nat, NEW b \in Nat \ {0}
  PROVE  Greatest(a, b) = Greatest(b, a % b)
<1> DEFINE r == a % b
<1>1. r \in Nat /\ Common(a, b) = Common(b, r)
  <2>1. a % b \in Nat
    BY Remainder
  <2> QED
    BY <2>1, CommonOfRest
<1> HIDE DEF r
<1>2. CASE r = 0
  <2> DEFINE C == Common(b, 0)
  <2>1. Greatest(a, b) = CHOOSE g \in C : \A d \in C : d <= g
    BY <1>1, <1>2 DEF Greatest
  <2>2. b \in C
    <3>1. b = b * 1 /\ 0 = b * 0
      OBVIOUS
    <3> QED
      BY <3>1 DEF Common, Divides
  <2>3. \A d \in C : d \in Nat /\ d <= b
    BY DivisorIsLess DEF Common
  <2> HIDE DEF C
  <2>4. \A g \in C : (\A d \in C : d <= g) => g = b
    BY <2>2, <2>3
  <2>5. \E g \in C : \A d \in C : d <= g
    BY <2>2, <2>3
  <2>6. (CHOOSE g \in C : \A d \in C : d <= g) = b
    BY <2>4, <2>5
  <2>7. Greatest(b, 0) = b
    BY DEF Greatest
  <2>8. Greatest(a, b) = Greatest(b, r)
    BY <1>2, <2>1, <2>6, <2>7
  <2> QED
    BY <2>8 DEF r
<1>3. CASE r # 0
  <2>1. Greatest(a, b) = Greatest(b, r)
    BY <1>1, <1>3 DEF Greatest
  <2> QED
    BY <2>1 DEF r
<1> QED
  BY <1>2, <1>3

LEMMA GcdIsDefined ==
  \A a \in Nat, b \in Nat : getGCD[<<a, b>>] = IF b = 0 THEN a ELSE getGCD[<<b, a % b>>]
<1> DEFINE step(h, p) == IF p[2] = 0 THEN p[1] ELSE h[<<p[2], p[1] % p[2]>>]
           h == [p \in Nat \X Nat |-> Greatest(p[1], p[2])]
<1>1. \A a \in Nat, b \in Nat : h[<<a, b>>] = Greatest(a, b)
  OBVIOUS
<1>2. ASSUME NEW p \in Nat \X Nat
      PROVE  h[p] = step(h, p)
  <2>0. PICK a \in Nat, b \in Nat : p = <<a, b>>
    OBVIOUS
  <2>1. CASE b = 0
    BY <2>0, <1>1, <2>1 DEF Greatest
  <2>2. CASE b # 0
    <3>1. a % b \in Nat
      BY <2>2, Remainder
    <3>2. h[<<b, a % b>>] = Greatest(b, a % b)
      BY <1>1, <3>1
    <3>3. h[p] = Greatest(b, a % b)
      BY <1>1, <2>0, <2>2, GreatestOfRest
    <3> HIDE DEF h
    <3> QED
      BY <2>0, <2>2, <3>2, <3>3
  <2> QED
    BY <2>1, <2>2
<1>3. h = [p \in Nat \X Nat |-> step(h, p)]
  <2>1. DOMAIN h = Nat \X Nat /\ h = [p \in Nat \X Nat |-> h[p]]
    OBVIOUS
  <2> HIDE DEF h, step
  <2> QED
    BY <1>2, <2>1
<1>4. getGCD = [p \in Nat \X Nat |-> step(getGCD, p)]
  <2> HIDE DEF h
  <2> QED
    BY <1>3 DEF getGCD
<1> SUFFICES ASSUME NEW a \in Nat, NEW b \in Nat
             PROVE  getGCD[<<a, b>>] = IF b = 0 THEN a ELSE getGCD[<<b, a % b>>]
  OBVIOUS
<1>5. getGCD[<<a, b>>] = step(getGCD, <<a, b>>)
  <2>1. <<a, b>> \in Nat \X Nat
    OBVIOUS
  <2> HIDE DEF step
  <2> QED
    BY <1>4, <2>1
<1> QED
  BY <1>5

LEMMA GcdDivides ==
  \A b \in Nat : \A a \in Nat :
    /\ getGCD[<<a, b>>] \in Nat
    /\ Divides(getGCD[<<a, b>>], a) /\ Divides(getGCD[<<a, b>>], b)
<1> DEFINE Right(b) == \A a \in Nat :
             /\ getGCD[<<a, b>>] \in Nat
             /\ Divides(getGCD[<<a, b>>], a) /\ Divides(getGCD[<<a, b>>], b)
           W == {b \in Nat : ~Right(b)}
<1>1. \A a \in Nat, b \in Nat : getGCD[<<a, b>>] = IF b = 0 THEN a ELSE getGCD[<<b, a % b>>]
  BY GcdIsDefined
<1>2. ASSUME NEW b \in Nat, \A c \in Nat : c < b => Right(c) PROVE Right(b)
  <2> SUFFICES ASSUME NEW a \in Nat
               PROVE  /\ getGCD[<<a, b>>] \in Nat
                      /\ Divides(getGCD[<<a, b>>], a) /\ Divides(getGCD[<<a, b>>], b)
    OBVIOUS
  <2>1. CASE b = 0
    <3>1. getGCD[<<a, b>>] = a
      BY <1>1, <2>1
    <3>2. a = a * 1 /\ 0 = a * 0
      OBVIOUS
    <3> QED
      BY <2>1, <3>1, <3>2 DEF Divides
  <2>2. CASE b # 0
    <3> DEFINE q == a \div b
               r == a % b
               g == getGCD[<<b, r>>]
    <3>1. q \in Nat /\ r \in Nat /\ r < b /\ a = q * b + r
      BY <2>2, Remainder
    <3>2. getGCD[<<a, b>>] = g
      BY <1>1, <2>2
    <3>3. g \in Nat /\ Divides(g, b) /\ Divides(g, r)
      BY <1>2, <3>1
    <3> HIDE DEF q, r, g
    <3>4. Divides(g, a)
      BY <3>1, <3>3, DivisorOfSum
    <3> QED
      BY <3>2, <3>3, <3>4
  <2> QED
    BY <2>1, <2>2
<1> HIDE DEF Right
<1> SUFFICES W = {}
  BY DEF Right
<1> SUFFICES ASSUME W # {} PROVE FALSE
  OBVIOUS
<1>3. PICK x \in W : \A y \in W : ~ (<<y, x>> \in OpToRel(<, Nat))
  <2>1. W \subseteq Nat
    OBVIOUS
  <2> HIDE DEF W
  <2> QED
    BY <2>1, NatLessThanWellFounded, WFMin
<1>4. \A y \in W : ~ (y < x)
  BY <1>3 DEF OpToRel
<1>5. \A c \in Nat : c < x => Right(c)
  BY <1>4
<1> QED
  BY <1>2, <1>5

-------------------------------------------------------------------------------

(***************************************************************************)
(* Values, and the conversions of the fields: formatting, parsing and      *)
(* rounding.                                                               *)
(***************************************************************************)
LEMMA ValueIs ==
  /\ \A v \in Value : v = Empty \/ v = Junk \/ (IsNumber(v) /\ v.value \in Int /\ v = Number(v.value))
  /\ \A n \in Int : Number(n) \in Value /\ IsNumber(Number(n)) /\ Number(n).value = n
  /\ Empty \in Value /\ Junk \in Value /\ Empty # Junk /\ ~IsNumber(Empty) /\ ~IsNumber(Junk)
  /\ Empty.value = 0 /\ Junk.value = 0
BY DEF Value, Numbers, Empty, Junk, IsNumber, Number

\* A quotient is the only number with a rest below the divisor.
LEMMA QuotientIs ==
  ASSUME NEW a \in Int, NEW b \in Nat \ {0}, NEW q \in Int, NEW r \in Int,
         a = b * q + r, 0 <= r, r < b
  PROVE  a \div b = q /\ a % b = r
<1>1. a = b * (a \div b) + (a % b) /\ a \div b \in Int /\ a % b \in Int /\ 0 <= a % b /\ a % b < b
  OBVIOUS
<1> DEFINE p == a \div b
           s == a % b
<1>2. p \in Int /\ s \in Int /\ 0 <= s /\ s < b /\ a = b * p + s
  BY <1>1
<1> HIDE DEF p, s
<1>3. b * (p - q) = r - s
  <2>1. b * (p - q) = b * p - b * q
    BY <1>2
  <2> QED
    BY <1>2, <2>1
<1>4. ~(p - q >= 1)
  <2> SUFFICES ASSUME p - q >= 1 PROVE FALSE
    OBVIOUS
  <2>1. b * (p - q) >= b
    BY <1>2
  <2> QED
    BY <1>2, <1>3, <2>1
<1>5. ~(p - q <= -1)
  <2> SUFFICES ASSUME p - q <= -1 PROVE FALSE
    OBVIOUS
  <2>1. b * (p - q) <= -b
    <3>1. p - q \in Int
      BY <1>2
    <3> DEFINE d == p - q
    <3>2. d \in Int /\ d <= -1
      BY <3>1
    <3> HIDE DEF d
    <3>3. b * d <= -b
      BY <3>2
    <3> QED
      BY <3>3 DEF d
  <2> QED
    BY <1>2, <1>3, <2>1
<1>6. p = q
  BY <1>2, <1>4, <1>5
<1> QED
  BY <1>2, <1>3, <1>6 DEF p, s

LEMMA Ticks == Tick \in Nat \ {0, 1} /\ Resolution \in Nat \ {0} /\ Whole \in Int /\ Whole % Tick = 0
<1>1. Tick \in Nat \ {0, 1} /\ Resolution \in Nat \ {0}
  BY FieldsAssumption
<1>2. Whole = Tick * Resolution + 0 /\ Whole \in Int
  BY <1>1 DEF Whole
<1>3. Whole % Tick = 0
  <2> HIDE DEF Whole
  <2> QED BY <1>1, <1>2, QuotientIs
<1> QED
  BY <1>1, <1>2, <1>3

\* A number on the grid is a number of steps.
LEMMA StepsOf ==
  /\ \A k \in Int : (k * Tick) % Tick = 0 /\ (k * Tick) \div Tick = k /\ k * Tick \in Int
  /\ \A n \in Int : n % Tick = 0 => n = (n \div Tick) * Tick
  /\ \A n \in Int : n \div Tick \in Int
<1>0. Tick \in Nat \ {0, 1}
  BY Ticks
<1>1. ASSUME NEW k \in Int PROVE (k * Tick) % Tick = 0 /\ (k * Tick) \div Tick = k /\ k * Tick \in Int
  <2> DEFINE a == k * Tick
  <2>1. a \in Int /\ a = Tick * k + 0
    BY <1>0
  <2> HIDE DEF a
  <2>2. a \div Tick = k /\ a % Tick = 0
    BY <1>0, <2>1, QuotientIs
  <2> QED
    BY <2>1, <2>2 DEF a
<1>2. ASSUME NEW n \in Int, n % Tick = 0 PROVE n = (n \div Tick) * Tick
  <2>1. n = Tick * (n \div Tick) + (n % Tick) /\ n \div Tick \in Int
    BY <1>0
  <2> DEFINE q == n \div Tick
  <2>2. n = Tick * q + 0 /\ q \in Int
    BY <1>2, <2>1
  <2> HIDE DEF q
  <2>3. n = q * Tick
    BY <1>0, <2>2
  <2> QED
    BY <2>3 DEF q
<1>3. ASSUME NEW n \in Int PROVE n \div Tick \in Int
  BY <1>0
<1> QED
  BY <1>1, <1>2, <1>3

\* Rounding gives a number on the grid, which rounding leaves, and which is also
\* what a number one part below it is rounded to.
LEMMA RoundIs ==
  /\ \A n \in Int : round(n) \in Int /\ round(n) % Tick = 0
  /\ \A n \in Int : n % Tick = 0 => round(n) = n /\ round(n - 1) = n /\ (n - 1) % Tick # 0
<1>0. Tick \in Nat \ {0, 1} /\ 2 * Tick \in Nat \ {0}
  BY Ticks
<1>1. ASSUME NEW n \in Int PROVE round(n) \in Int /\ round(n) % Tick = 0
  <2> DEFINE k == (2 * n + Tick) \div (2 * Tick)
  <2>1. k \in Int
    <3>1. \A a \in Int, b \in Nat \ {0} : a \div b \in Int
      OBVIOUS
    <3>2. 2 * n + Tick \in Int
      BY <1>0
    <3> QED
      BY <1>0, <3>1, <3>2
  <2>2. round(n) = k * Tick
    BY DEF round
  <2> HIDE DEF k
  <2> QED
    BY <2>1, <2>2, StepsOf
<1>2. ASSUME NEW n \in Int, n % Tick = 0 PROVE round(n) = n /\ round(n - 1) = n /\ (n - 1) % Tick # 0
  <2> DEFINE q == n \div Tick
  <2>1. q \in Int /\ n = q * Tick
    BY <1>2, StepsOf
  <2> HIDE DEF q
  <2> DEFINE b == 2 * Tick
  <2>2. 2 * n = b * q /\ b \in Nat \ {0} /\ b = 2 * Tick
    BY <1>0, <2>1
  <2> HIDE DEF b
  <2>3. (2 * n + Tick) \div b = q
    BY <1>0, <2>1, <2>2, QuotientIs
  <2>4. (2 * (n - 1) + Tick) \div b = q
    <3> DEFINE a == 2 * (n - 1) + Tick
    <3>1. a \in Int /\ a = b * q + (Tick - 2) /\ Tick - 2 \in Int /\ 0 <= Tick - 2 /\ Tick - 2 < b
      BY <1>0, <2>1, <2>2
    <3> HIDE DEF a
    <3>2. a \div b = q
      BY <2>1, <2>2, <3>1, QuotientIs
    <3> QED
      BY <3>2 DEF a
  <2>5. round(n) = q * Tick /\ round(n - 1) = q * Tick
    BY <2>2, <2>3, <2>4 DEF round
  <2>6. (n - 1) % Tick = Tick - 1
    <3>1. /\ n - 1 \in Int /\ n - 1 = Tick * (q - 1) + (Tick - 1)
          /\ q - 1 \in Int /\ Tick - 1 \in Int /\ 0 <= Tick - 1 /\ Tick - 1 < Tick
      BY <1>0, <2>1
    <3> QED
      BY <1>0, <3>1, QuotientIs
  <2> QED
    BY <1>0, <2>1, <2>5, <2>6
<1> QED
  BY <1>1, <1>2

-------------------------------------------------------------------------------

(***************************************************************************)
(* A rate, by the pair of its latest commits.                              *)
(***************************************************************************)
RateIs(n) ==
  /\ DOMAIN n = {"form", "numerator", "denominator"}
  /\ n.form \in [Parts -> Value] /\ \A p \in Parts : n[p] \in Value

PartIsShown(n, p) == OnGrid(n.form[p]) => n[p] = n.form[p]

\* One part q is left alone; the text of the other one changed, or its text is
\* what the form has got.
RateInPhase(w, n, f) ==
  /\ RateIs(n)
  /\ IF f THEN \A p \in Parts : n[p] = IF OnGrid(n.form[p]) THEN n.form[p] ELSE Number(0)
     ELSE \E p, q \in Parts :
            /\ p # q
            /\ w[q] = n[q] /\ w.form[q] = n.form[q] /\ PartIsShown(n, q)
            /\ w[p] # n[p] \/ PartIsShown(n, p)
            /\ w.form[p] # n.form[p] => n[p] = n.form[p]

\* A whole number, or nothing.
LEMMA WholeText ==
  ASSUME NEW v \in Value, NEW text \in Value
  PROVE  /\ initialFormatted("whole", v, Number(0)) = IF OnGrid(v) THEN v ELSE Number(0)
         /\ formatted("whole", text, v) = IF OnGrid(v) THEN v ELSE Empty
BY ValueIs DEF initialFormatted, formatted, format, Throws, OnGrid

LEMMA RateIsMounted ==
  ASSUME NEW v \in [Parts -> Value], NEW w
  PROVE  RateInPhase(w, RateMounted(v), TRUE)
<1> DEFINE n == RateMounted(v)
<1>1. /\ DOMAIN n = {"form", "numerator", "denominator"} /\ n.form = v
      /\ \A p \in Parts : n[p] = initialFormatted("whole", v[p], Number(0))
  BY DEF RateMounted, Parts
<1> SUFFICES RateInPhase(w, n, TRUE)
  OBVIOUS
<1> HIDE DEF n
<1>2. \A p \in Parts : v[p] \in Value
  OBVIOUS
<1>3. \A p \in Parts : n[p] = IF OnGrid(v[p]) THEN v[p] ELSE Number(0)
  BY <1>1, <1>2, WholeText
<1>4. RateIs(n)
  BY <1>1, <1>2, <1>3, ValueIs DEF RateIs
<1> QED
  BY <1>1, <1>3, <1>4 DEF RateInPhase

\* The copies x after the effects of a commit.
RateAfter(w, n, f, x) ==
  /\ DOMAIN x = {"form", "numerator", "denominator"}
  /\ x.form = IF f \/ w["denominator"] # n["denominator"]
              THEN [n.form EXCEPT !["denominator"] = n["denominator"]]
              ELSE IF w["numerator"] # n["numerator"] THEN [n.form EXCEPT !["numerator"] = n["numerator"]]
              ELSE n.form
  /\ \A p \in Parts :
       \/ x[p] = n[p]
       \/ x[p] = formatted("whole", n[p], n.form[p]) /\ ~f /\ w.form[p] # n.form[p]

LEMMA RateEffectsAre ==
  ASSUME NEW w, NEW n, NEW f \in BOOLEAN, NEW focused
  PROVE  RateAfter(w, n, f, RateEffects(w, n, f, focused))
BY DEF RateAfter, RateEffects, Parts

LEMMA EffectsKeepRate ==
  ASSUME NEW w, NEW n, NEW f \in BOOLEAN, NEW focused, RateInPhase(w, n, f)
  PROVE  RateInPhase(n, RateEffects(w, n, f, focused), FALSE)
<1> DEFINE x == RateEffects(w, n, f, focused)
<1>1. RateAfter(w, n, f, x)
  BY RateEffectsAre
<1> SUFFICES RateInPhase(n, x, FALSE)
  OBVIOUS
<1> HIDE DEF x
<1>2. /\ \A p \in Parts : n[p] \in Value /\ n.form[p] \in Value
      /\ n.form \in [Parts -> Value]
      /\ Parts = {"numerator", "denominator"}
  BY DEF RateInPhase, RateIs, Parts
<1>3. RateIs(x)
  <2>1. x.form \in [Parts -> Value]
    BY <1>1, <1>2 DEF RateAfter
  <2>2. ASSUME NEW p \in Parts PROVE x[p] \in Value
    BY <1>1, <1>2, <2>2, WholeText, ValueIs DEF RateAfter
  <2> QED
    BY <1>1, <2>1, <2>2 DEF RateIs, RateAfter
<1>4. CASE f = TRUE
  <2>1. x.form = [n.form EXCEPT !["denominator"] = n["denominator"]] /\ \A p \in Parts : x[p] = n[p]
    BY <1>1, <1>4 DEF RateAfter
  <2>2. \A p \in Parts : n[p] = IF OnGrid(n.form[p]) THEN n.form[p] ELSE Number(0)
    BY <1>4 DEF RateInPhase
  <2>3. /\ x.form["numerator"] = n.form["numerator"] /\ x.form["denominator"] = n["denominator"]
        /\ x["numerator"] = n["numerator"] /\ x["denominator"] = n["denominator"]
    BY <1>2, <2>1
  <2>4. PartIsShown(x, "numerator") /\ PartIsShown(x, "denominator")
    BY <1>2, <2>2, <2>3 DEF PartIsShown
  <2> QED
    BY <1>2, <1>3, <2>3, <2>4 DEF RateInPhase
<1>5. CASE f = FALSE
  <2>1. PICK p \in Parts, q \in Parts :
            /\ p # q
            /\ w[q] = n[q] /\ w.form[q] = n.form[q] /\ PartIsShown(n, q)
            /\ w[p] # n[p] \/ PartIsShown(n, p)
            /\ w.form[p] # n.form[p] => n[p] = n.form[p]
    BY <1>5 DEF RateInPhase
  <2>2. x.form = IF w[p] # n[p] THEN [n.form EXCEPT ![p] = n[p]] ELSE n.form
    BY <1>1, <1>2, <1>5, <2>1 DEF RateAfter
  <2>3. x.form[q] = n.form[q] /\ x[q] = n[q]
    BY <1>1, <1>2, <2>1, <2>2 DEF RateAfter
  <2>4. PartIsShown(x, q)
    BY <2>1, <2>3 DEF PartIsShown
  <2>5. x.form[p] = IF w[p] # n[p] THEN n[p] ELSE n.form[p]
    BY <1>2, <2>2
  <2>6. x[p] = n[p] \/ (n[p] = n.form[p] /\ x[p] = IF OnGrid(n.form[p]) THEN n.form[p] ELSE Empty)
    BY <1>1, <1>2, <2>1, WholeText DEF RateAfter
  <2>7. n[p] # x[p] \/ PartIsShown(x, p)
    BY <2>1, <2>5, <2>6 DEF PartIsShown
  <2>8. n.form[p] # x.form[p] => x[p] = x.form[p]
    BY <2>5, <2>6
  <2> QED
    BY <1>3, <2>1, <2>3, <2>4, <2>7, <2>8 DEF RateInPhase
<1> QED
  BY <1>4, <1>5

\* In a quiet commit both texts are what the form has.
LEMMA RateIsShown ==
  ASSUME NEW n, RateInPhase(n, n, FALSE)
  PROVE  RateIs(n) /\ \A p \in Parts : PartIsShown(n, p)
BY DEF RateInPhase, Parts

LEMMA RateIsTyped ==
  ASSUME NEW n, RateInPhase(n, n, FALSE), NEW p \in Parts, NEW text \in Value
  PROVE  RateInPhase(n, [n EXCEPT ![p] = text], FALSE)
<1> DEFINE x == [n EXCEPT ![p] = text]
<1>1. RateIs(n) /\ \A r \in Parts : PartIsShown(n, r)
  BY RateIsShown
<1>2. PICK q \in Parts : q # p /\ \A r \in Parts : r \in {p, q}
  BY DEF Parts
<1>3. /\ DOMAIN x = DOMAIN n /\ x.form = n.form /\ x[p] = text /\ x[q] = n[q]
  BY <1>1, <1>2 DEF RateIs, Parts
<1> SUFFICES RateInPhase(n, x, FALSE)
  OBVIOUS
<1> HIDE DEF x
<1>4. RateIs(x)
  BY <1>1, <1>2, <1>3 DEF RateIs
<1>5. PartIsShown(x, q) /\ (n[p] # x[p] \/ PartIsShown(x, p))
  BY <1>1, <1>2, <1>3 DEF PartIsShown
<1> QED
  BY <1>2, <1>3, <1>4, <1>5 DEF RateInPhase

-------------------------------------------------------------------------------

(***************************************************************************)
(* A percentage, by the pair of its latest commits.  A change goes from    *)
(* the text to the inner value, to the form, and back to the inner value.  *)
(***************************************************************************)
FractionIs(n) ==
  /\ n = [form |-> n.form, inner |-> n.inner, text |-> n.text]
  /\ n.form \in Value /\ n.inner \in Value /\ n.text \in Value

IsStill(w, n) ==
  /\ w = n
  /\ OnGrid(n.form) => n.inner = n.form
  /\ OnGrid(n.inner) => n.text = n.inner

TextChanged(w, n) ==
  /\ w.form = n.form /\ w.inner = n.inner /\ w.text # n.text
  /\ OnGrid(n.form) => n.inner = n.form

TextIsRead(w, n) == w.form = n.form /\ w.text = n.text /\ w.inner # n.inner /\ n.inner = n.text

InnerIsParsed(w, n) ==
  /\ w.inner = n.inner /\ w.text = n.text /\ w.form # n.form
  /\ n.form = parseValue(n.inner) /\ n.inner = n.text

FormIsReturned(w, n) ==
  /\ w.form = n.form /\ w.text = n.text /\ w.inner # n.inner
  /\ n.inner = formatValue(n.form) /\ n.form = parseValue(n.text) /\ w.inner = n.text

\* Without the focus, a text that was changed is on the grid.
Settling(n, focused) == focused \/ OnGrid(n.text)

LEMMA FractionValues ==
  /\ \A v \in Value : parseValue(v) \in Value /\ formatValue(v) \in Value
  /\ \A v \in Value : OnGrid(parseValue(v)) => parseValue(v) = v
  /\ \A v \in Value : IsNumber(v) => formatValue(v) = v
  /\ \A v \in Value : parseValue(formatValue(parseValue(v))) = parseValue(v)
  /\ \A v \in Value : OnGrid(v) => /\ IsNumber(parseValue(v)) /\ parseValue(v).value \in Int
                                   /\ Number(round(parseValue(v).value)) = v
<1>0. Inexact \subseteq {n \in Nat : n % Tick = 0}
  BY FieldsAssumption
<1>1. ASSUME NEW v \in Value PROVE parseValue(v) \in Value /\ formatValue(v) \in Value
  BY ValueIs DEF parseValue, formatValue, percentageToFractionResolution
<1>2. ASSUME NEW v \in Value, OnGrid(parseValue(v)) PROVE parseValue(v) = v
  <2>1. IsNumber(v) /\ v.value \in Int /\ v = Number(v.value)
    BY <1>2, ValueIs DEF parseValue, OnGrid
  <2>2. v.value \notin Inexact
    <3> SUFFICES ASSUME v.value \in Inexact PROVE FALSE
      OBVIOUS
    <3>1. v.value % Tick = 0
      BY <1>0
    <3>2. parseValue(v) = Number(v.value - 1) /\ v.value - 1 \in Int
      BY <2>1 DEF parseValue, percentageToFractionResolution
    <3>3. (v.value - 1) % Tick = 0
      BY <1>2, <3>2, ValueIs DEF OnGrid
    <3> QED
      BY <2>1, <3>1, <3>3, RoundIs
  <2> QED
    BY <2>1, <2>2 DEF parseValue, percentageToFractionResolution
<1>3. ASSUME NEW v \in Value, IsNumber(v) PROVE formatValue(v) = v
  BY <1>3, ValueIs DEF formatValue
<1>4. ASSUME NEW v \in Value PROVE parseValue(formatValue(parseValue(v))) = parseValue(v)
  <2>1. CASE ~IsNumber(v)
    BY <2>1, ValueIs DEF parseValue, formatValue
  <2>2. CASE IsNumber(v) /\ v.value \notin Inexact
    BY <2>2, <1>3, ValueIs DEF parseValue, percentageToFractionResolution
  <2>3. CASE IsNumber(v) /\ v.value \in Inexact
    <3>1. v.value \in Int /\ v.value % Tick = 0 /\ v.value - 1 \in Int
      BY <1>0, <2>3, ValueIs
    <3>2. v.value - 1 \notin Inexact
      BY <1>0, <3>1, RoundIs
    <3>3. parseValue(v) = Number(v.value - 1)
      BY <2>3 DEF parseValue, percentageToFractionResolution
    <3>4. formatValue(parseValue(v)) = parseValue(v)
      BY <1>1, <1>3, <3>1, <3>3, ValueIs
    <3>5. parseValue(Number(v.value - 1)) = Number(v.value - 1)
      BY <3>1, <3>2, ValueIs DEF parseValue, percentageToFractionResolution
    <3> QED
      BY <3>3, <3>4, <3>5
  <2> QED
    BY <2>1, <2>2, <2>3
<1>5. ASSUME NEW v \in Value, OnGrid(v)
      PROVE  /\ IsNumber(parseValue(v)) /\ parseValue(v).value \in Int
             /\ Number(round(parseValue(v).value)) = v
  <2>1. IsNumber(v) /\ v.value \in Int /\ v = Number(v.value) /\ v.value % Tick = 0 /\ v.value - 1 \in Int
    BY <1>5, ValueIs DEF OnGrid
  <2>2. parseValue(v) = Number(v.value) \/ parseValue(v) = Number(v.value - 1)
    BY <2>1 DEF parseValue, percentageToFractionResolution
  <2>3. round(v.value) = v.value /\ round(v.value - 1) = v.value
    BY <2>1, RoundIs
  <2> QED
    BY <2>1, <2>2, <2>3, ValueIs
<1> QED
  BY <1>1, <1>2, <1>3, <1>4, <1>5

LEMMA ThreeDecimals ==
  ASSUME NEW v \in Value, NEW text \in Value
  PROVE  /\ formatted("three", text, v) \in Value
         /\ IsNumber(v) => formatted("three", text, v) = Number(round(v.value))
         /\ initialFormatted("three", formatValue(v), Number(0)) =
              IF IsNumber(v) THEN Number(round(v.value)) ELSE Number(0)
         /\ handleBlur("three", text, v, Number(0), FALSE) \in
              {text, Number(0)} \union (IF IsNumber(v) THEN {Number(round(v.value))} ELSE {})
<1>1. IsNumber(v) => Number(round(v.value)) \in Value
  BY ValueIs, RoundIs
<1>2. IsNumber(v) => Number(round(v.value)) # Empty
  BY ValueIs, RoundIs
<1>3. format("three", v) = IF IsNumber(v) THEN Number(round(v.value)) ELSE v
  BY DEF format
<1>4. Throws("three", v) = (v = Junk)
  BY DEF Throws
<1>5. formatted("three", text, v) = IF v = Junk THEN text ELSE format("three", v)
  BY <1>4 DEF formatted
<1>6. initialFormatted("three", formatValue(v), Number(0)) =
              IF IsNumber(v) THEN Number(round(v.value)) ELSE Number(0)
  <2>1. CASE IsNumber(v)
    BY <1>2, <1>3, <1>4, <2>1, ValueIs, FractionValues DEF initialFormatted
  <2>2. CASE ~IsNumber(v)
    <3>1. formatValue(v) = Empty
      BY <2>2, ValueIs DEF formatValue
    <3>2. format("three", Empty) = Empty
      BY ValueIs DEF format
    <3> QED
      BY <2>2, <3>1, <3>2 DEF initialFormatted
  <2> QED
    BY <2>1, <2>2
<1>7. handleBlur("three", text, v, Number(0), FALSE) \in
              {text, Number(0)} \union (IF IsNumber(v) THEN {Number(round(v.value))} ELSE {})
  <2>1. CASE IsNumber(v)
    BY <1>3, <2>1 DEF handleBlur
  <2>2. CASE ~IsNumber(v)
    <3>1. Throws("three", v) \/ format("three", v) = Empty
      BY <1>3, <1>4, <2>2, ValueIs
    <3> QED
      BY <2>2, <3>1 DEF handleBlur
  <2> QED
    BY <2>1, <2>2
<1> QED
  BY <1>1, <1>3, <1>5, <1>6, <1>7, ValueIs

\* The copies x after the effects of a commit that is not the first one.
FractionAfter(w, n, focused, x) ==
  /\ x = [form |-> x.form, inner |-> x.inner, text |-> x.text]
  /\ x.form = IF w.inner # n.inner THEN parseValue(n.inner) ELSE n.form
  /\ x.inner = IF w.form # n.form THEN formatValue(n.form)
               ELSE IF w.text # n.text THEN n.text ELSE n.inner
  /\ x.text = IF w.inner # n.inner /\ ~focused THEN formatted("three", n.text, n.inner) ELSE n.text

LEMMA FractionEffectsAre ==
  ASSUME NEW w, NEW n, NEW focused
  PROVE  FractionAfter(w, n, focused, FractionEffects(w, n, FALSE, focused))
BY DEF FractionAfter, FractionEffects

LEMMA FractionStays ==
  ASSUME NEW w, NEW n, NEW focused, NEW x, FractionIs(n), FractionAfter(w, n, focused, x)
  PROVE  FractionIs(x)
<1>1. formatted("three", n.text, n.inner) \in Value
  BY ThreeDecimals DEF FractionIs
<1>2. parseValue(n.inner) \in Value /\ formatValue(n.form) \in Value
  BY FractionValues DEF FractionIs
<1> QED
  BY <1>1, <1>2 DEF FractionIs, FractionAfter

LEMMA StillStays ==
  ASSUME NEW w, NEW n, NEW focused, NEW x, FractionIs(n), FractionAfter(w, n, focused, x), IsStill(w, n)
  PROVE  IsStill(n, x) /\ x.form = n.form
<1>1. x.form = n.form /\ x.inner = n.inner /\ x.text = n.text
  BY DEF IsStill, FractionAfter
<1>2. n = x
  BY <1>1 DEF FractionIs, FractionAfter
<1> QED
  BY <1>2 DEF IsStill

LEMMA ChangedIsRead ==
  ASSUME NEW w, NEW n, NEW focused, NEW x, FractionIs(n), FractionAfter(w, n, focused, x),
         TextChanged(w, n), Settling(n, focused)
  PROVE  (IsStill(n, x) \/ (TextIsRead(n, x) /\ Settling(x, focused))) /\ x.form = n.form
<1>1. x.form = n.form /\ x.inner = n.text /\ x.text = n.text
  BY DEF TextChanged, FractionAfter
<1>2. CASE n.inner = n.text
  <2>1. n = x
    BY <1>1, <1>2 DEF FractionIs, FractionAfter
  <2> QED
    BY <1>2, <2>1 DEF IsStill, TextChanged
<1>3. CASE n.inner # n.text
  BY <1>1, <1>3 DEF TextIsRead, Settling
<1> QED
  BY <1>1, <1>2, <1>3

LEMMA ReadIsParsed ==
  ASSUME NEW w, NEW n, NEW focused, NEW x, FractionIs(n), FractionAfter(w, n, focused, x),
         TextIsRead(w, n), Settling(n, focused)
  PROVE  IsStill(n, x) \/ (InnerIsParsed(n, x) /\ Settling(x, focused))
<1>1. n.inner \in Value /\ n.text = n.inner /\ w.inner # n.inner /\ w.form = n.form /\ w.text = n.text
  BY DEF FractionIs, TextIsRead
<1>2. OnGrid(n.inner) => formatted("three", n.text, n.inner) = n.text
  <2> SUFFICES ASSUME OnGrid(n.inner) PROVE formatted("three", n.text, n.inner) = n.text
    OBVIOUS
  <2>1. IsNumber(n.inner) /\ n.inner.value \in Int /\ n.inner = Number(n.inner.value) /\ n.inner.value % Tick = 0
    BY <1>1, ValueIs DEF OnGrid
  <2>2. round(n.inner.value) = n.inner.value
    BY <2>1, RoundIs
  <2> QED
    BY <1>1, <2>1, <2>2, ThreeDecimals
<1>3. x.form = parseValue(n.inner) /\ x.inner = n.inner /\ x.text = n.text
  BY <1>1, <1>2 DEF FractionAfter, Settling
<1>4. CASE x.form = n.form
  <2>1. n = x
    BY <1>3, <1>4 DEF FractionIs, FractionAfter
  <2>2. OnGrid(n.form) => n.inner = n.form
    BY <1>1, <1>3, <1>4, FractionValues
  <2> QED
    BY <1>1, <2>1, <2>2 DEF IsStill
<1>5. CASE x.form # n.form
  BY <1>1, <1>3, <1>5 DEF InnerIsParsed, Settling
<1> QED
  BY <1>4, <1>5

LEMMA ParsedIsReturned ==
  ASSUME NEW w, NEW n, NEW focused, NEW x, FractionIs(n), FractionAfter(w, n, focused, x),
         InnerIsParsed(w, n), Settling(n, focused)
  PROVE  (IsStill(n, x) \/ (FormIsReturned(n, x) /\ Settling(x, focused))) /\ x.form = n.form
<1>1. x.form = n.form /\ x.inner = formatValue(n.form) /\ x.text = n.text
  BY DEF InnerIsParsed, FractionAfter
<1>2. n.form = parseValue(n.text) /\ n.inner = n.text /\ n.form \in Value
  BY DEF InnerIsParsed, FractionIs
<1>3. CASE x.inner = n.inner
  <2>1. n = x
    BY <1>1, <1>3 DEF FractionIs, FractionAfter
  <2>2. OnGrid(n.form) => n.inner = n.form
    BY <1>1, <1>2, <1>3, FractionValues DEF OnGrid
  <2> QED
    BY <1>2, <2>1, <2>2 DEF IsStill
<1>4. CASE x.inner # n.inner
  BY <1>1, <1>2, <1>4 DEF FormIsReturned, Settling
<1> QED
  BY <1>1, <1>3, <1>4

LEMMA ReturnedIsStill ==
  ASSUME NEW w, NEW n, NEW focused, NEW x, FractionIs(n), FractionAfter(w, n, focused, x),
         FormIsReturned(w, n), Settling(n, focused)
  PROVE  IsStill(n, x) /\ x.form = n.form
<1>1. /\ n.inner = formatValue(n.form) /\ n.form = parseValue(n.text) /\ w.inner # n.inner
      /\ w.form = n.form /\ w.text = n.text
      /\ n.form \in Value /\ n.text \in Value /\ n.inner \in Value
  BY DEF FormIsReturned, FractionIs
<1>2. parseValue(n.inner) = n.form
  BY <1>1, FractionValues
<1>3. x.form = n.form /\ x.inner = n.inner
  BY <1>1, <1>2 DEF FractionAfter
<1>4. OnGrid(n.text) => formatted("three", n.text, n.inner) = n.text
  <2> SUFFICES ASSUME OnGrid(n.text) PROVE formatted("three", n.text, n.inner) = n.text
    OBVIOUS
  <2>1. IsNumber(n.form) /\ Number(round(n.form.value)) = n.text
    BY <1>1, FractionValues
  <2>2. n.inner = n.form
    BY <1>1, <2>1, FractionValues
  <2> QED
    BY <1>1, <2>1, <2>2, ThreeDecimals
<1>5. x.text = n.text
  BY <1>4 DEF FractionAfter, Settling
<1>6. n = x
  BY <1>3, <1>5 DEF FractionIs, FractionAfter
<1>7. OnGrid(n.form) => n.inner = n.form
  BY <1>1, FractionValues DEF OnGrid
<1>8. OnGrid(n.inner) => n.text = n.inner
  <2> SUFFICES ASSUME OnGrid(n.inner) PROVE n.text = n.inner
    OBVIOUS
  <2>1. IsNumber(n.inner)
    BY DEF OnGrid
  <2>2. IsNumber(n.form)
    BY <1>1, <2>1, ValueIs DEF formatValue
  <2>3. n.inner = n.form
    BY <1>1, <2>2, FractionValues
  <2> QED
    BY <1>1, <2>3, FractionValues
<1> QED
  BY <1>3, <1>6, <1>7, <1>8 DEF IsStill

\* A percentage that is mounted: its text is read first.
LEMMA FractionIsMounted ==
  ASSUME NEW v \in Value
  PROVE  LET n == FractionMounted(v)
         IN  /\ FractionIs(n) /\ n.form = v /\ n.inner = formatValue(v) /\ OnGrid(n.text)
<1> DEFINE n == FractionMounted(v)
<1>1. /\ n = [form |-> n.form, inner |-> n.inner, text |-> n.text]
      /\ n.form = v /\ n.inner = formatValue(v)
      /\ n.text = initialFormatted("three", formatValue(v), Number(0))
  BY DEF FractionMounted
<1> HIDE DEF n
<1>2. n.text = IF IsNumber(v) THEN Number(round(v.value)) ELSE Number(0)
  BY <1>1, ThreeDecimals
<1>3. n.text \in Value /\ OnGrid(n.text)
  <2>1. 0 % Tick = 0
    BY Ticks
  <2> QED
    BY <1>2, <2>1, ValueIs, RoundIs DEF OnGrid
<1> QED
  BY <1>1, <1>3, FractionValues DEF FractionIs, n

LEMMA MountedIsRead ==
  ASSUME NEW w, NEW n, NEW focused, FractionIs(n), n.inner = formatValue(n.form), OnGrid(n.text),
         NEW x, x = FractionEffects(w, n, TRUE, focused)
  PROVE  /\ FractionIs(x) /\ x.form = n.form
         /\ IsStill(n, x) \/ (TextIsRead(n, x) /\ Settling(x, focused))
<1>1. /\ x = [form |-> x.form, inner |-> x.inner, text |-> x.text]
      /\ x.form = n.form /\ x.inner = n.text /\ x.text = n.text
  BY DEF FractionEffects
<1>2. FractionIs(x)
  <2>1. n.form \in Value /\ n.text \in Value
    BY DEF FractionIs
  <2> QED
    BY <1>1, <2>1 DEF FractionIs
<1>3. CASE n.inner = n.text
  <2>1. n = x
    BY <1>1, <1>3 DEF FractionIs
  <2>2. OnGrid(n.form) => n.inner = n.form
    BY FractionValues DEF OnGrid, FractionIs
  <2> QED
    BY <1>3, <2>1, <2>2 DEF IsStill
<1>4. CASE n.inner # n.text
  BY <1>1, <1>2, <1>4 DEF TextIsRead, Settling
<1> QED
  BY <1>1, <1>2, <1>3, <1>4 DEF FractionIs

JustMounted(n) == n.inner = formatValue(n.form) /\ OnGrid(n.text)

\* A change of one kind, or none.
Rewrites(w, n, at) == IsStill(w, n) \/ (TextChanged(w, n) /\ Settling(n, at))
Reads(w, n, at) == IsStill(w, n) \/ (TextIsRead(w, n) /\ Settling(n, at))
Parses(w, n, at) == IsStill(w, n) \/ (InnerIsParsed(w, n) /\ Settling(n, at))
Returns(w, n, at) == IsStill(w, n) \/ (FormIsReturned(w, n) /\ Settling(n, at))

FractionInPhase(w, n, f, at) ==
  /\ FractionIs(n)
  /\ IF f THEN JustMounted(n)
     ELSE Rewrites(w, n, at) \/ Reads(w, n, at) \/ Parses(w, n, at) \/ Returns(w, n, at)

LEMMA NextPhases ==
  ASSUME NEW w, NEW n, NEW at, NEW x, FractionIs(n), FractionAfter(w, n, at, x)
  PROVE  /\ FractionIs(x)
         /\ Rewrites(w, n, at) => Reads(n, x, at) /\ x.form = n.form
         /\ Reads(w, n, at) => Parses(n, x, at)
         /\ Parses(w, n, at) => Returns(n, x, at) /\ x.form = n.form
         /\ Returns(w, n, at) => IsStill(n, x) /\ x.form = n.form
BY FractionStays, StillStays, ChangedIsRead, ReadIsParsed, ParsedIsReturned, ReturnedIsStill
   DEF Rewrites, Reads, Parses, Returns

LEMMA EffectsKeepFraction ==
  ASSUME NEW w, NEW n, NEW f \in BOOLEAN, NEW at, FractionInPhase(w, n, f, at)
  PROVE  FractionInPhase(n, FractionEffects(w, n, f, at), FALSE, at)
<1> DEFINE x == FractionEffects(w, n, f, at)
<1>0. FractionIs(n)
  BY DEF FractionInPhase
<1>1. CASE f = TRUE
  <2>1. x = FractionEffects(w, n, TRUE, at)
    BY <1>1
  <2>2. JustMounted(n)
    BY <1>1 DEF FractionInPhase
  <2> HIDE DEF x
  <2>3. FractionIs(x) /\ (IsStill(n, x) \/ (TextIsRead(n, x) /\ Settling(x, at)))
    BY <1>0, <2>1, <2>2, MountedIsRead DEF JustMounted
  <2>4. FractionInPhase(n, x, FALSE, at)
    BY <2>3 DEF FractionInPhase, Reads
  <2> QED
    BY <2>4 DEF x
<1>2. CASE f = FALSE
  <2>1. FractionAfter(w, n, at, FractionEffects(w, n, FALSE, at))
    BY FractionEffectsAre
  <2>2. FractionAfter(w, n, at, x)
    BY <1>2, <2>1
  <2>3. Rewrites(w, n, at) \/ Reads(w, n, at) \/ Parses(w, n, at) \/ Returns(w, n, at)
    BY <1>2 DEF FractionInPhase
  <2> HIDE DEF x
  <2>4. FractionIs(x) /\ (Reads(n, x, at) \/ Parses(n, x, at) \/ Returns(n, x, at) \/ IsStill(n, x))
    BY <1>0, <2>2, <2>3, NextPhases
  <2>5. FractionInPhase(n, x, FALSE, at)
    BY <2>4 DEF FractionInPhase, Reads
  <2> QED
    BY <2>5 DEF x
<1> QED
  BY <1>1, <1>2

\* In a quiet commit the copies of a value on the grid are the same.
LEMMA FractionIsQuiet ==
  ASSUME NEW n, NEW at, Rewrites(n, n, at) \/ Reads(n, n, at) \/ Parses(n, n, at) \/ Returns(n, n, at)
  PROVE  IsStill(n, n)
BY DEF Rewrites, Reads, Parses, Returns, TextChanged, TextIsRead, InnerIsParsed, FormIsReturned

LEMMA StillIsShown ==
  ASSUME NEW n, IsStill(n, n), OnGrid(n.form)
  PROVE  n.text = n.form
BY DEF IsStill

\* A text that is typed with the focus, or written again without it.
LEMMA StillIsRewritten ==
  ASSUME NEW n, FractionIs(n), IsStill(n, n), NEW text \in Value, NEW at,
         at \/ text = n.text \/ OnGrid(text),
         NEW x, x = [n EXCEPT !.text = text]
  PROVE  FractionIs(x) /\ Rewrites(n, x, at) /\ x.form = n.form
<1>1. /\ x = [form |-> x.form, inner |-> x.inner, text |-> x.text]
      /\ x.form = n.form /\ x.inner = n.inner /\ x.text = text
  BY DEF FractionIs
<1>2. FractionIs(x)
  BY <1>1 DEF FractionIs
<1>3. CASE text = n.text
  <2>1. x = n
    BY <1>1, <1>3 DEF FractionIs
  <2> QED
    BY <1>1, <1>2, <2>1 DEF Rewrites, IsStill
<1>4. CASE text # n.text
  BY <1>1, <1>2, <1>4 DEF Rewrites, TextChanged, IsStill, Settling
<1> QED
  BY <1>3, <1>4

LEMMA BlurIsOnGrid ==
  ASSUME NEW n, FractionIs(n)
  PROVE  LET text == handleBlur("three", n.text, n.inner, Number(0), FALSE)
         IN  text \in Value /\ (text = n.text \/ OnGrid(text))
<1> DEFINE text == handleBlur("three", n.text, n.inner, Number(0), FALSE)
<1>1. text \in {n.text, Number(0)} \union (IF IsNumber(n.inner) THEN {Number(round(n.inner.value))} ELSE {})
  BY ThreeDecimals DEF FractionIs
<1>2. Number(0) \in Value /\ OnGrid(Number(0))
  BY Ticks, ValueIs DEF OnGrid
<1>3. IsNumber(n.inner) => Number(round(n.inner.value)) \in Value /\ OnGrid(Number(round(n.inner.value)))
  <2> SUFFICES ASSUME IsNumber(n.inner)
               PROVE  Number(round(n.inner.value)) \in Value /\ OnGrid(Number(round(n.inner.value)))
    OBVIOUS
  <2>1. n.inner.value \in Int
    BY ValueIs DEF FractionIs
  <2> QED
    BY <2>1, ValueIs, RoundIs DEF OnGrid
<1>4. n.text \in Value
  BY DEF FractionIs
<1> HIDE DEF text
<1>5. text \in Value /\ (text = n.text \/ OnGrid(text))
  BY <1>1, <1>2, <1>3, <1>4
<1> QED
  BY <1>5 DEF text
-----------------------------------------------------------------------------
(***************************************************************************)
(* A range: both ends are in the same phase, and its value is that of the  *)
(* ends but while they are parsed.                                         *)
(***************************************************************************)
EndsOf(n) == [e \in Ends |-> n[e].form]

RangeIs(n) ==
  /\ DOMAIN n = {"form", "min", "max"}
  /\ n.form \in [Ends -> Value] /\ \A e \in Ends : FractionIs(n[e])

RangeInPhase(w, n, f, at) ==
  /\ RangeIs(n)
  /\ IF f THEN n.form = EndsOf(n) /\ \A e \in Ends : JustMounted(n[e])
     ELSE \/ /\ w.form = n.form /\ n.form = EndsOf(n)
             /\ \A e \in Ends : Rewrites(w[e], n[e], at = e)
          \/ /\ w.form = n.form /\ n.form = EndsOf(n)
             /\ \A e \in Ends : Reads(w[e], n[e], at = e)
          \/ /\ w.form = n.form /\ n.form = EndsOf(w) /\ EndsOf(w) # EndsOf(n)
             /\ \A e \in Ends : Parses(w[e], n[e], at = e)
          \/ /\ n.form = EndsOf(n)
             /\ \A e \in Ends : w[e].form = n[e].form /\ Returns(w[e], n[e], at = e)

\* The copies x after the effects of a commit that is not the first one.
RangeAfter(w, n, at, x) ==
  /\ DOMAIN x = {"form", "min", "max"}
  /\ x.form = IF EndsOf(w) # EndsOf(n) THEN EndsOf(n) ELSE n.form
  /\ \A e \in Ends :
       LET y == FractionEffects(w[e], n[e], FALSE, at = e)
       IN  x[e] = IF w.form # n.form THEN [y EXCEPT !.form = n.form[e]] ELSE y

LEMMA RangeEffectsAre ==
  ASSUME NEW w, NEW n, NEW at
  PROVE  RangeAfter(w, n, at, RangeEffects(w, n, FALSE, at))
<1> DEFINE x == RangeEffects(w, n, FALSE, at)
<1>1. (\E e \in Ends : w[e].form # n[e].form) <=> EndsOf(w) # EndsOf(n)
  <2>1. (\A e \in Ends : w[e].form = n[e].form) => EndsOf(w) = EndsOf(n)
    BY DEF EndsOf
  <2>2. \A e \in Ends : EndsOf(w)[e] = w[e].form /\ EndsOf(n)[e] = n[e].form
    BY DEF EndsOf
  <2> QED
    BY <2>1, <2>2
<1>2. EndsOf(n) = [min |-> n["min"].form, max |-> n["max"].form]
  BY DEF EndsOf, Ends
<1>3. x.form = IF EndsOf(w) # EndsOf(n) THEN EndsOf(n) ELSE n.form
  BY <1>1, <1>2 DEF RangeEffects
<1>4. DOMAIN x = {"form", "min", "max"}
  BY DEF RangeEffects
<1>5. ASSUME NEW e \in Ends
      PROVE  LET y == FractionEffects(w[e], n[e], FALSE, at = e)
             IN  x[e] = IF w.form # n.form THEN [y EXCEPT !.form = n.form[e]] ELSE y
  <2>1. CASE e = "min"
    BY <2>1, Zenon DEF RangeEffects
  <2>2. CASE e = "max"
    BY <2>2, Zenon DEF RangeEffects
  <2> QED
    BY <1>5, <2>1, <2>2 DEF Ends
<1> HIDE DEF x
<1>6. RangeAfter(w, n, at, x)
  BY <1>3, <1>4, <1>5 DEF RangeAfter
<1> QED
  BY <1>6 DEF x

\* The copies x after the effects of a mount.
RangeRead(w, n, at, x) ==
  /\ DOMAIN x = {"form", "min", "max"} /\ x.form = n.form
  /\ \A e \in Ends : x[e] = FractionEffects(w[e], n[e], TRUE, at = e)

LEMMA RangeMountIs ==
  ASSUME NEW w, NEW n, NEW at
  PROVE  RangeRead(w, n, at, RangeEffects(w, n, TRUE, at))
<1> DEFINE x == RangeEffects(w, n, TRUE, at)
<1>1. DOMAIN x = {"form", "min", "max"} /\ x.form = n.form
  BY DEF RangeEffects
<1>2. ASSUME NEW e \in Ends PROVE x[e] = FractionEffects(w[e], n[e], TRUE, at = e)
  <2>1. CASE e = "min"
    BY <2>1, Zenon DEF RangeEffects
  <2>2. CASE e = "max"
    BY <2>2, Zenon DEF RangeEffects
  <2> QED
    BY <1>2, <2>1, <2>2 DEF Ends
<1> HIDE DEF x
<1>3. RangeRead(w, n, at, x)
  BY <1>1, <1>2, Zenon DEF RangeRead
<1> QED
  BY <1>3 DEF x

LEMMA RangeIsMounted ==
  ASSUME NEW v \in [Ends -> Value], NEW w, NEW at
  PROVE  RangeInPhase(w, RangeMounted(v), TRUE, at)
<1> DEFINE n == RangeMounted(v)
<1>1. /\ DOMAIN n = {"form", "min", "max"} /\ n.form = v
      /\ \A e \in Ends : n[e] = FractionMounted(v[e])
  BY DEF RangeMounted, Ends
<1> HIDE DEF n
<1>2. \A e \in Ends : FractionIs(n[e]) /\ n[e].form = v[e] /\ JustMounted(n[e])
  BY <1>1, FractionIsMounted DEF JustMounted
<1>3. n.form = EndsOf(n)
  BY <1>1, <1>2 DEF EndsOf
<1>4. RangeInPhase(w, n, TRUE, at)
  BY <1>1, <1>2, <1>3 DEF RangeInPhase, RangeIs
<1> QED
  BY <1>4 DEF n

\* The end e after the effects, when the range did not arrive, or the end has its value.
LEMMA EndAfter ==
  ASSUME NEW w, NEW n, NEW at, NEW x, RangeAfter(w, n, at, x), NEW e \in Ends,
         \/ w.form = n.form
         \/ w[e].inner = n[e].inner /\ n[e].form = n.form[e]
         \/ parseValue(n[e].inner) = n[e].form /\ n[e].form = n.form[e]
  PROVE  FractionAfter(w[e], n[e], at = e, x[e])
<1> DEFINE y == FractionEffects(w[e], n[e], FALSE, at = e)
<1>1. FractionAfter(w[e], n[e], at = e, y)
  BY FractionEffectsAre
<1>2. x[e] = IF w.form # n.form THEN [y EXCEPT !.form = n.form[e]] ELSE y
  BY DEF RangeAfter
<1> HIDE DEF y
<1>3. CASE w.form = n.form
  BY <1>1, <1>2, <1>3
<1>4. CASE w.form # n.form
  <2>1. y.form = n.form[e] /\ y = [form |-> y.form, inner |-> y.inner, text |-> y.text]
    BY <1>1, <1>4 DEF FractionAfter
  <2>2. [y EXCEPT !.form = n.form[e]] = y
    BY <2>1
  <2> QED
    BY <1>1, <1>2, <1>4, <2>2
<1> QED
  BY <1>3, <1>4

LEMMA EffectsKeepRange ==
  ASSUME NEW w, NEW n, NEW f \in BOOLEAN, NEW at, RangeInPhase(w, n, f, at)
  PROVE  RangeInPhase(n, RangeEffects(w, n, f, at), FALSE, at)
<1> DEFINE x == RangeEffects(w, n, f, at)
<1> SUFFICES RangeInPhase(n, x, FALSE, at)
  OBVIOUS
<1>0. /\ DOMAIN n = {"form", "min", "max"}
      /\ n.form \in [Ends -> Value] /\ \A e \in Ends : FractionIs(n[e])
  BY DEF RangeInPhase, RangeIs
<1>1. \A u : EndsOf(u) = [e \in Ends |-> u[e].form]
  BY DEF EndsOf
<1>2. ASSUME NEW u, NEW z, \A e \in Ends : z[e].form = u[e].form PROVE EndsOf(z) = EndsOf(u)
  BY <1>2 DEF EndsOf
<1>3. \A u : \A e \in Ends : EndsOf(u)[e] = u[e].form
  BY DEF EndsOf
<1>t. CASE f = TRUE
  <2>0. x = RangeEffects(w, n, TRUE, at)
    BY <1>t
  <2> HIDE DEF x
  <2>1. /\ DOMAIN x = {"form", "min", "max"} /\ x.form = n.form
        /\ \A e \in Ends : x[e] = FractionEffects(w[e], n[e], TRUE, at = e)
    <3>1. RangeRead(w, n, at, RangeEffects(w, n, TRUE, at))
      BY RangeMountIs
    <3> QED
      BY <2>0, <3>1 DEF RangeRead
  <2>2. n.form = EndsOf(n) /\ \A e \in Ends : JustMounted(n[e])
    BY <1>t DEF RangeInPhase
  <2> HIDE DEF x
  <2>3. ASSUME NEW e \in Ends PROVE FractionIs(x[e]) /\ x[e].form = n[e].form /\ Reads(n[e], x[e], at = e)
    <3> DEFINE b == (at = e)
    <3>1. x[e] = FractionEffects(w[e], n[e], TRUE, b)
      BY <2>1, <2>3
    <3>2. n[e].inner = formatValue(n[e].form) /\ OnGrid(n[e].text) /\ FractionIs(n[e])
      BY <1>0, <2>2, <2>3 DEF JustMounted
    <3> HIDE DEF b
    <3>3. /\ FractionIs(x[e]) /\ x[e].form = n[e].form
          /\ IsStill(n[e], x[e]) \/ (TextIsRead(n[e], x[e]) /\ Settling(x[e], b))
      BY <3>1, <3>2, MountedIsRead
    <3>4. Reads(n[e], x[e], b)
      BY <3>3 DEF Reads
    <3> QED
      BY <3>3, <3>4 DEF b
  <2>4. EndsOf(x) = EndsOf(n)
    BY <1>2, <2>3
  <2> QED
    BY <1>0, <2>1, <2>2, <2>3, <2>4 DEF RangeInPhase, RangeIs
<1>f. CASE f = FALSE
  <2>1. RangeAfter(w, n, at, x)
    <3>1. RangeAfter(w, n, at, RangeEffects(w, n, FALSE, at))
      BY RangeEffectsAre
    <3> QED
      BY <1>f, <3>1
  <2> HIDE DEF x
  <2>2. /\ DOMAIN x = {"form", "min", "max"}
        /\ x.form = IF EndsOf(w) # EndsOf(n) THEN EndsOf(n) ELSE n.form
    BY <2>1 DEF RangeAfter
  <2>3. ASSUME NEW e \in Ends, FractionAfter(w[e], n[e], at = e, x[e])
        PROVE  /\ FractionIs(x[e])
               /\ Rewrites(w[e], n[e], at = e) => Reads(n[e], x[e], at = e) /\ x[e].form = n[e].form
               /\ Reads(w[e], n[e], at = e) => Parses(n[e], x[e], at = e)
               /\ Parses(w[e], n[e], at = e) => Returns(n[e], x[e], at = e) /\ x[e].form = n[e].form
               /\ Returns(w[e], n[e], at = e) => IsStill(n[e], x[e]) /\ x[e].form = n[e].form
    <3> DEFINE b == (at = e)
    <3>1. FractionIs(n[e]) /\ FractionAfter(w[e], n[e], b, x[e])
      BY <1>0, <2>3
    <3> HIDE DEF b
    <3>2.      /\ FractionIs(x[e])
               /\ Rewrites(w[e], n[e], b) => Reads(n[e], x[e], b) /\ x[e].form = n[e].form
               /\ Reads(w[e], n[e], b) => Parses(n[e], x[e], b)
               /\ Parses(w[e], n[e], b) => Returns(n[e], x[e], b) /\ x[e].form = n[e].form
               /\ Returns(w[e], n[e], b) => IsStill(n[e], x[e]) /\ x[e].form = n[e].form
      BY <3>1, NextPhases
    <3> QED
      BY <3>2 DEF b
  <2>4. ASSUME \A e \in Ends : FractionAfter(w[e], n[e], at = e, x[e]), x.form \in [Ends -> Value]
        PROVE  RangeIs(x)
    BY <2>2, <2>3, <2>4 DEF RangeIs
  <2>5. \A u : (\A e \in Ends : u[e].form \in Value) => EndsOf(u) \in [Ends -> Value]
    BY DEF EndsOf
  <2>6. EndsOf(n) \in [Ends -> Value]
    BY <1>0, <2>5 DEF FractionIs
  <2>7. x.form \in [Ends -> Value]
    BY <1>0, <2>2, <2>6
  <2>a. CASE /\ w.form = n.form /\ n.form = EndsOf(n)
             /\ \A e \in Ends : Rewrites(w[e], n[e], at = e)
    <3>1. \A e \in Ends : FractionAfter(w[e], n[e], at = e, x[e])
      BY <2>1, <2>a, EndAfter
    <3>2. \A e \in Ends : Reads(n[e], x[e], at = e) /\ x[e].form = n[e].form
      BY <2>3, <2>a, <3>1
    <3>3. EndsOf(x) = EndsOf(n) /\ x.form = n.form
      BY <1>2, <2>2, <2>a, <3>2
    <3> QED
      BY <2>4, <2>7, <2>a, <3>1, <3>2, <3>3 DEF RangeInPhase
  <2>b. CASE /\ w.form = n.form /\ n.form = EndsOf(n)
             /\ \A e \in Ends : Reads(w[e], n[e], at = e)
    <3>1. \A e \in Ends : FractionAfter(w[e], n[e], at = e, x[e])
      BY <2>1, <2>b, EndAfter
    <3>2. \A e \in Ends : Parses(n[e], x[e], at = e)
      BY <2>3, <2>b, <3>1
    <3>3. x.form = n.form
      BY <2>2, <2>b
    <3>4. CASE EndsOf(n) # EndsOf(x)
      BY <2>4, <2>7, <2>b, <3>1, <3>2, <3>3, <3>4 DEF RangeInPhase
    <3>5. CASE EndsOf(n) = EndsOf(x)
      <4>1. \A e \in Ends : n[e].form = x[e].form
        BY <1>3, <3>5
      <4>2. \A e \in Ends : Rewrites(n[e], x[e], at = e)
        BY <3>2, <4>1 DEF Parses, Rewrites, InnerIsParsed
      <4> QED
        BY <2>4, <2>7, <2>b, <3>1, <3>3, <3>5, <4>2 DEF RangeInPhase
    <3> QED
      BY <3>4, <3>5
  <2>c. CASE /\ w.form = n.form /\ n.form = EndsOf(w) /\ EndsOf(w) # EndsOf(n)
             /\ \A e \in Ends : Parses(w[e], n[e], at = e)
    <3>1. \A e \in Ends : FractionAfter(w[e], n[e], at = e, x[e])
      BY <2>1, <2>c, EndAfter
    <3>2. \A e \in Ends : Returns(n[e], x[e], at = e) /\ x[e].form = n[e].form
      BY <2>3, <2>c, <3>1
    <3>3. x.form = EndsOf(n) /\ EndsOf(x) = EndsOf(n)
      BY <1>2, <2>2, <2>c, <3>2
    <3> QED
      BY <2>4, <2>7, <3>1, <3>2, <3>3 DEF RangeInPhase
  <2>d. CASE /\ n.form = EndsOf(n)
             /\ \A e \in Ends : w[e].form = n[e].form /\ Returns(w[e], n[e], at = e)
    <3>0. ASSUME NEW e \in Ends
          PROVE  w[e].inner = n[e].inner \/ parseValue(n[e].inner) = n[e].form
      <4>1. CASE IsStill(w[e], n[e])
        BY <4>1 DEF IsStill
      <4>2. CASE FormIsReturned(w[e], n[e])
        <5>1. n[e].text \in Value
          BY <1>0, <3>0 DEF FractionIs
        <5>2. n[e].inner = formatValue(n[e].form) /\ n[e].form = parseValue(n[e].text)
          BY <4>2 DEF FormIsReturned
        <5> QED
          BY <5>1, <5>2, FractionValues
      <4> QED
        BY <2>d, <3>0, <4>1, <4>2 DEF Returns
    <3>1. \A e \in Ends : FractionAfter(w[e], n[e], at = e, x[e])
      BY <1>3, <2>1, <2>d, <3>0, EndAfter
    <3>2. \A e \in Ends : IsStill(n[e], x[e]) /\ x[e].form = n[e].form
      BY <2>3, <2>d, <3>1
    <3>3. EndsOf(w) = EndsOf(n) /\ EndsOf(x) = EndsOf(n)
      BY <1>2, <2>d, <3>2
    <3>4. x.form = n.form /\ \A e \in Ends : Rewrites(n[e], x[e], at = e)
      BY <2>2, <3>2, <3>3 DEF Rewrites
    <3> QED
      BY <2>4, <2>7, <2>d, <3>1, <3>3, <3>4 DEF RangeInPhase
  <2> QED
    BY <1>f, <2>a, <2>b, <2>c, <2>d DEF RangeInPhase
<1> QED
  BY <1>t, <1>f

LEMMA FractionIsTyped ==
  ASSUME NEW n, NEW old, FractionInPhase(n, n, FALSE, old), NEW text \in Value, NEW at \in BOOLEAN,
         at \/ text = n.text \/ OnGrid(text)
  PROVE  FractionInPhase(n, [n EXCEPT !.text = text], FALSE, at)
<1> DEFINE x == [n EXCEPT !.text = text]
<1>1. FractionIs(n) /\ IsStill(n, n)
  BY FractionIsQuiet DEF FractionInPhase
<1>2. FractionIs(x) /\ Rewrites(n, x, at)
  BY <1>1, StillIsRewritten
<1> QED
  BY <1>2 DEF FractionInPhase

LEMMA FractionIsShown ==
  ASSUME NEW n, NEW at, FractionInPhase(n, n, FALSE, at)
  PROVE  FractionIs(n) /\ (OnGrid(n.form) => n.text = n.form)
BY FractionIsQuiet, StillIsShown DEF FractionInPhase

LEMMA FractionIsFocused ==
  ASSUME NEW n, NEW old, FractionInPhase(n, n, FALSE, old), NEW at
  PROVE  FractionInPhase(n, n, FALSE, at)
BY FractionIsQuiet DEF FractionInPhase, Rewrites

LEMMA RangeIsQuiet ==
  ASSUME NEW n, NEW at, RangeInPhase(n, n, FALSE, at)
  PROVE  RangeIs(n) /\ n.form = EndsOf(n) /\ \A e \in Ends : IsStill(n[e], n[e])
<1>1. /\ RangeIs(n) /\ n.form = EndsOf(n)
      /\ \/ \A e \in Ends : Rewrites(n[e], n[e], at = e)
         \/ \A e \in Ends : Reads(n[e], n[e], at = e)
         \/ \A e \in Ends : Returns(n[e], n[e], at = e)
  BY DEF RangeInPhase
<1>2. ASSUME NEW e \in Ends PROVE IsStill(n[e], n[e])
  BY <1>1 DEF Rewrites, Reads, Returns, TextChanged, TextIsRead, FormIsReturned
<1> QED
  BY <1>1, <1>2

LEMMA RangeIsShown ==
  ASSUME NEW n, NEW at, RangeInPhase(n, n, FALSE, at)
  PROVE  RangeIs(n) /\ \A e \in Ends : OnGrid(n.form[e]) => n[e].text = n.form[e]
<1>1. RangeIs(n) /\ n.form = EndsOf(n) /\ \A e \in Ends : IsStill(n[e], n[e])
  BY RangeIsQuiet
<1>2. \A e \in Ends : n.form[e] = n[e].form
  BY <1>1 DEF EndsOf
<1> QED
  BY <1>1, <1>2, StillIsShown

LEMMA RangeIsFocused ==
  ASSUME NEW n, NEW old, RangeInPhase(n, n, FALSE, old), NEW at
  PROVE  RangeInPhase(n, n, FALSE, at)
<1>1. RangeIs(n) /\ n.form = EndsOf(n) /\ \A e \in Ends : IsStill(n[e], n[e])
  BY RangeIsQuiet
<1>2. \A e \in Ends : Rewrites(n[e], n[e], at = e)
  BY <1>1 DEF Rewrites
<1> QED
  BY <1>1, <1>2 DEF RangeInPhase

LEMMA RangeIsTyped ==
  ASSUME NEW n, NEW old, RangeInPhase(n, n, FALSE, old), NEW e \in Ends, NEW text \in Value, NEW at,
         at = e \/ text = n[e].text \/ OnGrid(text)
  PROVE  RangeInPhase(n, [n EXCEPT ![e].text = text], FALSE, at)
<1> DEFINE x == [n EXCEPT ![e].text = text]
           y == [n[e] EXCEPT !.text = text]
           b == (at = e)
<1>1. RangeIs(n) /\ n.form = EndsOf(n) /\ \A d \in Ends : IsStill(n[d], n[d])
  BY RangeIsQuiet
<1>2. DOMAIN n = {"form", "min", "max"} /\ Ends = {"min", "max"}
  BY <1>1 DEF RangeIs, Ends
<1>3. /\ DOMAIN x = {"form", "min", "max"} /\ x.form = n.form /\ x[e] = y
      /\ \A d \in Ends : d # e => x[d] = n[d]
  BY <1>2
<1>4. FractionIs(n[e]) /\ (b \/ text = n[e].text \/ OnGrid(text))
  BY <1>1 DEF RangeIs
<1> HIDE DEF b
<1>5. FractionIs(y) /\ Rewrites(n[e], y, b) /\ y.form = n[e].form
  BY <1>1, <1>4, StillIsRewritten
<1> SUFFICES RangeInPhase(n, x, FALSE, at)
  OBVIOUS
<1> HIDE DEF x, y
<1>6. \A d \in Ends : FractionIs(x[d]) /\ x[d].form = n[d].form
  BY <1>1, <1>3, <1>5 DEF RangeIs
<1>7. EndsOf(x) = EndsOf(n)
  BY <1>6 DEF EndsOf
<1>8. ASSUME NEW d \in Ends PROVE Rewrites(n[d], x[d], at = d)
  <2>1. CASE d = e
    BY <1>3, <1>5, <2>1 DEF b
  <2>2. CASE d # e
    BY <1>1, <1>3, <2>2, <1>8 DEF Rewrites
  <2> QED
    BY <2>1, <2>2
<1>9. RangeIs(x)
  BY <1>1, <1>3, <1>6 DEF RangeIs
<1> QED
  BY <1>1, <1>3, <1>7, <1>8, <1>9 DEF RangeInPhase

-------------------------------------------------------------------------------

(***************************************************************************)
(* A mint rate, by the pair of its latest commits.                         *)
(***************************************************************************)
MintIs(n) ==
  /\ n = [form |-> n.form, annual |-> n.annual, annualText |-> n.annualText, text |-> n.text]
  /\ n.form \in Value /\ n.text \in Value /\ n.annual \in Value /\ n.annualText \in Value

IsRounded(v) == mintRateFormat(v) = v

\* While the annual rate has the focus, it and its text do not change together.
OneAnnual(w, n, at) == at = "annual" => w.annual = n.annual \/ w.annualText = n.annualText

\* The text is the rate.
TextIsRate(w, n, at) ==
  /\ w.form = n.form /\ n.text = n.form
  /\ at # "rate" => IsRounded(n.form)
  /\ OneAnnual(w, n, at)

\* The rate was computed from the annual one, and goes to the text.
RateFromAnnual(w, n, at) ==
  /\ at = "annual" /\ w.form = n.text /\ w.text = n.text
  /\ IsRounded(w.form) /\ IsRounded(n.form) /\ w.annual = n.annual /\ w.annualText = n.annualText

\* The rate was made of the text.
RateFromText(w, n, at) ==
  /\ at # "annual" /\ w.text = n.text /\ n.form = n.text
  /\ at # "rate" => mintRateFormat(w.form) = mintRateFormat(n.form) /\ IsRounded(n.form)

\* The text was typed, or written again when the input lost the focus.
RateIsWritten(w, n, at) ==
  /\ w.form = n.form /\ (w.text = n.text => n.form = n.text)
  /\ at = "rate" \/ (at = "none" /\ n.text = mintRateFormat(n.form))

MintInPhase(w, n, f, at) ==
  /\ MintIs(n)
  /\ IF f THEN at = "none" /\ n.text = mintRateFormat(n.form)
     ELSE \/ TextIsRate(w, n, at) \/ RateFromAnnual(w, n, at) \/ RateFromText(w, n, at)
          \/ RateIsWritten(w, n, at)

PeriodIs(period) == IsNumber(period) => period.value \in Int

LEMMA MintFormat ==
  /\ \A v \in Value : mintRateFormat(v) \in Value /\ mintRateFormat(v) # Empty
  /\ \A v \in Value : IsRounded(mintRateFormat(v))
  /\ \A text : \A v \in Value : formatted("rate", text, v) = format("rate", v)
  /\ \A text : \A v \in Value : formatted("rate", text, mintRateFormat(v)) = mintRateFormat(v)
  /\ \A fallback : \A v \in Value : initialFormatted("rate", mintRateFormat(v), fallback) = mintRateFormat(v)
  /\ \A text : \A v \in Value :
       handleBlur("rate", text, mintRateFormat(v), Number(0), FALSE) =
         IF text = Empty THEN Number(0) ELSE mintRateFormat(v)
  /\ mintRateFormat(Empty) = Number(0)
<1>1. \A v \in Value : format("rate", v) = IF IsNumber(v) THEN Number(round(v.value)) ELSE v
  BY DEF format
<1>2. \A v \in Value : AsNumber(v) \in Value /\ AsNumber(v) # Empty
  BY ValueIs DEF AsNumber
<1>3. \A v \in Value : v # Empty => format("rate", v) \in Value /\ format("rate", v) # Empty
                                     /\ format("rate", format("rate", v)) = format("rate", v)
  <2> SUFFICES ASSUME NEW v \in Value, v # Empty
               PROVE  format("rate", v) \in Value /\ format("rate", v) # Empty
                      /\ format("rate", format("rate", v)) = format("rate", v)
    OBVIOUS
  <2>1. CASE v = Junk
    BY <1>1, <2>1, ValueIs
  <2>2. CASE IsNumber(v)
    <3>1. v.value \in Int
      BY <2>2, ValueIs
    <3>2. round(v.value) \in Int /\ round(round(v.value)) = round(v.value)
      BY <3>1, RoundIs
    <3>3. format("rate", v) = Number(round(v.value))
      BY <1>1, <2>2
    <3>4. format("rate", Number(round(v.value))) = Number(round(v.value))
      BY <1>1, <3>2, ValueIs
    <3> QED
      BY <3>2, <3>3, <3>4, ValueIs
  <2> QED
    BY <2>1, <2>2, ValueIs
<1>4. \A v \in Value : mintRateFormat(v) = format("rate", AsNumber(v))
  BY DEF mintRateFormat
<1>5. \A v \in Value : mintRateFormat(v) \in Value /\ mintRateFormat(v) # Empty
  BY <1>2, <1>3, <1>4
<1>6. \A v : v # Empty => AsNumber(v) = v
  BY DEF AsNumber
<1>7. \A v \in Value : format("rate", mintRateFormat(v)) = mintRateFormat(v)
  BY <1>2, <1>3, <1>4
<1>8. \A v \in Value : IsRounded(mintRateFormat(v))
  BY <1>4, <1>5, <1>6, <1>7 DEF IsRounded
<1>9. \A v : ~Throws("rate", v)
  BY DEF Throws
<1>10. \A text : \A v \in Value : formatted("rate", text, v) = format("rate", v)
  BY <1>9 DEF formatted
<1>11. \A fallback : \A v \in Value : initialFormatted("rate", mintRateFormat(v), fallback) = mintRateFormat(v)
  BY <1>5, <1>7, <1>9 DEF initialFormatted
<1>12. \A text : \A v \in Value :
       handleBlur("rate", text, mintRateFormat(v), Number(0), FALSE) =
         IF text = Empty THEN Number(0) ELSE mintRateFormat(v)
  BY <1>5, <1>7, <1>9 DEF handleBlur
<1>13. mintRateFormat(Empty) = Number(0)
  <2>1. 0 % Tick = 0 /\ 0 \in Int
    BY Ticks
  <2>2. round(0) = 0
    BY <2>1, RoundIs
  <2>3. AsNumber(Empty) = Number(0)
    BY DEF AsNumber
  <2> QED
    BY <1>1, <1>4, <2>2, <2>3, ValueIs
<1> QED
  BY <1>5, <1>7, <1>8, <1>10, <1>11, <1>12, <1>13

LEMMA Paydays ==
  ASSUME NEW period, PeriodIs(period)
  PROVE  PaydaysPerYear(period) \in Int
<1>1. Tick \in Nat /\ EpochsPerYear \in Nat
  BY FieldsAssumption
<1>2. CASE IsNumber(period) /\ period.value > 0
  <2>1. period.value \in Nat \ {0} /\ EpochsPerYear * Tick \in Int
    BY <1>1, <1>2 DEF PeriodIs
  <2>2. \A a \in Int, b \in Nat \ {0} : a \div b \in Int
    OBVIOUS
  <2> QED
    BY <1>2, <2>1, <2>2 DEF PaydaysPerYear
<1>3. CASE ~(IsNumber(period) /\ period.value > 0)
  BY <1>3 DEF PaydaysPerYear
<1> QED
  BY <1>2, <1>3

LEMMA MintValues ==
  ASSUME NEW period, PeriodIs(period), NEW v \in Value
  PROVE  /\ calculateAnnualRate(AsNumber(v), period) \in Value
         /\ calculateMintPerPayday(AsNumber(v), period) \in Value
         /\ IsRounded(calculateMintPerPayday(AsNumber(v), period))
<1> DEFINE P == PaydaysPerYear(period)
           u == AsNumber(v)
<1>1. P \in Int
  BY Paydays
<1>2. u \in Value
  BY ValueIs DEF AsNumber
<1>j. IsRounded(Junk)
  BY ValueIs DEF IsRounded, mintRateFormat, AsNumber, format
<1> HIDE DEF u
<1>3. CASE IsNumber(u) /\ P > 0
  <2>1. u.value \in Int /\ P \in Nat \ {0}
    BY <1>1, <1>2, <1>3, ValueIs
  <2>2. calculateAnnualRate(u, period) = Number(u.value * P) /\ u.value * P \in Int
    BY <1>1, <1>3, <2>1 DEF calculateAnnualRate
  <2>3. calculateMintPerPayday(u, period) = Number(round(u.value \div P))
    BY <1>3 DEF calculateMintPerPayday
  <2> HIDE DEF P
  <2>4. u.value \div P \in Int
    <3>1. \A a \in Int, b \in Nat \ {0} : a \div b \in Int
      OBVIOUS
    <3> QED
      BY <2>1, <3>1
  <2>5. round(u.value \div P) \in Int /\ round(round(u.value \div P)) = round(u.value \div P)
    BY <2>4, RoundIs
  <2> DEFINE r == round(u.value \div P)
  <2>6. r \in Int /\ round(r) = r /\ calculateMintPerPayday(u, period) = Number(r)
    BY <2>3, <2>5
  <2> HIDE DEF r
  <2>7. IsRounded(Number(r))
    <3>1. Number(r) # Empty /\ IsNumber(Number(r)) /\ Number(r).value = r
      BY <2>6, ValueIs
    <3> QED
      BY <2>6, <3>1 DEF IsRounded, mintRateFormat, AsNumber, format
  <2> QED
    BY <2>2, <2>6, <2>7, ValueIs DEF u
<1>4. CASE ~(IsNumber(u) /\ P > 0)
  <2>1. calculateAnnualRate(u, period) = Junk /\ calculateMintPerPayday(u, period) = Junk
    BY <1>4 DEF calculateAnnualRate, calculateMintPerPayday
  <2> QED
    BY <1>j, <2>1, ValueIs DEF u
<1> QED
  BY <1>3, <1>4

\* The annual rate is what the rate is computed from.
FromAnnual(w, n, f, at) == ~f /\ at = "annual" /\ w.annual # n.annual

\* The copies x after the effects of a commit, in as far as the rate is concerned.
MintAfter(w, n, f, at, x, period) ==
  /\ MintIs(x)
  /\ x.form = IF FromAnnual(w, n, f, at) THEN calculateMintPerPayday(AsNumber(n.annual), period)
              ELSE IF f \/ w.text # n.text THEN n.text ELSE n.form
  /\ x.text = IF ~f /\ mintRateFormat(w.form) # mintRateFormat(n.form) /\ at # "rate"
              THEN mintRateFormat(n.form) ELSE n.text
  /\ ~f /\ at = "annual" => x.annualText = n.annualText
  /\ ~f /\ at = "annual" /\ w.form = n.form /\ w.annualText = n.annualText => x.annual = n.annual

LEMMA MintEffectsAre ==
  ASSUME NEW w, NEW n, NEW f \in BOOLEAN, NEW at, NEW before, NEW period, PeriodIs(period),
         MintIs(n), at = "annual" => before = period
  PROVE  MintAfter(w, n, f, at, MintEffects(w, n, f, at, before, period), period)
<1> DEFINE x == MintEffects(w, n, f, at, before, period)
<1>1. n.form \in Value /\ n.text \in Value /\ n.annual \in Value /\ n.annualText \in Value
  BY DEF MintIs
<1>2. /\ calculateAnnualRate(AsNumber(n.form), period) \in Value
      /\ calculateMintPerPayday(AsNumber(n.annual), period) \in Value
  BY <1>1, MintValues
<1>3. formatted("rate", n.text, mintRateFormat(n.form)) = mintRateFormat(n.form)
  BY <1>1, MintFormat
<1>4. formatted("annual", n.annualText, n.annual) = n.annual
  BY DEF formatted, format, Throws
<1>5. x = [form |-> x.form, annual |-> x.annual, annualText |-> x.annualText, text |-> x.text]
  BY DEF MintEffects
<1>6. x.form = IF FromAnnual(w, n, f, at) THEN calculateMintPerPayday(AsNumber(n.annual), period)
               ELSE IF f \/ w.text # n.text THEN n.text ELSE n.form
  BY DEF MintEffects, FromAnnual
<1>7. x.text = IF ~f /\ mintRateFormat(w.form) # mintRateFormat(n.form) /\ at # "rate"
               THEN mintRateFormat(n.form) ELSE n.text
  BY <1>3 DEF MintEffects
<1>8. x.annualText = IF ~f /\ w.annual # n.annual /\ at # "annual" THEN n.annual ELSE n.annualText
  BY <1>4 DEF MintEffects
<1>9. x.annual = IF f \/ w.form # n.form \/ before # period THEN calculateAnnualRate(AsNumber(n.form), period)
                 ELSE IF f \/ w.annualText # n.annualText THEN n.annualText ELSE n.annual
  BY DEF MintEffects
<1> HIDE DEF x
<1>10. MintIs(x)
  <2>1. mintRateFormat(n.form) \in Value
    BY <1>1, MintFormat
  <2>2. x.form \in Value /\ x.text \in Value /\ x.annual \in Value /\ x.annualText \in Value
    BY <1>1, <1>2, <1>6, <1>7, <1>8, <1>9, <2>1
  <2> QED
    BY <1>5, <2>2 DEF MintIs
<1>11. MintAfter(w, n, f, at, x, period)
  BY <1>6, <1>7, <1>8, <1>9, <1>10 DEF MintAfter
<1> QED
  BY <1>11 DEF x

LEMMA EffectsKeepMint ==
  ASSUME NEW w, NEW n, NEW f \in BOOLEAN, NEW at, NEW before, NEW period, PeriodIs(period),
         MintInPhase(w, n, f, at), at = "annual" => before = period
  PROVE  MintInPhase(n, MintEffects(w, n, f, at, before, period), FALSE, at)
<1> DEFINE x == MintEffects(w, n, f, at, before, period)
<1> SUFFICES MintInPhase(n, x, FALSE, at)
  OBVIOUS
<1>0. MintAfter(w, n, f, at, x, period) /\ MintIs(n)
  BY MintEffectsAre DEF MintInPhase
<1> HIDE DEF x
<1>1. n.form \in Value /\ n.text \in Value /\ n.annual \in Value /\ MintIs(x)
  BY <1>0 DEF MintIs, MintAfter
<1>2. f = FALSE /\ at = "annual" => OneAnnual(n, x, at)
  BY <1>0 DEF MintAfter, OneAnnual
<1>3. IsRounded(calculateMintPerPayday(AsNumber(n.annual), period))
  BY <1>1, MintValues
<1>4. mintRateFormat(mintRateFormat(n.form)) = mintRateFormat(n.form)
  BY <1>1, MintFormat DEF IsRounded
<1>5. CASE f = TRUE
  <2>1. at = "none" /\ n.text = mintRateFormat(n.form)
    BY <1>5 DEF MintInPhase
  <2>2. x.form = n.text /\ x.text = n.text
    BY <1>0, <1>5 DEF MintAfter, FromAnnual
  <2>3. RateFromText(n, x, at)
    BY <1>4, <2>1, <2>2 DEF RateFromText, IsRounded
  <2> QED
    BY <1>1, <2>3 DEF MintInPhase
<1>6. CASE f = FALSE /\ TextIsRate(w, n, at)
  <2>1. w.form = n.form /\ n.text = n.form /\ (at # "rate" => IsRounded(n.form)) /\ OneAnnual(w, n, at)
    BY <1>6 DEF TextIsRate
  <2>2. x.text = n.text
    BY <1>0, <2>1 DEF MintAfter
  <2>3. CASE ~FromAnnual(w, n, f, at)
    <3>1. x.form = n.form
      BY <1>0, <1>6, <2>1, <2>3 DEF MintAfter
    <3>2. TextIsRate(n, x, at)
      BY <1>2, <1>6, <2>1, <2>2, <3>1 DEF TextIsRate, OneAnnual
    <3> QED
      BY <1>1, <3>2 DEF MintInPhase
  <2>4. CASE FromAnnual(w, n, f, at)
    <3>1. at = "annual" /\ w.annual # n.annual /\ IsRounded(x.form)
      BY <1>0, <1>3, <2>4 DEF MintAfter, FromAnnual
    <3>2. x.annual = n.annual /\ x.annualText = n.annualText
      BY <1>0, <1>6, <2>1, <3>1 DEF MintAfter, OneAnnual
    <3>3. RateFromAnnual(n, x, at)
      BY <2>1, <2>2, <3>1, <3>2 DEF RateFromAnnual
    <3> QED
      BY <1>1, <3>3 DEF MintInPhase
  <2> QED
    BY <2>3, <2>4
<1>7. CASE f = FALSE /\ RateFromAnnual(w, n, at)
  <2>1. /\ at = "annual" /\ w.form = n.text /\ w.text = n.text
        /\ mintRateFormat(w.form) = w.form /\ mintRateFormat(n.form) = n.form
        /\ w.annual = n.annual
    BY <1>7 DEF RateFromAnnual, IsRounded
  <2>2. x.form = n.form
    BY <1>0, <1>7, <2>1 DEF MintAfter, FromAnnual
  <2>3. x.text = n.form
    BY <1>0, <1>7, <2>1 DEF MintAfter
  <2>4. TextIsRate(n, x, at)
    BY <1>2, <1>7, <2>1, <2>2, <2>3 DEF TextIsRate, IsRounded
  <2> QED
    BY <1>1, <2>4 DEF MintInPhase
<1>8. CASE f = FALSE /\ RateFromText(w, n, at)
  <2>1. /\ at # "annual" /\ w.text = n.text /\ n.form = n.text
        /\ at # "rate" => mintRateFormat(w.form) = mintRateFormat(n.form) /\ IsRounded(n.form)
    BY <1>8 DEF RateFromText
  <2>2. x.form = n.form /\ x.text = n.text
    BY <1>0, <1>8, <2>1 DEF MintAfter, FromAnnual
  <2>3. TextIsRate(n, x, at)
    BY <2>1, <2>2 DEF TextIsRate, OneAnnual
  <2> QED
    BY <1>1, <2>3 DEF MintInPhase
<1>9. CASE f = FALSE /\ RateIsWritten(w, n, at)
  <2>1. /\ w.form = n.form /\ (w.text = n.text => n.form = n.text)
        /\ at = "rate" \/ (at = "none" /\ n.text = mintRateFormat(n.form))
    BY <1>9 DEF RateIsWritten
  <2>2. x.form = n.text /\ x.text = n.text
    BY <1>0, <1>9, <2>1 DEF MintAfter, FromAnnual
  <2>3. RateFromText(n, x, at)
    BY <1>4, <2>1, <2>2 DEF RateFromText, IsRounded
  <2> QED
    BY <1>1, <2>3 DEF MintInPhase
<1> QED
  BY <1>5, <1>6, <1>7, <1>8, <1>9 DEF MintInPhase

LEMMA MintIsMounted ==
  ASSUME NEW v \in Value, NEW w
  PROVE  MintInPhase(w, MintMounted(v), TRUE, "none")
<1> DEFINE n == MintMounted(v)
<1>1. /\ n = [form |-> n.form, annual |-> n.annual, annualText |-> n.annualText, text |-> n.text]
      /\ n.form = v /\ n.annual = Empty /\ n.annualText = Number(0)
      /\ n.text = initialFormatted("rate", mintRateFormat(v), Number(0))
  BY DEF MintMounted
<1> HIDE DEF n
<1>2. n.text = mintRateFormat(v) /\ mintRateFormat(v) \in Value
  BY <1>1, MintFormat
<1>3. MintIs(n)
  BY <1>1, <1>2, ValueIs DEF MintIs
<1>4. MintInPhase(w, n, TRUE, "none")
  BY <1>1, <1>2, <1>3 DEF MintInPhase
<1> QED
  BY <1>4 DEF n

MintIsSettled(n, at) == MintIs(n) /\ n.text = n.form /\ (at # "rate" => IsRounded(n.form))

\* In a quiet commit the text is the rate, whatever the user is about to change.
LEMMA MintIsShown ==
  ASSUME NEW n, NEW at, MintInPhase(n, n, FALSE, at)
  PROVE  MintIsSettled(n, at)
<1>1. CASE TextIsRate(n, n, at) \/ RateFromAnnual(n, n, at) \/ RateFromText(n, n, at)
  BY <1>1 DEF MintInPhase, MintIsSettled, TextIsRate, RateFromAnnual, RateFromText
<1>2. CASE RateIsWritten(n, n, at)
  BY <1>2 DEF MintInPhase, MintIsSettled, RateIsWritten, IsRounded
<1> QED
  BY <1>1, <1>2 DEF MintInPhase

LEMMA MintIsFocused ==
  ASSUME NEW n, MintInPhase(n, n, FALSE, "none"), NEW at
  PROVE  MintInPhase(n, n, FALSE, at)
BY MintIsShown DEF MintInPhase, MintIsSettled, TextIsRate, OneAnnual

\* An annual rate that is typed, or written again, leaves the rate alone.
LEMMA AnnualIsTyped ==
  ASSUME NEW n, MintInPhase(n, n, FALSE, "annual"), NEW text \in Value, NEW at \in {"annual", "none"}
  PROVE  MintInPhase(n, [n EXCEPT !.annualText = text], FALSE, at)
<1> DEFINE x == [n EXCEPT !.annualText = text]
<1>1. MintIs(n) /\ n.text = n.form /\ IsRounded(n.form)
  <2>1. MintIsSettled(n, "annual")
    BY MintIsShown
  <2>2. "annual" # "rate"
    OBVIOUS
  <2> QED
    BY <2>1, <2>2 DEF MintIsSettled
<1>2. /\ x = [form |-> x.form, annual |-> x.annual, annualText |-> x.annualText, text |-> x.text]
      /\ x.form = n.form /\ x.annual = n.annual /\ x.annualText = text /\ x.text = n.text
  BY <1>1 DEF MintIs
<1> HIDE DEF x
<1>3. MintInPhase(n, x, FALSE, at)
  BY <1>1, <1>2 DEF MintInPhase, MintIs, TextIsRate, OneAnnual
<1> QED
  BY <1>3 DEF x

LEMMA MintIsTyped ==
  ASSUME NEW n, MintInPhase(n, n, FALSE, "rate"), NEW text \in Value
  PROVE  MintInPhase(n, [n EXCEPT !.text = text], FALSE, "rate")
<1> DEFINE x == [n EXCEPT !.text = text]
<1>1. MintIs(n) /\ n.text = n.form
  BY MintIsShown DEF MintIsSettled
<1>2. /\ x = [form |-> x.form, annual |-> x.annual, annualText |-> x.annualText, text |-> x.text]
      /\ x.form = n.form /\ x.annual = n.annual /\ x.annualText = n.annualText /\ x.text = text
  BY <1>1 DEF MintIs
<1> HIDE DEF x
<1>3. RateIsWritten(n, x, "rate")
  BY <1>1, <1>2 DEF RateIsWritten
<1>4. MintInPhase(n, x, FALSE, "rate")
  BY <1>1, <1>2, <1>3 DEF MintInPhase, MintIs
<1> QED
  BY <1>4 DEF x

LEMMA MintIsBlurred ==
  ASSUME NEW n, NEW p \in {"annual", "rate"}, MintInPhase(n, n, FALSE, p)
  PROVE  MintInPhase(n, MintBlurred(n, p), FALSE, "none")
<1>1. MintIs(n) /\ n.text = n.form /\ (p # "rate" => IsRounded(n.form))
  BY MintIsShown DEF MintIsSettled
<1>2. CASE p = "annual"
  <2> DEFINE text == handleBlur("annual", n.annualText, n.annual, Number(0), FALSE)
  <2>1. text \in Value
    BY <1>1, ValueIs DEF handleBlur, format, MintIs
  <2>2. MintBlurred(n, p) = [n EXCEPT !.annualText = text]
    BY <1>2 DEF MintBlurred
  <2> HIDE DEF text
  <2> QED
    BY <1>2, <2>1, <2>2, AnnualIsTyped
<1>3. CASE p = "rate"
  <2> DEFINE x == MintBlurred(n, p)
             text == handleBlur("rate", n.text, mintRateFormat(n.form), Number(0), FALSE)
  <2>1. n.form \in Value
    BY <1>1 DEF MintIs
  <2>2. text = mintRateFormat(n.form) /\ mintRateFormat(n.form) \in Value
    BY <1>1, <2>1, MintFormat
  <2>3. x = [n EXCEPT !.text = text]
    BY <1>3 DEF MintBlurred
  <2> HIDE DEF x, text
  <2>4. /\ x = [form |-> x.form, annual |-> x.annual, annualText |-> x.annualText, text |-> x.text]
        /\ x.form = n.form /\ x.annual = n.annual /\ x.annualText = n.annualText /\ x.text = text
    BY <1>1, <2>3 DEF MintIs
  <2>5. RateIsWritten(n, x, "none")
    BY <1>1, <2>2, <2>4 DEF RateIsWritten
  <2>6. MintIs(x)
    BY <1>1, <2>2, <2>4 DEF MintIs
  <2>7. MintInPhase(n, x, FALSE, "none")
    BY <2>5, <2>6 DEF MintInPhase
  <2> QED
    BY <2>7 DEF x
<1> QED
  BY <1>2, <1>3

-------------------------------------------------------------------------------

(***************************************************************************)
(* What the texts of the shares say, by the pair of the latest commits.    *)
(***************************************************************************)
ReadOf(n, s) == toFractionResolution(n[s].text)

ShareIsShown(n, s) == isValid(ReadOf(n, s)) => n.form[s] = ReadOf(n, s)

\* The form did not take the number of the text, and gives its own one back.
GivesBack(n, s, at) ==
  at # s /\ (OnGrid(n.form[s]) \/ (at = "none" /\ n[s].text # n.form[s]))

ReadShows(w, n, at) ==
  /\ (\A s \in Shares : w[s].inner # n[s].inner) => at = "none"
  /\ \A s \in Shares :
       \/ n[s].inner = ReadOf(n, s) /\ (ShareIsShown(n, s) \/ (w[s].inner # n[s].inner /\ at \in {"none", s}))
       \/ w[s].inner # n[s].inner /\ n[s].inner = n.form[s] /\ GivesBack(n, s, at)

RewrittenShows(w, n, at) ==
  \A s \in Shares :
    /\ n[s].inner = ReadOf(n, s) => ShareIsShown(n, s)
    /\ n[s].inner # ReadOf(n, s) => w[s].text # n[s].text /\ (ShareIsShown(n, s) \/ at \in {"none", s})

CarriedShows(n, at) ==
  \A s \in Shares :
    /\ n[s].inner = ReadOf(n, s)
    /\ \/ n[s].control = n.form[s] /\ ShareIsShown(n, s)
       \/ n[s].control # n.form[s] /\ GivesBack(n, s, at)

CopiedShows(w, n, at) ==
  \A s \in Shares :
    /\ n[s].inner = ReadOf(n, s)
    /\ \/ w[s].control = n[s].control /\ ShareIsShown(n, s)
       \/ w[s].control # n[s].control /\ GivesBack(n, s, at)

SharesAreValues(n) ==
  \A s \in Shares :
    n.form[s] \in Value /\ n[s].control \in Value /\ n[s].inner \in Value /\ n[s].text \in Value

SharesInPhase(w, n, f, at) ==
  /\ Whole2(n) /\ SharesAreValues(n)
  /\ IF f THEN MountedAsForm(n) /\ at = "none"
     ELSE \/ Read(w, n) /\ ReadShows(w, n, at)
          \/ Rewritten(w, n) /\ RewrittenShows(w, n, at)
          \/ Carried(w, n) /\ CarriedShows(n, at)
          \/ Copied(w, n) /\ CopiedShows(w, n, at)

\* The number of a text is on the grid, where it is its own number.
LEMMA ReadValues ==
  /\ \A v \in Value : toFractionResolution(v) \in Value
  /\ \A v \in Value : IsNumber(toFractionResolution(v)) => OnGrid(toFractionResolution(v))
  /\ \A v \in Value : OnGrid(v) => toFractionResolution(v) = v
  /\ \A v \in Value : toFractionResolution(toFractionResolution(v)) = toFractionResolution(v)
  /\ \A v \in Value : IsNumber(toFractionResolution(v)) => toFractionResolution(v) = Number(round(v.value))
<1> DEFINE p(m) == percentageToFractionResolution(m)
<1>0. Inexact \subseteq {n \in Nat : n % Tick = 0}
  BY FieldsAssumption
<1>1. \A m \in Int : p(m) \in Int /\ round(p(m)) = round(m)
  <2> SUFFICES ASSUME NEW m \in Int PROVE p(m) \in Int /\ round(p(m)) = round(m)
    OBVIOUS
  <2>1. CASE m \in Inexact
    <3>1. m % Tick = 0 /\ m - 1 \in Int
      BY <1>0, <2>1
    <3> QED
      BY <2>1, <3>1, RoundIs DEF percentageToFractionResolution
  <2>2. CASE m \notin Inexact
    BY <2>2 DEF percentageToFractionResolution
  <2> QED
    BY <2>1, <2>2
<1>2. ASSUME NEW v \in Value
      PROVE  toFractionResolution(v) = IF v = Junk THEN Junk ELSE Number(round(v.value))
  <2>1. CASE v = Junk
    BY <2>1, ValueIs DEF toFractionResolution, AsNumber
  <2>2. CASE v # Junk
    <3>1. AsNumber(v) = Number(v.value) /\ v.value \in Int
      BY <2>2, ValueIs DEF AsNumber
    <3>2. toFractionResolution(v) = Number(round(p(v.value)))
      BY <3>1, ValueIs DEF toFractionResolution
    <3> HIDE DEF p
    <3> QED
      BY <1>1, <2>2, <3>1, <3>2
  <2> QED
    BY <2>1, <2>2
<1> HIDE DEF p
<1>3. ASSUME NEW v \in Value, v # Junk
      PROVE  Number(round(v.value)) \in Value /\ OnGrid(Number(round(v.value)))
  <2>1. v.value \in Int
    BY ValueIs
  <2> QED
    BY <2>1, ValueIs, RoundIs DEF OnGrid
<1>4. ASSUME NEW v \in Value, OnGrid(v) PROVE toFractionResolution(v) = v
  <2>1. v # Junk /\ v.value \in Int /\ v = Number(v.value) /\ v.value % Tick = 0
    BY <1>4, ValueIs DEF OnGrid
  <2> QED
    BY <1>2, <2>1, RoundIs
<1>5. \A v \in Value : toFractionResolution(v) \in Value
  BY <1>2, <1>3, ValueIs
<1>6. \A v \in Value : IsNumber(toFractionResolution(v)) => OnGrid(toFractionResolution(v))
  BY <1>2, <1>3, ValueIs
<1>7. \A v \in Value : toFractionResolution(toFractionResolution(v)) = toFractionResolution(v)
  BY <1>2, <1>3, <1>4, <1>5, ValueIs
<1>8. \A v \in Value : IsNumber(toFractionResolution(v)) => toFractionResolution(v) = Number(round(v.value))
  BY <1>2, ValueIs
<1> QED
  BY <1>4, <1>5, <1>6, <1>7, <1>8

\* What is left of the whole is on the grid.
LEMMA RestIsOnGrid ==
  ASSUME NEW v \in Value, OnGrid(v)
  PROVE  Number(Whole - v.value) \in Value /\ OnGrid(Number(Whole - v.value))
<1>1. v.value \in Int /\ v.value % Tick = 0 /\ Whole \in Int /\ Whole % Tick = 0
  BY ValueIs, Ticks DEF OnGrid
<1> DEFINE j == v.value \div Tick
           k == Whole \div Tick
<1>2. v.value = j * Tick /\ Whole = k * Tick /\ j \in Int /\ k \in Int
  BY <1>1, StepsOf
<1> HIDE DEF j, k, Whole
<1>3. Whole - v.value = (k - j) * Tick /\ k - j \in Int
  BY <1>2, Ticks
<1>4. (Whole - v.value) % Tick = 0 /\ Whole - v.value \in Int
  BY <1>3, StepsOf
<1> QED
  BY <1>4, ValueIs DEF OnGrid

\* The texts x after the effects of a commit that is not the first one.
TextsOfCommit(w, n, at, x) ==
  \A s \in Shares :
    x[s].text = IF w[s].inner # n[s].inner /\ at # s /\ n[s].inner # Junk THEN n[s].inner ELSE n[s].text

LEMMA CommitTexts ==
  ASSUME NEW w, NEW n, NEW at
  PROVE  TextsOfCommit(w, n, at, SharesEffects(w, n, FALSE, at))
<1>1. \A text, v : formatted("digits", text, v) = IF v = Junk THEN text ELSE v
  BY DEF formatted, format, Throws
<1> QED
  BY <1>1 DEF SharesEffects, Shares, TextsOfCommit

\* The effects of a commit that is not the first one, with the texts.
EffectsOf(w, n, at, x) == EffectsOfCommit(w, n, x) /\ TextsOfCommit(w, n, at, x)

LEMMA CommitEffectsOf ==
  ASSUME NEW w, NEW n, NEW at
  PROVE  EffectsOf(w, n, at, SharesEffects(w, n, FALSE, at))
BY CommitEffects, CommitTexts DEF EffectsOf

LEMMA ValuesOfMount ==
  ASSUME NEW n, NEW x, SharesAreValues(n), EffectsOfMount(n, x)
  PROVE  SharesAreValues(x)
BY ReadValues DEF SharesAreValues, EffectsOfMount

LEMMA ValuesOfChange ==
  ASSUME NEW n, SharesAreValues(n), NEW z \in Shares, isValid(n[z].inner)
  PROVE  \A s \in Shares : handleChange(z, n[z].inner, n)[s] \in Value
<1> DEFINE v == n[z].inner
           o == Other(z)
           other == IF v.value + n.form[o].value <= Whole THEN n[o].control ELSE Number(Whole - v.value)
<1>1. v \in Value /\ n[o].control \in Value /\ o \in Shares
  BY DEF SharesAreValues, Other, Shares
<1>2. v.value \in Int /\ Whole \in Int
  BY <1>1, ValueIs, Amounts
<1>3. Number(Whole - v.value) \in Value
  BY <1>2, ValueIs
<1>4. other \in Value
  BY <1>1, <1>3
<1>5. handleChange(z, v, n) = IF z = "first" THEN [first |-> v, second |-> other] ELSE [first |-> other, second |-> v]
  BY DEF handleChange
<1> HIDE DEF v, other
<1>6. \A s \in Shares : handleChange(z, v, n)[s] \in {v, other}
  BY <1>5 DEF Shares
<1> QED
  BY <1>1, <1>4, <1>6 DEF v

LEMMA ValuesOfCommit ==
  ASSUME NEW w, NEW n, NEW at, NEW x, SharesAreValues(n), EffectsOf(w, n, at, x)
  PROVE  SharesAreValues(x)
<1>1. \A s \in Shares : x.form[s] \in Value
  <2>1. \A z \in Shares : Changed(w, n, z) => \A s \in Shares : handleChange(z, n[z].inner, n)[s] \in Value
    BY ValuesOfChange DEF Changed
  <2>2. "first" \in Shares /\ "second" \in Shares
    BY DEF Shares
  <2> QED
    BY <2>1, <2>2 DEF EffectsOf, EffectsOfCommit, SharesAreValues
<1>2. ASSUME NEW s \in Shares
      PROVE  x[s].control \in Value /\ x[s].inner \in Value /\ x[s].text \in Value
  <2>1. n.form[s] \in Value /\ n[s].control \in Value /\ n[s].inner \in Value /\ n[s].text \in Value
    BY DEF SharesAreValues
  <2>2. toFractionResolution(n[s].text) \in Value
    BY <2>1, ReadValues
  <2>3. /\ x[s].control \in {n.form[s], n[s].inner, n[s].control}
        /\ x[s].inner \in {n[s].control, toFractionResolution(n[s].text), n[s].inner}
        /\ x[s].text \in {n[s].text, n[s].inner}
    BY DEF EffectsOf, EffectsOfCommit
  <2> QED
    BY <2>1, <2>2, <2>3
<1> QED
  BY <1>1, <1>2 DEF SharesAreValues

LEMMA MountShows ==
  ASSUME NEW n, NEW x, MountedAsForm(n), EffectsOfMount(n, x)
  PROVE  ReadShows(n, x, "none")
BY DEF ReadShows, MountedAsForm, EffectsOfMount, ReadOf, ShareIsShown

\* What the commit before a text is read, or a share is cut, leaves.
LEMMA ReadGoesOn ==
  ASSUME NEW w, NEW n, Read(w, n), NEW at, NEW x, EffectsOf(w, n, at, x)
  PROVE  \A s \in Shares :
           /\ x[s].inner = n[s].inner /\ n[s].control = n.form[s]
           /\ x[s].control = IF Changed(w, n, s) THEN n[s].inner ELSE n[s].control
           /\ x[s].text = IF w[s].inner # n[s].inner /\ at # s /\ n[s].inner # Junk THEN n[s].inner ELSE n[s].text
BY DEF Read, EffectsOf, EffectsOfCommit, TextsOfCommit, Changed

\* When both numbers changed, both are new to the form.
LEMMA BothAreNew ==
  ASSUME NEW w, NEW n, Read(w, n), NEW z \in Shares, w[z].inner # n[z].inner,
         w[Other(z)].inner # n[Other(z)].inner
  PROVE  \A s \in Shares : isValid(n[s].inner) /\ n[s].inner # n.form[s] /\ Changed(w, n, s)
BY DEF Read, Shares, Other, Changed

LEMMA WinnerIs ==
  ASSUME NEW w, NEW n, Whole2(n), Read(w, n), NEW at, NEW x, EffectsOf(w, n, at, x)
  PROVE  \/ x.form = n.form /\ \A s \in Shares : ~Changed(w, n, s)
         \/ \E z \in Shares : /\ Changed(w, n, z) /\ x.form = handleChange(z, n[z].inner, n)
                              /\ TwoShares(x.form) /\ x.form[z] = n[z].inner
                              /\ n[z].inner = n.form[z] => x.form = n.form
<1>1. "first" \in Shares /\ "second" \in Shares /\ \A s \in Shares : s \in {"first", "second"}
  BY DEF Shares
<1>2. ASSUME NEW z \in Shares, Changed(w, n, z), x.form = handleChange(z, n[z].inner, n)
      PROVE  TwoShares(x.form) /\ x.form[z] = n[z].inner /\ (n[z].inner = n.form[z] => x.form = n.form)
  <2>1. Amount(n[z].inner) /\ isValid(n[z].inner)
    BY <1>2 DEF Whole2, Changed
  <2>2. n[Other(z)].control = n.form[Other(z)]
    BY DEF Other, Shares, Read
  <2> QED
    BY <1>2, <2>1, <2>2, HandleChangeAddsUp
<1>3. CASE Changed(w, n, "second")
  BY <1>1, <1>2, <1>3 DEF EffectsOf, EffectsOfCommit
<1>4. CASE ~Changed(w, n, "second") /\ Changed(w, n, "first")
  BY <1>1, <1>2, <1>4 DEF EffectsOf, EffectsOfCommit
<1>5. CASE ~Changed(w, n, "second") /\ ~Changed(w, n, "first")
  BY <1>1, <1>5 DEF EffectsOf, EffectsOfCommit
<1> QED
  BY <1>3, <1>4, <1>5

LEMMA ReadIsRewrittenShown ==
  ASSUME NEW w, NEW n, Whole2(n), SharesAreValues(n), NEW at, Read(w, n), ReadShows(w, n, at),
         NEW x, EffectsOf(w, n, at, x), x.form = n.form
  PROVE  RewrittenShows(n, x, at)
<1> SUFFICES ASSUME NEW s \in Shares
             PROVE  /\ x[s].inner = ReadOf(x, s) => ShareIsShown(x, s)
                    /\ x[s].inner # ReadOf(x, s) => n[s].text # x[s].text /\ (ShareIsShown(x, s) \/ at \in {"none", s})
  BY DEF RewrittenShows
<1>1. /\ x[s].inner = n[s].inner
      /\ x[s].text = IF w[s].inner # n[s].inner /\ at # s /\ n[s].inner # Junk THEN n[s].inner ELSE n[s].text
  BY ReadGoesOn
<1>2. ASSUME Changed(w, n, s) PROVE n.form[s] = n[s].inner
  <2>1. PICK z \in Shares : Changed(w, n, z) /\ n.form[z] = n[z].inner
    BY <1>2, WinnerIs
  <2>2. CASE z = s
    BY <2>1, <2>2
  <2>3. CASE z # s
    <3>1. Other(z) = s
      BY <2>3 DEF Other, Shares
    <3> QED
      BY <1>2, <2>1, <3>1, BothAreNew DEF Changed
  <2> QED
    BY <2>2, <2>3
<1>3. n[s].inner \in Value /\ n[s].text \in Value /\ n.form[s] \in Value
  BY DEF SharesAreValues
<1>4. CASE n[s].inner = ReadOf(n, s)
  <2>1. ReadOf(x, s) = x[s].inner
    BY <1>1, <1>3, <1>4, ReadValues DEF ReadOf
  <2>2. CASE w[s].inner = n[s].inner
    <3>1. ShareIsShown(n, s)
      BY <2>2 DEF ReadShows
    <3> QED
      BY <1>1, <1>4, <2>1, <3>1 DEF ShareIsShown
  <2>3. CASE w[s].inner # n[s].inner
    <3>1. isValid(n[s].inner) => n.form[s] = n[s].inner
      BY <1>2, <2>3 DEF Changed
    <3> QED
      BY <1>1, <2>1, <3>1 DEF ShareIsShown
  <2> QED
    BY <2>2, <2>3
<1>5. CASE n[s].inner # ReadOf(n, s)
  <2>1. w[s].inner # n[s].inner /\ n[s].inner = n.form[s] /\ GivesBack(n, s, at)
    BY <1>5 DEF ReadShows
  <2>2. n[s].inner # Junk
    BY <2>1 DEF Whole2, TwoShares, IsNumber, Junk
  <2>3. x[s].text = n.form[s]
    BY <1>1, <2>1, <2>2 DEF GivesBack
  <2>4. x[s].inner = x.form[s]
    BY <1>1, <2>1
  <2>5. CASE OnGrid(n.form[s])
    <3>1. ReadOf(x, s) = x.form[s]
      BY <1>3, <2>3, <2>5, ReadValues DEF ReadOf
    <3> QED
      BY <2>4, <3>1 DEF ShareIsShown
  <2>6. CASE at = "none" /\ n[s].text # n.form[s]
    BY <2>3, <2>4, <2>6 DEF ShareIsShown
  <2> QED
    BY <2>1, <2>5, <2>6 DEF GivesBack
<1> QED
  BY <1>4, <1>5

LEMMA ReadIsCarriedShown ==
  ASSUME NEW w, NEW n, Whole2(n), SharesAreValues(n), NEW at, Read(w, n), ReadShows(w, n, at),
         NEW x, EffectsOf(w, n, at, x), x.form # n.form
  PROVE  CarriedShows(x, at)
<1>1. PICK z \in Shares : /\ Changed(w, n, z) /\ x.form = handleChange(z, n[z].inner, n)
                          /\ x.form[z] = n[z].inner /\ n[z].inner # n.form[z]
  BY WinnerIs
<1>2. \A s \in Shares :
        /\ x[s].inner = n[s].inner /\ n[s].control = n.form[s]
        /\ x[s].control = IF Changed(w, n, s) THEN n[s].inner ELSE n[s].control
        /\ x[s].text = IF w[s].inner # n[s].inner /\ at # s /\ n[s].inner # Junk THEN n[s].inner ELSE n[s].text
  BY ReadGoesOn
<1>3. \A s \in Shares : n[s].inner \in Value /\ n[s].text \in Value /\ n.form[s] \in Value
  BY DEF SharesAreValues
<1>4. \A s \in Shares : s = z \/ (s = Other(z) /\ s # z)
  BY DEF Shares, Other
<1>5. w[z].inner # n[z].inner /\ isValid(n[z].inner)
  BY <1>1 DEF Changed
<1>6. ASSUME NEW s \in Shares PROVE n[s].inner = ReadOf(n, s)
  <2> SUFFICES ASSUME w[s].inner # n[s].inner, n[s].inner = n.form[s] PROVE FALSE
    BY DEF ReadShows
  <2>1. CASE s = z
    BY <1>1, <2>1
  <2>2. CASE s = Other(z)
    BY <1>5, <2>2, BothAreNew
  <2> QED
    BY <1>4, <2>1, <2>2
<1>7. \A s \in Shares : x[s].inner = ReadOf(x, s)
  <2> SUFFICES ASSUME NEW s \in Shares PROVE x[s].inner = ReadOf(x, s)
    OBVIOUS
  <2>1. n[s].inner = toFractionResolution(n[s].text)
    BY <1>6 DEF ReadOf
  <2>2. toFractionResolution(n[s].inner) = n[s].inner
    BY <1>3, <2>1, ReadValues
  <2> QED
    BY <1>2, <2>1, <2>2 DEF ReadOf
<1>8. x[z].control = x.form[z] /\ ShareIsShown(x, z)
  BY <1>1, <1>2, <1>7 DEF ShareIsShown
<1>9. ASSUME NEW o \in Shares, o = Other(z), o # z
      PROVE  \/ x[o].control = x.form[o] /\ ShareIsShown(x, o)
             \/ x[o].control # x.form[o] /\ GivesBack(x, o, at)
  <2>1. o # "none"
    BY DEF Shares
  <2>2. CASE w[o].inner # n[o].inner
    <3>1. Changed(w, n, o) /\ isValid(n[o].inner)
      BY <1>5, <1>9, <2>2, BothAreNew
    <3>2. n[o].inner # Junk
      BY <3>1 DEF isValid, IsNumber, Junk
    <3>3. at = "none"
      <4>1. \A s \in Shares : w[s].inner # n[s].inner
        BY <1>4, <1>5, <1>9, <2>2
      <4> QED
        BY <4>1 DEF ReadShows
    <3>4. x[o].text = n[o].inner /\ x[o].control = n[o].inner
      BY <1>2, <2>1, <2>2, <3>1, <3>2, <3>3
    <3> QED
      BY <1>2, <1>7, <2>1, <3>3, <3>4 DEF ShareIsShown, GivesBack
  <2>3. CASE w[o].inner = n[o].inner
    <3>1. x[o].text = n[o].text /\ x[o].control = n.form[o]
      BY <1>2, <2>3 DEF Changed
    <3>2. ShareIsShown(n, o)
      BY <2>3 DEF ReadShows
    <3>3. CASE x.form[o] = n.form[o]
      BY <3>1, <3>2, <3>3 DEF ShareIsShown, ReadOf
    <3>4. CASE x.form[o] # n.form[o]
      <4>1. x.form[o] = Number(Whole - n[z].inner.value)
        <5>1. "first" # "second"
          OBVIOUS
        <5>2. \/ z = "first" /\ o = "second"
              \/ z = "second" /\ o = "first"
          BY <1>9 DEF Shares
        <5>3. x.form[o] \in {n[o].control, Number(Whole - n[z].inner.value)}
          BY <1>1, <1>9, <5>2 DEF handleChange
        <5> QED
          BY <1>2, <3>4, <5>3
      <4>2. OnGrid(n[z].inner)
        <5>1. IsNumber(n[z].inner)
          BY <1>5 DEF isValid
        <5> QED
          BY <1>3, <1>6, <5>1, ReadValues DEF ReadOf
      <4>3. OnGrid(x.form[o])
        BY <1>3, <4>1, <4>2, RestIsOnGrid
      <4>4. at \in {"none", z}
        <5>1. ~ShareIsShown(n, z)
          BY <1>1, <1>5, <1>6 DEF ShareIsShown
        <5> QED
          BY <1>1, <1>5, <5>1 DEF ReadShows
      <4>5. at # o
        BY <1>9, <2>1, <4>4
      <4>6. x[o].control # x.form[o] /\ GivesBack(x, o, at)
        BY <3>1, <3>4, <4>3, <4>5 DEF GivesBack
      <4> QED
        BY <4>6
    <3> QED
      BY <3>3, <3>4
  <2> QED
    BY <2>2, <2>3
<1> QED
  BY <1>4, <1>7, <1>8, <1>9 DEF CarriedShows

LEMMA RewrittenIsReadShown ==
  ASSUME NEW w, NEW n, NEW at, Rewritten(w, n), RewrittenShows(w, n, at),
         NEW x, EffectsOf(w, n, at, x)
  PROVE  ReadShows(n, x, at)
<1>1. \A s \in Shares :
        /\ x[s].text = n[s].text
        /\ x[s].inner = IF w[s].text # n[s].text THEN ReadOf(n, s) ELSE n[s].inner
  BY DEF EffectsOf, EffectsOfCommit, TextsOfCommit, Rewritten, ReadOf
<1>2. x.form = n.form
  BY DEF EffectsOf, EffectsOfCommit, Rewritten, Changed, Shares
<1>3. \A s \in Shares : ReadOf(x, s) = ReadOf(n, s) /\ (ShareIsShown(n, s) => ShareIsShown(x, s))
  BY <1>1, <1>2 DEF ReadOf, ShareIsShown
<1>4. \E s \in Shares : n[s].inner = x[s].inner
  BY <1>1 DEF Rewritten
<1> QED
  BY <1>1, <1>3, <1>4 DEF ReadShows, RewrittenShows

LEMMA CarriedIsCopiedShown ==
  ASSUME NEW w, NEW n, NEW at, Carried(w, n), CarriedShows(n, at), NEW x, EffectsOf(w, n, at, x)
  PROVE  CopiedShows(n, x, at)
<1>1. \A s \in Shares : x[s].text = n[s].text /\ x[s].control = n.form[s] /\ x[s].inner = n[s].inner
  BY DEF EffectsOf, EffectsOfCommit, TextsOfCommit, Carried, ReadOf
<1>2. x.form = n.form
  BY DEF EffectsOf, EffectsOfCommit, Carried, Changed, Shares
<1> QED
  BY <1>1, <1>2 DEF CarriedShows, CopiedShows, ReadOf, ShareIsShown, GivesBack

LEMMA CopiedIsReadShown ==
  ASSUME NEW w, NEW n, NEW at, Copied(w, n), CopiedShows(w, n, at), NEW x, EffectsOf(w, n, at, x)
  PROVE  ReadShows(n, x, at)
<1>1. \A s \in Shares :
        /\ x[s].text = n[s].text /\ n[s].control = n.form[s]
        /\ x[s].inner = IF w[s].control # n[s].control THEN n[s].control ELSE n[s].inner
  BY DEF EffectsOf, EffectsOfCommit, TextsOfCommit, Copied
<1>2. x.form = n.form
  BY DEF EffectsOf, EffectsOfCommit, Copied, Changed, Shares
<1>3. \A s \in Shares : ReadOf(x, s) = ReadOf(n, s) /\ (ShareIsShown(n, s) => ShareIsShown(x, s))
                        /\ (GivesBack(n, s, at) => GivesBack(x, s, at))
  BY <1>1, <1>2 DEF ReadOf, ShareIsShown, GivesBack
<1>4. \E s \in Shares : n[s].inner = x[s].inner
  BY <1>1 DEF Copied
<1> SUFFICES ASSUME NEW s \in Shares
             PROVE  \/ x[s].inner = ReadOf(x, s) /\ (ShareIsShown(x, s) \/ (n[s].inner # x[s].inner /\ at \in {"none", s}))
                    \/ n[s].inner # x[s].inner /\ x[s].inner = x.form[s] /\ GivesBack(x, s, at)
  BY <1>4 DEF ReadShows
<1>5. CASE w[s].control = n[s].control /\ ShareIsShown(n, s)
  BY <1>1, <1>3, <1>5 DEF CopiedShows
<1>6. CASE w[s].control # n[s].control /\ GivesBack(n, s, at)
  <2>1. x[s].inner = x.form[s]
    BY <1>1, <1>2, <1>6
  <2>2. CASE n[s].inner = x[s].inner
    BY <1>3, <2>1, <2>2 DEF CopiedShows, ShareIsShown
  <2>3. CASE n[s].inner # x[s].inner
    BY <1>3, <1>6, <2>1, <2>3
  <2> QED
    BY <2>2, <2>3
<1> QED
  BY <1>5, <1>6 DEF CopiedShows

LEMMA EffectsKeepDistribution ==
  ASSUME NEW w, NEW n, NEW f \in BOOLEAN, NEW at, SharesInPhase(w, n, f, at)
  PROVE  SharesInPhase(n, SharesEffects(w, n, f, at), FALSE, at)
<1> DEFINE x == SharesEffects(w, n, f, at)
<1>1. Whole2(n) /\ SharesAreValues(n) /\ InPhase(w, n, f)
  BY DEF SharesInPhase, InPhase
<1>2. InPhase(n, x, FALSE)
  BY <1>1, EffectsKeepShares
<1>3. f = TRUE => x = SharesEffects(w, n, TRUE, at)
  OBVIOUS
<1>4. f = FALSE => x = SharesEffects(w, n, FALSE, at)
  OBVIOUS
<1> SUFFICES SharesInPhase(n, x, FALSE, at)
  OBVIOUS
<1> HIDE DEF x
<1>5. Whole2(x)
  BY <1>2 DEF InPhase
<1>6. CASE f = TRUE
  <2>1. EffectsOfMount(n, x) /\ MountedAsForm(n) /\ at = "none"
    BY <1>3, <1>6, MountEffects DEF SharesInPhase
  <2>2. SharesAreValues(x) /\ ReadShows(n, x, at)
    BY <1>1, <2>1, ValuesOfMount, MountShows
  <2>3. Read(n, x)
    BY <1>1, <1>3, <1>6, <2>1, MountIsRead
  <2> QED
    BY <1>5, <2>2, <2>3 DEF SharesInPhase
<1>7. CASE f = FALSE
  <2>1. EffectsOf(w, n, at, x)
    BY <1>4, <1>7, CommitEffectsOf
  <2>2. EffectsOfCommit(w, n, x)
    BY <2>1 DEF EffectsOf
  <2>3. SharesAreValues(x)
    BY <1>1, <2>1, ValuesOfCommit
  <2>4. CASE Read(w, n) /\ ReadShows(w, n, at)
    <3>1. Rewritten(n, x) \/ Carried(n, x)
      BY <1>1, <2>2, <2>4, ReadIsCarried
    <3>2. CASE Rewritten(n, x)
      <4>1. x.form = n.form
        BY <3>2 DEF Rewritten
      <4>2. RewrittenShows(n, x, at)
        BY <1>1, <2>1, <2>4, <4>1, ReadIsRewrittenShown
      <4> QED
        BY <1>5, <2>3, <3>2, <4>2 DEF SharesInPhase
    <3>3. CASE Carried(n, x)
      <4>1. x.form # n.form
        BY <3>3 DEF Carried
      <4>2. CarriedShows(x, at)
        BY <1>1, <2>1, <2>4, <4>1, ReadIsCarriedShown
      <4> QED
        BY <1>5, <2>3, <3>3, <4>2 DEF SharesInPhase
    <3> QED
      BY <3>1, <3>2, <3>3
  <2>5. CASE Rewritten(w, n) /\ RewrittenShows(w, n, at)
    <3>1. Read(n, x) /\ ReadShows(n, x, at)
      BY <2>1, <2>2, <2>5, RewrittenIsRead, RewrittenIsReadShown
    <3> QED
      BY <1>5, <2>3, <3>1 DEF SharesInPhase
  <2>6. CASE Carried(w, n) /\ CarriedShows(n, at)
    <3>1. Copied(n, x) /\ CopiedShows(n, x, at)
      BY <2>1, <2>2, <2>6, CarriedIsCopied, CarriedIsCopiedShown
    <3> QED
      BY <1>5, <2>3, <3>1 DEF SharesInPhase
  <2>7. CASE Copied(w, n) /\ CopiedShows(w, n, at)
    <3>1. Read(n, x) /\ ReadShows(n, x, at)
      BY <2>1, <2>2, <2>7, CopiedIsRead, CopiedIsReadShown
    <3> QED
      BY <1>5, <2>3, <3>1 DEF SharesInPhase
  <2> QED
    BY <1>7, <2>4, <2>5, <2>6, <2>7 DEF SharesInPhase
<1> QED
  BY <1>6, <1>7

LEMMA DistributionIsMounted ==
  ASSUME NEW v, TwoShares(v), \A s \in Shares : v[s] \in Value, NEW w
  PROVE  SharesInPhase(w, SharesMounted(v), TRUE, "none")
<1> DEFINE n == SharesMounted(v)
<1>1. InPhase(w, n, TRUE)
  BY SharesAreMounted
<1>2. n.form = v /\ \A s \in Shares : n[s].control = v[s] /\ n[s].inner = v[s] /\ n[s].text = v[s]
  BY Digits DEF SharesMounted, Shares
<1> HIDE DEF n
<1>3. SharesAreValues(n)
  BY <1>2 DEF SharesAreValues
<1> SUFFICES SharesInPhase(w, n, TRUE, "none")
  BY DEF n
<1> QED
  BY <1>1, <1>3 DEF InPhase, SharesInPhase

\* In a quiet commit every valid text is in the form, as the number it says.
SharesAreShown(n) ==
  \A s \in Shares : n[s].inner = ReadOf(n, s) /\ ShareIsShown(n, s)

LEMMA DistributionIsShown ==
  ASSUME NEW n, NEW at, SharesInPhase(n, n, FALSE, at)
  PROVE  SharesAreShown(n) /\ \A s \in Shares : n[s].control = n.form[s]
BY DEF SharesInPhase, SharesAreShown, Read, Rewritten, Carried, Copied,
       ReadShows, RewrittenShows, CopiedShows

LEMMA DistributionIsFocused ==
  ASSUME NEW n, NEW at, NEW to, SharesInPhase(n, n, FALSE, at)
  PROVE  SharesInPhase(n, n, FALSE, to)
<1>1. SharesAreShown(n) /\ \A s \in Shares : n[s].control = n.form[s]
  BY DistributionIsShown
<1>2. Read(n, n)
  BY <1>1 DEF Read, Shares
<1>3. ReadShows(n, n, to)
  BY <1>1 DEF ReadShows, SharesAreShown, Shares
<1> QED
  BY <1>2, <1>3 DEF SharesInPhase

LEMMA DistributionIsTyped ==
  ASSUME NEW n, NEW at, SharesInPhase(n, n, FALSE, at), NEW part \in Shares, NEW text \in Value,
         NEW to \in {"none", part}
  PROVE  SharesInPhase(n, [n EXCEPT ![part].text = text], FALSE, to)
<1> DEFINE x == [n EXCEPT ![part].text = text]
<1>1. SharesAreShown(n) /\ \A s \in Shares : n[s].control = n.form[s]
  BY DistributionIsShown
<1>2. Amount(text)
  BY ValueIs DEF Amount
<1>3. InPhase(n, n, FALSE)
  BY DEF SharesInPhase, InPhase
<1>4. InPhase(n, x, FALSE)
  BY <1>2, <1>3, TextIsRewritten
<1>5. DOMAIN n = {"form", "first", "second"} /\ \A s \in Shares : DOMAIN n[s] = {"control", "inner", "text"}
  BY <1>3 DEF InPhase, Whole2
<1>6. x.form = n.form
  BY <1>5 DEF Shares
<1>7. \A s \in Shares : s # part => x[s] = n[s]
  BY <1>5 DEF Shares
<1>8. x[part].control = n[part].control /\ x[part].inner = n[part].inner /\ x[part].text = text
  BY <1>5 DEF Shares
<1> SUFFICES SharesInPhase(n, x, FALSE, to)
  OBVIOUS
<1> HIDE DEF x
<1>9. Whole2(x)
  BY <1>4 DEF InPhase
<1>10. SharesAreValues(x)
  BY <1>6, <1>7, <1>8 DEF SharesInPhase, SharesAreValues
<1>11. Rewritten(n, x)
  <2>1. \A s \in Shares : n[s].control = x[s].control /\ n[s].inner = x[s].inner /\ x[s].control = x.form[s]
    BY <1>1, <1>6, <1>7, <1>8
  <2>2. \E s \in Shares : n[s].text = x[s].text
    BY <1>7 DEF Shares
  <2> QED
    BY <1>6, <2>1, <2>2 DEF Rewritten
<1>12. RewrittenShows(n, x, to)
  <2> SUFFICES ASSUME NEW s \in Shares
               PROVE  /\ x[s].inner = ReadOf(x, s) => ShareIsShown(x, s)
                      /\ x[s].inner # ReadOf(x, s) => n[s].text # x[s].text /\ (ShareIsShown(x, s) \/ to \in {"none", s})
    BY DEF RewrittenShows
  <2>1. x[s].inner = n[s].inner /\ n[s].inner = ReadOf(n, s) /\ ShareIsShown(n, s)
    BY <1>1, <1>7, <1>8 DEF SharesAreShown
  <2>2. CASE s = part
    BY <1>6, <2>1, <2>2 DEF ShareIsShown, ReadOf
  <2>3. CASE s # part
    <3>1. x[s] = n[s]
      BY <1>7, <2>3
    <3> QED
      BY <1>6, <2>1, <3>1 DEF ShareIsShown, ReadOf
  <2> QED
    BY <2>2, <2>3
<1> QED
  BY <1>9, <1>10, <1>11, <1>12 DEF SharesInPhase

LEMMA DistributionIsBlurred ==
  ASSUME NEW n, NEW at, SharesInPhase(n, n, FALSE, at), NEW part \in Shares
  PROVE  SharesInPhase(n, SharesBlurred(n, part), FALSE, "none")
<1> DEFINE text == handleBlur("digits", n[part].text, n[part].inner, n[part].control, ~isValid(n[part].inner))
<1>1. text \in {n[part].text, n[part].inner, n[part].control}
  BY DEF handleBlur, format
<1>2. text \in Value
  BY <1>1 DEF SharesInPhase, SharesAreValues
<1>3. SharesBlurred(n, part) = [n EXCEPT ![part].text = text]
  BY DEF SharesBlurred
<1> HIDE DEF text
<1>4. SharesInPhase(n, [n EXCEPT ![part].text = text], FALSE, "none")
  BY <1>2, DistributionIsTyped
<1> QED
  BY <1>3, <1>4

-------------------------------------------------------------------------------

(***************************************************************************)
(* A field, by its component.                                              *)
(***************************************************************************)
Components ==
  {"RelativeRateField", "RewardFractionField", "CommissionRangeField", "RewardDistribution",
   "MintRateInput", "Input"}

FieldInPhase(c, w, n, f, at) ==
  CASE c = "RelativeRateField" -> RateInPhase(w, n, f)
    [] c = "RewardFractionField" -> FractionInPhase(w, n, f, at = "text")
    [] c = "CommissionRangeField" -> RangeInPhase(w, n, f, at)
    [] c = "RewardDistribution" -> SharesInPhase(w, n, f, at)
    [] c = "MintRateInput" -> MintInPhase(w, n, f, at)
    [] c = "Input" -> n = [form |-> n.form] /\ IsValueOf("Input", n.form)

\* The texts say the value, in as far as they can.
ShownAs(c, v, text) ==
  CASE c = "RelativeRateField" -> \A p \in Parts : OnGrid(v[p]) => text[p] = v[p]
    [] c = "CommissionRangeField" -> \A e \in Ends : OnGrid(v[e]) => text[e] = v[e]
    [] c = "RewardDistribution" ->
         \A s \in Shares : text[s] \in Value /\ (isValid(toFractionResolution(text[s])) => v[s] = toFractionResolution(text[s]))
    [] c = "RewardFractionField" -> OnGrid(v) => text = v
    [] c \in {"MintRateInput", "Input"} -> text = v

LEMMA FieldIsMounted ==
  ASSUME NEW c \in Components, NEW v, IsValueOf(c, v), NEW w
  PROVE  FieldInPhase(c, w, Mounted(c, v), TRUE, "none")
<1>1. CASE c = "RelativeRateField"
  <2>1. RateInPhase(w, RateMounted(v), TRUE)
    BY <1>1, RateIsMounted DEF IsValueOf
  <2> QED
    BY <1>1, <2>1 DEF FieldInPhase, Mounted
<1>2. CASE c = "RewardFractionField"
  <2> DEFINE n == FractionMounted(v)
             b == ("none" = "text")
  <2>1. FractionIs(n) /\ n.form = v /\ n.inner = formatValue(v) /\ OnGrid(n.text)
    BY <1>2, FractionIsMounted DEF IsValueOf
  <2>2. FieldInPhase(c, w, Mounted(c, v), TRUE, "none") = FractionInPhase(w, n, TRUE, b)
    BY <1>2 DEF FieldInPhase, Mounted
  <2> HIDE DEF n, b
  <2>3. FractionInPhase(w, n, TRUE, b)
    BY <2>1 DEF FractionInPhase, JustMounted
  <2> QED
    BY <2>2, <2>3
<1>3. CASE c = "CommissionRangeField"
  <2>1. RangeInPhase(w, RangeMounted(v), TRUE, "none")
    BY <1>3, RangeIsMounted DEF IsValueOf
  <2> QED
    BY <1>3, <2>1 DEF FieldInPhase, Mounted
<1>4. CASE c = "RewardDistribution"
  <2>1. SharesInPhase(w, SharesMounted(v), TRUE, "none")
    BY <1>4, DistributionIsMounted DEF IsValueOf
  <2> QED
    BY <1>4, <2>1 DEF FieldInPhase, Mounted
<1>5. CASE c = "MintRateInput"
  <2>1. MintInPhase(w, MintMounted(v), TRUE, "none")
    BY <1>5, MintIsMounted DEF IsValueOf
  <2> QED
    BY <1>5, <2>1 DEF FieldInPhase, Mounted
<1>6. CASE c = "Input"
  BY <1>6 DEF FieldInPhase, Mounted
<1> QED
  BY <1>1, <1>2, <1>3, <1>4, <1>5, <1>6 DEF Components

LEMMA EffectsKeepField ==
  ASSUME NEW c \in Components, NEW w, NEW n, NEW f \in BOOLEAN, NEW at, FieldInPhase(c, w, n, f, at),
         NEW before, NEW period, PeriodIs(period), at = "annual" => before = period
  PROVE  FieldInPhase(c, n, Effects(c, w, n, f, at, before, period), FALSE, at)
<1>1. CASE c = "RelativeRateField"
  <2>1. RateInPhase(n, RateEffects(w, n, f, at), FALSE)
    BY <1>1, EffectsKeepRate DEF FieldInPhase
  <2> QED
    BY <1>1, <2>1 DEF FieldInPhase, Effects
<1>2. CASE c = "RewardFractionField"
  <2> DEFINE b == (at = "text")
  <2>1. FieldInPhase(c, w, n, f, at) = FractionInPhase(w, n, f, b)
    BY <1>2 DEF FieldInPhase
  <2>2. FieldInPhase(c, n, Effects(c, w, n, f, at, before, period), FALSE, at) =
          FractionInPhase(n, FractionEffects(w, n, f, b), FALSE, b)
    BY <1>2 DEF FieldInPhase, Effects
  <2> HIDE DEF b
  <2>3. FractionInPhase(n, FractionEffects(w, n, f, b), FALSE, b)
    BY <2>1, EffectsKeepFraction
  <2> QED
    BY <2>2, <2>3
<1>3. CASE c = "CommissionRangeField"
  <2>1. RangeInPhase(n, RangeEffects(w, n, f, at), FALSE, at)
    BY <1>3, EffectsKeepRange DEF FieldInPhase
  <2> QED
    BY <1>3, <2>1 DEF FieldInPhase, Effects
<1>4. CASE c = "RewardDistribution"
  <2>1. SharesInPhase(n, SharesEffects(w, n, f, at), FALSE, at)
    BY <1>4, EffectsKeepDistribution DEF FieldInPhase
  <2> QED
    BY <1>4, <2>1 DEF FieldInPhase, Effects
<1>5. CASE c = "MintRateInput"
  <2>1. MintInPhase(n, MintEffects(w, n, f, at, before, period), FALSE, at)
    BY <1>5, EffectsKeepMint DEF FieldInPhase
  <2> QED
    BY <1>5, <2>1 DEF FieldInPhase, Effects
<1>6. CASE c = "Input"
  BY <1>6 DEF FieldInPhase, Effects
<1> QED
  BY <1>1, <1>2, <1>3, <1>4, <1>5, <1>6 DEF Components

LEMMA FieldIsFocused ==
  ASSUME NEW c \in Components, NEW n, FieldInPhase(c, n, n, FALSE, "none"), NEW at
  PROVE  FieldInPhase(c, n, n, FALSE, at)
<1>1. CASE c = "RelativeRateField"
  BY <1>1 DEF FieldInPhase
<1>2. CASE c = "RewardFractionField"
  <2> DEFINE a == (at = "text")
             b == ("none" = "text")
  <2>1. FieldInPhase(c, n, n, FALSE, "none") = FractionInPhase(n, n, FALSE, b)
    BY <1>2 DEF FieldInPhase
  <2>2. FieldInPhase(c, n, n, FALSE, at) = FractionInPhase(n, n, FALSE, a)
    BY <1>2 DEF FieldInPhase
  <2> HIDE DEF a, b
  <2>3. FractionInPhase(n, n, FALSE, a)
    BY <2>1, FractionIsFocused
  <2> QED
    BY <2>2, <2>3
<1>3. CASE c = "CommissionRangeField"
  <2>1. RangeInPhase(n, n, FALSE, at)
    BY <1>3, RangeIsFocused DEF FieldInPhase
  <2> QED
    BY <1>3, <2>1 DEF FieldInPhase
<1>4. CASE c = "RewardDistribution"
  <2>1. SharesInPhase(n, n, FALSE, at)
    BY <1>4, DistributionIsFocused DEF FieldInPhase
  <2> QED
    BY <1>4, <2>1 DEF FieldInPhase
<1>5. CASE c = "MintRateInput"
  <2>1. MintInPhase(n, n, FALSE, at)
    BY <1>5, MintIsFocused DEF FieldInPhase
  <2> QED
    BY <1>5, <2>1 DEF FieldInPhase
<1>6. CASE c = "Input"
  BY <1>6 DEF FieldInPhase
<1> QED
  BY <1>1, <1>2, <1>3, <1>4, <1>5, <1>6 DEF Components

LEMMA FieldIsTyped ==
  ASSUME NEW c \in Components, NEW n, NEW part \in PartsOf(c), FieldInPhase(c, n, n, FALSE, part),
         NEW text, IF c = "Input" THEN IsValueOf(c, text) ELSE text \in Value
  PROVE  FieldInPhase(c, n, Typed(c, n, part, text), FALSE, part)
<1>1. CASE c = "RelativeRateField"
  <2>1. part \in Parts /\ RateInPhase(n, n, FALSE) /\ text \in Value
    BY <1>1 DEF PartsOf, FieldInPhase
  <2>2. RateInPhase(n, [n EXCEPT ![part] = text], FALSE)
    BY <2>1, RateIsTyped
  <2> QED
    BY <1>1, <2>2 DEF FieldInPhase, Typed
<1>2. CASE c = "RewardFractionField"
  <2> DEFINE b == (part = "text")
  <2>1. part = "text" /\ text \in Value
    BY <1>2 DEF PartsOf
  <2>2. FieldInPhase(c, n, n, FALSE, part) = FractionInPhase(n, n, FALSE, b)
    BY <1>2 DEF FieldInPhase
  <2>3. FieldInPhase(c, n, Typed(c, n, part, text), FALSE, part) =
          FractionInPhase(n, [n EXCEPT !.text = text], FALSE, b)
    BY <1>2 DEF FieldInPhase, Typed
  <2>4. b \in BOOLEAN /\ b
    BY <2>1
  <2> HIDE DEF b
  <2>5. FractionInPhase(n, [n EXCEPT !.text = text], FALSE, b)
    BY <2>1, <2>2, <2>4, FractionIsTyped
  <2> QED
    BY <2>3, <2>5
<1>3. CASE c = "CommissionRangeField"
  <2>1. part \in Ends /\ RangeInPhase(n, n, FALSE, part) /\ text \in Value
    BY <1>3 DEF PartsOf, FieldInPhase
  <2>2. RangeInPhase(n, [n EXCEPT ![part].text = text], FALSE, part)
    BY <2>1, RangeIsTyped
  <2> QED
    BY <1>3, <2>2 DEF FieldInPhase, Typed
<1>4. CASE c = "RewardDistribution"
  <2>1. part \in Shares /\ SharesInPhase(n, n, FALSE, part) /\ text \in Value
    BY <1>4 DEF PartsOf, FieldInPhase
  <2>2. SharesInPhase(n, [n EXCEPT ![part].text = text], FALSE, part)
    BY <2>1, DistributionIsTyped
  <2> QED
    BY <1>4, <2>2 DEF FieldInPhase, Typed
<1>5. CASE c = "MintRateInput"
  <2>1. part \in {"annual", "rate"} /\ MintInPhase(n, n, FALSE, part) /\ text \in Value
    BY <1>5 DEF PartsOf, FieldInPhase
  <2>2. CASE part = "annual"
    <3>1. MintInPhase(n, [n EXCEPT !.annualText = text], FALSE, "annual")
      BY <2>1, <2>2, AnnualIsTyped
    <3> QED
      BY <1>5, <2>2, <3>1 DEF FieldInPhase, Typed
  <2>3. CASE part = "rate"
    <3>1. MintInPhase(n, [n EXCEPT !.text = text], FALSE, "rate")
      BY <2>1, <2>3, MintIsTyped
    <3>2. "rate" # "annual"
      OBVIOUS
    <3> QED
      BY <1>5, <2>3, <3>1, <3>2 DEF FieldInPhase, Typed
  <2> QED
    BY <2>1, <2>2, <2>3
<1>6. CASE c = "Input"
  BY <1>6 DEF FieldInPhase, Typed
<1> QED
  BY <1>1, <1>2, <1>3, <1>4, <1>5, <1>6 DEF Components

LEMMA FieldIsBlurred ==
  ASSUME NEW c \in Components, NEW n, NEW part \in PartsOf(c), FieldInPhase(c, n, n, FALSE, part)
  PROVE  FieldInPhase(c, n, Blurred(c, n, part), FALSE, "none")
<1>1. CASE c = "RelativeRateField"
  <2> DEFINE text == handleBlur("whole", n[part], n.form[part], Number(0), FALSE)
  <2>1. part \in Parts /\ RateInPhase(n, n, FALSE)
    BY <1>1 DEF PartsOf, FieldInPhase
  <2>2. n[part] \in Value /\ n.form[part] \in Value
    BY <2>1, RateIsShown DEF RateIs
  <2>3. text \in Value
    BY <2>2, ValueIs DEF handleBlur, format
  <2>4. RateBlurred(n, part) = [n EXCEPT ![part] = text]
    BY DEF RateBlurred
  <2> HIDE DEF text
  <2>5. RateInPhase(n, [n EXCEPT ![part] = text], FALSE)
    BY <2>1, <2>3, RateIsTyped
  <2> QED
    BY <1>1, <2>4, <2>5 DEF FieldInPhase, Blurred
<1>2. CASE c = "RewardFractionField"
  <2> DEFINE a == (part = "text")
             b == ("none" = "text")
             text == handleBlur("three", n.text, n.inner, Number(0), FALSE)
  <2>1. FieldInPhase(c, n, n, FALSE, part) = FractionInPhase(n, n, FALSE, a)
    BY <1>2 DEF FieldInPhase
  <2>2. FieldInPhase(c, n, Blurred(c, n, part), FALSE, "none") =
          FractionInPhase(n, [n EXCEPT !.text = text], FALSE, b)
    BY <1>2 DEF FieldInPhase, Blurred, FractionBlurred
  <2>3. FractionInPhase(n, n, FALSE, a) /\ b \in BOOLEAN
    BY <2>1
  <2> HIDE DEF a, b
  <2>4. FractionIs(n)
    BY <2>3, FractionIsShown
  <2>5. text \in Value /\ (text = n.text \/ OnGrid(text))
    BY <2>4, BlurIsOnGrid
  <2> HIDE DEF text
  <2>6. FractionInPhase(n, [n EXCEPT !.text = text], FALSE, b)
    BY <2>3, <2>5, FractionIsTyped
  <2> QED
    BY <2>2, <2>6
<1>3. CASE c = "CommissionRangeField"
  <2> DEFINE text == handleBlur("three", n[part].text, n[part].inner, Number(0), FALSE)
  <2>1. part \in Ends /\ RangeInPhase(n, n, FALSE, part)
    BY <1>3 DEF PartsOf, FieldInPhase
  <2>2. RangeIs(n) /\ FractionIs(n[part])
    BY <2>1, RangeIsShown DEF RangeIs
  <2>3. text \in Value /\ (text = n[part].text \/ OnGrid(text))
    BY <2>2, BlurIsOnGrid
  <2>4. RangeBlurred(n, part) = [n EXCEPT ![part].text = text]
    <3>1. RangeBlurred(n, part) = [n EXCEPT ![part] = FractionBlurred(n[part])]
      BY DEF RangeBlurred
    <3>2. FractionBlurred(n[part]) = [n[part] EXCEPT !.text = text]
      BY DEF FractionBlurred
    <3> HIDE DEF text
    <3> QED
      BY <3>1, <3>2
  <2> HIDE DEF text
  <2>5. RangeInPhase(n, [n EXCEPT ![part].text = text], FALSE, "none")
    BY <2>1, <2>3, RangeIsTyped
  <2> QED
    BY <1>3, <2>4, <2>5 DEF FieldInPhase, Blurred
<1>4. CASE c = "RewardDistribution"
  <2>1. part \in Shares /\ SharesInPhase(n, n, FALSE, part)
    BY <1>4 DEF PartsOf, FieldInPhase
  <2>2. SharesInPhase(n, SharesBlurred(n, part), FALSE, "none")
    BY <2>1, DistributionIsBlurred
  <2> QED
    BY <1>4, <2>2 DEF FieldInPhase, Blurred
<1>5. CASE c = "MintRateInput"
  <2>1. part \in {"annual", "rate"} /\ MintInPhase(n, n, FALSE, part)
    BY <1>5 DEF PartsOf, FieldInPhase
  <2>2. MintInPhase(n, MintBlurred(n, part), FALSE, "none")
    BY <2>1, MintIsBlurred
  <2> QED
    BY <1>5, <2>2 DEF FieldInPhase, Blurred
<1>6. CASE c = "Input"
  BY <1>6 DEF FieldInPhase, Blurred
<1> QED
  BY <1>1, <1>2, <1>3, <1>4, <1>5, <1>6 DEF Components

LEMMA FieldIsShown ==
  ASSUME NEW c \in Components, NEW n, NEW at, FieldInPhase(c, n, n, FALSE, at)
  PROVE  IsValueOf(c, n.form) /\ ShownAs(c, n.form, Shown(c, n))
<1>1. CASE c = "RelativeRateField"
  <2>1. RateIs(n) /\ \A p \in Parts : PartIsShown(n, p)
    BY <1>1, RateIsShown DEF FieldInPhase
  <2>2. \A p \in Parts : Shown(c, n)[p] = n[p]
    BY <1>1 DEF Shown, Parts
  <2>3. n.form \in [Parts -> Value] /\ \A p \in Parts : OnGrid(n.form[p]) => Shown(c, n)[p] = n.form[p]
    BY <2>1, <2>2 DEF RateIs, PartIsShown
  <2> QED
    BY <1>1, <2>3 DEF IsValueOf, ShownAs
<1>2. CASE c = "RewardFractionField"
  <2> DEFINE b == (at = "text")
  <2>1. FieldInPhase(c, n, n, FALSE, at) = FractionInPhase(n, n, FALSE, b)
    BY <1>2 DEF FieldInPhase
  <2> HIDE DEF b
  <2>2. FractionIs(n) /\ (OnGrid(n.form) => n.text = n.form)
    BY <2>1, FractionIsShown
  <2> QED
    BY <1>2, <2>2 DEF IsValueOf, ShownAs, Shown, FractionIs
<1>3. CASE c = "CommissionRangeField"
  <2>1. RangeIs(n) /\ \A e \in Ends : OnGrid(n.form[e]) => n[e].text = n.form[e]
    BY <1>3, RangeIsShown DEF FieldInPhase
  <2>2. \A e \in Ends : Shown(c, n)[e] = n[e].text
    BY <1>3 DEF Shown, Ends
  <2>3. n.form \in [Ends -> Value] /\ \A e \in Ends : OnGrid(n.form[e]) => Shown(c, n)[e] = n.form[e]
    BY <2>1, <2>2 DEF RangeIs
  <2> QED
    BY <1>3, <2>3 DEF IsValueOf, ShownAs
<1>4. CASE c = "RewardDistribution"
  <2>1. SharesInPhase(n, n, FALSE, at)
    BY <1>4 DEF FieldInPhase
  <2>2. SharesAreShown(n) /\ TwoShares(n.form) /\ \A s \in Shares : n.form[s] \in Value /\ n[s].text \in Value
    BY <2>1, DistributionIsShown DEF SharesInPhase, SharesAreValues, Whole2
  <2>3. \A s \in Shares : Shown(c, n)[s] = n[s].text
    BY <1>4 DEF Shown, Shares
  <2>4. \A s \in Shares : /\ Shown(c, n)[s] \in Value
                          /\ isValid(toFractionResolution(Shown(c, n)[s])) =>
                               n.form[s] = toFractionResolution(Shown(c, n)[s])
    BY <2>2, <2>3 DEF SharesAreShown, ShareIsShown, ReadOf
  <2> QED
    BY <1>4, <2>2, <2>4 DEF IsValueOf, ShownAs
<1>5. CASE c = "MintRateInput"
  <2>1. MintIs(n) /\ n.text = n.form
    BY <1>5, MintIsShown DEF FieldInPhase, MintIsSettled
  <2> QED
    BY <1>5, <2>1 DEF IsValueOf, ShownAs, Shown, MintIs
<1>6. CASE c = "Input"
  BY <1>6 DEF FieldInPhase, IsValueOf, ShownAs, Shown
<1> QED
  BY <1>1, <1>2, <1>3, <1>4, <1>5, <1>6 DEF Components

-------------------------------------------------------------------------------

(***************************************************************************)
(* What the fields of the forms have in common.                            *)
(***************************************************************************)
RateRules == {"rate", "aboveOne", "belowOne", "leverage"}

Integral ==
  {"unique", "decimals", "positive", "positiveWord64", "word64", "positiveWord32", "difficulty"}

\* A field d of a form: its component goes with its wire and its rule.
IsField(d) ==
  /\ d.component \in Components
  /\ d.component = "RelativeRateField" => d.wire = "word64" /\ d.rule \in RateRules
  /\ d.component \in {"RewardDistribution", "CommissionRangeField"} => d.wire = "uint32"
  /\ d.component = "RewardFractionField" => d.wire \in {"word32", "uint32"}
  /\ d.component = "MintRateInput" => d.wire = "mint" /\ d.rule = "mint"
  /\ d.component = "Input" =>
       d.wire = "text" \/ (d.wire \in {"word8", "word32", "word64", "uint32"} /\ d.rule \in Integral)

LEMMA FieldIs ==
  ASSUME NEW c, NEW r, NEW i, NEW d, d = Field(c, r, i)
  PROVE  d.component = c /\ d.rule = r /\ d.wire = i
BY DEF Field

LEMMA FieldsAre ==
  /\ \A r \in RateRules : IsField(Field("RelativeRateField", r, "word64"))
  /\ \A r : IsField(Field("RewardDistribution", r, "uint32")) /\ IsField(Field("CommissionRangeField", r, "uint32"))
  /\ \A r : IsField(Field("RewardFractionField", r, "word32")) /\ IsField(Field("RewardFractionField", r, "uint32"))
  /\ IsField(Field("MintRateInput", "mint", "mint"))
  /\ \A r : IsField(Field("Input", r, "text"))
  /\ \A r \in Integral, i \in {"word8", "word32", "word64", "uint32"} : IsField(Field("Input", r, i))
BY FieldIs DEF IsField, Components

LEMMA FormsHaveFields ==
  ASSUME NEW t \in Types, NEW label \in DOMAIN UpdateComponent(t)
  PROVE  IsField(UpdateComponent(t)[label])
<1>0. /\ IsField(Field("RelativeRateField", "rate", "word64")) /\ IsField(Field("RelativeRateField", "leverage", "word64"))
      /\ IsField(Field("RelativeRateField", "aboveOne", "word64"))
      /\ IsField(Field("RelativeRateField", "belowOne", "word64"))
  BY FieldsAre DEF RateRules
<1>1. CASE t \in {"UpdateMicroGTUPerEuro", "UpdateEuroPerEnergy"}
  <2>1. UpdateComponent(t)[label] = Field("RelativeRateField", "rate", "word64")
    BY <1>1 DEF UpdateComponent, UpdateMicroGtuPerEuroRate, UpdateEuroPerEnergy
  <2> QED
    BY FieldsAre, <1>0, <2>1
<1>2. CASE t = "UpdateTransactionFeeDistribution"
  BY FieldsAre, <1>2 DEF UpdateComponent, UpdateTransactionFeeDistribution, Distribution
<1>3. CASE t \in {"UpdateMintDistribution", "UpdateMintDistributionV1"}
  <2>1. PICK v \in {0, 1} : UpdateComponent(t) = UpdateMintDistribution(v)
    BY <1>3 DEF UpdateComponent
  <2> QED
    BY FieldsAre, <2>1 DEF UpdateMintDistribution, Distribution
<1>4. CASE t = "UpdateFoundationAccount"
  BY FieldsAre, <1>4 DEF UpdateComponent, UpdateFoundationAccount
<1>5. CASE t = "UpdateProtocol"
  BY FieldsAre, <1>5 DEF UpdateComponent, UpdateProtocol
<1>6. CASE t \in {"UpdateGASRewards", "UpdateGASRewardsV1"}
  <2>1. PICK v \in {0, 1} : UpdateComponent(t) = UpdateGasRewards(v)
    BY <1>6 DEF UpdateComponent
  <2> QED
    BY FieldsAre, <2>1 DEF UpdateGasRewards
<1>7. CASE t = "UpdateBakerStakeThreshold"
  BY FieldsAre, <1>7 DEF UpdateComponent, UpdateBakerStakeThreshold, Integral
<1>8. CASE t = "UpdateElectionDifficulty"
  BY FieldsAre, <1>8 DEF UpdateComponent, UpdateElectionDifficulty, Integral
<1>9. CASE t \in {"AddIdentityProvider", "AddAnonymityRevoker"}
  <2>1. PICK identity \in {"ipIdentity", "arIdentity"}, keys \in {{"ipVerifyKey", "ipCdiVerifyKey"}, {"arPublicKey"}} :
          UpdateComponent(t) = Described(identity, keys)
    BY FieldsAre, <1>9 DEF UpdateComponent, CreateAddIdentityProvider, CreateAddAnonymityRevoker
  <2>2. \/ UpdateComponent(t)[label] = Field("Input", "unique", "word32")
        \/ \E r : UpdateComponent(t)[label] = Field("Input", r, "text")
    BY <2>1 DEF Described
  <2> QED
    BY FieldsAre, <2>2 DEF Integral
<1>10. CASE t = "TimeParameters"
  BY FieldsAre, <1>10 DEF UpdateComponent, UpdateTimeParameters, Integral
<1>11. CASE t = "CooldownParameters"
  BY FieldsAre, <1>11 DEF UpdateComponent, UpdateCooldownParameters, Integral
<1>12. CASE t = "PoolParameters"
  <2>1. UpdateComponent(t) = UpdatePoolParameters
    BY <1>12 DEF UpdateComponent
  <2>2. UpdateComponent(t)[label] \in
          {Field("RewardFractionField", "fraction", "uint32"), Field("CommissionRangeField", "range", "uint32"),
           Field("RewardFractionField", "none", "word32"), Field("RelativeRateField", "leverage", "word64"),
           Field("Input", "word64", "word64")}
    BY <2>1 DEF UpdatePoolParameters, PassiveCommissions, CommissionRanges
  <2> QED
    BY FieldsAre, <2>2 DEF Integral, RateRules
<1>13. CASE t \in {"BlockEnergyLimit", "MinBlockTime", "UpdateValidatorScoreParameters"}
  BY FieldsAre, <1>13 DEF UpdateComponent, UpdateBlockEnergyLimit, UpdateMinBlockTime, UpdateValidatorScoreParameters, Integral
<1>14. CASE t = "FinalizationCommitteeParameters"
  BY FieldsAre, <1>14 DEF UpdateComponent, UpdateFinalizationCommitteeParameters, Integral
<1>15. CASE t = "TimeoutParameters"
  BY FieldsAre, <1>0, <1>15 DEF UpdateComponent, UpdateTimeoutParameters, Integral
<1>16. CASE t = "UpdateCreatePltParameters"
  <2>1. UpdateComponent(t) = CreatePltParameters
    BY <1>16 DEF UpdateComponent
  <2>2. \/ UpdateComponent(t)[label] = Field("Input", "decimals", "word8")
        \/ UpdateComponent(t)[label] \in
             {Field("Input", r, "text") : r \in {"notOnChain", "onChain", "required", "word", "optionalWord", "supply", "none"}}
    BY <2>1 DEF CreatePltParameters, Switches
  <2> QED
    BY FieldsAre, <2>2 DEF Integral
<1> QED
  BY <1>1, <1>2, <1>3, <1>4, <1>5, <1>6, <1>7, <1>8, <1>9, <1>10, <1>11, <1>12, <1>13, <1>14, <1>15,
     <1>16 DEF Types

-------------------------------------------------------------------------------

(***************************************************************************)
(* The overview of the payload of a form shows the values of the form.     *)
(***************************************************************************)
\* What the overview shows of a value: a rate has been reduced.
Reduced(c, v) == IF c = "RelativeRateField" THEN getReducedFraction(v) ELSE v

\* No part of the overview failed, and the labels that can be empty are not.
IsShownBy(t, f, label) ==
  View(t, createTransaction(t, f))[label] = Reduced(UpdateComponent(t)[label].component, f[label])

LEMMA ReducedIs ==
  /\ \A v, r, i : Reduced(Field("RelativeRateField", r, i).component, v) = getReducedFraction(v)
  /\ \A v, r, i : Reduced(Field("RewardFractionField", r, i).component, v) = v
  /\ \A v, r, i : Reduced(Field("CommissionRangeField", r, i).component, v) = v
  /\ \A v, r, i : Reduced(Field("RewardDistribution", r, i).component, v) = v
  /\ \A v, r, i : Reduced(Field("MintRateInput", r, i).component, v) = v
  /\ \A v, r, i : Reduced(Field("Input", r, i).component, v) = v
BY DEF Reduced, Field

LEMMA RatesAreShown ==
  ASSUME NEW t \in {"UpdateMicroGTUPerEuro", "UpdateEuroPerEnergy", "TimeoutParameters"}, NEW f,
         NEW label \in DOMAIN UpdateComponent(t)
  PROVE  IsShownBy(t, f, label)
<1>1. CASE t = "UpdateMicroGTUPerEuro"
  BY ReducedIs, <1>1 DEF IsShownBy, UpdateComponent, View, createTransaction, UpdateMicroGtuPerEuroRate,
     MicroGtuPerEuro, MicroGtuPerEuroView
<1>2. CASE t = "UpdateEuroPerEnergy"
  BY ReducedIs, <1>2 DEF IsShownBy, UpdateComponent, View, createTransaction, UpdateEuroPerEnergy,
     EuroPerEnergy, EuroPerEnergyView
<1>3. CASE t = "TimeoutParameters"
  BY ReducedIs, <1>3 DEF IsShownBy, UpdateComponent, View, createTransaction, UpdateTimeoutParameters,
     TimeoutParameters, TimeoutParametersView
<1> QED
  BY <1>1, <1>2, <1>3

LEMMA DistributionsAreShown ==
  ASSUME NEW t \in {"UpdateTransactionFeeDistribution", "UpdateMintDistribution", "UpdateMintDistributionV1"},
         NEW f, DOMAIN f = DOMAIN UpdateComponent(t), NEW label \in DOMAIN UpdateComponent(t),
         f["rewardDistribution"] = [first |-> f["rewardDistribution"].first, second |-> f["rewardDistribution"].second],
         t \in {"UpdateMintDistribution", "UpdateMintDistributionV1"} /\ label = "mintPerSlot" => f[label] # Empty
  PROVE  IsShownBy(t, f, label)
<1>1. CASE t = "UpdateTransactionFeeDistribution"
  BY ReducedIs, <1>1 DEF IsShownBy, UpdateComponent, View, createTransaction, UpdateTransactionFeeDistribution,
     TransactionFeeDistribution, TransactionFeeDistributionView, Distribution
<1>2. CASE t \in {"UpdateMintDistribution", "UpdateMintDistributionV1"}
  <2> DEFINE p == MintDistribution(f)
  <2>1. PICK v \in {0, 1} : UpdateComponent(t) = UpdateMintDistribution(v)
    BY <1>2 DEF UpdateComponent
  <2>2. View(t, createTransaction(t, f)) = MintDistributionView(p)
    BY <1>2 DEF View, createTransaction
  <2>3. /\ p.bakingReward = f["rewardDistribution"].first /\ p.finalizationReward = f["rewardDistribution"].second
        /\ p.mintPerSlot = IF "mintPerSlot" \in DOMAIN f THEN f["mintPerSlot"] ELSE Empty
    BY DEF MintDistribution
  <2> HIDE DEF p
  <2>4. label \in {"rewardDistribution", "mintPerSlot"}
    BY <2>1 DEF UpdateMintDistribution
  <2>5. Reduced(UpdateComponent(t)[label].component, f[label]) = f[label]
    BY ReducedIs, <2>1, <2>4 DEF UpdateMintDistribution, Distribution
  <2>6. CASE label = "rewardDistribution"
    <3>1. MintDistributionView(p)[label] = [first |-> p.bakingReward, second |-> p.finalizationReward]
      BY <2>6 DEF MintDistributionView
    <3> QED
      BY <2>2, <2>3, <2>5, <2>6, <3>1 DEF IsShownBy
  <2>7. CASE label = "mintPerSlot"
    <3>1. p.mintPerSlot = f[label] /\ f[label] # Empty
      BY <1>2, <2>3, <2>7
    <3>2. MintDistributionView(p)[label] = p.mintPerSlot
      BY <2>7, <3>1 DEF MintDistributionView
    <3> QED
      BY <2>2, <2>5, <3>1, <3>2 DEF IsShownBy
  <2> QED
    BY <2>4, <2>6, <2>7
<1> QED
  BY <1>1, <1>2

LEMMA PoolIsShown ==
  ASSUME NEW f, NEW label \in DOMAIN UpdateComponent("PoolParameters")
  PROVE  IsShownBy("PoolParameters", f, label)
<1> DEFINE v == PoolParametersView(PoolParameters(f))
<1>1. UpdateComponent("PoolParameters") = UpdatePoolParameters
  BY DEF UpdateComponent
<1>2. View("PoolParameters", createTransaction("PoolParameters", f)) = v
  BY DEF View, createTransaction
<1>3. /\ v.passiveTransactionCommission = f["passiveTransactionCommission"]
      /\ v.passiveBakingCommission = f["passiveBakingCommission"]
      /\ v.passiveFinalizationCommission = f["passiveFinalizationCommission"]
      /\ v.transactionCommissionRange = f["transactionCommissionRange"]
      /\ v.bakingCommissionRange = f["bakingCommissionRange"]
      /\ v.finalizationCommissionRange = f["finalizationCommissionRange"]
      /\ v.minimumEquityCapital = f["minimumEquityCapital"]
      /\ v.capitalBound = f["capitalBound"]
      /\ v.leverageBound = getReducedFraction(f["leverageBound"])
  BY DEF PoolParameters, PoolParametersView
<1> HIDE DEF v
<1>4. /\ label \in {"passiveTransactionCommission", "passiveBakingCommission", "passiveFinalizationCommission",
                    "transactionCommissionRange", "bakingCommissionRange", "finalizationCommissionRange",
                    "minimumEquityCapital", "capitalBound", "leverageBound"}
      /\ Reduced(UpdateComponent("PoolParameters")[label].component, f[label]) =
           IF label = "leverageBound" THEN getReducedFraction(f[label]) ELSE f[label]
  BY ReducedIs, <1>1 DEF UpdatePoolParameters, PassiveCommissions, CommissionRanges
<1> QED
  BY <1>2, <1>3, <1>4 DEF IsShownBy

LEMMA InputsAreShown ==
  ASSUME NEW t \in {"UpdateFoundationAccount", "UpdateBakerStakeThreshold", "UpdateElectionDifficulty",
                    "TimeParameters", "CooldownParameters"},
         NEW f, NEW label \in DOMAIN UpdateComponent(t)
  PROVE  IsShownBy(t, f, label)
<1>1. CASE t = "UpdateFoundationAccount"
  BY ReducedIs, <1>1 DEF IsShownBy, UpdateComponent, View, createTransaction, UpdateFoundationAccount,
     FoundationAccount, FoundationAccountView
<1>2. CASE t = "UpdateBakerStakeThreshold"
  BY ReducedIs, <1>2 DEF IsShownBy, UpdateComponent, View, createTransaction, UpdateBakerStakeThreshold,
     BakerStakeThreshold, BakerStakeThresholdView
<1>3. CASE t = "UpdateElectionDifficulty"
  BY ReducedIs, <1>3 DEF IsShownBy, UpdateComponent, View, createTransaction, UpdateElectionDifficulty,
     ElectionDifficulty, ElectionDifficultyView
<1>4. CASE t = "TimeParameters"
  BY ReducedIs, <1>4 DEF IsShownBy, UpdateComponent, View, createTransaction, UpdateTimeParameters,
     TimeParameters, TimeParametersView
<1>5. CASE t = "CooldownParameters"
  BY ReducedIs, <1>5 DEF IsShownBy, UpdateComponent, View, createTransaction, UpdateCooldownParameters,
     CooldownParameters, CooldownParametersView
<1> QED
  BY <1>1, <1>2, <1>3, <1>4, <1>5

\* Payloads that are the values.
LEMMA ValuesAreShown ==
  ASSUME NEW t \in {"UpdateGASRewards", "UpdateGASRewardsV1", "BlockEnergyLimit",
                    "FinalizationCommitteeParameters", "MinBlockTime", "UpdateValidatorScoreParameters"},
         NEW f, NEW label \in DOMAIN UpdateComponent(t)
  PROVE  IsShownBy(t, f, label)
<1>1. View(t, createTransaction(t, f)) = f
  BY DEF View, createTransaction, GasRewards, GasRewardsView, BlockEnergyLimit, BlockEnergyLimitView,
         FinalizationCommitteeParameters, FinalizationCommitteeParametersView, MinBlockTime, MinBlockTimeView,
         ValidatorScoreParameters, ValidatorScoreParametersView
<1>2. Reduced(UpdateComponent(t)[label].component, f[label]) = f[label]
  <2>1. CASE t \in {"UpdateGASRewards", "UpdateGASRewardsV1"}
    <3>1. PICK v \in {0, 1} : UpdateComponent(t) = UpdateGasRewards(v)
      BY <2>1 DEF UpdateComponent
    <3> QED
      BY ReducedIs, <3>1 DEF UpdateGasRewards
  <2>2. CASE t \in {"BlockEnergyLimit", "MinBlockTime", "UpdateValidatorScoreParameters"}
    BY ReducedIs, <2>2 DEF UpdateComponent, UpdateBlockEnergyLimit, UpdateMinBlockTime, UpdateValidatorScoreParameters
  <2>3. CASE t = "FinalizationCommitteeParameters"
    BY ReducedIs, <2>3 DEF UpdateComponent, UpdateFinalizationCommitteeParameters
  <2> QED
    BY <2>1, <2>2, <2>3
<1> QED
  BY <1>1, <1>2 DEF IsShownBy

LEMMA ProtocolIsShown ==
  ASSUME NEW f, DOMAIN f = DOMAIN UpdateComponent("UpdateProtocol"), NEW label \in DOMAIN f,
         View("UpdateProtocol", createTransaction("UpdateProtocol", f))[label] # Fails
  PROVE  IsShownBy("UpdateProtocol", f, label)
<1> DEFINE v == View("UpdateProtocol", createTransaction("UpdateProtocol", f))
<1>1. UpdateComponent("UpdateProtocol") = UpdateProtocol
  BY DEF UpdateComponent
<1>2. v = [f EXCEPT !["specificationAuxiliaryData"] = IF @ = Junk THEN Fails ELSE @]
  BY DEF View, createTransaction, ProtocolUpdate, ProtocolUpdateView
<1>3. v[label] \in {f[label], Fails}
  BY <1>2
<1>4. Reduced(UpdateComponent("UpdateProtocol")[label].component, f[label]) = f[label]
  BY ReducedIs, <1>1 DEF UpdateProtocol
<1> QED
  BY <1>3, <1>4 DEF IsShownBy

LEMMA DescriptionsAreShown ==
  ASSUME NEW t \in {"AddIdentityProvider", "AddAnonymityRevoker"}, NEW f,
         NEW label \in DOMAIN UpdateComponent(t)
  PROVE  IsShownBy(t, f, label)
<1>1. \A identity, keys :
        /\ DOMAIN Described(identity, keys) = {"name", "url", "description", identity} \union keys
        /\ \A l \in DOMAIN Described(identity, keys) :
             Reduced(Described(identity, keys)[l].component, f[l]) = f[l]
  BY ReducedIs DEF Described
<1>2. CASE t = "AddIdentityProvider"
  <2> DEFINE v == View(t, createTransaction(t, f))
  <2>1. UpdateComponent(t) = Described("ipIdentity", {"ipVerifyKey", "ipCdiVerifyKey"})
    BY <1>2 DEF UpdateComponent, CreateAddIdentityProvider
  <2>2. v = AddIdentityProviderView(AddIdentityProvider(f))
    BY <1>2 DEF View, createTransaction
  <2>3. /\ v["name"] = f["name"] /\ v["url"] = f["url"] /\ v["description"] = f["description"]
        /\ v["ipIdentity"] = f["ipIdentity"]
        /\ v["ipVerifyKey"] = f["ipVerifyKey"] /\ v["ipCdiVerifyKey"] = f["ipCdiVerifyKey"]
    BY <2>2 DEF AddIdentityProvider, AddIdentityProviderView
  <2> HIDE DEF v
  <2>4. label \in {"name", "url", "description", "ipIdentity", "ipVerifyKey", "ipCdiVerifyKey"}
    BY <2>1 DEF Described
  <2>5. Reduced(UpdateComponent(t)[label].component, f[label]) = f[label]
    BY <1>1, <2>1
  <2> QED
    BY <2>3, <2>4, <2>5 DEF IsShownBy, v
<1>3. CASE t = "AddAnonymityRevoker"
  <2> DEFINE v == View(t, createTransaction(t, f))
  <2>1. UpdateComponent(t) = Described("arIdentity", {"arPublicKey"})
    BY <1>3 DEF UpdateComponent, CreateAddAnonymityRevoker
  <2>2. v = AddAnonymityRevokerView(AddAnonymityRevoker(f))
    BY <1>3 DEF View, createTransaction
  <2>3. /\ v["name"] = f["name"] /\ v["url"] = f["url"] /\ v["description"] = f["description"]
        /\ v["arIdentity"] = f["arIdentity"] /\ v["arPublicKey"] = f["arPublicKey"]
    BY <2>2 DEF AddAnonymityRevoker, AddAnonymityRevokerView
  <2> HIDE DEF v
  <2>4. label \in {"name", "url", "description", "arIdentity", "arPublicKey"}
    BY <2>1 DEF Described
  <2>5. Reduced(UpdateComponent(t)[label].component, f[label]) = f[label]
    BY <1>1, <2>1
  <2> QED
    BY <2>3, <2>4, <2>5 DEF IsShownBy, v
<1> QED
  BY <1>2, <1>3

LEMMA PltIsShown ==
  ASSUME NEW f, NEW label \in DOMAIN UpdateComponent("UpdateCreatePltParameters"),
         View("UpdateCreatePltParameters", createTransaction("UpdateCreatePltParameters", f))[label] # Fails
  PROVE  IsShownBy("UpdateCreatePltParameters", f, label)
<1> DEFINE v == View("UpdateCreatePltParameters", createTransaction("UpdateCreatePltParameters", f))
           p == CreatePlt(f)
           i == p.initializationParameters
<1>1. UpdateComponent("UpdateCreatePltParameters") = CreatePltParameters
  BY DEF UpdateComponent
<1>2. v = CreatePltView(p)
  BY DEF View, createTransaction
<1>3. /\ p.tokenId = f["tokenId"] /\ p.decimals = f["decimals"]
      /\ p.moduleRef \in {f["moduleRef"], Fails}
      /\ i.name = f["name"] /\ i.metadata.url = f["metadataUrl"] /\ i.metadata.checksumSha256 = f["metadataHash"]
      /\ i.governanceAccount \in {f["governanceAccount"], Fails}
      /\ i.initialSupply = f["initialSupply"]
      /\ \A l \in Switches : i.switches[l] = f[l]
  BY DEF CreatePlt
<1> HIDE DEF p
<1>4. label \in {"tokenId", "name", "moduleRef", "metadataUrl", "metadataHash", "governanceAccount",
                 "decimals", "initialSupply"} \union Switches
  BY <1>1 DEF CreatePltParameters
<1>5. Reduced(UpdateComponent("UpdateCreatePltParameters")[label].component, f[label]) = f[label]
  <2>1. \/ UpdateComponent("UpdateCreatePltParameters")[label] = Field("Input", "decimals", "word8")
        \/ UpdateComponent("UpdateCreatePltParameters")[label] \in
             {Field("Input", r, "text") : r \in {"notOnChain", "onChain", "required", "word", "optionalWord", "supply", "none"}}
    BY <1>1 DEF CreatePltParameters, Switches
  <2>2. PICK r, wire : UpdateComponent("UpdateCreatePltParameters")[label] = Field("Input", r, wire)
    BY <2>1
  <2> QED
    BY ReducedIs, <2>2
<1>6. v[label] = CASE label = "tokenId" -> p.tokenId [] label = "moduleRef" -> p.moduleRef
           [] label = "decimals" -> p.decimals [] label = "name" -> i.name
           [] label = "metadataUrl" -> i.metadata.url
           [] label = "metadataHash" -> i.metadata.checksumSha256
           [] label = "governanceAccount" -> i.governanceAccount
           [] label = "initialSupply" -> i.initialSupply
           [] label \in Switches -> i.switches[label]
  <2>1. label \in DOMAIN CreatePltParameters
    BY <1>1
  <2> QED
    BY <1>2, <2>1 DEF CreatePltView
<1>7. v[label] # Fails
  OBVIOUS
<1> HIDE DEF v
<1>8. v[label] = f[label]
  BY <1>3, <1>4, <1>6, <1>7 DEF Switches
<1> QED
  BY <1>5, <1>8 DEF IsShownBy, v

LEMMA ViewIs ==
  ASSUME NEW t \in Types, NEW f, DOMAIN f = DOMAIN UpdateComponent(t),
         \A l \in DOMAIN f : IsValueOf(UpdateComponent(t)[l].component, f[l]),
         NEW label \in DOMAIN f,
         t \in {"UpdateProtocol", "UpdateCreatePltParameters"} => View(t, createTransaction(t, f))[label] # Fails,
         t \in {"UpdateMintDistribution", "UpdateMintDistributionV1"} /\ label = "mintPerSlot" => f[label] # Empty
  PROVE  IsShownBy(t, f, label)
<1>1. CASE t \in {"UpdateMicroGTUPerEuro", "UpdateEuroPerEnergy", "TimeoutParameters"}
  BY <1>1, RatesAreShown
<1>2. CASE t \in {"UpdateTransactionFeeDistribution", "UpdateMintDistribution", "UpdateMintDistributionV1"}
  <2>1. "rewardDistribution" \in DOMAIN UpdateComponent(t)
    <3>1. CASE t = "UpdateTransactionFeeDistribution"
      BY <3>1 DEF UpdateComponent, UpdateTransactionFeeDistribution
    <3>2. CASE t \in {"UpdateMintDistribution", "UpdateMintDistributionV1"}
      <4>1. PICK v \in {0, 1} : UpdateComponent(t) = UpdateMintDistribution(v)
        BY <3>2 DEF UpdateComponent
      <4> QED
        BY <4>1 DEF UpdateMintDistribution
    <3> QED
      BY <1>2, <3>1, <3>2
  <2>2. TwoShares(f["rewardDistribution"])
    BY <2>1, SharesHaveTheirField DEF rd, IsValueOf
  <2> QED
    BY <1>2, <2>2, DistributionsAreShown DEF TwoShares
<1>3. CASE t \in {"UpdateFoundationAccount", "UpdateBakerStakeThreshold", "UpdateElectionDifficulty",
                  "TimeParameters", "CooldownParameters"}
  BY <1>3, InputsAreShown
<1>4. CASE t \in {"UpdateGASRewards", "UpdateGASRewardsV1", "BlockEnergyLimit",
                  "FinalizationCommitteeParameters", "MinBlockTime", "UpdateValidatorScoreParameters"}
  BY <1>4, ValuesAreShown
<1>5. CASE t = "UpdateProtocol"
  BY <1>5, ProtocolIsShown
<1>6. CASE t \in {"AddIdentityProvider", "AddAnonymityRevoker"}
  BY <1>6, DescriptionsAreShown
<1>7. CASE t = "UpdateCreatePltParameters"
  BY <1>7, PltIsShown
<1>8. CASE t = "PoolParameters"
  BY <1>8, PoolIsShown
<1> QED
  BY <1>1, <1>2, <1>3, <1>4, <1>5, <1>6, <1>7, <1>8 DEF Types

\* The forms whose handler can fail show all their labels.
LEMMA FailingViews ==
  ASSUME NEW t \in {"UpdateProtocol", "UpdateCreatePltParameters"}, NEW f, DOMAIN f = DOMAIN UpdateComponent(t)
  PROVE  DOMAIN View(t, createTransaction(t, f)) = DOMAIN UpdateComponent(t)
<1>1. CASE t = "UpdateProtocol"
  BY <1>1 DEF View, createTransaction, ProtocolUpdate, ProtocolUpdateView
<1>2. CASE t = "UpdateCreatePltParameters"
  BY <1>2 DEF View, createTransaction, CreatePltView, UpdateComponent
<1> QED
  BY <1>1, <1>2

\* A value on the grid that fits is written as it is.
LEMMA FitIsWritten ==
  ASSUME NEW v \in Value, OnGrid(v), NEW wire \in {"word8", "word32", "word64", "uint32"}, InRange(wire, v)
  PROVE  Written(wire, v) = v
<1>1. v = Number(v.value) /\ v.value \in Int /\ v.value % Tick = 0 /\ IsNumber(v)
  BY ValueIs DEF OnGrid
<1> DEFINE steps == v.value \div Tick
<1>2. steps \in Int /\ v.value = steps * Tick
  BY <1>1, StepsOf
<1>3. Word32 \in Nat /\ Word64 \in Nat
  BY FormsAssumption
<1> HIDE DEF steps
<1>4. Steps(steps) = v
  BY <1>1, <1>2 DEF Steps
<1>5. \A k \in Nat : steps \in 0 .. k - 1 => steps % k = steps
  BY <1>2
<1>6. CASE wire = "word8"
  BY <1>1, <1>4, <1>5, <1>6 DEF Written, InRange, steps
<1>7. CASE wire = "word32"
  BY <1>1, <1>3, <1>4, <1>5, <1>7 DEF Written, InRange, steps
<1>8. CASE wire = "word64"
  BY <1>1, <1>3, <1>4, <1>5, <1>8 DEF Written, InRange, steps
<1>9. CASE wire = "uint32"
  <2>1. steps \in 0 .. Word32 - 1
    BY <1>9 DEF InRange, steps
  <2>2. 0 <= steps /\ steps < Word32
    BY <1>3, <2>1
  <2> QED
    BY <1>1, <1>4, <1>9, <2>2 DEF Written, steps
<1> QED
  BY <1>6, <1>7, <1>8, <1>9

\* Rules of rates let numbers on the grid through, none of them negative.
LEMMA RateRulesGive ==
  ASSUME NEW rule \in RateRules, NEW v \in [Parts -> Value], Passes(rule, v)
  PROVE  \A p \in Parts : OnGrid(v[p]) /\ v[p].value >= 0
<1>1. Tick \in Nat \ {0, 1}
  BY FieldsAssumption
<1>2. CASE rule \in {"rate", "aboveOne", "belowOne"}
  <2>1. isPositiveNumber(v) /\ validBigIntValues(v)
    BY <1>2 DEF Passes
  <2> SUFFICES ASSUME NEW p \in Parts PROVE OnGrid(v[p]) /\ v[p].value >= 0
    OBVIOUS
  <2>2. IsNumber(v[p]) /\ v[p].value >= Tick /\ (OnGrid(v[p]) \/ v[p] = Empty)
    BY <2>1 DEF isPositiveNumber, validBigIntValues
  <2>3. v[p].value \in Int /\ v[p] # Empty
    BY <2>2, ValueIs
  <2> QED
    BY <1>1, <2>2, <2>3
<1>3. CASE rule = "leverage"
  BY <1>3 DEF Passes, leverageRules, mustBeAnInteger
<1> QED
  BY <1>2, <1>3 DEF RateRules

\* The same fraction, by a common divisor of both parts.
LEMMA SameFraction ==
  ASSUME NEW g \in Nat \ {0}, NEW a \in Nat, NEW b \in Nat, NEW t \in Nat
  PROVE  /\ (g * a) \div g = a
         /\ ((g * a) * t) * (b * t) = ((g * b) * t) * (a * t)
<1>1. (g * a) \div g = a
  <2>1. g * a = g * a + 0 /\ g * a \in Int /\ 0 <= 0 /\ 0 < g
    OBVIOUS
  <2> QED
    BY <2>1, QuotientIs
<1>2. ((g * a) * t) * (b * t) = ((g * b) * t) * (a * t)
  <2>1. \A x, y, z, u \in Nat : ((x * y) * u) * (z * u) = ((x * z) * u) * (y * u)
    OBVIOUS
  <2> QED
    BY <2>1
<1> QED
  BY <1>1, <1>2

LEMMA RateAgrees ==
  ASSUME NEW rule \in RateRules, NEW v \in [Parts -> Value], Passes(rule, v),
         NEW text, \A p \in Parts : OnGrid(v[p]) => text[p] = v[p],
         NEW r, r = getReducedFraction(v),
         \A p \in Parts : IsNumber(r[p]) /\ InRange("word64", r[p])
  PROVE  text["numerator"].value * Written("word64", r["denominator"]).value =
           text["denominator"].value * Written("word64", r["numerator"]).value
<1>1. \A p \in Parts : OnGrid(v[p]) /\ v[p].value >= 0 /\ text[p] = v[p] /\ v[p].value \in Int /\ v[p].value % Tick = 0
  <2>1. \A p \in Parts : OnGrid(v[p]) /\ v[p].value >= 0
    BY RateRulesGive
  <2> QED
    BY <2>1, ValueIs DEF OnGrid
<1> DEFINE n == v["numerator"].value \div Tick
           d == v["denominator"].value \div Tick
           g == getGCD[<<n, d>>]
<1>2. Tick \in Nat \ {0, 1} /\ "numerator" \in Parts /\ "denominator" \in Parts
  BY FieldsAssumption DEF Parts
<1>3. n \in Nat /\ d \in Nat /\ v["numerator"].value = n * Tick /\ v["denominator"].value = d * Tick
  <2>1. \A k \in Int : k >= 0 => k \div Tick >= 0
    BY <1>2
  <2> QED
    BY <1>1, <1>2, <2>1, StepsOf
<1>4. r = IF g = 0 THEN [numerator |-> Fails, denominator |-> Fails]
          ELSE [numerator |-> Steps(n \div g), denominator |-> Steps(d \div g)]
  BY DEF getReducedFraction
<1> HIDE DEF n, d
<1>5. g \in Nat /\ Divides(g, n) /\ Divides(g, d)
  BY <1>3, GcdDivides
<1> HIDE DEF g
<1>6. g # 0
  BY <1>2, <1>4 DEF IsNumber, Fails
<1>7. PICK a \in Nat : n = g * a
  BY <1>5 DEF Divides
<1>8. PICK b \in Nat : d = g * b
  BY <1>5 DEF Divides
<1>9. g \in Nat \ {0} /\ Tick \in Nat
  BY <1>2, <1>5, <1>6
<1>10. (g * a) \div g = a /\ (g * b) \div g = b /\ ((g * a) * Tick) * (b * Tick) = ((g * b) * Tick) * (a * Tick)
  BY <1>9, SameFraction
<1>11. r["numerator"] = Steps(a) /\ r["denominator"] = Steps(b)
  BY <1>4, <1>6, <1>7, <1>8, <1>10
<1>12. \A k \in Nat : Steps(k) \in Value /\ OnGrid(Steps(k)) /\ Steps(k).value = k * Tick
  <2> SUFFICES ASSUME NEW k \in Nat PROVE Steps(k) \in Value /\ OnGrid(Steps(k)) /\ Steps(k).value = k * Tick
    OBVIOUS
  <2>1. k * Tick \in Int /\ (k * Tick) % Tick = 0
    BY StepsOf
  <2> QED
    BY <2>1, ValueIs DEF Steps, OnGrid
<1>13. InRange("word64", Steps(a)) /\ InRange("word64", Steps(b))
  BY <1>2, <1>11
<1>14. Written("word64", Steps(a)) = Steps(a) /\ Written("word64", Steps(b)) = Steps(b)
  BY <1>12, <1>13, FitIsWritten
<1>15. text["numerator"].value = n * Tick /\ text["denominator"].value = d * Tick
  BY <1>1, <1>2, <1>3
<1> QED
  BY <1>7, <1>8, <1>10, <1>11, <1>12, <1>14, <1>15

-------------------------------------------------------------------------------

(***************************************************************************)
(* The fields in the page, from the form to the proposal.                  *)
(***************************************************************************)
FieldsAreInPhase ==
  \A label \in DOMAIN form :
    FieldInPhase(component(label), was[label], now[label], fresh, focusIn(label))

\* Only the input in focus is new to its effects.
InputsAreStill ==
  \A label \in DOMAIN form : component(label) = "Input" => was[label] = now[label] \/ focus.label = label

SubmittedIsShown ==
  /\ DOMAIN fields = DOMAIN form
  /\ \A label \in DOMAIN form :
       IsValueOf(component(label), fields[label]) /\ ShownAs(component(label), fields[label], texts[label])

PayloadIsMade == payload = createTransaction(type, fields) /\ ~Throwing(View(type, payload))

FormIsShown ==
  /\ AddsUp
  /\ fresh => focus = NoFocus
  /\ FieldsAreInPhase
  /\ InputsAreStill
  /\ stage # "form" => SubmittedIsShown
  /\ stage = "sign" => PayloadIsMade

LEMMA FieldHasComponent ==
  ASSUME type \in Types, NEW label \in DOMAIN form
  PROVE  IsField(form[label]) /\ component(label) \in Components
BY FormsHaveFields DEF form, component, IsField

LEMMA ValuesAreMounted ==
  ASSUME NEW t \in Types, NEW values, DOMAIN values = DOMAIN UpdateComponent(t),
         \A label \in DOMAIN values : IsValueOf(UpdateComponent(t)[label].component, values[label]), NEW w
  PROVE  \A label \in DOMAIN values :
           FieldInPhase(UpdateComponent(t)[label].component, w[label], FormMounted(t, values)[label], TRUE, "none")
BY FormsHaveFields, FieldIsMounted DEF FormMounted, IsField

\* A form that has just been mounted.
LEMMA MountedIsShown ==
  ASSUME AddsUp, fresh = TRUE, focus = NoFocus, stage = "form", was = now, NEW values,
         DOMAIN values = DOMAIN form, now = FormMounted(type, values),
         \A label \in DOMAIN values : IsValueOf(component(label), values[label])
  PROVE  FormIsShown
<1>1. type \in Types
  BY DEF AddsUp
<1>2. ASSUME NEW label \in DOMAIN form
      PROVE  FieldInPhase(component(label), was[label], now[label], fresh, focusIn(label))
  <2>1. FieldInPhase(component(label), was[label], now[label], TRUE, "none")
    BY <1>1, <1>2, ValuesAreMounted DEF form, component
  <2>2. focusIn(label) = "none"
    BY DEF focusIn, NoFocus
  <2> QED
    BY <2>1, <2>2
<1> QED
  BY <1>2 DEF FormIsShown, FieldsAreInPhase, InputsAreStill

LEMMA FormStartsShown == Init => FormIsShown
<1> SUFFICES ASSUME Init PROVE FormIsShown
  OBVIOUS
<1>1. AddsUp
  BY FormStarts
<1>2. PICK d \in Drafts[type] : now = FormMounted(type, d)
  BY DEF Init
<1>3. type \in Types /\ was = now /\ fresh = TRUE /\ focus = NoFocus /\ stage = "form"
  BY DEF Init
<1>4. DOMAIN d = DOMAIN form /\ \A label \in DOMAIN d : IsValueOf(component(label), d[label])
  BY <1>2, <1>3, ValuesAssumption DEF form, component
<1> QED
  BY <1>1, <1>2, <1>3, <1>4, MountedIsShown

\* What an empty reward period stands for, and any other, is a number or none.
LEMMA PeriodsAre ==
  ASSUME FormIsShown
  PROVE  PeriodIs(periodOf(now))
<1>1. type \in Types /\ FieldsAreInPhase
  BY DEF FormIsShown, AddsUp
<1>2. CASE type # "TimeParameters"
  <2>1. Tick \in Int /\ 1 \in Int
    BY FieldsAssumption
  <2>2. 1 * Tick \in Int
    BY <2>1
  <2> QED
    BY <1>2, <2>2 DEF periodOf, PeriodIs, Steps, Number
<1>3. CASE type = "TimeParameters"
  <2> DEFINE l == "rewardPeriodLength"
  <2>1. l \in DOMAIN form /\ component(l) = "Input"
    BY <1>3 DEF form, component, UpdateComponent, UpdateTimeParameters, Field
  <2>2. IsValueOf("Input", now[l].form)
    BY <1>1, <2>1 DEF FieldsAreInPhase, FieldInPhase
  <2>3. IsValueOf("Input", Current[type][l])
    <3>1. DOMAIN Current[type] = DOMAIN form /\ IsValueOf(component(l), Current[type][l])
      BY <1>1, <2>1, ValuesAssumption DEF form, component
    <3> QED
      BY <2>1, <3>1
  <2>4. periodOf(now) \in {Current[type][l], now[l].form}
    BY <1>3 DEF periodOf
  <2>5. \A v : IsValueOf("Input", v) => PeriodIs(v)
    BY DEF IsValueOf, PeriodIs, Numbers
  <2> QED
    BY <2>2, <2>3, <2>4, <2>5
<1> QED
  BY <1>2, <1>3

\* The period of a year does not change while an annual rate has the focus.
LEMMA PeriodStays ==
  ASSUME FormIsShown, NEW label \in DOMAIN form, focusIn(label) = "annual"
  PROVE  periodOf(was) = periodOf(now)
<1>1. focus.label = label /\ focus.part = "annual"
  BY DEF focusIn
<1>2. focus # NoFocus
  BY <1>1 DEF NoFocus
<1>3. "annual" \in PartsOf(component(label)) /\ component(label) \in Components
  BY <1>1, <1>2, FieldHasComponent DEF FormIsShown, AddsUp, FocusIsInput
<1>4. component(label) # "Input"
  BY <1>3 DEF PartsOf
<1>5. CASE type = "TimeParameters"
  <2> DEFINE l == "rewardPeriodLength"
  <2>1. l \in DOMAIN form /\ component(l) = "Input"
    BY <1>5 DEF form, component, UpdateComponent, UpdateTimeParameters, Field
  <2>2. was[l] = now[l]
    BY <1>1, <1>4, <2>1 DEF FormIsShown, InputsAreStill
  <2> QED
    BY <2>2 DEF periodOf
<1>6. CASE type # "TimeParameters"
  BY <1>6 DEF periodOf
<1> QED
  BY <1>5, <1>6

LEMMA EffectShows == ASSUME FormIsShown, UseEffect PROVE FormIsShown'
<1>1. AddsUp /\ AddsUp' /\ type \in Types /\ fresh \in BOOLEAN
  BY EffectAddsUp DEF FormIsShown, AddsUp
<1>2. /\ UNCHANGED <<type, focus, stage, fields, texts, payload>> /\ fresh' = FALSE /\ was' = now
      /\ now' = [label \in DOMAIN form |->
               Effects(component(label), was[label], now[label], fresh, focusIn(label),
                       periodOf(was), periodOf(now))]
  BY DEF UseEffect
<1>3. form' = form
  BY <1>2 DEF form
<1>4. \A label : component(label)' = component(label) /\ focusIn(label)' = focusIn(label)
  BY <1>2, <1>3 DEF component, focusIn
<1>5. ASSUME NEW label \in DOMAIN form
      PROVE  FieldInPhase(component(label), now[label], now'[label], FALSE, focusIn(label))
  <2> DEFINE before == periodOf(was)
             period == periodOf(now)
  <2>1. component(label) \in Components /\ FieldInPhase(component(label), was[label], now[label], fresh, focusIn(label))
    BY <1>1, <1>5, FieldHasComponent DEF FormIsShown, FieldsAreInPhase
  <2>2. PeriodIs(period) /\ (focusIn(label) = "annual" => before = period)
    BY <1>5, PeriodsAre, PeriodStays
  <2>3. now'[label] = Effects(component(label), was[label], now[label], fresh, focusIn(label), before, period)
    BY <1>2, <1>5
  <2> HIDE DEF before, period
  <2> QED
    BY <1>1, <2>1, <2>2, <2>3, EffectsKeepField
<1>6. FieldsAreInPhase'
  BY <1>2, <1>3, <1>4, <1>5 DEF FieldsAreInPhase
<1>7. InputsAreStill'
  <2>1. ASSUME NEW label \in DOMAIN form, component(label) = "Input" PROVE now'[label] = now[label]
    BY <1>2, <2>1 DEF Effects
  <2> QED
    BY <1>2, <1>3, <1>4, <2>1 DEF InputsAreStill
<1>8. SubmittedIsShown => SubmittedIsShown'
  BY <1>2, <1>3, <1>4 DEF SubmittedIsShown
<1>9. PayloadIsMade => PayloadIsMade'
  BY <1>2, <1>3 DEF PayloadIsMade, Throwing
<1> QED
  BY <1>1, <1>2, <1>6, <1>7, <1>8, <1>9 DEF FormIsShown

LEMMA FocusShows ==
  ASSUME FormIsShown, NEW label \in DOMAIN form, NEW part \in PartsOf(component(label)),
         handleFocus(label, part)
  PROVE  FormIsShown'
<1>1. AddsUp /\ AddsUp' /\ type \in Types
  BY FocusAddsUp DEF FormIsShown, AddsUp
<1>2. /\ UNCHANGED <<type, was, now, fresh, stage, fields, texts, payload>>
      /\ quiet /\ focus = NoFocus /\ focus' = [label |-> label, part |-> part]
  BY DEF handleFocus
<1>3. form' = form
  BY <1>2 DEF form
<1>4. \A l : component(l)' = component(l)
  BY <1>2, <1>3 DEF component
<1>5. was = now /\ fresh = FALSE
  BY <1>1, <1>2 DEF quiet, AddsUp
<1>6. ASSUME NEW l \in DOMAIN form, NEW at PROVE FieldInPhase(component(l), was[l], now[l], FALSE, at)
  <2>1. component(l) \in Components /\ FieldInPhase(component(l), was[l], now[l], fresh, focusIn(l))
    BY <1>1, <1>6, FieldHasComponent DEF FormIsShown, FieldsAreInPhase
  <2>2. focusIn(l) = "none"
    BY <1>2 DEF focusIn, NoFocus
  <2>3. FieldInPhase(component(l), now[l], now[l], FALSE, "none")
    BY <1>5, <2>1, <2>2
  <2> QED
    BY <1>5, <2>1, <2>3, FieldIsFocused
<1>7. FieldsAreInPhase'
  <2>1. \A l : FieldInPhase(component(l), was[l], now[l], FALSE, focusIn(l)')
               => FieldInPhase(component(l), was[l], now[l], fresh, focusIn(l))'
    BY <1>2, <1>4, <1>5
  <2> QED
    BY <1>3, <1>6, <2>1 DEF FieldsAreInPhase
<1>8. InputsAreStill' /\ fresh' = FALSE
  BY <1>2, <1>5 DEF InputsAreStill
<1>9. SubmittedIsShown => SubmittedIsShown'
  BY <1>2, <1>3, <1>4 DEF SubmittedIsShown
<1>10. PayloadIsMade => PayloadIsMade'
  BY <1>2, <1>3 DEF PayloadIsMade, Throwing
<1> QED
  BY <1>1, <1>2, <1>7, <1>8, <1>9, <1>10 DEF FormIsShown

\* An event that changes the field in focus.
LEMMA EventShows ==
  ASSUME FormIsShown, AddsUp', quiet, focus # NoFocus, NEW x, was' = now, now' = [now EXCEPT ![focus.label] = x],
         UNCHANGED <<type, fresh, stage, fields, texts, payload>>, focus' \in {focus, NoFocus},
         FieldInPhase(component(focus.label), now[focus.label], x, FALSE,
                      IF focus' = NoFocus THEN "none" ELSE focus.part),
         component(focus.label) = "Input" => focus' = focus \/ x = now[focus.label]
  PROVE  FormIsShown'
<1>1. AddsUp /\ type \in Types /\ focus.label \in DOMAIN form /\ DOMAIN now = DOMAIN form
  BY DEF FormIsShown, AddsUp, FocusIsInput
<1>2. form' = form
  BY DEF form
<1>3. \A l : component(l)' = component(l)
  BY <1>2 DEF component
<1>4. was = now /\ fresh = FALSE /\ fresh' = FALSE
  BY <1>1 DEF quiet, AddsUp
<1>5. ASSUME NEW l, l = focus.label
      PROVE  focusIn(l)' = IF focus' = NoFocus THEN "none" ELSE focus.part
  <2>1. CASE focus' = NoFocus
    BY <2>1 DEF focusIn, NoFocus
  <2>2. CASE focus' # NoFocus
    BY <1>5, <2>2 DEF focusIn
  <2> QED
    BY <2>1, <2>2
<1>6. ASSUME NEW l \in DOMAIN form
      PROVE  FieldInPhase(component(l), now[l], now'[l], FALSE, focusIn(l)')
  <2>1. CASE l = focus.label
    <3>1. now'[l] = x
      BY <1>1, <1>6, <2>1
    <3>2. FieldInPhase(component(l), now[l], x, FALSE, IF focus' = NoFocus THEN "none" ELSE focus.part)
      BY <2>1
    <3>3. focusIn(l)' = IF focus' = NoFocus THEN "none" ELSE focus.part
      BY <1>5, <2>1
    <3> QED
      BY <3>1, <3>2, <3>3
  <2>2. CASE l # focus.label
    <3>1. now'[l] = now[l]
      BY <1>1, <1>6, <2>2
    <3>2. focusIn(l) = "none"
      BY <2>2 DEF focusIn
    <3>3. focusIn(l)' = "none"
      BY <2>2 DEF focusIn, NoFocus
    <3>4. FieldInPhase(component(l), now[l], now[l], FALSE, "none")
      BY <1>4, <1>6, <3>2 DEF FormIsShown, FieldsAreInPhase
    <3> QED
      BY <3>1, <3>3, <3>4
  <2> QED
    BY <2>1, <2>2
<1>7. FieldsAreInPhase'
  <2>1. \A l : FieldInPhase(component(l), now[l], now'[l], FALSE, focusIn(l)')
               => FieldInPhase(component(l), was[l], now[l], fresh, focusIn(l))'
    BY <1>3, <1>4
  <2> QED
    BY <1>2, <1>6, <2>1 DEF FieldsAreInPhase
<1>8. InputsAreStill'
  <2> SUFFICES ASSUME NEW l \in DOMAIN form, component(l) = "Input"
               PROVE  now[l] = now'[l] \/ focus'.label = l
    BY <1>2, <1>3 DEF InputsAreStill
  <2>1. CASE l = focus.label
    BY <1>1, <2>1
  <2>2. CASE l # focus.label
    BY <1>1, <2>2
  <2> QED
    BY <2>1, <2>2
<1>9. SubmittedIsShown => SubmittedIsShown'
  BY <1>2, <1>3 DEF SubmittedIsShown
<1>10. PayloadIsMade => PayloadIsMade'
  BY <1>2 DEF PayloadIsMade, Throwing
<1> QED
  BY <1>4, <1>7, <1>8, <1>9, <1>10 DEF FormIsShown

LEMMA ChangeShows ==
  ASSUME FormIsShown, focus # NoFocus, NEW text \in TextsFor(focus.label), onChange(text)
  PROVE  FormIsShown'
<1> DEFINE c == component(focus.label)
           n == now[focus.label]
           x == Typed(c, n, focus.part, text)
<1>1. /\ quiet /\ was' = now /\ now' = [now EXCEPT ![focus.label] = x]
      /\ UNCHANGED <<type, fresh, focus, stage, fields, texts, payload>>
  BY DEF onChange
<1>2. AddsUp /\ AddsUp'
  BY ChangeAddsUp DEF FormIsShown
<1>3. focus.label \in DOMAIN form /\ focus.part \in PartsOf(c) /\ c \in Components /\ IsField(form[focus.label])
  BY <1>2, FieldHasComponent DEF AddsUp, FocusIsInput
<1>4. FieldInPhase(c, n, n, FALSE, focus.part)
  <2>1. focusIn(focus.label) = focus.part /\ fresh = FALSE /\ was = now
    BY <1>1, <1>2 DEF focusIn, quiet, AddsUp
  <2>2. FieldInPhase(c, was[focus.label], n, fresh, focusIn(focus.label))
    BY <1>3 DEF FormIsShown, FieldsAreInPhase
  <2> QED
    BY <2>1, <2>2
<1>5. IF c = "Input" THEN IsValueOf(c, text) ELSE text \in Value
  <2>1. CASE c = "Input"
    <3>1. text \in Texts["text"] \union Texts["Input"]
      BY <2>1 DEF TextsFor
    <3> QED
      BY <2>1, <3>1, ValuesAssumption
  <2>2. CASE c # "Input"
    <3>1. text \in Texts[c]
      BY <2>2 DEF TextsFor
    <3> QED
      BY <1>3, <2>2, <3>1, ValuesAssumption DEF Components
  <2> QED
    BY <2>1, <2>2
<1> HIDE DEF c, n
<1>6. FieldInPhase(c, n, x, FALSE, focus.part)
  BY <1>3, <1>4, <1>5, FieldIsTyped
<1> HIDE DEF x
<1>7. FieldInPhase(c, n, x, FALSE, IF focus' = NoFocus THEN "none" ELSE focus.part)
  BY <1>1, <1>6
<1> QED
  BY <1>1, <1>2, <1>7, EventShows DEF c, n

LEMMA BlurShows == ASSUME FormIsShown, onBlur PROVE FormIsShown'
<1> DEFINE c == component(focus.label)
           n == now[focus.label]
           x == Blurred(c, n, focus.part)
<1>1. /\ quiet /\ focus # NoFocus /\ was' = now /\ now' = [now EXCEPT ![focus.label] = x] /\ focus' = NoFocus
      /\ UNCHANGED <<type, fresh, stage, fields, texts, payload>>
  BY DEF onBlur
<1>2. AddsUp /\ AddsUp'
  BY BlurAddsUp DEF FormIsShown
<1>3. focus.label \in DOMAIN form /\ focus.part \in PartsOf(c) /\ c \in Components
  BY <1>1, <1>2, FieldHasComponent DEF AddsUp, FocusIsInput
<1>4. FieldInPhase(c, n, n, FALSE, focus.part)
  <2>1. focusIn(focus.label) = focus.part /\ fresh = FALSE /\ was = now
    BY <1>1, <1>2 DEF focusIn, quiet, AddsUp
  <2>2. FieldInPhase(c, was[focus.label], n, fresh, focusIn(focus.label))
    BY <1>3 DEF FormIsShown, FieldsAreInPhase
  <2> QED
    BY <2>1, <2>2
<1>5. c = "Input" => x = n
  BY DEF Blurred
<1> HIDE DEF c, n
<1>6. FieldInPhase(c, n, x, FALSE, "none")
  BY <1>3, <1>4, FieldIsBlurred
<1> HIDE DEF x
<1>7. FieldInPhase(c, n, x, FALSE, IF focus' = NoFocus THEN "none" ELSE focus.part)
  BY <1>1, <1>6
<1> QED
  BY <1>1, <1>2, <1>5, <1>7, EventShows DEF c, n

\* The values of a quiet commit are those its texts show.
LEMMA QuietIsShown ==
  ASSUME FormIsShown, quiet, NEW label \in DOMAIN form
  PROVE  /\ IsValueOf(component(label), Values(now)[label])
         /\ ShownAs(component(label), Values(now)[label], ShownNow[label])
<1> DEFINE c == component(label)
           n == now[label]
<1>1. c \in Components /\ FieldInPhase(c, was[label], n, fresh, focusIn(label)) /\ was = now /\ fresh = FALSE
  BY FieldHasComponent DEF FormIsShown, AddsUp, FieldsAreInPhase, quiet
<1>2. Values(now)[label] = n.form /\ ShownNow[label] = Shown(c, n)
  BY DEF Values, ShownNow
<1> HIDE DEF c
<1>3. IsValueOf(c, n.form) /\ ShownAs(c, n.form, Shown(c, n))
  BY <1>1, FieldIsShown
<1> QED
  BY <1>2, <1>3 DEF c

\* A step that leaves the form as it is, and submits at most what it shows.
LEMMA SubmitShows ==
  ASSUME FormIsShown, AddsUp', UNCHANGED <<type, was, now, fresh, focus>>,
         \/ stage' = "form"
         \/ quiet /\ fields' = Values(now) /\ texts' = ShownNow
         \/ fields' = fields /\ texts' = texts /\ stage # "form",
         stage' = "sign" => payload' = createTransaction(type, fields') /\ ~Throwing(View(type, payload'))
  PROVE  FormIsShown'
<1>1. form' = form
  BY DEF form
<1>2. \A l : component(l)' = component(l) /\ focusIn(l)' = focusIn(l)
  BY <1>1 DEF component, focusIn
<1>3. (fresh => focus = NoFocus)' /\ FieldsAreInPhase' /\ InputsAreStill'
  BY <1>1, <1>2 DEF FormIsShown, FieldsAreInPhase, InputsAreStill
<1>4. (stage # "form" => SubmittedIsShown)'
  <2>1. CASE stage' = "form"
    BY <2>1
  <2>2. CASE quiet /\ fields' = Values(now) /\ texts' = ShownNow
    <3>1. DOMAIN fields' = DOMAIN form
      BY <2>2 DEF Values
    <3>2. \A l \in DOMAIN form : IsValueOf(component(l), fields'[l]) /\ ShownAs(component(l), fields'[l], texts'[l])
      BY <2>2, QuietIsShown
    <3> QED
      BY <1>1, <1>2, <3>1, <3>2 DEF SubmittedIsShown
  <2>3. CASE fields' = fields /\ texts' = texts /\ stage # "form"
    BY <1>1, <1>2, <2>3 DEF FormIsShown, SubmittedIsShown
  <2> QED
    BY <2>1, <2>2, <2>3
<1>5. (stage = "sign" => PayloadIsMade)'
  <2>1. \A v : Throwing(v)' = Throwing(v)
    BY <1>1 DEF Throwing
  <2> QED
    BY <1>1 DEF PayloadIsMade, Throwing
<1> QED
  BY <1>3, <1>4, <1>5 DEF FormIsShown

LEMMA ContinueShows == ASSUME FormIsShown, Continue PROVE FormIsShown'
<1>1. AddsUp /\ AddsUp'
  BY SubmitAddsUp DEF FormIsShown, Continue, handleProposalSubmit
<1>2. UNCHANGED <<type, was, now, fresh, focus>> /\ quiet
  BY DEF Continue
<1>3. stage' = "form" \/ (fields' = Values(now) /\ texts' = ShownNow)
  BY DEF Continue, handleProposalSubmit
<1>4. stage' = "sign" => payload' = createTransaction(type, fields') /\ ~Throwing(View(type, payload'))
  BY DEF Continue, handleProposalSubmit
<1> QED
  BY <1>1, <1>2, <1>3, <1>4, SubmitShows

LEMMA AnswersShow == ASSUME FormIsShown, TokenAnswered \/ AccountAnswered PROVE FormIsShown'
<1>1. AddsUp /\ AddsUp'
  BY SubmitAddsUp DEF FormIsShown, TokenAnswered, AccountAnswered, handleProposalSubmit
<1>2. UNCHANGED <<type, was, now, fresh, focus>>
  BY DEF TokenAnswered, AccountAnswered
<1>3. stage' = "form" \/ (fields' = fields /\ texts' = texts /\ stage # "form")
  BY DEF TokenAnswered, AccountAnswered, handleProposalSubmit
<1>4. stage' = "sign" => payload' = createTransaction(type, fields') /\ ~Throwing(View(type, payload'))
  BY DEF TokenAnswered, AccountAnswered, handleProposalSubmit
<1> QED
  BY <1>1, <1>2, <1>3, <1>4, SubmitShows

LEMMA FinalizationRangeIsOf ==
  ASSUME NEW t \in Types, "finalizationCommissionRange" \in DOMAIN UpdateComponent(t)
  PROVE  t = "PoolParameters"
<1> DEFINE l == "finalizationCommissionRange"
<1>1. CASE t \in {"UpdateMintDistribution", "UpdateMintDistributionV1"}
  <2>1. PICK v \in {0, 1} : UpdateComponent(t) = UpdateMintDistribution(v)
    BY <1>1 DEF UpdateComponent
  <2> QED
    BY <2>1 DEF UpdateMintDistribution
<1>2. CASE t \in {"UpdateGASRewards", "UpdateGASRewardsV1"}
  <2>1. PICK v \in {0, 1} : UpdateComponent(t) = UpdateGasRewards(v)
    BY <1>2 DEF UpdateComponent
  <2> QED
    BY <2>1 DEF UpdateGasRewards
<1>3. CASE t \in {"UpdateMicroGTUPerEuro", "UpdateEuroPerEnergy", "UpdateTransactionFeeDistribution",
                  "UpdateFoundationAccount", "UpdateProtocol", "UpdateBakerStakeThreshold",
                  "UpdateElectionDifficulty", "TimeParameters", "CooldownParameters"}
  BY <1>3 DEF UpdateComponent, UpdateMicroGtuPerEuroRate, UpdateEuroPerEnergy, UpdateTransactionFeeDistribution,
     UpdateFoundationAccount, UpdateProtocol, UpdateBakerStakeThreshold, UpdateElectionDifficulty,
     UpdateTimeParameters, UpdateCooldownParameters
<1>4. CASE t \in {"BlockEnergyLimit", "FinalizationCommitteeParameters", "MinBlockTime", "TimeoutParameters",
                  "UpdateValidatorScoreParameters"}
  BY <1>4 DEF UpdateComponent, UpdateBlockEnergyLimit, UpdateFinalizationCommitteeParameters, UpdateMinBlockTime,
     UpdateTimeoutParameters, UpdateValidatorScoreParameters
<1>5. CASE t \in {"AddIdentityProvider", "AddAnonymityRevoker"}
  BY <1>5 DEF UpdateComponent, CreateAddIdentityProvider, CreateAddAnonymityRevoker, Described
<1>6. CASE t = "UpdateCreatePltParameters"
  BY <1>6 DEF UpdateComponent, CreatePltParameters, Switches
<1> QED
  BY <1>1, <1>2, <1>3, <1>4, <1>5, <1>6 DEF Types

\* The label that another one stands in for has its component.
LEMMA RestoredIs ==
  ASSUME FormIsShown, stage = "sign", NEW label \in DOMAIN form
  PROVE  IsValueOf(component(label), Restored(label))
<1>1. type \in Types /\ SubmittedIsShown
  BY DEF FormIsShown, AddsUp
<1>2. IsValueOf(component(label), fields[label])
  BY <1>1 DEF SubmittedIsShown
<1>3. IsValueOf(component(label), Current[type][label])
  <2>1. DOMAIN Current[type] = DOMAIN form
    BY <1>1, ValuesAssumption DEF form
  <2> QED
    BY <1>1, <2>1, ValuesAssumption DEF form, component
<1>4. CASE label = "finalizationCommissionRange"
  <2>2. type = "PoolParameters"
    BY <1>1, <1>4, FinalizationRangeIsOf DEF form
  <2>3. /\ "transactionCommissionRange" \in DOMAIN form
        /\ component("transactionCommissionRange") = component(label)
    BY <1>4, <2>2 DEF form, component, UpdateComponent, UpdatePoolParameters, PassiveCommissions, CommissionRanges, Field
  <2>4. IsValueOf(component(label), fields["transactionCommissionRange"])
    BY <1>1, <2>3 DEF SubmittedIsShown
  <2> QED
    BY <1>2, <1>3, <2>4 DEF Restored
<1>5. CASE label # "finalizationCommissionRange"
  BY <1>2, <1>3, <1>5 DEF Restored
<1> QED
  BY <1>4, <1>5

LEMMA BackShows == ASSUME FormIsShown, Back PROVE FormIsShown'
<1> DEFINE values == [label \in DOMAIN form |-> Restored(label)]
<1>1. /\ stage = "sign" /\ stage' = "form" /\ now' = FormMounted(type, values) /\ was' = now'
      /\ fresh' = TRUE /\ focus' = NoFocus /\ type' = type
  BY DEF Back
<1>2. AddsUp' /\ type \in Types
  BY BackAddsUp DEF FormIsShown, AddsUp
<1>3. form' = form
  BY <1>1 DEF form
<1>4. DOMAIN values = DOMAIN form /\ \A l \in DOMAIN values : IsValueOf(component(l), values[l])
  BY <1>1, RestoredIs
<1> HIDE DEF values
<1>5. ASSUME NEW l \in DOMAIN form
      PROVE  FieldInPhase(component(l), was'[l], now'[l], TRUE, "none")
  BY <1>1, <1>2, <1>4, <1>5, ValuesAreMounted DEF form, component
<1>6. \A l : component(l)' = component(l) /\ focusIn(l)' = "none"
  BY <1>1, <1>3 DEF component, focusIn, NoFocus
<1>7. FieldsAreInPhase' /\ InputsAreStill'
  BY <1>1, <1>3, <1>5, <1>6 DEF FieldsAreInPhase, InputsAreStill
<1> QED
  BY <1>1, <1>2, <1>7 DEF FormIsShown

LEMMA StepShows == FormIsShown /\ [Next]_vars => FormIsShown'
<1> SUFFICES ASSUME FormIsShown, [Next]_vars PROVE FormIsShown'
  OBVIOUS
<1>1. CASE UseEffect
  BY <1>1, EffectShows
<1>2. CASE \E label \in DOMAIN form : \E part \in PartsOf(component(label)) : handleFocus(label, part)
  BY <1>2, FocusShows
<1>3. CASE focus # NoFocus /\ \E text \in TextsFor(focus.label) : onChange(text)
  BY <1>3, ChangeShows
<1>4. CASE onBlur
  BY <1>4, BlurShows
<1>5. CASE Continue
  BY <1>5, ContinueShows
<1>6. CASE TokenAnswered \/ AccountAnswered
  BY <1>6, AnswersShow
<1>7. CASE Back
  BY <1>7, BackShows
<1>8. CASE UNCHANGED vars
  <2>1. AddsUp'
    BY <1>8, StepAddsUp DEF FormIsShown
  <2>2. form' = form /\ \A l : component(l)' = component(l) /\ focusIn(l)' = focusIn(l)
    BY <1>8 DEF vars, form, component, focusIn
  <2> QED
    BY <1>8, <2>1, <2>2 DEF vars, FormIsShown, FieldsAreInPhase, InputsAreStill, SubmittedIsShown, PayloadIsMade, Throwing
<1> QED
  BY <1>1, <1>2, <1>3, <1>4, <1>5, <1>6, <1>7, <1>8 DEF Next

-------------------------------------------------------------------------------

(***************************************************************************)
(* What is written of a value that fits, and the texts it was shown as.    *)
(***************************************************************************)
\* The rules of inputs that are written as numbers.
LEMMA IntegralRulesGive ==
  ASSUME NEW rule \in Integral, NEW v, Passes(rule, v)
  PROVE  OnGrid(v)
BY DEF Integral, Passes, MustBeUnique, mustBeAnInteger, validationRulesForPositiveWord64, NonNegativeWord64,
       PositiveWord32, difficultyRules

LEMMA OverviewIs ==
  ASSUME FormIsShown, stage = "sign", NEW label \in DOMAIN form, Accepts(label, fields)
  PROVE  View(type, payload)[label] = Reduced(component(label), fields[label])
<1>1. /\ type \in Types /\ payload = createTransaction(type, fields) /\ ~Throwing(View(type, payload))
      /\ DOMAIN fields = DOMAIN form /\ \A l \in DOMAIN form : IsValueOf(component(l), fields[l])
  BY DEF FormIsShown, AddsUp, PayloadIsMade, SubmittedIsShown
<1>2. ASSUME type \in {"UpdateProtocol", "UpdateCreatePltParameters"}
      PROVE  View(type, createTransaction(type, fields))[label] # Fails
  <2>1. label \in DOMAIN View(type, payload)
    BY <1>1, <1>2, FailingViews DEF form
  <2> QED
    BY <1>1, <2>1 DEF Throwing
<1>3. ASSUME type \in {"UpdateMintDistribution", "UpdateMintDistributionV1"}, label = "mintPerSlot"
      PROVE  fields[label] # Empty
  <2>1. PICK v \in {0, 1} : form = UpdateMintDistribution(v)
    BY <1>3 DEF form, UpdateComponent
  <2>2. form[label] = Field("MintRateInput", "mint", "mint")
    BY <1>3, <2>1 DEF UpdateMintDistribution
  <2>3. form[label].rule = "mint"
    BY <2>2 DEF Field
  <2>4. IsNumber(fields[label])
    BY <2>3 DEF Accepts, Passes, mintRules
  <2> QED
    BY <2>4, ValueIs
<1>4. IsShownBy(type, fields, label)
  BY <1>1, <1>2, <1>3, ViewIs DEF form, component
<1> QED
  BY <1>1, <1>4 DEF IsShownBy, form, component

\* What is proposed under a label agrees with what was shown there.
LEMMA LabelAgrees ==
  ASSUME FormIsShown, stage = "sign", NEW label \in DOMAIN form, Accepts(label, fields),
         NEW v, v = View(type, payload)[label],
         \A p \in PartsShown(label, v) : Fits(form[label].wire, p)
  PROVE  Agree(label, texts[label], WrittenValue(label, v))
<1> DEFINE c == component(label)
           f == fields[label]
           text == texts[label]
           wire == form[label].wire
           rule == form[label].rule
<1>1. v = Reduced(c, f)
  BY OverviewIs
<1>2. /\ c \in Components
      /\ c = "RelativeRateField" => wire = "word64" /\ rule \in RateRules
      /\ c \in {"RewardDistribution", "CommissionRangeField"} => wire = "uint32"
      /\ c = "RewardFractionField" => wire \in {"word32", "uint32"}
      /\ c = "MintRateInput" => wire = "mint" /\ rule = "mint"
      /\ c = "Input" => wire = "text" \/ (wire \in {"word8", "word32", "word64", "uint32"} /\ rule \in Integral)
  <2>1. IsField(form[label])
    BY FieldHasComponent DEF FormIsShown, AddsUp
  <2> QED
    BY <2>1 DEF IsField, component
<1>3. IsValueOf(c, f) /\ ShownAs(c, f, text)
  BY DEF FormIsShown, SubmittedIsShown
<1>4. rule # "supply" => Passes(rule, f)
  BY DEF Accepts
<1>5. \A p : Fits(wire, p) = (wire = "text" \/ (IsNumber(p) /\ InRange(wire, p)))
  BY DEF Fits
<1>6. /\ c = "RelativeRateField" => PartsShown(label, v) = {v[p] : p \in Parts}
      /\ c = "CommissionRangeField" => PartsShown(label, v) = {v[p] : p \in Ends}
      /\ c = "RewardDistribution" => PartsShown(label, v) = {v[p] : p \in Shares}
      /\ c \in {"RewardFractionField", "MintRateInput", "Input"} => PartsShown(label, v) = {v}
  BY DEF PartsShown, PartsOf
<1>7. /\ c = "RelativeRateField" => WrittenValue(label, v) = [p \in Parts |-> Written(wire, v[p])]
      /\ c = "CommissionRangeField" => WrittenValue(label, v) = [p \in Ends |-> Written(wire, v[p])]
      /\ c = "RewardDistribution" => WrittenValue(label, v) = [p \in Shares |-> Written(wire, v[p])]
      /\ c \in {"RewardFractionField", "MintRateInput", "Input"} => WrittenValue(label, v) = Written(wire, v)
  BY DEF WrittenValue, PartsOf
<1>8. \A u : Agree(label, text, u) =
        CASE c = "RelativeRateField" ->
               text.numerator.value * u.denominator.value = text.denominator.value * u.numerator.value
          [] c = "RewardDistribution" ->
               \A s \in Shares : isValid(toFractionResolution(text[s])) => u[s] = Number(round(text[s].value))
          [] c = "CommissionRangeField" -> \A e \in Ends : OnGrid(f[e]) => u[e] = text[e]
          [] c = "RewardFractionField" -> OnGrid(f) => u = text
          [] OTHER -> u = text
  BY DEF Agree
<1> DEFINE u == WrittenValue(label, v)
<1> HIDE DEF c, f, text, wire, rule, u
<1>9. CASE c = "RelativeRateField"
  <2>1. f \in [Parts -> Value] /\ \A p \in Parts : OnGrid(f[p]) => text[p] = f[p]
    BY <1>3, <1>9 DEF IsValueOf, ShownAs
  <2>2. rule \in RateRules /\ Passes(rule, f) /\ wire = "word64"
    BY <1>2, <1>4, <1>9 DEF RateRules
  <2>3. v = getReducedFraction(f)
    BY <1>1, <1>9 DEF Reduced
  <2>4. \A p \in Parts : IsNumber(v[p]) /\ InRange("word64", v[p])
    <3>1. \A p \in Parts : Fits(wire, v[p])
      BY <1>6, <1>9 DEF wire
    <3> QED
      BY <1>5, <2>2, <3>1
  <2>5. text["numerator"].value * Written("word64", v["denominator"]).value =
           text["denominator"].value * Written("word64", v["numerator"]).value
    BY <2>1, <2>2, <2>3, <2>4, RateAgrees
  <2>6. u["numerator"] = Written("word64", v["numerator"]) /\ u["denominator"] = Written("word64", v["denominator"])
    BY <1>7, <1>9, <2>2 DEF u, Parts
  <2>7. Agree(label, text, u)
    BY <1>8, <1>9, <2>5, <2>6
  <2> QED
    BY <2>7 DEF u, text
<1>10. CASE c = "RewardDistribution"
  <2>1. v = f /\ wire = "uint32"
    BY <1>1, <1>2, <1>10 DEF Reduced
  <2>2. \A s \in Shares : /\ f[s] \in Value /\ text[s] \in Value
                          /\ isValid(toFractionResolution(text[s])) => f[s] = toFractionResolution(text[s])
    BY <1>3, <1>10 DEF IsValueOf, ShownAs
  <2>3. \A s \in Shares : IsNumber(f[s]) /\ InRange(wire, f[s])
    <3>1. \A s \in Shares : Fits(wire, v[s])
      BY <1>6, <1>10 DEF wire
    <3> QED
      BY <1>5, <2>1, <3>1
  <2>4. ASSUME NEW s \in Shares, isValid(toFractionResolution(text[s]))
        PROVE  u[s] = Number(round(text[s].value))
    <3>1. IsNumber(toFractionResolution(text[s]))
      BY <2>4 DEF isValid
    <3>2. OnGrid(f[s]) /\ f[s] = Number(round(text[s].value))
      BY <2>2, <2>4, <3>1, ReadValues
    <3>3. Written(wire, f[s]) = f[s]
      BY <2>1, <2>2, <2>3, <3>2, FitIsWritten
    <3> QED
      BY <1>7, <1>10, <2>1, <3>2, <3>3 DEF u
  <2>5. Agree(label, text, u)
    BY <1>8, <1>10, <2>4
  <2> QED
    BY <2>5 DEF u, text
<1>11. CASE c = "CommissionRangeField"
  <2>1. v = f /\ wire = "uint32"
    BY <1>1, <1>2, <1>11 DEF Reduced
  <2>2. f \in [Ends -> Value] /\ \A e \in Ends : OnGrid(f[e]) => text[e] = f[e]
    BY <1>3, <1>11 DEF IsValueOf, ShownAs
  <2>3. \A e \in Ends : InRange(wire, f[e])
    <3>1. \A e \in Ends : Fits(wire, v[e])
      BY <1>6, <1>11 DEF wire
    <3> QED
      BY <1>5, <2>1, <3>1
  <2>4. ASSUME NEW e \in Ends, OnGrid(f[e]) PROVE u[e] = text[e]
    <3>1. Written(wire, f[e]) = f[e]
      BY <2>1, <2>2, <2>3, <2>4, FitIsWritten
    <3> QED
      BY <1>7, <1>11, <2>1, <2>2, <2>4, <3>1 DEF u
  <2>5. Agree(label, text, u)
    BY <1>8, <1>11, <2>4
  <2> QED
    BY <2>5 DEF u, text
<1>12. CASE c = "RewardFractionField"
  <2>1. v = f /\ wire \in {"word32", "uint32"} /\ wire # "text"
    BY <1>1, <1>2, <1>12 DEF Reduced
  <2>2. f \in Value /\ (OnGrid(f) => text = f)
    BY <1>3, <1>12 DEF IsValueOf, ShownAs
  <2>3. InRange(wire, f)
    <3>1. Fits(wire, v)
      BY <1>6, <1>12 DEF wire
    <3> QED
      BY <1>5, <2>1, <3>1
  <2>4. OnGrid(f) => u = text
    BY <1>7, <1>12, <2>1, <2>2, <2>3, FitIsWritten DEF u
  <2>5. Agree(label, text, u)
    BY <1>8, <1>12, <2>4
  <2> QED
    BY <2>5 DEF u, text
<1>13. CASE c = "MintRateInput"
  <2>1. v = f /\ wire = "mint" /\ text = f
    BY <1>1, <1>2, <1>3, <1>13 DEF Reduced, ShownAs
  <2>2. Fits(wire, v)
    BY <1>6, <1>13 DEF wire
  <2>3. InRange(wire, v)
    BY <1>5, <2>1, <2>2
  <2>4. Written(wire, v) = v
    BY <2>1, <2>3 DEF InRange, Written
  <2>5. u = text
    BY <1>7, <1>13, <2>1, <2>4 DEF u
  <2>6. Agree(label, text, u)
    BY <1>8, <1>13, <2>5
  <2> QED
    BY <2>6 DEF u, text
<1>14. CASE c = "Input"
  <2>1. v = f /\ text = f
    BY <1>1, <1>3, <1>14 DEF Reduced, ShownAs
  <2>2. Written(wire, v) = v
    <3>1. CASE wire = "text"
      BY <3>1 DEF Written
    <3>2. CASE wire # "text"
      <4>1. wire \in {"word8", "word32", "word64", "uint32"} /\ rule \in Integral
        BY <1>2, <1>14, <3>2
      <4>2. Passes(rule, f)
        BY <1>4, <4>1 DEF Integral
      <4>3. OnGrid(f) /\ IsNumber(f)
        BY <4>1, <4>2, IntegralRulesGive DEF OnGrid
      <4>4. f \in Value
        BY <1>3, <1>14, <4>3 DEF IsValueOf, Value
      <4>5. Fits(wire, v)
        BY <1>6, <1>14 DEF wire
      <4>6. InRange(wire, v)
        BY <1>5, <3>2, <4>5
      <4> QED
        BY <2>1, <4>1, <4>3, <4>4, <4>6, FitIsWritten
    <3> QED
      BY <3>1, <3>2
  <2>3. u = text
    BY <1>7, <1>14, <2>1, <2>2 DEF u
  <2>4. Agree(label, text, u)
    BY <1>8, <1>14, <2>3
  <2> QED
    BY <2>4 DEF u, text
<1> QED
  BY <1>2, <1>9, <1>10, <1>11, <1>12, <1>13, <1>14 DEF Components

\* In every step of the page of a parameter update (MultiSignatureCreateProposal,
\* BuildProposal and the fields of the forms) the copies of each field are in a
\* phase from which its effects lead the value of the form to what its texts say,
\* the submitted values are those its texts showed, and the payload is made of
\* the submitted values.
THEOREM FormIsAlwaysShown == Spec => []FormIsShown
BY FormStartsShown, StepShows, PTL DEF Spec

\* What the overview of a proposed update shows is what the fields of its form
\* showed when the form was submitted, whatever the chain's parameters, the draft
\* and the texts (MultiSignatureCreateProposal, createTransaction of the 22 update
\* types, and their views).
THEOREM ProposedIsAlwaysShown == Spec => []ProposedIsShown
<1>1. FormIsShown => ProposedIsShown
  BY LabelAgrees DEF ProposedIsShown
<1> QED
  BY <1>1, FormIsAlwaysShown, PTL
================================================================================
