---------------------------- MODULE Reusability ----------------------------
(***************************************************************************)
(* The reusability index of one type (reusability/domain, shared/metrics): *)
(* the service checks the weights, four components are derived from the    *)
(* type's facts, those that do not apply are dropped, and two loops form   *)
(* the weighted mean of the rest.                                          *)
(*                                                                         *)
(* A float is a fraction [n, d] with exact arithmetic up to MaxFloat: what  *)
(* adds up to more is infinite.  The fractions over zero are infinity and  *)
(* 0/0, which is NaN; a caller's weights may be either (flag.Float64 reads *)
(* "Inf" and "NaN").                                                       *)
(*                                                                         *)
(* The facts and the weights asked for are given by whatever uses the      *)
(* module: TypeIndex derives the facts from the field usage.               *)
(***************************************************************************)
EXTENDS Integers, Sequences, FiniteSets, SequencesExt

CONSTANT MaxFloat \* the largest finite number

VARIABLES
  facts,     \* the type's facts: counts by name; not changed here
  weights,   \* the weights asked for, then those in force
  pc,        \* "service", "rejected", "sum", "value" or "done"
  i,         \* the loop's next component
  weightSum, \* the weight of the components that apply
  dropped,   \* those that do not, in order
  value,     \* the index so far
  result     \* the metric's result

vars == <<facts, weights, pc, i, weightSum, dropped, value, result>>

-----------------------------------------------------------------------------
Frac(n, d) == [n |-> n, d |-> d]
Zero == Frac(0, 1)
One  == Frac(1, 1)

\* A fraction in lowest terms.
Gcd[p \in Int \X Nat] == IF p[2] = 0 THEN p[1] ELSE Gcd[<<p[2], p[1] % p[2]>>]
Lowest[p \in Int \X Nat] ==
  IF p = <<0, 0>> THEN Frac(0, 0)
  ELSE LET g == Gcd[p] IN Frac(p[1] \div g, p[2] \div g)
Reduced(n, d) == Lowest[<<n, d>>]

Infinity   == Frac(1, 0)
IsFinite(a) == a.d # 0

Plus(a, b) ==
  LET sum == Reduced(a.n * b.d + b.n * a.d, a.d * b.d) IN
  IF (a = Infinity /\ b = Infinity) \/ (IsFinite(sum) /\ sum.n > MaxFloat * sum.d)
    THEN Infinity ELSE sum
Times(a, b) == Reduced(a.n * b.n, a.d * b.d)
Over(a, b)  == Reduced(a.n * b.d, a.d * b.n)
OneMinus(a) == Reduced(a.d - a.n, a.d)
Leq(a, b)   == a.n * b.d <= b.n * a.d
IsZero(a)   == a.n = 0 /\ IsFinite(a)

\* checkWeight.
CheckWeight(w) == ~(w.n < 0)

\* Validate.
Sum4(ws) == Plus(Plus(Plus(ws[1], ws[2]), ws[3]), ws[4])
ValidWeights(ws) == (\A k \in 1 .. 4 : CheckWeight(ws[k])) /\ ~IsZero(Sum4(ws))

\* DefaultReusabilityWeights, in twentieths; the zero value of weights means them.
DefaultWeights == <<Frac(6, 20), Frac(7, 20), Frac(4, 20), Frac(3, 20)>>
ResolvedWeights(ws) == IF \A k \in 1 .. 4 : IsZero(ws[k]) THEN DefaultWeights ELSE ws

\* LCOM and AMC, with the sums Compute gives them.
LCOM(f) == OneMinus(Frac(f.accesses, f.fields * f.methods))
AMC(f)  == Frac(f.methods + f.branches, f.methods)

\* The components in the order of weightedInputs: does each apply, and its value?
Applies(f) == << f.fields # 0 /\ f.methods # 0, TRUE, f.methods # 0, f.exported # 0 >>

Excess(a) == IF a.n < a.d THEN Zero ELSE Frac(a.n - a.d, a.d)
Component(f, k) ==
  CASE k = 1 -> OneMinus(LCOM(f))
    [] k = 2 -> OneMinus(Frac(f.references, f.references + 1))
    [] k = 3 -> Over(One, Plus(One, Excess(AMC(f))))
    [] k = 4 -> Frac(f.documented, f.exported)

\* sumWeights: the components whose weight counts.
Counted(f) == {k \in 1 .. 4 : Applies(f)[k]}

\* reusabilityValue: the share of one component (mutant: not renormalized).
Share_NotNormalized(w, sum) == w
Share(w, sum) == Over(w, sum)

\* Reusability: when there is nothing to weigh.
Unavailable(sum) == IsZero(sum)

Pending      == [kind |-> "pending"]
NotApplicable(reason, names) == [kind |-> "n/a", reason |-> reason, dropped |-> names]
Applicable(v, names) == [kind |-> "value", value |-> v, dropped |-> names]

-----------------------------------------------------------------------------
Init ==
  /\ pc = "service"
  /\ i = 1
  /\ weightSum = Zero
  /\ dropped = <<>>
  /\ value = Zero
  /\ result = Pending

NewService ==
  /\ pc = "service"
  /\ weights' = ResolvedWeights(weights)
  /\ pc' = IF ValidWeights(weights') THEN "sum" ELSE "rejected"
  /\ UNCHANGED <<facts, i, weightSum, dropped, value, result>>

SumStep ==
  /\ pc = "sum" /\ i <= 4
  /\ weightSum' = IF i \in Counted(facts) THEN Plus(weightSum, weights[i]) ELSE weightSum
  /\ dropped' = IF Applies(facts)[i] THEN dropped ELSE Append(dropped, i)
  /\ i' = i + 1
  /\ UNCHANGED <<facts, weights, pc, value, result>>

\* The branch between the loops, and reusabilityUnavailable.
SumEnds ==
  /\ pc = "sum" /\ i > 4
  /\ IF Unavailable(weightSum)
       THEN /\ result' = NotApplicable(IF Len(dropped) = 4 THEN "dropped" ELSE "weightless",
                                       Range(dropped))
            /\ pc' = "done"
            /\ UNCHANGED i
       ELSE /\ pc' = "value"
            /\ i' = 1
            /\ UNCHANGED result
  /\ UNCHANGED <<facts, weights, weightSum, dropped, value>>

ValueStep ==
  /\ pc = "value" /\ i <= 4
  /\ value' = IF Applies(facts)[i]
                THEN Plus(value, Times(Share(weights[i], weightSum), Component(facts, i)))
                ELSE value
  /\ i' = i + 1
  /\ UNCHANGED <<facts, weights, pc, weightSum, dropped, result>>

ValueEnds ==
  /\ pc = "value" /\ i > 4
  /\ result' = Applicable(value, Range(dropped))
  /\ pc' = "done"
  /\ UNCHANGED <<facts, weights, i, weightSum, dropped, value>>

Stopped == pc \in {"rejected", "done"} /\ UNCHANGED vars

-----------------------------------------------------------------------------
\* The components that apply and carry weight.
Weighed == {k \in 1 .. 4 : Applies(facts)[k] /\ ~IsZero(weights[k])}

\* An index lies between the smallest and the largest of the components that are
\* weighed, hence in [0, 1], whatever was dropped and however the weights add up
\* (metrics/funcs.go:170-171) - as long as they add up to a number: Validate lets
\* through finite weights with an infinite sum, which make every index 0, and
\* weights that are no numbers, which make it NaN exactly if one of them is of a
\* component that applies.
IndexBetweenItsComponents ==
  result.kind = "value" =>
    IF \E k \in Weighed : ~IsFinite(weights[k]) THEN result.value = Frac(0, 0)
    ELSE IF ~IsFinite(weightSum) THEN result.value = Zero
    ELSE /\ \E k \in Weighed : Leq(Component(facts, k), result.value)
         /\ \E k \in Weighed : Leq(result.value, Component(facts, k))
=============================================================================
