-------------------------- MODULE BatchCalculation --------------------------
(***************************************************************************)
(* The arithmetic of a batch: exact fractions (rational.ts) and what       *)
(* calculateBatch derives from a content and from the parameters typed.    *)
(* An amount, a target or a step is a decimal of at most three places,     *)
(* given in thousandths; the amount 0 and the unit "NONE" stand for what   *)
(* the recipe does not say.                                                *)
(*                                                                         *)
(* Parameters are [mode, target, included, rounding]: included is a set of *)
(* positions, rounding a function from units to steps, so that a position  *)
(* or a unit given twice, which the code refuses, cannot be expressed.     *)
(***************************************************************************)
EXTENDS RecipeRules

CONSTANTS Capacity,      \* largest quantity of a line (1000000000 in the code)
          Samples        \* bound: pairs of a content and parameters to calculate

(* What the validation of a body lets through.                             *)
MaxTarget(mode) == IF mode = "PORTIONS" THEN 10000 * 1000 ELSE 1000000 * 1000
MaxStep == 100000 * 1000

IsRounding(r) ==
    DOMAIN r \subseteq Units \ {"TOP_UP", "NONE"} /\ \A u \in DOMAIN r : r[u] \in 1..MaxStep

IsParameters(p) ==
    /\ p.mode \in {"PORTIONS", "VOLUME_ML"} /\ p.target \in 1..MaxTarget("VOLUME_ML")
    /\ p.included # {} /\ p.included \subseteq 1..50
    /\ IsRounding(p.rounding)

(* What the arithmetic needs of a content: the validation asks for more.    *)
IsContent(content) ==
    /\ content.lines \in Seq([slug : Slugs, amount : Nat, unit : Units, override : Degrees, unknown : BOOLEAN])
    /\ content.garnishes \in Seq([slug : Slugs, amount : Nat, unit : Units])

ASSUME BatchAssumption ==
    /\ Capacity \in Nat
    /\ \A x \in Samples : IsContent(x[1]) /\ IsParameters(x[2])
    /\ Nothing \notin [num : Int, den : Int]

----------------------------------------------------------------------------
(* Fractions in lowest terms, with a positive denominator.                 *)

Gcd[x \in Nat \X Nat] == IF x[2] = 0 THEN x[1] ELSE Gcd[<<x[2], x[1] % x[2]>>]

Magnitude(n) == IF n < 0 THEN -n ELSE n

Fraction(n, d) == LET common == Gcd[<<Magnitude(n), d>>] IN [num |-> n \div common, den |-> d \div common]

Decimal(thousandths) == Fraction(thousandths, 1000)
Whole(n) == [num |-> n, den |-> 1]
Zero == Whole(0)

Plus(a, b)  == Fraction(a.num * b.den + b.num * a.den, a.den * b.den)
Minus(a, b) == Plus(a, [num |-> -b.num, den |-> b.den])
Times(a, b) == Fraction(a.num * b.num, a.den * b.den)
Over(a, b)  == Fraction(a.num * b.den, a.den * b.num)
Floor(a)    == a.num \div a.den

(* To the nearest multiple of the step, halves up.                         *)
Round(a, step) ==
    LET ratio == Over(a, step)
    IN Times(Whole((2 * ratio.num + ratio.den) \div (2 * ratio.den)), step)

Total(fractions) ==
    LET sum[i \in 0..Len(fractions)] == IF i = 0 THEN Zero ELSE Plus(sum[i - 1], fractions[i])
    IN sum[Len(fractions)]

----------------------------------------------------------------------------
Measurable(lines, included) == \A i \in included : lines[i].unit = "ML" /\ lines[i].amount # 0

(* The parameters a content accepts before any quantity is derived.        *)
Accepts(content, p) ==
    /\ p.target \in 1..MaxTarget(p.mode)
    /\ p.included \subseteq DOMAIN content.lines
    /\ \A i \in p.included : content.lines[i].unit # "TOP_UP"
    /\ p.mode = "VOLUME_ML" => Measurable(content.lines, p.included)

(* The quantities of the included lines, and nothing for the others.       *)
Chosen(p, quantities) == [j \in DOMAIN quantities |-> IF j \in p.included THEN quantities[j] ELSE Zero]

(* The base of one portion: unknown when a line of it is not in ML.        *)
Dose(content, p) ==
    IF Measurable(content.lines, p.included)
    THEN Total(Chosen(p, [j \in DOMAIN content.lines |-> Decimal(content.lines[j].amount)]))
    ELSE Nothing

Factor(content, p) ==
    IF p.mode = "PORTIONS" THEN Decimal(p.target) ELSE Over(Decimal(p.target), Dose(content, p))

Known(line) == line.unit \notin {"TOP_UP", "NONE"} /\ line.amount # 0

(* One line, multiplied and rounded.                                       *)
Exact(line, factor) == Times(Decimal(line.amount), factor)
Rounded(line, factor, p) ==
    IF line.unit \in DOMAIN p.rounding THEN Round(Exact(line, factor), Decimal(p.rounding[line.unit]))
    ELSE Exact(line, factor)

(* Neither beyond the capacity nor rounded away.                           *)
Scales(line, factor, p) == Known(line) =>
    LET exact == Exact(line, factor)
        rounded == Rounded(line, factor, p)
    IN /\ exact.num <= Capacity * exact.den /\ rounded.num <= Capacity * rounded.den
       /\ exact.num > 0 => rounded.num > 0

Scale(line, factor, p) ==
    IF Known(line)
    THEN [exact   |-> Exact(line, factor),
          rounded |-> Rounded(line, factor, p),
          delta   |-> Minus(Rounded(line, factor, p), Exact(line, factor))]
    ELSE [exact |-> Nothing, rounded |-> Nothing, delta |-> Nothing]

(* What the measured base holds, and the whole portions it serves.         *)
Volume(content, p) ==
    IF Dose(content, p) = Nothing THEN Nothing
    ELSE Total(Chosen(p, [j \in DOMAIN content.lines |-> Rounded(content.lines[j], Factor(content, p), p)]))

(* Mutation: the portions are those of the target.                         *)
PortionsOfTarget(content, p) == Floor(Factor(content, p))

Portions(content, p) ==
    IF Dose(content, p) = Nothing THEN Floor(Factor(content, p))
    ELSE Floor(Over(Volume(content, p), Dose(content, p)))

(* What stays at service follows the whole portions of a volume.           *)
ServiceFactor(content, p) ==
    IF p.mode = "VOLUME_ML" THEN Whole(Portions(content, p)) ELSE Factor(content, p)

FactorOf(content, p, i) == IF i \in p.included THEN Factor(content, p) ELSE ServiceFactor(content, p)

Calculates(content, p) ==
    /\ Accepts(content, p)
    /\ \A i \in DOMAIN content.lines : Scales(content.lines[i], FactorOf(content, p, i), p)
    /\ \A i \in DOMAIN content.garnishes : Scales(content.garnishes[i], ServiceFactor(content, p), p)

(* The share of a line in the base of its unit, when all of it is known.   *)
Ratio(content, p, i) ==
    LET lines == content.lines
        alike == {j \in p.included : lines[j].unit = lines[i].unit}
        total == Total(Chosen(p, [j \in DOMAIN lines |->
                    IF j \in alike /\ Known(lines[j]) THEN Rounded(lines[j], Factor(content, p), p) ELSE Zero]))
    IN IF i \in p.included /\ Known(lines[i]) /\ \A j \in alike : lines[j].amount # 0
       THEN Over(Rounded(lines[i], Factor(content, p), p), total)
       ELSE Nothing

Calculation(content, p) ==
    LET dose == Dose(content, p)
        volume == Volume(content, p)
        portions == Portions(content, p)
    IN [factor |-> Factor(content, p), portions |-> portions, dose |-> dose, volume |-> volume,
        difference |-> IF p.mode = "VOLUME_ML" THEN Minus(volume, Decimal(p.target)) ELSE Nothing,
        remaining |-> IF dose = Nothing THEN Nothing ELSE Minus(volume, Times(dose, Whole(portions))),
        lines |-> [i \in DOMAIN content.lines |-> Scale(content.lines[i], FactorOf(content, p, i), p)],
        ratios |-> [i \in DOMAIN content.lines |-> Ratio(content, p, i)],
        garnishes |-> [i \in DOMAIN content.garnishes |->
                          Scale(content.garnishes[i], ServiceFactor(content, p), p)]]

----------------------------------------------------------------------------
(* The same quantities by cross-multiplication, in thousandths.            *)

BaseOf(content, p) ==
    LET sum[i \in 0..Len(content.lines)] ==
            IF i = 0 THEN 0 ELSE sum[i - 1] + (IF i \in p.included THEN content.lines[i].amount ELSE 0)
    IN sum[Len(content.lines)]

(* amount * target over the base of a portion, in one division at most.    *)
ExactInBase(content, p, line, exact) ==
    LET base == IF p.mode = "PORTIONS" THEN 1000 ELSE BaseOf(content, p)
    IN exact.num * base * 1000 = exact.den * line.amount * p.target

(* What stays at service is multiplied by the portions.                    *)
ExactAtService(content, p, line, exact) ==
    IF p.mode = "PORTIONS" THEN ExactInBase(content, p, line, exact)
    ELSE exact.num * 1000 = exact.den * line.amount * Portions(content, p)

Nearest(scaled, step) ==
    /\ (scaled.rounded.num * 1000) % (scaled.rounded.den * step) = 0
    /\ 2000 * scaled.delta.num <= step * scaled.delta.den
    /\ -2000 * scaled.delta.num < step * scaled.delta.den

(* The measured volume serves the portions announced and not one more; what*)
(* is left and what differs from the target are accounted for exactly.     *)
VolumeAddsUp(content, p) ==
    LET r == Calculation(content, p)
        base == BaseOf(content, p)
        left == r.volume.num * 1000 - r.portions * base * r.volume.den
    IN /\ 0 <= left /\ left < base * r.volume.den
       /\ r.remaining.num * 1000 * r.volume.den = r.remaining.den * left
       /\ p.mode = "VOLUME_ML" =>
             r.difference = Total(Chosen(p, [i \in DOMAIN content.lines |-> r.lines[i].delta]))

Exactly(content, p) ==
    LET r == Calculation(content, p)
        lines == content.lines
        garnishes == content.garnishes
    IN /\ \A i \in DOMAIN lines : Known(lines[i]) =>
             IF i \in p.included THEN ExactInBase(content, p, lines[i], r.lines[i].exact)
             ELSE ExactAtService(content, p, lines[i], r.lines[i].exact)
       /\ \A i \in DOMAIN garnishes : Known(garnishes[i]) =>
             ExactAtService(content, p, garnishes[i], r.garnishes[i].exact)
       /\ \A i \in DOMAIN lines : Known(lines[i]) /\ lines[i].unit \in DOMAIN p.rounding =>
             Nearest(r.lines[i], p.rounding[lines[i].unit])
       /\ \A i \in DOMAIN garnishes : Known(garnishes[i]) /\ garnishes[i].unit \in DOMAIN p.rounding =>
             Nearest(r.garnishes[i], p.rounding[garnishes[i].unit])
       /\ Measurable(lines, p.included) =>
             /\ VolumeAddsUp(content, p)
             /\ Total(Chosen(p, r.ratios)) = Whole(1)

(* The samples that calculate, and wrongly.                                *)
Inexact == {x \in Samples : Calculates(x[1], x[2]) /\ ~Exactly(x[1], x[2])}
=============================================================================
