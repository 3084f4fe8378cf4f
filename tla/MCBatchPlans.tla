---------------------------- MODULE MCBatchPlans ----------------------------
(* Recipes of a notebook and of a Bar, with the batch plans of the Bar.    *)
EXTENDS BatchPlans

Line(s, asked, amount, unit) ==
    [slug |-> s, asked |-> asked, degree |-> NoDegree, mode |-> "INHERIT", amount |-> amount, unit |-> unit]
Sent(k, n, lines, garnishes, main) ==
    [kind |-> k, name |-> n, lines |-> lines, garnishes |-> garnishes, main |-> main, version |-> 0]
Twist == [slug |-> "lime", amount |-> 1000, unit |-> "PIECE"]

Sour == Sent("create", "sour", <<Line("gin", 40, 4500, "ML"), Line("lime", NoDegree, 1500, "ML")>>, <<>>, "gin")
Flip == Sent("create", "flip", <<Line("lime", NoDegree, 1500, "ML"), Line("gin", 47, 3000, "ML")>>, <<>>, "gin")
Shot == Sent("create", "sour", <<Line("gin", NoDegree, 6000, "ML")>>, <<Twist>>, "gin")
Long == Sent("replace", "sour", <<[Line("gin", 40, 3000, "ML") EXCEPT !.mode = "OVERRIDE", !.degree = 50],
                                   [Line("lime", 0, 0, "TOP_UP") EXCEPT !.mode = "UNKNOWN"]>>, <<Twist>>, "gin")
Void == Sent("create", "flip", <<Line("gin", NoDegree, 6000, "ML")>>, <<>>, "lime")
MCRequests == [PERSONAL |-> {Sour, Flip, Shot, Long, Void}, SHARED |-> {Sour, Long, Void}]

Params(mode, target, included, rounding) ==
    [mode |-> mode, target |-> target, included |-> included, rounding |-> rounding]
Free == [u \in {} |-> 0]
MCParameters == {Params("VOLUME_ML", 12000, {1, 2}, Free), Params("PORTIONS", 3000, {1}, [u \in {"ML"} |-> 2000])}

(* Two lines at most, in each unit that matters, and what a form may ask of*)
(* them: positions beyond the recipe, steps that round to nothing.         *)
Row(s, amount, unit) == [slug |-> s, amount |-> amount, unit |-> unit, override |-> NoDegree, unknown |-> FALSE]
SampleContents ==
    {[lines |-> <<Row("gin", a, "ML"), Row("lime", b, u)>>, main |-> "gin",
      garnishes |-> <<[slug |-> "lime", amount |-> 1000, unit |-> "PIECE"]>>] :
        a \in {1500, 3000}, b \in {0, 500, 1000}, u \in {"ML", "DASH", "TOP_UP", "NONE"}}
SampleParameters ==
    {Params(m, t, i, r) : m \in {"PORTIONS", "VOLUME_ML"}, t \in {500, 1000, 7000, 7500, 10000},
                          i \in {{1}, {1, 2}, {2}, {3}},
                          r \in {Free, [u \in {"ML"} |-> 1000], [u \in {"ML", "PIECE"} |-> 300],
                                 [u \in {"ML"} |-> 4500]}}
MCSamples == SampleContents \X SampleParameters
=============================================================================
