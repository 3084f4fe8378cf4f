-------------------------------- MODULE Pages --------------------------------
(* The lists the server gives page by page, in one order (skip and take).    *)
EXTENDS Integers, FiniteSets

CONSTANTS Rank,       \* the place of each row in the order of its list
          PageSize    \* bound: rows in a page (25 in the pages of the code)

ASSUME PageAssumption == PageSize \in Nat \ {0}

\* How many rows of S come before x.
Before(x, S) == Cardinality({ y \in S : Rank[y] < Rank[x] })

\* The rows of the pages that follow page `after`, up to page `upTo`.
Rows(S, after, upTo) == { x \in S : Before(x, S) \in after * PageSize .. upTo * PageSize - 1 }
=============================================================================
