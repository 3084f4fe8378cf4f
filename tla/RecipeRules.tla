---------------------------- MODULE RecipeRules ----------------------------
(***************************************************************************)
(* What a recipe command says, and what it must yield from the ingredient  *)
(* catalogue of its workspace: the rules of cocktail-creation.rules.ts and *)
(* of the content replacement.  A name stands for its slug; the text of a  *)
(* recipe is left out.                                                     *)
(*                                                                         *)
(* A command is [kind, name, lines, garnishes, main, version]: a line names*)
(* an ingredient with the default degree it asks for if the catalogue has  *)
(* no such entry (asked), an explicit degree or NoDegree, and, for a       *)
(* replacement, a mode.  A stored line keeps only what differs from the    *)
(* catalogue.                                                              *)
(***************************************************************************)
EXTENDS Integers, Sequences

CONSTANTS Slugs,        \* ingredients a workspace may come to know
          Names,        \* names of recipes
          Nothing       \* no ingredient, no recipe: absent rows and references

NoDegree == -1
Degrees  == 0..100 \cup {NoDegree}

Units    == {"ML", "G", "PIECE", "LEAF", "SPRIG", "DASH", "DROP", "BAR_SPOON", "TEASPOON",
             "TABLESPOON", "SCOOP", "PINCH", "TOP_UP", "NONE"}

(* What the validation of a body lets through, in thousandths for amounts. *)
MaxAmount   == 99999999
LineType    == [slug : Slugs, asked : Degrees, degree : Degrees, mode : {"INHERIT", "OVERRIDE", "UNKNOWN"},
                amount : 0..MaxAmount, unit : Units \ {"NONE"}]
GarnishType == [slug : Slugs, amount : 0..MaxAmount, unit : Units]
CommandType == [kind : {"create", "replace"}, name : Names, lines : Seq(LineType) \ {<<>>},
                garnishes : Seq(GarnishType), main : Slugs \cup {Nothing}, version : Nat]

(* What the rows of a recipe keep of a command.                            *)
StoredType  == [slug : Slugs, amount : 0..MaxAmount, unit : Units \ {"NONE"}, override : Degrees,
                unknown : BOOLEAN]
ContentType == [lines : Seq(StoredType), garnishes : Seq(GarnishType), main : Slugs \cup {Nothing}]

ASSUME RulesAssumption == Nothing \notin Degrees /\ Nothing \notin Slugs

SlugsOf(lines) == {lines[i].slug : i \in DOMAIN lines}

(* The ingredients of a command, in the order the service resolves them.   *)
Mentions(c) == [i \in DOMAIN c.lines |-> c.lines[i].slug] \o [i \in DOMAIN c.garnishes |-> c.garnishes[i].slug]

(* A positive amount, unless the unit is TOP_UP; 0 stands for none.        *)
ValidLines(lines) ==
    /\ \A i, j \in DOMAIN lines : lines[i].slug = lines[j].slug => i = j
    /\ \A i \in DOMAIN lines : (lines[i].unit = "TOP_UP") = (lines[i].amount = 0)

ValidGarnishes(garnishes) ==
    \A i \in DOMAIN garnishes :
        /\ garnishes[i].unit # "TOP_UP"
        /\ (garnishes[i].amount = 0) = (garnishes[i].unit = "NONE")

(* A replacement gives a degree in mode OVERRIDE and in no other.          *)
ValidModes(c) == c.kind = "replace" =>
    \A i \in DOMAIN c.lines : (c.lines[i].mode = "OVERRIDE") = (c.lines[i].degree # NoDegree)

ValidMain(c) == c.kind = "create" /\ c.main # Nothing => c.main \in SlugsOf(c.lines)

Valid(c) == ValidLines(c.lines) /\ ValidGarnishes(c.garnishes) /\ ValidModes(c) /\ ValidMain(c)

(* The degree a creation stores: the explicit one, else the one asked for  *)
(* the catalogue when the catalogue already says something else.           *)
ResolveRecipeAbvOverride(asked, explicit, default) ==
    IF explicit # NoDegree THEN explicit
    ELSE IF asked \in {NoDegree, default} THEN NoDegree ELSE asked

StoredLine(c, line, default) ==
    [slug |-> line.slug, amount |-> line.amount, unit |-> line.unit,
     override |-> IF c.kind = "create" THEN ResolveRecipeAbvOverride(line.asked, line.degree, default)
                  ELSE IF line.mode = "OVERRIDE" THEN line.degree ELSE NoDegree,
     unknown  |-> c.kind = "replace" /\ line.mode = "UNKNOWN"]

(* The lines of a command, resolved against the degrees of the catalogue.  *)
StoredLines(c, default) ==
    [i \in DOMAIN c.lines |-> StoredLine(c, c.lines[i], default[c.lines[i].slug])]

EffectiveDegree(row, default) ==
    IF row.unknown THEN NoDegree ELSE IF row.override # NoDegree THEN row.override ELSE default

(* The main alcohol is one of the lines, and is alcoholic in this recipe.  *)
MainIsAlcoholic(c, default) ==
    c.main # Nothing =>
        \E i \in DOMAIN c.lines :
            /\ c.lines[i].slug = c.main
            /\ EffectiveDegree(StoredLines(c, default)[i], default[c.main]) > 0

(* The default an entry gets if this command is the one to create it: what *)
(* its first mention asks for; a garnish asks for nothing.                 *)
AskedDefault(c, slug) ==
    LET asking == {i \in DOMAIN c.lines : c.lines[i].slug = slug}
    IN IF asking = {} THEN NoDegree ELSE c.lines[CHOOSE i \in asking : TRUE].asked

Content(c, default) == [lines |-> StoredLines(c, default), garnishes |-> c.garnishes, main |-> c.main]
=============================================================================
