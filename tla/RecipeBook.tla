----------------------------- MODULE RecipeBook -----------------------------
(***************************************************************************)
(* What the recipes of a workspace promise, as if every command ran alone: *)
(* a recipe is created or replaced whole, with the degrees its author asked*)
(* for, and no command ever changes an entry the catalogue already has.    *)
(* Recipes implements this specification.                                  *)
(***************************************************************************)
EXTENDS RecipeRules

CONSTANTS Commands,    \* the commands members may send
          MaxVersion   \* the last version of a content

VARIABLES catalogue,   \* the default degree of each ingredient, or Nothing
          recipe       \* the content of each recipe with its version, or Nothing

bookVars == <<catalogue, recipe>>

BookInit ==
    /\ catalogue = [s \in Slugs |-> Nothing]
    /\ recipe = [n \in Names |-> Nothing]

(* The entries a command finds missing come with the degrees it asks for.  *)
Enriched(c) ==
    [s \in Slugs |-> IF catalogue[s] = Nothing /\ s \in {Mentions(c)[i] : i \in DOMAIN Mentions(c)}
                     THEN AskedDefault(c, s) ELSE catalogue[s]]

Store(c, version) ==
    /\ Valid(c) /\ MainIsAlcoholic(c, Enriched(c))
    /\ catalogue' = Enriched(c)
    /\ recipe' = [recipe EXCEPT ![c.name] = [version |-> version, content |-> Content(c, Enriched(c))]]

CreateWhole(c) ==
    /\ c.kind = "create" /\ recipe[c.name] = Nothing
    /\ Store(c, 0)

ReplaceWhole(c) ==
    /\ c.kind = "replace" /\ recipe[c.name] # Nothing
    /\ recipe[c.name].version = c.version /\ c.version < MaxVersion
    /\ Store(c, c.version + 1)

BookNext == \E c \in Commands : CreateWhole(c) \/ ReplaceWhole(c)

BookSpec == BookInit /\ [][BookNext]_bookVars
=============================================================================
