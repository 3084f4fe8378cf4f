------------------------------ MODULE Recipes ------------------------------
(***************************************************************************)
(* Creating and replacing the recipes of one workspace, statement by       *)
(* statement, by concurrent handlers at READ COMMITTED.                    *)
(*                                                                         *)
(* In a personal notebook a creation takes no row lock: two of them may    *)
(* insert one new ingredient, and only the unique index stops the second,  *)
(* which runs again from the start.  A replacement, and every command of a *)
(* Bar, first locks the workspace row.  An insertion waits for an open     *)
(* transaction that has inserted the same key; PostgreSQL ends one of the  *)
(* transactions of a circular wait.                                        *)
(***************************************************************************)
EXTENDS RecipeRules, FiniteSets, Relation

CONSTANTS Handlers,          \* concurrent request handlers
          Kinds,             \* the kinds of workspace: "PERSONAL", "SHARED"
          Requests,          \* the bodies members send, by kind of workspace
          MaxCatalogRetries, \* MAX_CATALOG_RETRIES
          MaxVersion,        \* the last version of a content
          MaxAccess          \* bound: access versions of a Bar

ASSUME RecipesAssumption ==
    /\ Kinds \subseteq {"PERSONAL", "SHARED"}
    /\ MaxCatalogRetries \in Nat /\ MaxVersion \in Nat /\ MaxAccess \in Nat
    /\ \A k \in Kinds : Requests[k] \subseteq CommandType
    /\ Nothing \notin Handlers

VARIABLES kind,       \* the kind of the workspace
          access,     \* the access version of a Bar
          catalogue,  \* committed: the default degree of each ingredient, or Nothing
          recipe,     \* committed: [version, content] of each recipe, or Nothing
          lock,       \* who holds the workspace row, or Nothing
          tx          \* the request of each handler, or Nothing

rowVars    == <<catalogue, recipe>>
recipeVars == <<kind, access, catalogue, recipe, lock, tx>>

(* version and access are the ones the page had loaded.                    *)
Commands == UNION {{[c EXCEPT !.version = v] : c \in Requests[k], v \in 0..MaxVersion} : k \in Kinds}

Stages   == {"precheck", "lock", "check", "select", "insert", "main", "write", "commit", "done"}
Statuses == {"none", "done", "400", "404", "500", "503", "stale", "full", "raced", "name taken"}
Entries  == [Slugs -> Degrees \cup {Nothing}]
Rows     == [version : 0..MaxVersion, content : ContentType]

ASSUME RowsAssumption == Nothing \notin Rows

Transactions ==
    [request : CommandType, access : 0..MaxAccess, at : Stages, i : Nat, cache : Entries, added : Entries,
     written : Rows \cup {Nothing}, retries : 0..MaxCatalogRetries, status : Statuses]

TypeOK ==
    /\ kind \in Kinds /\ access \in 0..MaxAccess
    /\ catalogue \in Entries
    /\ recipe \in [Names -> Rows \cup {Nothing}]
    /\ lock \in Handlers \cup {Nothing}
    /\ tx \in [Handlers -> Transactions \cup {Nothing}]

Fresh == [s \in Slugs |-> Nothing]

(* A transaction that has run no statement yet: its own ingredient map, no *)
(* row inserted.                                                           *)
Begun(c, v, at, retries) ==
    [request |-> c, access |-> v, at |-> at, i |-> 1, cache |-> Fresh, added |-> Fresh,
     written |-> Nothing, retries |-> retries, status |-> "none"]

Personal(h) == kind = "PERSONAL" /\ tx[h].request.kind = "create"
Request(h)  == tx[h].request
At(h, at)   == tx[h] # Nothing /\ tx[h].at = at
Goes(h, r)  == tx' = [tx EXCEPT ![h] = r]

(* Mutation: a refused command leaves the workspace row locked.            *)
EndedHoldingLock(h, status) ==
    /\ Goes(h, [Begun(Request(h), tx[h].access, "done", tx[h].retries) EXCEPT !.status = status])
    /\ UNCHANGED lock

(* COMMIT and ROLLBACK free what the transaction holds.                    *)
Ended(h, status) ==
    /\ Goes(h, [Begun(Request(h), tx[h].access, "done", tx[h].retries) EXCEPT !.status = status])
    /\ lock' = IF lock = h THEN Nothing ELSE lock

Refuse(h, status) == Ended(h, status) /\ UNCHANGED <<kind, access, rowVars>>

----------------------------------------------------------------------------
(* prepareCreation and its counterpart for a replacement run before any    *)
(* transaction of a personal creation, and inside the others, unlocked.    *)
Send(h, c, v) ==
    /\ tx[h] = Nothing
    /\ Goes(h, Begun(c, v, IF kind = "PERSONAL" /\ c.kind = "create" THEN "precheck" ELSE "lock", 0))
    /\ UNCHANGED <<kind, access, rowVars, lock>>

Precheck(h) ==
    /\ At(h, "precheck")
    /\ IF ~Valid(Request(h)) THEN Refuse(h, "400")
       ELSE IF recipe[Request(h).name] # Nothing THEN Refuse(h, "name taken")
       ELSE /\ Goes(h, [tx[h] EXCEPT !.at = "select"])
            /\ UNCHANGED <<kind, access, rowVars, lock>>

LockWorkspace(h) ==
    /\ At(h, "lock") /\ lock = Nothing
    /\ lock' = h
    /\ Goes(h, [tx[h] EXCEPT !.at = "check"])
    /\ UNCHANGED <<kind, access, rowVars>>

(* The access version, then what the command says, then the row it is about*)
Check(h) ==
    LET c == Request(h)
        found == recipe[c.name]
    IN /\ At(h, "check")
       /\ IF kind = "SHARED" /\ tx[h].access # access THEN Refuse(h, "stale")
          ELSE IF ~Valid(c) THEN Refuse(h, "400")
          ELSE CASE c.kind = "create" /\ found # Nothing -> Refuse(h, "name taken")
                 [] c.kind = "replace" /\ found = Nothing -> Refuse(h, "404")
                 [] c.kind = "replace" /\ found # Nothing /\ found.version # c.version -> Refuse(h, "stale")
                 [] OTHER -> /\ Goes(h, [tx[h] EXCEPT !.at = "select"])
                             /\ UNCHANGED <<kind, access, rowVars, lock>>

(* The stage after the ingredient numbered i: the main alcohol is resolved *)
(* after the lines and before the garnishes.                               *)
After(c, i) == IF i = Len(c.lines) THEN "main"
               ELSE IF i = Len(Mentions(c)) THEN "write" ELSE "select"

Resolved(h, slug, default) ==
    [tx[h] EXCEPT !.cache = [tx[h].cache EXCEPT ![slug] = default], !.i = @ + 1,
                  !.at = After(Request(h), tx[h].i)]

(* The upsert updates nothing: it reads the entry, or else inserts it.     *)
Select(h) ==
    /\ At(h, "select")
    /\ LET slug == Mentions(Request(h))[tx[h].i]
           known == IF tx[h].cache[slug] # Nothing THEN tx[h].cache[slug] ELSE catalogue[slug]
       IN Goes(h, IF known # Nothing THEN Resolved(h, slug, known) ELSE [tx[h] EXCEPT !.at = "insert"])
    /\ UNCHANGED <<kind, access, rowVars, lock>>

InFlight(h, slug) == {g \in Handlers \ {h} : tx[g] # Nothing /\ tx[g].added[slug] # Nothing}

Insert(h) ==
    LET slug == Mentions(Request(h))[tx[h].i]
        default == AskedDefault(Request(h), slug)
    IN /\ At(h, "insert") /\ InFlight(h, slug) = {} /\ catalogue[slug] = Nothing
       /\ Goes(h, [Resolved(h, slug, default) EXCEPT !.added = [tx[h].added EXCEPT ![slug] = default]])
       /\ UNCHANGED <<kind, access, rowVars, lock>>

(* Mutation: the map of the aborted attempt is kept.                       *)
IngredientTakenKeepingMap(h) ==
    LET slug == Mentions(Request(h))[tx[h].i]
    IN /\ At(h, "insert") /\ InFlight(h, slug) = {} /\ catalogue[slug] # Nothing
       /\ IF ~Personal(h) THEN Refuse(h, "raced")
          ELSE IF tx[h].retries = MaxCatalogRetries THEN Refuse(h, "503")
          ELSE /\ Goes(h, [Begun(Request(h), 0, "select", tx[h].retries + 1) EXCEPT
                             !.cache = [tx[h].cache EXCEPT ![slug] = AskedDefault(Request(h), slug)]])
               /\ UNCHANGED <<kind, access, rowVars, lock>>

(* Mutation: any unique index that answers means the name is taken.        *)
IngredientTakenAsName(h) ==
    LET slug == Mentions(Request(h))[tx[h].i]
    IN /\ At(h, "insert") /\ InFlight(h, slug) = {} /\ catalogue[slug] # Nothing
       /\ Refuse(h, "name taken")

(* P2002 on Ingredient: PostgreSQL has aborted the transaction.  A personal*)
(* creation starts over with a fresh map, a bounded number of times.       *)
IngredientTaken(h) ==
    LET slug == Mentions(Request(h))[tx[h].i]
    IN /\ At(h, "insert") /\ InFlight(h, slug) = {} /\ catalogue[slug] # Nothing
       /\ IF ~Personal(h) THEN Refuse(h, "raced")
          ELSE IF tx[h].retries = MaxCatalogRetries THEN Refuse(h, "503")
          ELSE /\ Goes(h, Begun(Request(h), 0, "select", tx[h].retries + 1))
               /\ UNCHANGED <<kind, access, rowVars, lock>>

CheckMain(h) ==
    LET c == Request(h)
    IN /\ At(h, "main")
       /\ IF MainIsAlcoholic(c, tx[h].cache)
          THEN /\ Goes(h, [tx[h] EXCEPT !.at = IF c.garnishes = <<>> THEN "write" ELSE "select"])
               /\ UNCHANGED <<kind, access, rowVars, lock>>
          ELSE Refuse(h, "400")

Writing(h, name) == {g \in Handlers \ {h} : At(g, "commit") /\ Request(g).name = name}

(* A creation inserts its name; a replacement of the same content writes   *)
(* nothing, another one needs room for a version.                          *)
Write(h) ==
    LET c == Request(h)
        content == Content(c, tx[h].cache)
        old == recipe[c.name]
        row == IF c.kind = "create" THEN [version |-> 0, content |-> content]
               ELSE IF old.content = content THEN old
               ELSE [version |-> old.version + 1, content |-> content]
    IN /\ At(h, "write")
       /\ c.kind = "create" => Writing(h, c.name) = {}
       /\ CASE c.kind = "create" /\ old # Nothing -> Refuse(h, IF Personal(h) THEN "name taken" ELSE "raced")
            [] c.kind = "replace" /\ row # old /\ old.version = MaxVersion -> Refuse(h, "full")
            [] OTHER -> /\ Goes(h, [tx[h] EXCEPT !.at = "commit", !.written = row])
                        /\ UNCHANGED <<kind, access, rowVars, lock>>

Commit(h) ==
    /\ At(h, "commit")
    /\ recipe' = [recipe EXCEPT ![Request(h).name] = tx[h].written]
    /\ catalogue' = [s \in Slugs |-> IF tx[h].added[s] # Nothing THEN tx[h].added[s] ELSE catalogue[s]]
    /\ Ended(h, "done")
    /\ UNCHANGED <<kind, access>>

(* Who a handler waits for, and the handlers of a circular wait.           *)
WaitsFor(h) ==
    CASE At(h, "lock") /\ lock # Nothing -> {lock}
      [] At(h, "insert") -> InFlight(h, Mentions(Request(h))[tx[h].i])
      [] At(h, "write") /\ Request(h).kind = "create" -> Writing(h, Request(h).name)
      [] OTHER -> {}

Deadlocked(h) ==
    LET waits == [p \in Handlers \X Handlers |-> p[2] \in WaitsFor(p[1])]
    IN TransitiveClosure(waits, Handlers)[<<h, h>>]

DeadlockVictim(h) == tx[h] # Nothing /\ Deadlocked(h) /\ Refuse(h, "500")

(* The connection is lost, or the transaction outlives its time limit.     *)
Interrupted(h) == tx[h] # Nothing /\ tx[h].at # "done" /\ Refuse(h, "500")

Reply(h) ==
    /\ At(h, "done")
    /\ Goes(h, Nothing)
    /\ UNCHANGED <<kind, access, rowVars, lock>>

(* A change of the members of a Bar, by its owner, under the same lock.    *)
AccessMoves ==
    /\ kind = "SHARED" /\ lock = Nothing /\ access < MaxAccess
    /\ access' = access + 1
    /\ UNCHANGED <<kind, rowVars, lock, tx>>

----------------------------------------------------------------------------
Init ==
    /\ kind \in Kinds /\ access = 0
    /\ catalogue = Fresh
    /\ recipe = [n \in Names |-> Nothing]
    /\ lock = Nothing
    /\ tx = [h \in Handlers |-> Nothing]

Statement(h) ==
    \/ Precheck(h) \/ LockWorkspace(h) \/ Check(h) \/ Select(h) \/ Insert(h) \/ IngredientTaken(h)
    \/ CheckMain(h) \/ Write(h) \/ Commit(h) \/ DeadlockVictim(h) \/ Reply(h)

Sends(h) ==
    \E c \in Requests[kind], version \in 0..MaxVersion, v \in 0..access :
        /\ c.kind = "create" => version = 0
        /\ Send(h, [c EXCEPT !.version = version], v)

RecipesNext == AccessMoves \/ \E h \in Handlers : Sends(h) \/ Statement(h) \/ Interrupted(h)

(* A handler that can take a step takes one.  A handler waiting for a row  *)
(* or for a key of an index is woken when its holder ends: it does not lose*)
(* its turn to newcomers for ever.                                         *)
Awaiting(h) == LockWorkspace(h) \/ Insert(h) \/ IngredientTaken(h) \/ Write(h)

Fairness == \A h \in Handlers : WF_recipeVars(Statement(h)) /\ SF_recipeVars(Awaiting(h))

RecipesSpec == Init /\ [][RecipesNext]_recipeVars /\ Fairness

----------------------------------------------------------------------------
(* A recipe, with the entries it adds to the catalogue, appears whole or   *)
(* not at all, with the degrees its author asked for, and no entry of the  *)
(* catalogue ever changes: retries, races and failures included.           *)
Book == INSTANCE RecipeBook WITH
    Commands <- Commands, catalogue <- catalogue, recipe <- recipe
ImplementsRecipeBook == Book!BookSpec

(* A creation is refused for its name only when a recipe has this name, and*)
(* in a Bar, whose commands are serialized, no unique index ever answers.  *)
ConflictsAreReal ==
    \A h \in Handlers : At(h, "done") /\ Request(h).kind = "create" =>
        /\ tx[h].status = "name taken" => recipe[Request(h).name] # Nothing
        /\ kind = "SHARED" => tx[h].status # "raced"

(* Every request is answered: waits for the workspace row and for the keys *)
(* of the catalogue end, and creations stop starting over.                 *)
RequestsAreAnswered == \A h \in Handlers : tx[h] # Nothing ~> tx[h] = Nothing
=============================================================================
