------------------------------ MODULE Library -------------------------------
(***************************************************************************)
(* The personal library of each account: recipes, their classification in  *)
(* folders and tags, and the trash.  A recipe carries two versions, one    *)
(* for its content and one for its organization; a folder carries its own. *)
(* Every command but the creation of a recipe, which only inserts, locks   *)
(* the personal workspace row before it reads, so each action is one       *)
(* committed transaction; refusals and no-ops stutter.                     *)
(***************************************************************************)
EXTENDS Versions, FiniteSets

CONSTANTS
    Owners,        \* accounts; each has exactly one personal workspace
    Recipes, Folders, \* identifiers, drawn by the database and never reused
    Slugs,         \* the slug of the name a recipe is created with, then fixed
    Contents,      \* everything a recipe says, its present name included
    Tags, FolderNames,
    Retention,     \* how long the trash can be undone (30 days)
    MaxTime,       \* bound: the last instant observed
    NoRow,         \* a row that was never created
    Gone,          \* a folder row that was deleted
    NoFolder,      \* the null of Cocktail.folderId
    NoTime         \* the null of Cocktail.deletedAt and restoreUntil

ASSUME RetentionAssumption == Retention \in Nat /\ MaxTime \in Nat
ASSUME NullsAssumption == NoFolder \notin Folders /\ NoTime \notin Nat

VARIABLES
    recipe,        \* Cocktail rows with their CocktailFolder and CocktailTag rows
    folder,        \* Folder rows
    now,           \* the clock of the database
    preview,       \* the deletion preview a client holds, or NoRow
    binned         \* history: each recipe as it was when it last entered the trash

vars == <<recipe, folder, now, preview, binned>>

Instant == 0 .. MaxTime + Retention

RecipeRow ==
    [owner: Owners, slug: Slugs, content: Contents, contentVersion: Version,
     links: SUBSET Folders, folderId: Folders \union {NoFolder}, tags: SUBSET Tags,
     organizationVersion: Version,
     deletedAt: Instant \union {NoTime}, restoreUntil: Instant \union {NoTime}]

FolderRow == [owner: Owners, name: FolderNames, version: Version]

ASSUME RowsAssumption ==
    /\ NoRow \notin RecipeRow
    /\ NoRow \notin FolderRow
    /\ Gone \notin FolderRow \union {NoRow}

-----------------------------------------------------------------------------

HasRecipe(u, c) == recipe[c] # NoRow /\ recipe[c].owner = u

HasFolder(u, f) == folder[f] \in FolderRow /\ folder[f].owner = u

Trashed(c) == recipe[c] # NoRow /\ recipe[c].deletedAt # NoTime

\* Mutation: the commands of the library also see the trash.
InLibraryOrTrash(u, c) == HasRecipe(u, c)

\* The recipes every command but the trash and the deletion of a folder sees.
InLibrary(u, c) == HasRecipe(u, c) /\ ~ Trashed(c)

\* affectedRecipes: the recipes of a folder, the trashed ones included.
Affected(u, f) ==
    { c \in Recipes : HasRecipe(u, c) /\ (recipe[c].folderId = f \/ f \in recipe[c].links) }

\* Mutation: the digest covers the recipes and not their versions.
MembershipIds(u, f) == Affected(u, f)

\* membershipToken: a digest of the affected recipes and their versions.
MembershipToken(u, f) ==
    { <<c, recipe[c].organizationVersion>> : c \in Affected(u, f) }

\* Mutation: the legacy column is cleared instead of repaired.
FirstCleared(links) == NoFolder

\* The first folder in the order of the identifiers, which are random.
First(links) == IF links = {} THEN NoFolder ELSE CHOOSE f \in links : TRUE

NameTaken(u, name, except) ==
    \E f \in Folders \ {except} : HasFolder(u, f) /\ folder[f].name = name

-----------------------------------------------------------------------------

Init ==
    /\ recipe = [c \in Recipes |-> NoRow]
    /\ folder = [f \in Folders |-> NoRow]
    /\ now = 0
    /\ preview = NoRow
    /\ binned = [c \in Recipes |-> NoRow]

\* A new recipe is unclassified.  Its slug is free, the trash included: looked
\* up before the transaction, then enforced by the unique index.
CreateRecipe(u, c, slug, content) ==
    /\ recipe[c] = NoRow
    /\ \A d \in Recipes : HasRecipe(u, d) => recipe[d].slug # slug
    /\ recipe' = [recipe EXCEPT ![c] =
          [owner |-> u, slug |-> slug, content |-> content, contentVersion |-> 0,
           links |-> {},
           folderId |-> NoFolder, tags |-> {}, organizationVersion |-> 0,
           deletedAt |-> NoTime, restoreUntil |-> NoTime]]
    /\ UNCHANGED <<folder, now, preview, binned>>

ReplaceContent(u, c, content, v) ==
    /\ InLibrary(u, c)
    /\ VersionMatches(recipe[c].contentVersion, v)
    /\ content # recipe[c].content
    /\ HasCapacity(recipe[c].contentVersion)
    /\ recipe' = [recipe EXCEPT ![c].content = content, ![c].contentVersion = @ + 1]
    /\ UNCHANGED <<folder, now, preview, binned>>

CreateFolder(u, f, name) ==
    /\ folder[f] = NoRow
    /\ ~ NameTaken(u, name, f)
    /\ folder' = [folder EXCEPT ![f] = [owner |-> u, name |-> name, version |-> 0]]
    /\ UNCHANGED <<recipe, now, preview, binned>>

\* A rename does not check the capacity of the version: past the largest value
\* the column overflows and the statement fails, with the same effect.
RenameFolder(u, f, name, v) ==
    /\ HasFolder(u, f)
    /\ VersionMatches(folder[f].version, v)
    /\ ~ NameTaken(u, name, f)
    /\ folder[f].version + 1 \in Version
    /\ folder' = [folder EXCEPT ![f].name = name, ![f].version = @ + 1]
    /\ UNCHANGED <<recipe, now, preview, binned>>

\* Adds a batch of recipes to a folder.  Every recipe of the batch needs its
\* version, the ones already in the folder included, which do not change.
AddCocktails(u, f, ids, expected) ==
    LET added == { c \in ids : f \notin recipe[c].links }
    IN  /\ HasFolder(u, f)
        /\ \A c \in ids :
              InLibrary(u, c) /\ VersionMatches(recipe[c].organizationVersion, expected[c])
        /\ added # {}
        /\ \A c \in added : HasCapacity(recipe[c].organizationVersion)
        /\ recipe' = [c \in Recipes |->
              IF c \notin added THEN recipe[c]
              ELSE [recipe[c] EXCEPT
                      !.links = @ \union {f}, !.organizationVersion = @ + 1,
                      !.folderId = IF @ = NoFolder THEN f ELSE @]]
        /\ UNCHANGED <<folder, now, preview, binned>>

RemoveCocktail(u, f, c, v) ==
    /\ HasFolder(u, f)
    /\ InLibrary(u, c)
    /\ VersionMatches(recipe[c].organizationVersion, v)
    /\ f \in recipe[c].links
    /\ HasCapacity(recipe[c].organizationVersion)
    /\ recipe' = [recipe EXCEPT
          ![c].links = @ \ {f}, ![c].organizationVersion = @ + 1,
          ![c].folderId = IF @ = f THEN First(recipe[c].links \ {f}) ELSE @]
    /\ UNCHANGED <<folder, now, preview, binned>>

\* Replaces the folders and tags of a recipe.  A legacy client only knows one
\* folder, so it may not save a recipe that has several.
UpdateOrganization(u, c, folders, tags, legacy, v) ==
    /\ InLibrary(u, c)
    /\ VersionMatches(recipe[c].organizationVersion, v)
    /\ legacy => Cardinality(folders) <= 1 /\ Cardinality(recipe[c].links) <= 1
    /\ \A f \in folders : HasFolder(u, f)
    /\ folders # recipe[c].links \/ tags # recipe[c].tags
    /\ HasCapacity(recipe[c].organizationVersion)
    /\ recipe' = [recipe EXCEPT
          ![c].links = folders, ![c].tags = tags, ![c].organizationVersion = @ + 1,
          ![c].folderId = IF @ \in folders THEN @ ELSE First(folders)]
    /\ UNCHANGED <<folder, now, preview, binned>>

\* What a client is shown before it deletes a folder.
DeletionPreview(u, f) ==
    /\ HasFolder(u, f)
    /\ preview' = [owner |-> u, id |-> f, name |-> folder[f].name,
                   version |-> folder[f].version, token |-> MembershipToken(u, f),
                   shown |-> [c \in Affected(u, f) |-> recipe[c].links]]
    /\ UNCHANGED <<recipe, folder, now, binned>>

\* Deletes a folder, never its recipes: every affected recipe loses the link,
\* and its legacy column moves to another of its folders.
RemoveFolder(u, f, v, token) ==
    LET affected == Affected(u, f)
    IN  /\ HasFolder(u, f)
        /\ VersionMatches(folder[f].version, v)
        /\ token = MembershipToken(u, f)
        /\ \A c \in affected : HasCapacity(recipe[c].organizationVersion)
        /\ recipe' = [c \in Recipes |->
              IF c \notin affected THEN recipe[c]
              ELSE [recipe[c] EXCEPT
                      !.links = @ \ {f}, !.organizationVersion = @ + 1,
                      !.folderId = IF @ = f THEN First(recipe[c].links \ {f}) ELSE @]]
        /\ folder' = [folder EXCEPT ![f] = Gone]
        /\ UNCHANGED <<now, preview, binned>>

TransitionAllowed(u, c, contentV, organizationV) ==
    /\ HasRecipe(u, c)
    /\ VersionMatches(recipe[c].contentVersion, contentV)
    /\ VersionMatches(recipe[c].organizationVersion, organizationV)
    /\ HasCapacity(recipe[c].contentVersion)
    /\ HasCapacity(recipe[c].organizationVersion)

\* Mutation: the organization version ignores the trash.
MovedContentOnly(c, deletedAt, restoreUntil) ==
    [recipe EXCEPT ![c].contentVersion = @ + 1,
                   ![c].deletedAt = deletedAt, ![c].restoreUntil = restoreUntil]

Moved(c, deletedAt, restoreUntil) ==
    [recipe EXCEPT
        ![c].contentVersion = @ + 1, ![c].organizationVersion = @ + 1,
        ![c].deletedAt = deletedAt, ![c].restoreUntil = restoreUntil]

Trash(u, c, contentV, organizationV) ==
    /\ TransitionAllowed(u, c, contentV, organizationV)
    /\ ~ Trashed(c)
    /\ recipe' = Moved(c, now, now + Retention)
    /\ binned' = [binned EXCEPT ![c] = recipe[c]]
    /\ UNCHANGED <<folder, now, preview>>

\* The deadline is compared with the clock of the database, under the row lock.
Restore(u, c, contentV, organizationV) ==
    /\ TransitionAllowed(u, c, contentV, organizationV)
    /\ Trashed(c)
    /\ recipe[c].restoreUntil > now
    /\ recipe' = Moved(c, NoTime, NoTime)
    /\ UNCHANGED <<folder, now, preview, binned>>

Tick ==
    /\ now < MaxTime
    /\ now' = now + 1
    /\ UNCHANGED <<recipe, folder, preview, binned>>

RecipeStep(u, c) ==
    \/ \E content \in Contents :
          \/ \E slug \in Slugs : CreateRecipe(u, c, slug, content)
          \/ \E v \in Precondition : ReplaceContent(u, c, content, v)
    \/ \E f \in Folders, v \in Precondition : RemoveCocktail(u, f, c, v)
    \/ \E folders \in SUBSET Folders, tags \in SUBSET Tags, legacy \in BOOLEAN,
          v \in Precondition : UpdateOrganization(u, c, folders, tags, legacy, v)
    \/ \E contentV, organizationV \in Precondition :
          Trash(u, c, contentV, organizationV) \/ Restore(u, c, contentV, organizationV)

\* The page confirms a deletion with the version and token of its preview.
FolderStep(u, f) ==
    \/ \E name \in FolderNames :
          \/ CreateFolder(u, f, name)
          \/ \E v \in Precondition : RenameFolder(u, f, name, v)
    \/ \E ids \in (SUBSET Recipes) \ {{}} :
          \E expected \in [ids -> Precondition] : AddCocktails(u, f, ids, expected)
    \/ DeletionPreview(u, f)
    \/ /\ preview # NoRow
       /\ preview.id = f
       /\ RemoveFolder(u, f, preview.version, preview.token)

Next ==
    \/ \E u \in Owners, c \in Recipes : RecipeStep(u, c)
    \/ \E u \in Owners, f \in Folders : FolderStep(u, f)
    \/ Tick

Spec == Init /\ [][Next]_vars

-----------------------------------------------------------------------------

TypeOK ==
    /\ recipe \in [Recipes -> RecipeRow \union {NoRow}]
    /\ folder \in [Folders -> FolderRow \union {NoRow, Gone}]
    /\ now \in 0 .. MaxTime
    /\ binned \in [Recipes -> RecipeRow \union {NoRow}]

\* The expand/contract migration holds: the legacy column names one of the
\* folders of the recipe, and is null exactly when the recipe has none.
LegacyColumnAgrees ==
    \A c \in Recipes : recipe[c] # NoRow =>
        IF recipe[c].links = {} THEN recipe[c].folderId = NoFolder
        ELSE recipe[c].folderId \in recipe[c].links

\* Isolation and no dangling link: a recipe, trashed or not, is only linked to
\* existing folders of its own owner.
LinksStayAtHome ==
    \A c \in Recipes : recipe[c] # NoRow =>
        \A f \in recipe[c].links : HasFolder(recipe[c].owner, f)

\* The trash is faithful: whatever happens meanwhile, a trashed recipe is the
\* one that was thrown away, minus its links to folders deleted since.
TrashKeepsRecipe ==
    \A c \in Recipes : Trashed(c) =>
        /\ binned[c] # NoRow
        /\ recipe[c].content = binned[c].content
        /\ recipe[c].tags = binned[c].tags
        /\ recipe[c].links = { f \in binned[c].links : folder[f] # Gone }

\* Versions date what they protect: content never changes under an unchanged
\* content version, nor links, legacy folder, tags or presence under an
\* unchanged organization version, and neither version ever decreases.  A draft
\* saved with the version it loaded therefore overwrites nothing unseen.
VersionsDateRecipes ==
    [][\A c \in Recipes : recipe[c] # NoRow =>
          /\ recipe'[c].contentVersion >= recipe[c].contentVersion
          /\ recipe'[c].organizationVersion >= recipe[c].organizationVersion
          /\ recipe'[c].contentVersion = recipe[c].contentVersion =>
                /\ recipe'[c].content = recipe[c].content
                /\ recipe'[c].deletedAt = recipe[c].deletedAt
          /\ recipe'[c].organizationVersion = recipe[c].organizationVersion =>
                /\ recipe'[c].links = recipe[c].links
                /\ recipe'[c].folderId = recipe[c].folderId
                /\ recipe'[c].tags = recipe[c].tags
                /\ recipe'[c].deletedAt = recipe[c].deletedAt]_vars

\* A folder is deleted as it was previewed: same name, same recipes, and none of
\* them reorganised between the preview and the confirmation.
DeletionMatchesPreview ==
    [][\A f \in Folders : folder[f] # Gone /\ folder'[f] = Gone =>
          /\ preview.name = folder[f].name
          /\ DOMAIN preview.shown = { c \in Recipes : recipe[c] # NoRow /\ f \in recipe[c].links }
          /\ \A c \in DOMAIN preview.shown : preview.shown[c] = recipe[c].links]_vars
=============================================================================
