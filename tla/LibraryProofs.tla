--------------------------- MODULE LibraryProofs ----------------------------
(***************************************************************************)
(* Proofs about Library, for any number of owners, recipes and folders.    *)
(***************************************************************************)
EXTENDS Library, TLAPS

LibraryInv == TypeOK /\ LegacyColumnAgrees /\ LinksStayAtHome /\ TrashKeepsRecipe

\* What the invariants ask of one row, for the folders as they are.
ColumnAgrees(row) ==
    IF row.links = {} THEN row.folderId = NoFolder ELSE row.folderId \in row.links

AtHome(row) == \A f \in row.links : HasFolder(row.owner, f)

Kept(row, thrown) ==
    row.deletedAt # NoTime =>
        /\ thrown # NoRow
        /\ row.content = thrown.content
        /\ row.tags = thrown.tags
        /\ row.links = { f \in thrown.links : folder[f] # Gone }

Good(c, row) == row \in RecipeRow /\ ColumnAgrees(row) /\ AtHome(row) /\ Kept(row, binned[c])

\* The rows of a state that satisfies the invariant are good.
LEMMA RowsAreGood ==
    ASSUME LibraryInv, NEW c \in Recipes, recipe[c] # NoRow
    PROVE  Good(c, recipe[c])
BY DEF LibraryInv, TypeOK, LegacyColumnAgrees, LinksStayAtHome, TrashKeepsRecipe, Trashed,
       Good, ColumnAgrees, AtHome, Kept

\* Replacing rows by good ones preserves the invariant.
LEMMA GoodRowsPreserve ==
    ASSUME LibraryInv, UNCHANGED <<folder, now, binned>>,
           recipe' \in [Recipes -> RecipeRow \union {NoRow}],
           \A c \in Recipes : recipe'[c] = recipe[c] \/ Good(c, recipe'[c])
    PROVE  LibraryInv'
<1>1. TypeOK'
  BY DEF LibraryInv, TypeOK
<1>2. \A c \in Recipes : recipe'[c] # NoRow => Good(c, recipe'[c])
  BY RowsAreGood
<1>3. LegacyColumnAgrees'
  BY <1>2 DEF Good, ColumnAgrees, LegacyColumnAgrees
<1>4. LinksStayAtHome'
  BY <1>2 DEF Good, AtHome, HasFolder, LinksStayAtHome
<1>5. TrashKeepsRecipe'
  BY <1>2 DEF Good, Kept, Trashed, TrashKeepsRecipe
<1> QED BY <1>1, <1>3, <1>4, <1>5 DEF LibraryInv

\* The same for a single row.
LEMMA GoodRowPreserves ==
    ASSUME LibraryInv, UNCHANGED <<folder, now, binned>>,
           NEW c \in Recipes, NEW row, recipe' = [recipe EXCEPT ![c] = row], Good(c, row)
    PROVE  LibraryInv'
<1>1. recipe \in [Recipes -> RecipeRow \union {NoRow}] /\ row \in RecipeRow
  BY DEF LibraryInv, TypeOK, Good
<1>2. recipe' \in [Recipes -> RecipeRow \union {NoRow}]
  BY <1>1
<1>3. \A d \in Recipes : recipe'[d] = recipe[d] \/ Good(d, recipe'[d])
  BY <1>1
<1> QED BY <1>2, <1>3, GoodRowsPreserve

\* First answers one of the folders it is given, or none.
LEMMA FirstAgrees ==
    ASSUME NEW links
    PROVE  IF links = {} THEN First(links) = NoFolder ELSE First(links) \in links
BY DEF First

\* A version that has capacity can be raised.
LEMMA NextVersion ==
    ASSUME NEW v \in Version, HasCapacity(v)
    PROVE  v + 1 \in Version
BY MaxVersionAssumption DEF Version, HasCapacity

\* A new recipe is unclassified.
LEMMA CreateRecipePreserves ==
    ASSUME LibraryInv, NEW u \in Owners, NEW c \in Recipes, NEW slug \in Slugs,
           NEW content \in Contents, CreateRecipe(u, c, slug, content)
    PROVE  LibraryInv'
<1> DEFINE row == [owner |-> u, slug |-> slug, content |-> content, contentVersion |-> 0,
                   links |-> {}, folderId |-> NoFolder, tags |-> {}, organizationVersion |-> 0,
                   deletedAt |-> NoTime, restoreUntil |-> NoTime]
<1>1. 0 \in Version
  BY MaxVersionAssumption DEF Version
<1>2. Good(c, row)
  BY <1>1 DEF Good, RecipeRow, ColumnAgrees, AtHome, Kept
<1>3. recipe' = [recipe EXCEPT ![c] = row] /\ UNCHANGED <<folder, now, binned>>
  BY DEF CreateRecipe
<1> HIDE DEF row
<1> QED BY <1>2, <1>3, GoodRowPreserves

\* Content is only replaced outside the trash.
LEMMA ReplaceContentPreserves ==
    ASSUME LibraryInv, NEW u \in Owners, NEW c \in Recipes, NEW content \in Contents,
           NEW v \in Precondition, ReplaceContent(u, c, content, v)
    PROVE  LibraryInv'
<1> DEFINE row == [recipe[c] EXCEPT !.content = content, !.contentVersion = @ + 1]
<1>1. recipe[c] # NoRow /\ recipe[c].deletedAt = NoTime
  BY DEF ReplaceContent, InLibrary, HasRecipe, Trashed
<1>2. Good(c, recipe[c])
  BY <1>1, RowsAreGood
<1>3. recipe[c] \in RecipeRow
  BY <1>2 DEF Good
<1>4. recipe[c].contentVersion + 1 \in Version
  BY <1>3, NextVersion DEF ReplaceContent, RecipeRow
<1>5. row \in RecipeRow
  BY <1>3, <1>4 DEF RecipeRow
<1>6. /\ row.owner = recipe[c].owner /\ row.links = recipe[c].links
      /\ row.folderId = recipe[c].folderId /\ row.deletedAt = NoTime
  BY <1>1, <1>3 DEF RecipeRow
<1>7. Good(c, row)
  <2> HIDE DEF row
  <2> QED BY <1>2, <1>5, <1>6 DEF Good, ColumnAgrees, AtHome, Kept
<1>8. recipe' = [recipe EXCEPT ![c] = row] /\ UNCHANGED <<folder, now, binned>>
  BY DEF ReplaceContent
<1> HIDE DEF row
<1> QED BY <1>7, <1>8, GoodRowPreserves

\* A new or renamed folder neither appears in the place of a deleted one nor
\* changes hands, so it disturbs no link.
LEMMA FoldersKeepLinks ==
    ASSUME LibraryInv, UNCHANGED <<recipe, now, binned>>,
           folder' \in [Folders -> FolderRow \union {NoRow, Gone}],
           \A f \in Folders, u \in Owners : HasFolder(u, f) => HasFolder(u, f)',
           \A f \in Folders : folder'[f] = Gone <=> folder[f] = Gone
    PROVE  LibraryInv'
<1>1. TypeOK'
  BY DEF LibraryInv, TypeOK
<1>2. LegacyColumnAgrees'
  BY DEF LibraryInv, LegacyColumnAgrees
<1>3. \A c \in Recipes : recipe[c] # NoRow => recipe[c] \in RecipeRow
  BY DEF LibraryInv, TypeOK
<1>4. \A c \in Recipes : recipe[c] # NoRow =>
          recipe[c].owner \in Owners /\ recipe[c].links \subseteq Folders
  BY <1>3 DEF RecipeRow
<1>5. LinksStayAtHome'
  BY <1>4 DEF LibraryInv, LinksStayAtHome
<1>6. \A c \in Recipes : binned[c] # NoRow => binned[c].links \subseteq Folders
  BY DEF LibraryInv, TypeOK, RecipeRow
<1>7. TrashKeepsRecipe'
  BY <1>6 DEF LibraryInv, TrashKeepsRecipe, Trashed
<1> QED BY <1>1, <1>2, <1>5, <1>7 DEF LibraryInv

LEMMA CreateFolderPreserves ==
    ASSUME LibraryInv, NEW u \in Owners, NEW f \in Folders, NEW name \in FolderNames,
           CreateFolder(u, f, name)
    PROVE  LibraryInv'
<1> DEFINE row == [owner |-> u, name |-> name, version |-> 0]
<1>1. row \in FolderRow
  BY MaxVersionAssumption DEF FolderRow, Version
<1>2. folder' = [folder EXCEPT ![f] = row] /\ folder[f] = NoRow
  BY DEF CreateFolder
<1> HIDE DEF row
<1>3. folder' \in [Folders -> FolderRow \union {NoRow, Gone}]
  BY <1>1, <1>2 DEF LibraryInv, TypeOK
<1>4. \A g \in Folders, o \in Owners : HasFolder(o, g) => HasFolder(o, g)'
  BY <1>2, RowsAssumption DEF HasFolder, LibraryInv, TypeOK
<1>5. \A g \in Folders : folder'[g] = Gone <=> folder[g] = Gone
  BY <1>1, <1>2, RowsAssumption DEF LibraryInv, TypeOK
<1> QED BY <1>3, <1>4, <1>5, FoldersKeepLinks DEF CreateFolder

LEMMA RenameFolderPreserves ==
    ASSUME LibraryInv, NEW u \in Owners, NEW f \in Folders, NEW name \in FolderNames,
           NEW v \in Precondition, RenameFolder(u, f, name, v)
    PROVE  LibraryInv'
<1> DEFINE row == [folder[f] EXCEPT !.name = name, !.version = @ + 1]
<1>1. folder[f] \in FolderRow
  BY DEF RenameFolder, HasFolder
<1>2. folder[f].version + 1 \in Version
  BY DEF RenameFolder
<1>3. row \in FolderRow /\ row.owner = folder[f].owner
  BY <1>1, <1>2 DEF FolderRow
<1>4. folder' = [folder EXCEPT ![f] = row]
  BY DEF RenameFolder
<1> HIDE DEF row
<1>5. folder' \in [Folders -> FolderRow \union {NoRow, Gone}]
  BY <1>3, <1>4 DEF LibraryInv, TypeOK
<1>6. \A g \in Folders, o \in Owners : HasFolder(o, g) => HasFolder(o, g)'
  BY <1>3, <1>4 DEF HasFolder, LibraryInv, TypeOK
<1>7. \A g \in Folders : folder'[g] = Gone <=> folder[g] = Gone
  BY <1>1, <1>3, <1>4, RowsAssumption DEF LibraryInv, TypeOK
<1> QED BY <1>5, <1>6, <1>7, FoldersKeepLinks DEF RenameFolder

\* The row of a recipe added to a folder.
Added(c, f) ==
    [recipe[c] EXCEPT !.links = @ \union {f}, !.organizationVersion = @ + 1,
                      !.folderId = IF @ = NoFolder THEN f ELSE @]

LEMMA AddCocktailsPreserves ==
    ASSUME LibraryInv, NEW u \in Owners, NEW f \in Folders,
           NEW ids \in SUBSET Recipes, NEW expected \in [ids -> Precondition],
           AddCocktails(u, f, ids, expected)
    PROVE  LibraryInv'
<1> DEFINE added == { c \in ids : f \notin recipe[c].links }
<1>1. /\ recipe' = [c \in Recipes |-> IF c \notin added THEN recipe[c] ELSE Added(c, f)]
      /\ UNCHANGED <<folder, now, binned>>
  BY DEF AddCocktails, Added
<1>2. ASSUME NEW c \in added
      PROVE  Good(c, Added(c, f))
  <2>1. recipe[c] # NoRow /\ recipe[c].deletedAt = NoTime /\ recipe[c].owner = u
    BY DEF AddCocktails, InLibrary, HasRecipe, Trashed
  <2>2. Good(c, recipe[c]) /\ recipe[c] \in RecipeRow
    BY <2>1, RowsAreGood DEF Good
  <2>3. recipe[c].organizationVersion + 1 \in Version
    BY <2>2, NextVersion DEF AddCocktails, RecipeRow
  <2>4. Added(c, f) \in RecipeRow
    BY <2>2, <2>3 DEF RecipeRow, Added
  <2>5. /\ Added(c, f).owner = u /\ Added(c, f).links = recipe[c].links \union {f}
        /\ Added(c, f).deletedAt = NoTime
        /\ Added(c, f).folderId =
              IF recipe[c].folderId = NoFolder THEN f ELSE recipe[c].folderId
    BY <2>1, <2>2 DEF RecipeRow, Added
  <2>6. HasFolder(u, f)
    BY DEF AddCocktails
  <2> QED
    BY <2>1, <2>2, <2>4, <2>5, <2>6, NullsAssumption DEF Good, ColumnAgrees, AtHome, Kept
<1>3. recipe' \in [Recipes -> RecipeRow \union {NoRow}]
  BY <1>1, <1>2 DEF Good, LibraryInv, TypeOK
<1>4. \A c \in Recipes : recipe'[c] = recipe[c] \/ Good(c, recipe'[c])
  BY <1>1, <1>2
<1> HIDE DEF added
<1> QED BY <1>1, <1>3, <1>4, GoodRowsPreserve

\* The legacy column once f is removed from the links it agrees with.
RepairedColumn(c, f) ==
    IF recipe[c].folderId = f THEN First(recipe[c].links \ {f}) ELSE recipe[c].folderId

\* The row of a recipe that loses its link to f.
Unlinked(c, f) ==
    [recipe[c] EXCEPT
        !.links = @ \ {f}, !.organizationVersion = @ + 1,
        !.folderId = IF @ = f THEN First(recipe[c].links \ {f}) ELSE @]

\* Removing a link of a recipe repairs its legacy column.
LEMMA UnlinkedRow ==
    ASSUME LibraryInv, NEW c \in Recipes, NEW f \in Folders, recipe[c] # NoRow,
           f \in recipe[c].links, HasCapacity(recipe[c].organizationVersion)
    PROVE  /\ Unlinked(c, f) \in RecipeRow
           /\ ColumnAgrees(Unlinked(c, f))
           /\ Unlinked(c, f).owner = recipe[c].owner
           /\ Unlinked(c, f).content = recipe[c].content
           /\ Unlinked(c, f).tags = recipe[c].tags
           /\ Unlinked(c, f).deletedAt = recipe[c].deletedAt
           /\ Unlinked(c, f).links = recipe[c].links \ {f}
<1>1. recipe[c] \in RecipeRow /\ ColumnAgrees(recipe[c])
  BY RowsAreGood DEF Good
<1>2. recipe[c].organizationVersion + 1 \in Version
  BY <1>1, NextVersion DEF RecipeRow
<1>3. IF recipe[c].links \ {f} = {} THEN RepairedColumn(c, f) = NoFolder
      ELSE RepairedColumn(c, f) \in recipe[c].links \ {f}
  BY <1>1, FirstAgrees DEF ColumnAgrees, RepairedColumn
<1>4. RepairedColumn(c, f) \in Folders \union {NoFolder}
  BY <1>1, <1>3 DEF RecipeRow
<1>5. Unlinked(c, f) \in RecipeRow
  BY <1>1, <1>2, <1>4 DEF RecipeRow, Unlinked, RepairedColumn
<1>6. /\ Unlinked(c, f).owner = recipe[c].owner
      /\ Unlinked(c, f).content = recipe[c].content
      /\ Unlinked(c, f).tags = recipe[c].tags
      /\ Unlinked(c, f).deletedAt = recipe[c].deletedAt
      /\ Unlinked(c, f).links = recipe[c].links \ {f}
      /\ Unlinked(c, f).folderId = RepairedColumn(c, f)
  BY <1>1 DEF RecipeRow, Unlinked, RepairedColumn
<1>7. ColumnAgrees(Unlinked(c, f))
  BY <1>3, <1>6 DEF ColumnAgrees
<1> QED BY <1>5, <1>6, <1>7

LEMMA RemoveCocktailPreserves ==
    ASSUME LibraryInv, NEW u \in Owners, NEW f \in Folders, NEW c \in Recipes,
           NEW v \in Precondition, RemoveCocktail(u, f, c, v)
    PROVE  LibraryInv'
<1>1. recipe[c] # NoRow /\ recipe[c].deletedAt = NoTime /\ f \in recipe[c].links
  BY DEF RemoveCocktail, InLibrary, HasRecipe, Trashed
<1>2. Good(c, recipe[c])
  BY <1>1, RowsAreGood
<1>3. /\ Unlinked(c, f) \in RecipeRow /\ ColumnAgrees(Unlinked(c, f))
      /\ Unlinked(c, f).owner = recipe[c].owner
      /\ Unlinked(c, f).links = recipe[c].links \ {f}
      /\ Unlinked(c, f).deletedAt = NoTime
  BY <1>1, UnlinkedRow DEF RemoveCocktail
<1>4. Good(c, Unlinked(c, f))
  BY <1>2, <1>3 DEF Good, AtHome, Kept
<1>5. recipe' = [recipe EXCEPT ![c] = Unlinked(c, f)] /\ UNCHANGED <<folder, now, binned>>
  BY DEF RemoveCocktail, Unlinked
<1> QED BY <1>4, <1>5, GoodRowPreserves

\* Replacing the folders and tags keeps the legacy column inside the new set.
LEMMA UpdateOrganizationPreserves ==
    ASSUME LibraryInv, NEW u \in Owners, NEW c \in Recipes,
           NEW folders \in SUBSET Folders, NEW tags \in SUBSET Tags,
           NEW legacy \in BOOLEAN, NEW v \in Precondition,
           UpdateOrganization(u, c, folders, tags, legacy, v)
    PROVE  LibraryInv'
<1> DEFINE column == IF recipe[c].folderId \in folders THEN recipe[c].folderId
                     ELSE First(folders)
           row == [recipe[c] EXCEPT
                      !.links = folders, !.tags = tags, !.organizationVersion = @ + 1,
                      !.folderId = column]
<1>1. recipe[c] # NoRow /\ recipe[c].deletedAt = NoTime /\ recipe[c].owner = u
  BY DEF UpdateOrganization, InLibrary, HasRecipe, Trashed
<1>2. Good(c, recipe[c]) /\ recipe[c] \in RecipeRow
  BY <1>1, RowsAreGood DEF Good
<1>3. recipe[c].organizationVersion + 1 \in Version
  BY <1>2, NextVersion DEF UpdateOrganization, RecipeRow
<1>4. IF folders = {} THEN column = NoFolder ELSE column \in folders
  BY FirstAgrees
<1>5. recipe' = [recipe EXCEPT ![c] = row] /\ UNCHANGED <<folder, now, binned>>
  BY DEF UpdateOrganization
<1>6. /\ row \in RecipeRow /\ row.owner = u /\ row.links = folders
      /\ row.folderId = column /\ row.deletedAt = NoTime
  <2>1. column \in Folders \union {NoFolder}
    BY <1>4
  <2> HIDE DEF column
  <2> QED BY <1>1, <1>2, <1>3, <2>1 DEF RecipeRow
<1>7. Good(c, row)
  <2>1. \A f \in folders : HasFolder(u, f)
    BY DEF UpdateOrganization
  <2> HIDE DEF row, column
  <2> QED BY <1>4, <1>6, <2>1 DEF Good, ColumnAgrees, AtHome, Kept
<1> HIDE DEF row
<1> QED BY <1>5, <1>7, GoodRowPreserves

\* Deleting a folder unlinks every recipe of it, the trashed ones included, so
\* no link is left on a deleted folder.
LEMMA RemoveFolderPreserves ==
    ASSUME LibraryInv, NEW u \in Owners, NEW f \in Folders, NEW v, NEW token,
           RemoveFolder(u, f, v, token)
    PROVE  LibraryInv'
<1> DEFINE affected == Affected(u, f)
<1>1. /\ HasFolder(u, f) /\ folder[f] # Gone /\ Gone \notin FolderRow
      /\ recipe' = [c \in Recipes |-> IF c \notin affected THEN recipe[c] ELSE Unlinked(c, f)]
      /\ folder' = [folder EXCEPT ![f] = Gone]
      /\ UNCHANGED <<now, binned>>
  BY RowsAssumption DEF RemoveFolder, HasFolder, Unlinked
<1>2. folder \in [Folders -> FolderRow \union {NoRow, Gone}]
  BY DEF LibraryInv, TypeOK
<1>3. \A c \in Recipes : recipe[c] # NoRow => Good(c, recipe[c])
  BY RowsAreGood
<1>4. ASSUME NEW c \in affected
      PROVE  recipe[c] # NoRow /\ c \in Recipes /\ f \in recipe[c].links
  <2>1. recipe[c] # NoRow /\ c \in Recipes
    BY DEF Affected, HasRecipe
  <2> QED
    BY <1>3, <2>1, NullsAssumption DEF Affected, Good, ColumnAgrees
<1>5. ASSUME NEW c \in Recipes, recipe[c] # NoRow, c \notin affected
      PROVE  f \notin recipe[c].links
  BY <1>1, <1>3, <1>5 DEF Affected, HasRecipe, Good, AtHome, HasFolder
<1>6. ASSUME NEW c \in affected
      PROVE  /\ Unlinked(c, f) \in RecipeRow
             /\ ColumnAgrees(Unlinked(c, f))
             /\ Unlinked(c, f).owner = recipe[c].owner
             /\ Unlinked(c, f).content = recipe[c].content
             /\ Unlinked(c, f).tags = recipe[c].tags
             /\ Unlinked(c, f).deletedAt = recipe[c].deletedAt
             /\ Unlinked(c, f).links = recipe[c].links \ {f}
  BY <1>4, UnlinkedRow DEF RemoveFolder
<1>7. ASSUME NEW c \in Recipes, recipe'[c] # NoRow
      PROVE  /\ recipe'[c] \in RecipeRow
             /\ ColumnAgrees(recipe'[c])
             /\ recipe[c] # NoRow
             /\ recipe'[c].owner = recipe[c].owner
             /\ recipe'[c].content = recipe[c].content
             /\ recipe'[c].tags = recipe[c].tags
             /\ recipe'[c].deletedAt = recipe[c].deletedAt
             /\ recipe'[c].links = recipe[c].links \ {f}
  <2>1. CASE c \in affected
    BY <1>1, <1>4, <1>6, <2>1
  <2>2. CASE c \notin affected
    <3>1. recipe'[c] = recipe[c] /\ recipe[c] # NoRow
      BY <1>1, <1>7, <2>2
    <3>2. recipe[c].links \ {f} = recipe[c].links
      BY <1>5, <2>2, <3>1
    <3> QED BY <1>3, <3>1, <3>2 DEF Good
  <2> QED BY <2>1, <2>2
<1> HIDE DEF affected
<1>8. \A g \in Folders \ {f} : folder'[g] = folder[g]
  BY <1>1, <1>2
<1>9. \A c \in Recipes : recipe[c] # NoRow =>
          recipe[c] \in RecipeRow /\ recipe[c].links \subseteq Folders
  BY <1>3 DEF Good, RecipeRow
<1>10. TypeOK'
  <2>1. folder' \in [Folders -> FolderRow \union {NoRow, Gone}]
    BY <1>1, <1>2
  <2>2. recipe' \in [Recipes -> RecipeRow \union {NoRow}]
    BY <1>1, <1>7
  <2> QED BY <1>1, <2>1, <2>2 DEF LibraryInv, TypeOK
<1>11. LegacyColumnAgrees'
  BY <1>7 DEF ColumnAgrees, LegacyColumnAgrees
<1>12. LinksStayAtHome'
  BY <1>3, <1>7, <1>8, <1>9 DEF LinksStayAtHome, Good, AtHome, HasFolder
<1>13. \A c \in Recipes : binned[c] # NoRow => binned[c].links \subseteq Folders
  BY DEF LibraryInv, TypeOK, RecipeRow
<1>14. TrashKeepsRecipe'
  <2>1. SUFFICES ASSUME NEW c \in Recipes, recipe'[c] # NoRow, recipe'[c].deletedAt # NoTime
                 PROVE  /\ binned[c] # NoRow
                        /\ recipe'[c].content = binned[c].content
                        /\ recipe'[c].tags = binned[c].tags
                        /\ recipe'[c].links = { g \in binned[c].links : folder'[g] # Gone }
    BY <1>1 DEF TrashKeepsRecipe, Trashed
  <2>2. Kept(recipe[c], binned[c]) /\ recipe[c].deletedAt # NoTime
    BY <1>3, <1>7, <2>1 DEF Good
  <2>3. folder'[f] = Gone
    BY <1>1, <1>2
  <2>4. { g \in binned[c].links : folder'[g] # Gone }
          = { g \in binned[c].links : folder[g] # Gone } \ {f}
    BY <1>8, <1>13, <2>2, <2>3 DEF Kept
  <2> QED BY <1>7, <2>1, <2>2, <2>4 DEF Kept
<1> QED BY <1>10, <1>11, <1>12, <1>14 DEF LibraryInv

\* The row of a recipe that enters or leaves the trash.
MovedRow(c, deletedAt, restoreUntil) ==
    [recipe[c] EXCEPT
        !.contentVersion = @ + 1, !.organizationVersion = @ + 1,
        !.deletedAt = deletedAt, !.restoreUntil = restoreUntil]

\* Entering or leaving the trash only moves the versions and the two instants.
LEMMA MovedRowKeeps ==
    ASSUME NEW c \in Recipes, recipe[c] \in RecipeRow,
           HasCapacity(recipe[c].contentVersion),
           HasCapacity(recipe[c].organizationVersion),
           NEW deletedAt \in Instant \union {NoTime},
           NEW restoreUntil \in Instant \union {NoTime}
    PROVE  /\ MovedRow(c, deletedAt, restoreUntil) \in RecipeRow
           /\ MovedRow(c, deletedAt, restoreUntil).owner = recipe[c].owner
           /\ MovedRow(c, deletedAt, restoreUntil).content = recipe[c].content
           /\ MovedRow(c, deletedAt, restoreUntil).tags = recipe[c].tags
           /\ MovedRow(c, deletedAt, restoreUntil).links = recipe[c].links
           /\ MovedRow(c, deletedAt, restoreUntil).folderId = recipe[c].folderId
           /\ MovedRow(c, deletedAt, restoreUntil).deletedAt = deletedAt
<1>1. recipe[c].contentVersion + 1 \in Version /\ recipe[c].organizationVersion + 1 \in Version
  BY NextVersion DEF RecipeRow
<1> QED BY <1>1 DEF RecipeRow, MovedRow

\* A recipe is thrown away as it is: its links are to folders that exist.
LEMMA TrashPreserves ==
    ASSUME LibraryInv, NEW u \in Owners, NEW c \in Recipes,
           NEW contentV \in Precondition, NEW organizationV \in Precondition,
           Trash(u, c, contentV, organizationV)
    PROVE  LibraryInv'
<1> DEFINE row == MovedRow(c, now, now + Retention)
<1>1. recipe[c] # NoRow
  BY DEF Trash, TransitionAllowed, HasRecipe
<1>2. Good(c, recipe[c]) /\ recipe[c] \in RecipeRow
  BY <1>1, RowsAreGood DEF Good
<1>3. now \in Instant /\ now + Retention \in Instant
  BY RetentionAssumption DEF LibraryInv, TypeOK, Instant
<1>4. /\ row \in RecipeRow /\ row.owner = recipe[c].owner
      /\ row.content = recipe[c].content /\ row.tags = recipe[c].tags
      /\ row.links = recipe[c].links /\ row.folderId = recipe[c].folderId
  BY <1>2, <1>3, MovedRowKeeps DEF Trash, TransitionAllowed
<1>5. /\ recipe' = [recipe EXCEPT ![c] = row]
      /\ binned' = [binned EXCEPT ![c] = recipe[c]]
      /\ UNCHANGED <<folder, now>>
  BY DEF Trash, Moved, MovedRow
<1> HIDE DEF row
<1>6. TypeOK'
  BY <1>2, <1>4, <1>5 DEF LibraryInv, TypeOK
<1>7. recipe'[c] = row /\ binned'[c] = recipe[c]
      /\ \A d \in Recipes \ {c} : recipe'[d] = recipe[d] /\ binned'[d] = binned[d]
  BY <1>5 DEF LibraryInv, TypeOK
<1>8. \A d \in Recipes : recipe[d] # NoRow => Good(d, recipe[d])
  BY RowsAreGood
<1>9. LegacyColumnAgrees'
  BY <1>1, <1>4, <1>7, <1>8 DEF LegacyColumnAgrees, Good, ColumnAgrees
<1>10. LinksStayAtHome'
  BY <1>1, <1>4, <1>5, <1>7, <1>8 DEF LinksStayAtHome, Good, AtHome, HasFolder
<1>11. TrashKeepsRecipe'
  <2>1. \A f \in recipe[c].links : folder[f] # Gone
    BY <1>2, RowsAssumption DEF Good, AtHome, HasFolder
  <2>2. row.links = { f \in recipe[c].links : folder[f] # Gone }
    BY <1>4, <2>1
  <2> QED
    BY <1>1, <1>4, <1>5, <1>7, <1>8, <2>2 DEF TrashKeepsRecipe, Trashed, Good, Kept
<1> QED BY <1>6, <1>9, <1>10, <1>11 DEF LibraryInv

LEMMA RestorePreserves ==
    ASSUME LibraryInv, NEW u \in Owners, NEW c \in Recipes,
           NEW contentV \in Precondition, NEW organizationV \in Precondition,
           Restore(u, c, contentV, organizationV)
    PROVE  LibraryInv'
<1> DEFINE row == MovedRow(c, NoTime, NoTime)
<1>1. Good(c, recipe[c]) /\ recipe[c] \in RecipeRow
  BY RowsAreGood DEF Good, Restore, TransitionAllowed, HasRecipe
<1>2. /\ row \in RecipeRow /\ row.owner = recipe[c].owner
      /\ row.links = recipe[c].links /\ row.folderId = recipe[c].folderId
      /\ row.deletedAt = NoTime
  BY <1>1, MovedRowKeeps DEF Restore, TransitionAllowed
<1>3. recipe' = [recipe EXCEPT ![c] = row] /\ UNCHANGED <<folder, now, binned>>
  BY DEF Restore, Moved, MovedRow
<1> HIDE DEF row
<1>4. Good(c, row)
  BY <1>1, <1>2 DEF Good, ColumnAgrees, AtHome, Kept
<1> QED BY <1>3, <1>4, GoodRowPreserves

LEMMA InitEstablishes == Init => LibraryInv
BY RetentionAssumption
DEF Init, LibraryInv, TypeOK, LegacyColumnAgrees, LinksStayAtHome, TrashKeepsRecipe, Trashed

\* Every step of the library preserves the invariant.
LEMMA NextPreserves ==
    ASSUME LibraryInv, [Next]_vars
    PROVE  LibraryInv'
<1>1. CASE \E u \in Owners, c \in Recipes : RecipeStep(u, c)
  BY <1>1, CreateRecipePreserves, ReplaceContentPreserves, RemoveCocktailPreserves,
     UpdateOrganizationPreserves, TrashPreserves, RestorePreserves DEF RecipeStep
<1>2. CASE \E u \in Owners, f \in Folders : FolderStep(u, f)
  <2>1. PICK u \in Owners, f \in Folders : FolderStep(u, f)
    BY <1>2
  <2>2. CASE DeletionPreview(u, f)
    BY <2>2
    DEF DeletionPreview, LibraryInv, TypeOK, LegacyColumnAgrees, LinksStayAtHome,
        TrashKeepsRecipe, Trashed, HasFolder
  <2>3. CASE RemoveFolder(u, f, preview.version, preview.token)
    BY <2>3, RemoveFolderPreserves
  <2>4. ASSUME NEW ids \in (SUBSET Recipes) \ {{}}, NEW expected \in [ids -> Precondition],
               AddCocktails(u, f, ids, expected)
        PROVE  LibraryInv'
    BY <2>4, AddCocktailsPreserves
  <2> QED
    BY <2>1, <2>2, <2>3, <2>4, CreateFolderPreserves, RenameFolderPreserves DEF FolderStep
<1>3. CASE Tick
  <2>1. now' \in 0 .. MaxTime
    BY <1>3, RetentionAssumption DEF Tick, LibraryInv, TypeOK
  <2> QED
    BY <1>3, <2>1
    DEF Tick, LibraryInv, TypeOK, LegacyColumnAgrees, LinksStayAtHome, TrashKeepsRecipe,
        Trashed, HasFolder
<1>4. CASE UNCHANGED vars
  BY <1>4
  DEF vars, LibraryInv, TypeOK, LegacyColumnAgrees, LinksStayAtHome, TrashKeepsRecipe,
      Trashed, HasFolder
<1> QED BY <1>1, <1>2, <1>3, <1>4 DEF Next

\* The legacy column agrees with the links, links stay inside the library of
\* the owner and on existing folders, and the trash keeps what was thrown away,
\* in every reachable state: the update, deletion and transition transactions.
THEOREM LibrarySafe ==
    Spec => [](TypeOK /\ LegacyColumnAgrees /\ LinksStayAtHome /\ TrashKeepsRecipe)
<1>1. Init => LibraryInv
  BY InitEstablishes
<1>2. LibraryInv /\ [Next]_vars => LibraryInv'
  BY NextPreserves
<1> QED BY <1>1, <1>2, PTL DEF Spec, LibraryInv

-----------------------------------------------------------------------------

\* A row followed by one whose versions tell whether it changed.
Dated(old, new) ==
    /\ new.contentVersion >= old.contentVersion
    /\ new.organizationVersion >= old.organizationVersion
    /\ new.contentVersion = old.contentVersion =>
          new.content = old.content /\ new.deletedAt = old.deletedAt
    /\ new.organizationVersion = old.organizationVersion =>
          /\ new.links = old.links
          /\ new.folderId = old.folderId
          /\ new.tags = old.tags
          /\ new.deletedAt = old.deletedAt

\* Each step raises the version that dates what it rewrites.
LEMMA StepsDateRecipes ==
    ASSUME LibraryInv, [Next]_vars, NEW c \in Recipes, recipe[c] # NoRow
    PROVE  Dated(recipe[c], recipe'[c])
<1> DEFINE old == recipe[c]
<1>1. old \in RecipeRow /\ recipe \in [Recipes -> RecipeRow \union {NoRow}]
  BY DEF LibraryInv, TypeOK
<1>2. recipe'[c] = recipe[c] => Dated(recipe[c], recipe'[c])
  BY <1>1 DEF RecipeRow, Version, Dated
<1>3. ASSUME NEW u \in Owners, NEW d \in Recipes, RecipeStep(u, d)
      PROVE  Dated(recipe[c], recipe'[c])
  <2>1. CASE d # c
    BY <1>1, <1>2, <1>3, <2>1
    DEF RecipeStep, CreateRecipe, ReplaceContent, RemoveCocktail, UpdateOrganization,
        Trash, Restore, Moved
  <2>2. CASE d = c
    <3>1. ASSUME NEW slug \in Slugs, NEW content \in Contents, CreateRecipe(u, c, slug, content)
          PROVE  Dated(recipe[c], recipe'[c])
      BY <3>1 DEF CreateRecipe
    <3>2. ASSUME NEW content \in Contents, NEW v \in Precondition,
                 ReplaceContent(u, c, content, v)
          PROVE  Dated(recipe[c], recipe'[c])
      <4>1. recipe'[c] = [old EXCEPT !.content = content, !.contentVersion = @ + 1]
        BY <1>1, <3>2 DEF ReplaceContent
      <4> QED BY <1>1, <4>1 DEF RecipeRow, Version, Dated
    <3>3. ASSUME NEW f \in Folders, NEW v \in Precondition, RemoveCocktail(u, f, c, v)
          PROVE  Dated(recipe[c], recipe'[c])
      <4>1. recipe'[c] =
               [old EXCEPT !.links = old.links \ {f}, !.organizationVersion = @ + 1,
                           !.folderId = IF old.folderId = f THEN First(old.links \ {f})
                                        ELSE old.folderId]
        BY <1>1, <3>3 DEF RemoveCocktail
      <4> QED BY <1>1, <4>1 DEF RecipeRow, Version, Dated
    <3>4. ASSUME NEW folders \in SUBSET Folders, NEW tags \in SUBSET Tags,
                 NEW legacy \in BOOLEAN, NEW v \in Precondition,
                 UpdateOrganization(u, c, folders, tags, legacy, v)
          PROVE  Dated(recipe[c], recipe'[c])
      <4>1. recipe'[c] =
               [old EXCEPT !.links = folders, !.tags = tags, !.organizationVersion = @ + 1,
                           !.folderId = IF old.folderId \in folders THEN old.folderId
                                        ELSE First(folders)]
        BY <1>1, <3>4 DEF UpdateOrganization
      <4> QED BY <1>1, <4>1 DEF RecipeRow, Version, Dated
    <3>5. ASSUME NEW deletedAt, NEW restoreUntil, recipe' = Moved(c, deletedAt, restoreUntil)
          PROVE  Dated(recipe[c], recipe'[c])
      <4>1. recipe'[c] =
               [old EXCEPT !.contentVersion = @ + 1, !.organizationVersion = @ + 1,
                           !.deletedAt = deletedAt, !.restoreUntil = restoreUntil]
        BY <1>1, <3>5 DEF Moved
      <4> QED BY <1>1, <4>1 DEF RecipeRow, Version, Dated
    <3> QED
      BY <1>3, <2>2, <3>1, <3>2, <3>3, <3>4, <3>5 DEF RecipeStep, Trash, Restore
  <2> QED BY <2>1, <2>2
<1>4. ASSUME NEW u \in Owners, NEW f \in Folders, FolderStep(u, f)
      PROVE  Dated(recipe[c], recipe'[c])
  <2>1. \/ recipe'[c] = recipe[c]
        \/ recipe'[c] = Added(c, f)
        \/ recipe'[c] = Unlinked(c, f)
    BY <1>4
    DEF FolderStep, CreateFolder, RenameFolder, AddCocktails, DeletionPreview, RemoveFolder,
        Added, Unlinked
  <2>2. Dated(recipe[c], Added(c, f)) /\ Dated(recipe[c], Unlinked(c, f))
    BY <1>1 DEF RecipeRow, Version, Dated, Added, Unlinked
  <2> QED BY <1>2, <2>1, <2>2
<1>5. CASE Tick \/ UNCHANGED vars
  BY <1>2, <1>5 DEF Tick, vars
<1> QED BY <1>3, <1>4, <1>5 DEF Next

\* Content, links, tags and presence never change under an unchanged version,
\* so a precondition on the version is a precondition on what it dates.
THEOREM RecipesAreDated == Spec => VersionsDateRecipes
<1>1. Init => LibraryInv
  BY InitEstablishes
<1>2. LibraryInv /\ [Next]_vars => LibraryInv'
  BY NextPreserves
<1>3. LibraryInv /\ [Next]_vars =>
        [\A c \in Recipes : recipe[c] # NoRow =>
          /\ recipe'[c].contentVersion >= recipe[c].contentVersion
          /\ recipe'[c].organizationVersion >= recipe[c].organizationVersion
          /\ recipe'[c].contentVersion = recipe[c].contentVersion =>
                /\ recipe'[c].content = recipe[c].content
                /\ recipe'[c].deletedAt = recipe[c].deletedAt
          /\ recipe'[c].organizationVersion = recipe[c].organizationVersion =>
                /\ recipe'[c].links = recipe[c].links
                /\ recipe'[c].folderId = recipe[c].folderId
                /\ recipe'[c].tags = recipe[c].tags
                /\ recipe'[c].deletedAt = recipe[c].deletedAt]_vars
  BY StepsDateRecipes DEF Dated
<1> QED BY <1>1, <1>2, <1>3, PTL DEF Spec, VersionsDateRecipes

-----------------------------------------------------------------------------

\* A preview and the present state, as far as the versions it shows still hold:
\* the folder has the name shown, and each recipe the links shown.
PreviewTells ==
    preview # NoRow =>
        /\ folder[preview.id] \in FolderRow =>
              /\ folder[preview.id].version >= preview.version
              /\ folder[preview.id].version = preview.version =>
                    folder[preview.id].name = preview.name
        /\ preview.id \in Folders
        /\ folder[preview.id] \in FolderRow \union {Gone}
        /\ preview.version \in Version
        /\ \A c \in DOMAIN preview.shown :
              /\ c \in Recipes
              /\ recipe[c] # NoRow
              /\ \E v \in Version :
                    /\ <<c, v>> \in preview.token
                    /\ recipe[c].organizationVersion >= v
                    /\ recipe[c].organizationVersion = v => recipe[c].links = preview.shown[c]
        /\ \A pair \in preview.token : pair[1] \in DOMAIN preview.shown

\* A step deletes a folder, or keeps it under a version that dates its name.
LEMMA StepsDateFolders ==
    ASSUME LibraryInv, [Next]_vars, NEW f \in Folders,
           folder[f] \in FolderRow \union {Gone}
    PROVE  /\ folder'[f] \in FolderRow \union {Gone}
           /\ folder'[f] \in FolderRow =>
                 /\ folder[f] \in FolderRow
                 /\ folder'[f].version >= folder[f].version
                 /\ folder'[f].version = folder[f].version => folder'[f].name = folder[f].name
<1> DEFINE Kept2 == /\ folder'[f] \in FolderRow \union {Gone}
                    /\ folder'[f] \in FolderRow =>
                         /\ folder[f] \in FolderRow
                         /\ folder'[f].version >= folder[f].version
                         /\ folder'[f].version = folder[f].version =>
                               folder'[f].name = folder[f].name
<1>1. folder \in [Folders -> FolderRow \union {NoRow, Gone}]
  BY DEF LibraryInv, TypeOK
<1>2. folder[f] \in FolderRow => folder[f].version \in Nat
  BY DEF FolderRow, Version
<1>3. folder'[f] = folder[f] => Kept2
  BY <1>2
<1>4. ASSUME NEW u \in Owners, NEW g \in Folders, FolderStep(u, g)
      PROVE  Kept2
  <2>1. CASE g = f
    <3>1. ASSUME NEW name \in FolderNames, CreateFolder(u, f, name)
          PROVE  Kept2
      BY <3>1, RowsAssumption DEF CreateFolder
    <3>2. ASSUME NEW name \in FolderNames, NEW v \in Precondition,
                 RenameFolder(u, f, name, v)
          PROVE  Kept2
      <4>1. folder'[f] = [folder[f] EXCEPT !.name = name, !.version = @ + 1]
            /\ folder[f] \in FolderRow /\ folder[f].version + 1 \in Version
        BY <1>1, <3>2 DEF RenameFolder, HasFolder
      <4>2. folder'[f] \in FolderRow /\ folder'[f].version = folder[f].version + 1
        BY <4>1 DEF FolderRow
      <4> QED BY <1>2, <4>1, <4>2
    <3>3. ASSUME NEW v, NEW token, RemoveFolder(u, f, v, token)
          PROVE  Kept2
      BY <1>1, <3>3, RowsAssumption DEF RemoveFolder
    <3> QED
      BY <1>3, <1>4, <2>1, <3>1, <3>2, <3>3 DEF FolderStep, AddCocktails, DeletionPreview
  <2>2. CASE g # f
    BY <1>1, <1>3, <1>4, <2>2
    DEF FolderStep, CreateFolder, RenameFolder, AddCocktails, DeletionPreview, RemoveFolder
  <2> QED BY <2>1, <2>2
<1>5. CASE Tick \/ UNCHANGED vars
  BY <1>3, <1>5 DEF Tick, vars
<1>6. ASSUME NEW u \in Owners, NEW c \in Recipes, RecipeStep(u, c)
      PROVE  Kept2
  BY <1>3, <1>6
  DEF RecipeStep, CreateRecipe, ReplaceContent, RemoveCocktail, UpdateOrganization, Trash,
      Restore
<1> QED BY <1>4, <1>5, <1>6 DEF Next

\* A recipe row is never deleted, only thrown in the trash.
LEMMA RecipesStay ==
    ASSUME LibraryInv, [Next]_vars, NEW c \in Recipes, recipe[c] # NoRow
    PROVE  recipe'[c] \in RecipeRow
<1> DEFINE old == recipe[c]
<1>1. /\ recipe[c] \in RecipeRow /\ recipe \in [Recipes -> RecipeRow \union {NoRow}]
      /\ Good(c, recipe[c])
  BY RowsAreGood DEF LibraryInv, TypeOK
<1>2. ASSUME NEW u \in Owners, NEW d \in Recipes, RecipeStep(u, d)
      PROVE  recipe'[c] \in RecipeRow
  <2>1. CASE d # c
    BY <1>1, <1>2, <2>1
    DEF RecipeStep, CreateRecipe, ReplaceContent, RemoveCocktail, UpdateOrganization,
        Trash, Restore, Moved
  <2>2. CASE d = c
    <3>1. ASSUME NEW slug \in Slugs, NEW content \in Contents, CreateRecipe(u, c, slug, content)
          PROVE  recipe'[c] \in RecipeRow
      BY <3>1 DEF CreateRecipe
    <3>2. ASSUME NEW content \in Contents, NEW v \in Precondition,
                 ReplaceContent(u, c, content, v)
          PROVE  recipe'[c] \in RecipeRow
      <4>1. recipe'[c] = [old EXCEPT !.content = content, !.contentVersion = @ + 1]
            /\ HasCapacity(old.contentVersion)
        BY <1>1, <3>2 DEF ReplaceContent
      <4>2. old.contentVersion + 1 \in Version
        BY <1>1, <4>1, NextVersion DEF RecipeRow
      <4> QED BY <1>1, <4>1, <4>2 DEF RecipeRow
    <3>3. ASSUME NEW f \in Folders, NEW v \in Precondition, RemoveCocktail(u, f, c, v)
          PROVE  recipe'[c] \in RecipeRow
      <4>1. recipe'[c] = Unlinked(c, f)
        BY <1>1, <3>3 DEF RemoveCocktail, Unlinked
      <4> QED BY <3>3, <4>1, UnlinkedRow DEF RemoveCocktail
    <3>4. ASSUME NEW folders \in SUBSET Folders, NEW tags \in SUBSET Tags,
                 NEW legacy \in BOOLEAN, NEW v \in Precondition,
                 UpdateOrganization(u, c, folders, tags, legacy, v)
          PROVE  recipe'[c] \in RecipeRow
      <4> DEFINE column == IF old.folderId \in folders THEN old.folderId ELSE First(folders)
      <4>1. recipe'[c] =
               [old EXCEPT !.links = folders, !.tags = tags, !.organizationVersion = @ + 1,
                           !.folderId = column]
        BY <1>1, <3>4 DEF UpdateOrganization
      <4>2. old.organizationVersion + 1 \in Version
        BY <1>1, <3>4, NextVersion DEF UpdateOrganization, RecipeRow
      <4>3. column \in Folders \union {NoFolder}
        BY FirstAgrees
      <4> HIDE DEF column
      <4> QED BY <1>1, <4>1, <4>2, <4>3 DEF RecipeRow
    <3>5. ASSUME NEW deletedAt \in Instant \union {NoTime},
                 NEW restoreUntil \in Instant \union {NoTime},
                 HasCapacity(old.contentVersion), HasCapacity(old.organizationVersion),
                 recipe' = Moved(c, deletedAt, restoreUntil)
          PROVE  recipe'[c] \in RecipeRow
      <4>1. recipe'[c] = MovedRow(c, deletedAt, restoreUntil)
        BY <1>1, <3>5 DEF Moved, MovedRow
      <4> QED BY <1>1, <3>5, <4>1, MovedRowKeeps
    <3>6. now \in Instant /\ now + Retention \in Instant
      BY RetentionAssumption DEF LibraryInv, TypeOK, Instant
    <3> QED
      BY <1>2, <2>2, <3>1, <3>2, <3>3, <3>4, <3>5, <3>6
      DEF RecipeStep, Trash, Restore, TransitionAllowed
  <2> QED BY <2>1, <2>2
<1>3. ASSUME NEW u \in Owners, NEW f \in Folders, FolderStep(u, f)
      PROVE  recipe'[c] \in RecipeRow
  <2>1. ASSUME NEW ids \in (SUBSET Recipes) \ {{}}, NEW expected \in [ids -> Precondition],
               AddCocktails(u, f, ids, expected), recipe'[c] # recipe[c]
        PROVE  recipe'[c] \in RecipeRow
    <3>1. recipe'[c] = Added(c, f) /\ HasCapacity(recipe[c].organizationVersion)
      BY <2>1 DEF AddCocktails, Added
    <3>2. recipe[c].organizationVersion + 1 \in Version
      BY <1>1, <3>1, NextVersion DEF RecipeRow
    <3>3. recipe[c] \in RecipeRow
      BY <1>1
    <3>4. Added(c, f) \in RecipeRow
      BY <3>2, <3>3 DEF RecipeRow, Added
    <3> QED BY <3>1, <3>4
  <2>2. ASSUME NEW v, NEW token, RemoveFolder(u, f, v, token), recipe'[c] # recipe[c]
        PROVE  recipe'[c] \in RecipeRow
    <3>1. /\ recipe'[c] = Unlinked(c, f) /\ HasCapacity(recipe[c].organizationVersion)
          /\ c \in Affected(u, f)
      BY <2>2 DEF RemoveFolder, Unlinked
    <3>2. f \in recipe[c].links
      BY <1>1, <3>1, NullsAssumption DEF Affected, Good, ColumnAgrees
    <3> QED BY <3>1, <3>2, UnlinkedRow
  <2> QED
    BY <1>1, <1>3, <2>1, <2>2 DEF FolderStep, CreateFolder, RenameFolder, DeletionPreview
<1>4. CASE Tick \/ UNCHANGED vars
  BY <1>1, <1>4 DEF Tick, vars
<1> QED BY <1>2, <1>3, <1>4 DEF Next

\* Commands on recipes leave the folders and the preview alone.
LEMMA RecipeStepFrame ==
    ASSUME NEW u \in Owners, NEW c \in Recipes, RecipeStep(u, c)
    PROVE  folder' = folder /\ preview' = preview
<1>1. ASSUME NEW slug \in Slugs, NEW content \in Contents, CreateRecipe(u, c, slug, content)
      PROVE  folder' = folder /\ preview' = preview
  BY <1>1 DEF CreateRecipe
<1>2. ASSUME NEW content \in Contents, NEW v \in Precondition, ReplaceContent(u, c, content, v)
      PROVE  folder' = folder /\ preview' = preview
  BY <1>2 DEF ReplaceContent
<1>3. ASSUME NEW f \in Folders, NEW v \in Precondition, RemoveCocktail(u, f, c, v)
      PROVE  folder' = folder /\ preview' = preview
  BY <1>3 DEF RemoveCocktail
<1>4. ASSUME NEW folders \in SUBSET Folders, NEW tags \in SUBSET Tags, NEW legacy \in BOOLEAN,
             NEW v \in Precondition, UpdateOrganization(u, c, folders, tags, legacy, v)
      PROVE  folder' = folder /\ preview' = preview
  BY <1>4 DEF UpdateOrganization
<1>5. ASSUME NEW contentV \in Precondition, NEW organizationV \in Precondition,
             Trash(u, c, contentV, organizationV) \/ Restore(u, c, contentV, organizationV)
      PROVE  folder' = folder /\ preview' = preview
  BY <1>5 DEF Trash, Restore
<1> QED BY <1>1, <1>2, <1>3, <1>4, <1>5 DEF RecipeStep

\* A deletion preview keeps telling the truth: what it shows can only change
\* under a version it carries.
LEMMA PreviewKeepsTelling ==
    ASSUME LibraryInv, PreviewTells, [Next]_vars
    PROVE  PreviewTells'
<1>1. CASE preview' = preview
  <2>1. SUFFICES ASSUME preview # NoRow PROVE PreviewTells'
    BY <1>1 DEF PreviewTells
  <2>2. /\ folder'[preview.id] \in FolderRow \union {Gone}
        /\ folder'[preview.id] \in FolderRow =>
              /\ folder'[preview.id].version >= preview.version
              /\ folder'[preview.id].version = preview.version =>
                    folder'[preview.id].name = preview.name
    <3>1. folder'[preview.id] \in FolderRow => folder'[preview.id].version \in Nat
      BY DEF FolderRow, Version
    <3>2. folder[preview.id] \in FolderRow => folder[preview.id].version \in Nat
      BY DEF FolderRow, Version
    <3>3. preview.version \in Nat
      BY <2>1 DEF PreviewTells, Version
    <3> QED BY <2>1, <3>1, <3>2, <3>3, StepsDateFolders DEF PreviewTells
  <2>3. ASSUME NEW c \in DOMAIN preview.shown
        PROVE  /\ c \in Recipes
               /\ recipe'[c] # NoRow
               /\ \E v \in Version :
                     /\ <<c, v>> \in preview.token
                     /\ recipe'[c].organizationVersion >= v
                     /\ recipe'[c].organizationVersion = v =>
                           recipe'[c].links = preview.shown[c]
    <3>1. c \in Recipes /\ recipe[c] # NoRow
      BY <2>1 DEF PreviewTells
    <3>2. recipe'[c] \in RecipeRow /\ Dated(recipe[c], recipe'[c]) /\ recipe[c] \in RecipeRow
      BY <3>1, RecipesStay, StepsDateRecipes DEF LibraryInv, TypeOK
    <3>3. PICK v \in Version :
             /\ <<c, v>> \in preview.token
             /\ recipe[c].organizationVersion >= v
             /\ recipe[c].organizationVersion = v => recipe[c].links = preview.shown[c]
      BY <2>1 DEF PreviewTells
    <3>4. /\ recipe[c].organizationVersion \in Nat /\ recipe'[c].organizationVersion \in Nat
          /\ v \in Nat
      BY <3>2 DEF RecipeRow, Version
    <3>5. recipe'[c].organizationVersion >= v
      BY <3>2, <3>3, <3>4 DEF Dated
    <3>6. recipe'[c].organizationVersion = v => recipe'[c].links = preview.shown[c]
      BY <3>2, <3>3, <3>4 DEF Dated
    <3> QED BY <3>1, <3>2, <3>3, <3>5, <3>6, RowsAssumption
  <2> QED BY <1>1, <2>1, <2>2, <2>3 DEF PreviewTells
<1>2. ASSUME NEW u \in Owners, NEW f \in Folders, DeletionPreview(u, f)
      PROVE  PreviewTells'
  <2> DEFINE shown == [c \in Affected(u, f) |-> recipe[c].links]
  <2>1. /\ preview'.id = f /\ preview'.name = folder[f].name
        /\ preview'.version = folder[f].version
        /\ preview'.token = MembershipToken(u, f)
        /\ preview'.shown = shown
        /\ folder[f] \in FolderRow
        /\ UNCHANGED <<recipe, folder>>
    BY <1>2 DEF DeletionPreview, HasFolder
  <2>2. folder[f].version \in Version /\ Version \subseteq Nat
    BY <2>1 DEF FolderRow, Version
  <2>3. \A c \in Affected(u, f) :
           /\ c \in Recipes /\ recipe[c] # NoRow /\ recipe[c].organizationVersion \in Version
           /\ <<c, recipe[c].organizationVersion>> \in MembershipToken(u, f)
    BY DEF Affected, HasRecipe, MembershipToken, LibraryInv, TypeOK, RecipeRow
  <2>4. \A pair \in MembershipToken(u, f) : pair[1] \in Affected(u, f)
    BY DEF MembershipToken
  <2>5. DOMAIN shown = Affected(u, f) /\ \A c \in Affected(u, f) : shown[c] = recipe[c].links
    OBVIOUS
  <2> HIDE DEF shown
  <2>6. ASSUME NEW c \in DOMAIN preview'.shown
        PROVE  /\ c \in Recipes
               /\ recipe'[c] # NoRow
               /\ \E v \in Version :
                     /\ <<c, v>> \in preview'.token
                     /\ recipe'[c].organizationVersion >= v
                     /\ recipe'[c].organizationVersion = v =>
                           recipe'[c].links = preview'.shown[c]
    <3> DEFINE version == recipe[c].organizationVersion
    <3>1. c \in Affected(u, f) /\ recipe' = recipe /\ preview'.shown[c] = recipe[c].links
      BY <2>1, <2>5
    <3>2. version \in Version
      BY <2>3, <3>1
    <3>3. version >= version
      <4> HIDE DEF version
      <4> QED BY <3>2 DEF Version
    <3>4. /\ <<c, version>> \in preview'.token
          /\ recipe'[c].organizationVersion >= version
          /\ recipe'[c].organizationVersion = version => recipe'[c].links = preview'.shown[c]
      BY <2>1, <2>3, <3>1, <3>3
    <3> QED BY <2>3, <3>1, <3>2, <3>4
  <2>7. \A pair \in preview'.token : pair[1] \in DOMAIN preview'.shown
    BY <2>1, <2>4, <2>5
  <2>8. /\ preview'.id \in Folders
        /\ folder'[preview'.id] \in FolderRow \union {Gone}
        /\ preview'.version \in Version
        /\ folder'[preview'.id].version >= preview'.version
        /\ folder'[preview'.id].name = preview'.name
    BY <2>1, <2>2 DEF Version
  <2> QED BY <2>6, <2>7, <2>8 DEF PreviewTells
<1>3. preview' = preview \/ \E u \in Owners, f \in Folders : DeletionPreview(u, f)
  <2>1. ASSUME NEW u \in Owners, NEW f \in Folders, FolderStep(u, f)
        PROVE  preview' = preview \/ DeletionPreview(u, f)
    BY <2>1 DEF FolderStep, CreateFolder, RenameFolder, AddCocktails, RemoveFolder
  <2> QED BY <2>1, RecipeStepFrame DEF Next, Tick, vars
<1> QED BY <1>1, <1>2, <1>3

\* What a deletion that carries a preview knows of the folder it deletes.
DeletionTells ==
    \A f \in Folders : folder[f] # Gone /\ folder'[f] = Gone =>
        /\ preview.name = folder[f].name
        /\ DOMAIN preview.shown = { c \in Recipes : recipe[c] # NoRow /\ f \in recipe[c].links }
        /\ \A c \in DOMAIN preview.shown : preview.shown[c] = recipe[c].links

LEMMA DeletionsTell ==
    ASSUME LibraryInv, PreviewTells, [Next]_vars
    PROVE  DeletionTells
<1>1. SUFFICES ASSUME NEW f \in Folders, folder[f] # Gone, folder'[f] = Gone
               PROVE  /\ preview.name = folder[f].name
                      /\ DOMAIN preview.shown =
                            { c \in Recipes : recipe[c] # NoRow /\ f \in recipe[c].links }
                      /\ \A c \in DOMAIN preview.shown : preview.shown[c] = recipe[c].links
  BY DEF DeletionTells
<1>2. folder \in [Folders -> FolderRow \union {NoRow, Gone}]
  BY DEF LibraryInv, TypeOK
<1>3. PICK u \in Owners : /\ RemoveFolder(u, f, preview.version, preview.token)
                          /\ preview # NoRow /\ preview.id = f
  <2>1. PICK u \in Owners, g \in Folders : FolderStep(u, g)
    BY <1>1, RecipeStepFrame DEF Next, Tick, vars
  <2>2. ASSUME NEW name \in FolderNames, CreateFolder(u, g, name)
        PROVE  FALSE
    <3>1. [owner |-> u, name |-> name, version |-> 0] \in FolderRow
      BY MaxVersionAssumption DEF FolderRow, Version
    <3> QED BY <1>1, <1>2, <2>2, <3>1, RowsAssumption DEF CreateFolder
  <2>3. ASSUME NEW name \in FolderNames, NEW v \in Precondition, RenameFolder(u, g, name, v)
        PROVE  FALSE
    <3>1. [folder[g] EXCEPT !.name = name, !.version = @ + 1] \in FolderRow
      BY <2>3 DEF RenameFolder, HasFolder, FolderRow
    <3>2. folder' = [folder EXCEPT ![g] =
                        [folder[g] EXCEPT !.name = name, !.version = @ + 1]]
      BY <2>3 DEF RenameFolder
    <3>3. folder'[f] = folder[f] \/ folder'[f] \in FolderRow
      BY <1>2, <3>1, <3>2
    <3> QED BY <1>1, <3>3, RowsAssumption
  <2>4. /\ preview # NoRow /\ preview.id = g
        /\ RemoveFolder(u, g, preview.version, preview.token)
    BY <1>1, <2>1, <2>2, <2>3 DEF FolderStep, AddCocktails, DeletionPreview
  <2>5. g = f
    BY <1>1, <1>2, <2>4 DEF RemoveFolder
  <2> QED BY <2>4, <2>5
<1>4. /\ folder[f] \in FolderRow /\ preview.token = MembershipToken(u, f)
      /\ folder[f].version = preview.version
  BY <1>3 DEF RemoveFolder, HasFolder, VersionMatches
<1>5. preview.name = folder[f].name
  BY <1>3, <1>4 DEF PreviewTells
<1>6. \A c \in Recipes : recipe[c] # NoRow => Good(c, recipe[c])
  BY RowsAreGood
<1>7. Affected(u, f) = { c \in Recipes : recipe[c] # NoRow /\ f \in recipe[c].links }
  BY <1>3, <1>6, NullsAssumption
  DEF Affected, HasRecipe, Good, ColumnAgrees, AtHome, HasFolder, RemoveFolder
<1>8. ASSUME NEW c \in DOMAIN preview.shown
      PROVE  c \in Affected(u, f) /\ preview.shown[c] = recipe[c].links
  <2>1. PICK v \in Version :
           /\ <<c, v>> \in preview.token
           /\ recipe[c].organizationVersion = v => recipe[c].links = preview.shown[c]
    BY <1>3, <1>8 DEF PreviewTells
  <2>2. c \in Affected(u, f) /\ v = recipe[c].organizationVersion
    BY <1>4, <2>1 DEF MembershipToken
  <2> QED BY <2>1, <2>2
<1>9. Affected(u, f) \subseteq DOMAIN preview.shown
  <2>1. SUFFICES ASSUME NEW c \in Affected(u, f)
                 PROVE  c \in DOMAIN preview.shown
    OBVIOUS
  <2>2. <<c, recipe[c].organizationVersion>> \in preview.token
    BY <1>4 DEF MembershipToken
  <2> QED BY <1>3, <2>2 DEF PreviewTells
<1> QED BY <1>5, <1>7, <1>8, <1>9

\* A confirmed deletion deletes exactly what its preview showed.
THEOREM DeletionsMatchPreviews == Spec => DeletionMatchesPreview
<1>1. Init => LibraryInv /\ PreviewTells
  BY InitEstablishes DEF Init, PreviewTells
<1>2. LibraryInv /\ PreviewTells /\ [Next]_vars => (LibraryInv /\ PreviewTells)'
  BY NextPreserves, PreviewKeepsTelling
<1>3. LibraryInv /\ PreviewTells /\ [Next]_vars => [DeletionTells]_vars
  BY DeletionsTell
<1>4. [][DeletionTells]_vars => DeletionMatchesPreview
  BY DEF DeletionTells, DeletionMatchesPreview
<1> QED BY <1>1, <1>2, <1>3, <1>4, PTL DEF Spec

\* The legacy column agrees with the links of every recipe, in any library.
THEOREM LegacyColumnHolds == Spec => []LegacyColumnAgrees
BY LibrarySafe, PTL

\* Links lead to existing folders of the owner of the recipe, in any library.
THEOREM LinksNeverDangle == Spec => []LinksStayAtHome
BY LibrarySafe, PTL

\* Every row keeps its type; in particular versions stay within their columns.
THEOREM LibraryTypes == Spec => []TypeOK
BY LibrarySafe, PTL
=============================================================================
