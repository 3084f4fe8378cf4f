SPECIFICATION Spec
CONSTANTS
    alice = alice
    bob = bob
    c1 = c1
    c2 = c2
    f1 = f1
    f2 = f2
    neat = neat
    long = long
    tag = tag
    sour = sour
    flip = flip
    cellar = cellar
    shelf = shelf
    NoVersion = NoVersion
    NoRow = NoRow
    Gone = Gone
    NoFolder = NoFolder
    NoTime = NoTime
    Owners = {alice, bob}
    Recipes = {c1}
    Folders = {f1, f2}
    Slugs = {sour}
    Contents = {neat, long}
    Tags = {}
    FolderNames = {cellar, shelf}
    MaxVersion = 3
    MaxTime = 1
    Retention = 1
SYMMETRY Symmetry
CHECK_DEADLOCK FALSE
INVARIANTS TrashKeepsRecipe LegacyColumnAgrees 
PROPERTIES VersionsDateRecipes DeletionMatchesPreview
