SPECIFICATION BatchSpec
CONSTANTS
    Slugs = {"gin", "lime"}
    Names = {"sour", "flip"}
    Nothing = Nothing
    Handlers = {h1, h2}
    Kinds = {"PERSONAL", "SHARED"}
    Requests <- MCRequests
    MaxCatalogRetries = 2
    MaxVersion = 1
    MaxAccess = 1
    Capacity = 20
    Samples <- MCSamples
    Parameters <- MCParameters
    Keys = {"k1"}
INVARIANTS ConflictsAreReal PlansAreAsPreviewed UnflaggedPlansAreCurrent CalculationsAreExact
PROPERTIES ImplementsRecipeBook RequestsAreAnswered
