SPECIFICATION WorkspaceSpec
CONSTANTS
    alice = alice
    bob = bob
    aliceHome = aliceHome
    bobHome = bobHome
    bar = bar
    pub = pub
    NoUser = NoUser
    Owners <- MCOwners
    Personal <- MCPersonal
    Users <- MCUsers
    Home <- MCHome
    Keys = {"create"}
    MaxEntries = 1
    MaxVersion = 1
    MaxAccess = 1
    MaxForms = 1
    StorageFaults = FALSE
SYMMETRY MCSymmetry
INVARIANTS ShownIsServed
PROPERTIES OnlyTheLastChoiceOpens AwaitedAnswersKeepTheirContext
