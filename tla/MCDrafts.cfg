SPECIFICATION Spec
CONSTANTS
    Owners <- MCOwners
    Personal <- MCPersonal
    Keys = {"edit", "organize"}
    MaxEntries = 2
    MaxVersion = 2
    MaxAccess = 1
    MaxForms = 1
    StorageFaults = TRUE
INVARIANTS DraftsStayHome PurgedNeverComesBack SavesNameTheirBase
PROPERTIES ImplementsVault
