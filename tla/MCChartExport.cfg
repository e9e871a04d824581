SPECIFICATION Spec
CONSTANTS
    a1 = a1  a2 = a2  a3 = a3  a4 = a4  b1 = b1  b2 = b2
    Runs = {a1, a2, a3, a4, b1, b2}
    None = None
    ScenarioOf <- MCScenarioOf
    ConfigOf <- MCConfigOf
    FamilyOf <- MCFamilyOf
    Profiles <- MCProfiles
    Requests <- MCRequests
    InitialFolders <- MCInitialFolders
    MaxCommands = 2
    MaxFaults = 1
    MaxImports = 1
INVARIANT TypeOK
INVARIANT DoneIsAsAsked
INVARIANT FreshUnlessSkipping
PROPERTY ObsoleteGoesLast
PROPERTY ImplementsFolder
PROPERTY ExportConverges
CHECK_DEADLOCK FALSE
