SPECIFICATION Spec
CONSTANTS
    Files <- MCFiles
    Probes <- MCProbes
    InitSize = 30000
INVARIANTS
    TypeOK
    CellsOwned
    LookupExact
PROPERTIES
    GroupsFixed
    BuildEnds
