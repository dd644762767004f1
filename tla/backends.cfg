\* Two calls of two goroutines on one namespace of any backend, any command
\* may fail.  Pages of one and of two among three entries.
SPECIFICATION Spec
INVARIANTS TypeOK WalkComplete WalkRepeats AddVisible
    ReportedDeleted CollectionFits NoneLeaked HeldIsOpen
PROPERTIES KeepsContract
SYMMETRY CallerSymmetry
\* The clients stop when their calls are spent.
CHECK_DEADLOCK FALSE
CONSTANTS
    Callers = {c1, c2}
    Names = {whole, ns}
    Default = whole
    Ids = {1, 2, 3}
    Operations = {"add", "delete", "getAll", "deleteAll", "createNamespace",
                  "deleteNamespace", "close"}
    Limits = {0, 2}
    DefaultLimit = 1
    ServerPage = 2
    Dimensions = {1, 2}
    Faults = TRUE
    MaxCalls = 2
    MaxListed = 5
    MaxConns = 3
    NamedVectors = NamedVectors
    None = None
