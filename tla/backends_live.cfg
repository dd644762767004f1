\* The same over two entries, with servers that answer every command.
SPECIFICATION FairSpec
PROPERTIES CallsReturn
\* The clients stop when their calls are spent.
CHECK_DEADLOCK FALSE
CONSTANTS
    Callers = {c1, c2}
    Names = {whole, ns}
    Default = whole
    Ids = {1, 2}
    Operations = {"add", "delete", "getAll", "deleteAll", "createNamespace",
                  "deleteNamespace", "close"}
    Limits = {0, 2}
    DefaultLimit = 1
    ServerPage = 1
    Dimensions = {1, 2}
    Faults = FALSE
    MaxCalls = 2
    MaxListed = 5
    MaxConns = 3
    NamedVectors = NamedVectors
    None = None
