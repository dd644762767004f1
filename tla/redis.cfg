\* One call over Redis against two writes of other clients: pages of two for a
\* DeleteAll, of one and three for a GetAll, and a limit above what a page holds;
\* any command may fail.
SPECIFICATION FairSpec
INVARIANTS TypeOK ListingExact ReportHonest DeleteAllDeletes NamespaceCleared
PROPERTIES DeletesReturn
\* Redis is idle once the calls have returned and the writes are spent.
CHECK_DEADLOCK FALSE
CONSTANTS
    Callers = {c1}
    Ids = {1, 2, 3}
    Operations = {"getAll", "deleteAll", "deleteNamespace"}
    Limits = {0, 1, 4}
    BatchLimit = 2
    RedisMaxSearchResults = 3
    Rejections = {TRUE, FALSE}
    Faults = TRUE
    Cluster = FALSE
    MaxWrites = 2
    MaxListed = 5
    MaxRepeated = 1
