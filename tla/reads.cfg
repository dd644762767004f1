\* Three calls over Redis (Add merges), two cache keys, any step may fail.
SPECIFICATION Spec
INVARIANTS TypeOK FiledUnderOwnRequest
PROPERTIES KeepsPromise
SYMMETRY CallSymmetry
\* The cache stops when its callers are done.
CHECK_DEADLOCK FALSE
CONSTANTS
    c1 = c1  c2 = c2  c3 = c3  r1 = r1
    qa = qa  qb = qb  qx = qx  qc = qc
    k1 = k1  k2 = k2  faq = faq  order = order  complaint = complaint
    Calls = {c1, c2, c3}
    Queries = {qa, qx}
    RequestIds = {c1, c2, c3}
    RequestIdOf <- OwnRequestIds
    Keys = {k1, k2}
    KeyOf <- MCKeyOf
    BucketOf <- MCBucketOf
    Similar <- MCSimilar
    Embeddable = {qa, qx}
    Intents = {faq, order, complaint}
    IntentOf <- MCIntentOf
    Complaint = complaint
    StreamQueries = {}
    StoreForms <- ResponseForms
    Modes = {"both", "semantic"}
    NoStores = {FALSE}
    TTLs = {1}
    StateMaxAge = 1
    AddMode = "merge"
    DeletesWait = TRUE
    RequiresVectors = FALSE
    Faults = TRUE
    Admins = {}
    Reporters = {}
    Waiters = {}
    Closers = {}
    MaxNow = 2
    MaxStores = 1
    None = None
    NoVec = NoVec
    Placeholder = Placeholder
