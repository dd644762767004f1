\* A write and the eviction of the entry it replaces, in flight together.
SPECIFICATION Spec
INVARIANTS VisibleAfterWait
SYMMETRY CallSymmetry
\* The cache stops when its callers are done.
CHECK_DEADLOCK FALSE
CONSTANTS
    c1 = c1  c2 = c2  c3 = c3  r1 = r1
    qa = qa  qb = qb  qx = qx  qc = qc
    k1 = k1  k2 = k2  faq = faq  order = order  complaint = complaint
    Calls = {c1, c2}
    Queries = {qa}
    RequestIds = {c1, c2}
    RequestIdOf <- OwnRequestIds
    Keys = {k1, k2}
    KeyOf <- MCKeyOf
    BucketOf <- MCBucketOf
    Similar <- MCSimilar
    Embeddable = {qa}
    Intents = {faq, order, complaint}
    IntentOf <- MCIntentOf
    Complaint = complaint
    StreamQueries = {}
    StoreForms <- ResponseForms
    Modes = {"direct"}
    NoStores = {FALSE}
    TTLs = {1}
    StateMaxAge = 1
    AddMode = "merge"
    DeletesWait = TRUE
    RequiresVectors = FALSE
    Faults = FALSE
    Admins = {}
    Reporters = {}
    Waiters = {w1}
    Closers = {}
    MaxNow = 2
    MaxStores = 1
    None = None
    NoVec = NoVec
    Placeholder = Placeholder
