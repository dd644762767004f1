\* WaitForPendingOps and two Close calls against writes and evictions, over
\* Qdrant (a delete is applied later), under fairness.
SPECIFICATION FairSpec
INVARIANTS WriterAccounting 
PROPERTIES DrainReturns ExpiredEvicted
\* The cache stops when its callers are done.
CHECK_DEADLOCK FALSE
CONSTANTS
    c1 = c1  c2 = c2  c3 = c3  r1 = r1
    qa = qa  qb = qb  qx = qx  qc = qc
    k1 = k1  k2 = k2  faq = faq  order = order  complaint = complaint
    Calls = {c1, c2}
    Queries = {qa}
    RequestIds = {c1, c2}
    RequestIdOf <- OwnRequestIds
    Keys = {k1, k2}
    KeyOf <- MCKeyOf
    BucketOf <- MCBucketOf
    Similar <- MCSimilar
    Embeddable = {qa}
    Intents = {faq, order, complaint}
    IntentOf <- MCIntentOf
    Complaint = complaint
    StreamQueries = {}
    StoreForms <- ResponseForms
    Modes = {"direct"}
    NoStores = {TRUE, FALSE}
    TTLs = {1}
    StateMaxAge = 1
    AddMode = "upsert"
    DeletesWait = FALSE
    RequiresVectors = FALSE
    Faults = FALSE
    Admins = {}
    Reporters = {}
    Waiters = {w1}
    Closers = {x1, x2}
    MaxNow = 2
    MaxStores = 1
    None = None
    NoVec = NoVec
    Placeholder = Placeholder
