\* Requests of three intents that share one request ID, with two feedback reports,
\* streams, format mismatches and an invalidation, over Qdrant (Add replaces, a
\* delete is applied later); any step may fail.
SPECIFICATION Spec
INVARIANTS  HitsConsumed StatesAccounted InvalidatedGone
SYMMETRY RequestSymmetry
\* The cache stops when its callers are done.
CHECK_DEADLOCK FALSE
CONSTANTS
    c1 = c1  c2 = c2  c3 = c3  r1 = r1
    qa = qa  qb = qb  qx = qx  qc = qc
    k1 = k1  k2 = k2  faq = faq  order = order  complaint = complaint
    Calls = {c1, c2, c3}
    Queries = {qa, qb, qc}
    RequestIds = {r1}
    RequestIdOf <- OneRequestId
    Keys = {k1}
    KeyOf <- MCKeyOf
    BucketOf <- MCBucketOf
    Similar <- SimilarToFirst
    Embeddable = {qa, qb, qc}
    Intents = {faq, order, complaint}
    IntentOf <- MCIntentOf
    Complaint = complaint
    StreamQueries = {qc}
    StoreForms <- MixedForms
    Modes = {"both"}
    NoStores = {FALSE}
    TTLs = {1}
    StateMaxAge = 1
    AddMode = "upsert"
    DeletesWait = FALSE
    RequiresVectors = TRUE
    Faults = TRUE
    Admins = {a1}
    Reporters = {f1, f2}
    Waiters = {}
    Closers = {}
    MaxNow = 2
    MaxStores = 1
    None = None
    NoVec = NoVec
    Placeholder = Placeholder
