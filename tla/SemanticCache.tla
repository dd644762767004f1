---------------------------- MODULE SemanticCache -----------------------------
(* The request path of package cache: Lookup (direct search, then semantic    *)
(* search), the MissHandle whose Store calls write back in a goroutine, lazy  *)
(* eviction of expired entries, invalidation, feedback, WaitForPendingOps and *)
(* Close, over one shared vector store.                                       *)
(*                                                                            *)
(* A process is one call of Lookup, with the Store calls made on the handle   *)
(* it returned.  Every call of the vector store or of the embedder, every     *)
(* goroutine and every sync.Map operation that another goroutine can overtake *)
(* is a step of its own; the code between two of those steps is one step.     *)
(*                                                                            *)
(* A query stands for a class of requests with equal generateDirectCacheID,   *)
(* so the direct ID of a query is the query itself: two requests collide only *)
(* if xxhash or SHA-1 does.  A cache key or a bucket stands for the strings    *)
(* that the server's filters do not tell apart: Redis tags ignore case and    *)
(* split at commas, Weaviate compares words (CachedEntry has the strings).    *)
EXTENDS Integers, FiniteSets, Sequences

CONSTANTS
    Calls,        \* Lookup calls
    Queries,      \* request classes, also their direct cache IDs
    RequestIds,   \* request IDs, also the storage IDs of semantic-only calls
    RequestIdOf,  \* the request ID each call passes
    Keys, KeyOf,  \* cache keys, as the server tells them apart, and each query's
    BucketOf,     \* params_hash with the provider and model filters, likewise
    Similar,      \* <<asked, embedded>>: may score at or above the threshold
    Embeddable,   \* queries with an embedder and not of the embedding type
    Intents, IntentOf, Complaint, \* detectIntent; Complaint skips semantic
    StreamQueries, \* queries of a streaming request type
    StoreForms,   \* <<query, form>>: Store ("response") or StoreStream ("chunks")
    Modes,        \* LookupOptions.CacheType: "both" stands for ""
    NoStores,     \* values of LookupOptions.NoStore
    TTLs,         \* effective lifetimes in clock units
    StateMaxAge,  \* cacheStateMaxAge in clock units
    AddMode,      \* what the store's Add does to an existing ID
    DeletesWait,  \* FALSE: the store's deletes return before they are applied
    RequiresVectors, \* VectorStore.RequiresVectors
    Faults,       \* TRUE: any call of the store or the embedder may fail
    Admins,       \* callers of Invalidate and InvalidateByID
    Reporters,    \* callers of RecordFeedback
    Waiters,      \* callers of WaitForPendingOps
    Closers,      \* callers of Close
    MaxNow,       \* bound on the clock
    MaxStores,    \* bound on the Store calls made on one handle
    None, NoVec, Placeholder

Ids == Queries \cup RequestIds

ASSUME ConstantsAssumption ==
    /\ RequestIdOf \in [Calls -> RequestIds]
    /\ KeyOf \in [Queries -> Keys]
    /\ IntentOf \in [Queries -> Intents]
    /\ Similar \subseteq Queries \X Queries
    /\ Modes \subseteq {"both", "direct", "semantic"}
    /\ NoStores \subseteq BOOLEAN
    /\ TTLs \subseteq Nat \ {0}
    /\ StateMaxAge \in Nat /\ MaxNow \in Nat /\ MaxStores \in Nat
    /\ AddMode \in {"upsert", "merge", "create"}
    /\ DeletesWait \in BOOLEAN /\ RequiresVectors \in BOOLEAN /\ Faults \in BOOLEAN
    /\ Queries \cap RequestIds = {}
    /\ Queries \cap {NoVec, Placeholder} = {}
    /\ None \notin Ids \cup Keys \cup Intents
    /\ Waiters \cap Closers = {}

VARIABLES
    now,         \* wall clock
    store,       \* the namespace of the vector store: Ids -> entry or None
    doomed,      \* IDs whose delete the store has accepted and not applied
    pc,          \* progress of each Lookup
    req,         \* its request and options
    found,       \* the search result it is working on, its answer once pc = "hit"
    embedding,   \* state.Embeddings
    stores,      \* how many Store calls its handle has taken
    cacheStates, \* c.cacheStates: request ID -> CreatedAt or None
    hitIntents,  \* c.hitIntents: cache ID -> intent or None
    hits,        \* history: the intents of the semantic hits on each entry
    tasks,       \* goroutines that write or evict an entry
    writersWg,   \* the counter of c.writersWg
    drain,       \* progress of each WaitForPendingOps and Close
    reapers,     \* running cleanup loops
    stopped,     \* c.stopCh is closed
    admin,       \* progress of each Invalidate
    report,      \* progress of each RecordFeedback
    outcomes,    \* history: outcomes the threshold manager has counted
    given,       \* history: answers handed to Store
    awaited      \* history: the goroutines in flight when a drain began

callVars  == <<pc, req, found, embedding>>
stateVars == <<cacheStates, hitIntents, hits>>
taskVars  == <<tasks, writersWg>>
drainVars == <<drain, reapers, stopped, awaited>>
feedVars  == <<report, outcomes>>
giveVars  == <<stores, given>>
vars == <<now, store, doomed, callVars, stateVars, taskVars, drainVars, admin, feedVars, giveVars>>

Forms   == {"response", "chunks"}
Vectors == Queries \cup {NoVec, Placeholder}
Answers == [q: Queries, by: Calls, n: 1..MaxStores, exp: Nat, form: Forms]
Entries == [answer: Answers, vec: Vectors]
Requests == [q: Queries, mode: Modes, noStore: NoStores, ttl: TTLs]
Results == [id: Ids, entry: Entries, kind: {"direct", "semantic"}]
AddTasks == [op: {"add"}, by: Calls, n: 1..MaxStores, id: Ids, entry: Entries]
EvictTasks == [op: {"evict"}, by: Calls, kind: {"direct", "semantic"}, id: Ids]

searching == {"direct", "directBuild", "embed", "nearest", "nearestBuild"}
Drainers == Waiters \cup Closers

-------------------------------------------------------------------------------
(* The helpers of the lookup path.                                            *)

DoDirect(r) == r.mode # "semantic"

CanSemantic(r) ==
    /\ r.mode # "direct"
    /\ r.q \in Embeddable
    /\ IntentOf[r.q] # Complaint

\* Plausible bug: the cache key is left out of the hashed ID.
DirectID_NoKey(q) == CHOOSE p \in Queries : BucketOf[p] = BucketOf[q]

\* generateDirectCacheID, injective on queries by their definition.
DirectID(q) == q

\* Plausible bug: the fallback to the request ID is forgotten.
StorageID_NoFallback(c) == IF DoDirect(req[c]) THEN DirectID(req[c].q) ELSE None

\* storageID: the direct ID when the direct path ran, else the request ID.
StorageID(c) == IF DoDirect(req[c]) THEN DirectID(req[c].q) ELSE RequestIdOf[c]

\* The vector a miss hands to Add: the query's own, or the placeholder on the
\* stores that need one.
MissVector(c) ==
    IF embedding[c] = NoVec /\ RequiresVectors THEN Placeholder ELSE embedding[c]

Expired(e) == e.answer.exp < now

\* A stored chunk list answers streams only; the response field of a chunk
\* entry is present and empty, so a non-streaming lookup takes it for an answer.
Replayable(q, e) == q \in StreamQueries => e.answer.form = "chunks"

\* Plausible bug: the cache_key filter is forgotten.
Matches_NoKey(q, e) == BucketOf[e.answer.q] = BucketOf[q] /\ <<q, e.vec>> \in Similar

\* The metadata filters of the semantic search, as far as the server tells the
\* strings apart, and a vector near enough.
Matches(q, e) ==
    /\ KeyOf[e.answer.q] = KeyOf[q]
    /\ BucketOf[e.answer.q] = BucketOf[q]
    /\ <<q, e.vec>> \in Similar

\* The last lines of a search that found nothing to serve: the semantic search
\* if it is wanted and still to come, otherwise the miss.
AfterDirect(c) == IF CanSemantic(req[c]) THEN "embed" ELSE "miss"

\* Plausible bug: only writers are added to the wait group, not evictions,
\* though every goroutine ends in Done.
Spawn_AddsOnly(t) ==
    /\ tasks' = tasks \cup {t}
    /\ writersWg' = IF t.op = "add" THEN writersWg + 1 ELSE writersWg

\* writersWg.Add(1) and the go statement.
Spawn(t) == tasks' = tasks \cup {t} /\ writersWg' = writersWg + 1

-------------------------------------------------------------------------------
(* Lookup                                                                     *)

\* No cache key: nothing is recorded but a metric.  A conversation that is too
\* long: the state just created for the request ID is dropped again.
LookupSkipped(c) ==
    /\ pc[c] = "new"
    /\ pc' = [pc EXCEPT ![c] = "skipped"]
    /\ \/ UNCHANGED cacheStates
       \/ cacheStates' = [cacheStates EXCEPT ![RequestIdOf[c]] = None]
    /\ UNCHANGED <<now, store, doomed, req, found, embedding, hitIntents, hits, taskVars,
                   drainVars, admin, feedVars, giveVars>>

Lookup(c) ==
    /\ pc[c] = "new"
    /\ \E r \in Requests :
          /\ req' = [req EXCEPT ![c] = r]
          /\ pc' = [pc EXCEPT ![c] = IF DoDirect(r) THEN "direct"
                                     ELSE IF CanSemantic(r) THEN "embed" ELSE "miss"]
    /\ cacheStates' = [cacheStates EXCEPT ![RequestIdOf[c]] = now]
    /\ UNCHANGED <<now, store, doomed, found, embedding, hitIntents, hits, taskVars,
                   drainVars, admin, feedVars, giveVars>>

\* performDirectSearch up to the reply of GetChunk; a failure is logged and
\* the lookup goes on as after a miss.
performDirectSearch(c) ==
    /\ pc[c] = "direct"
    /\ LET id == DirectID(req[c].q)
       IN \/ /\ store[id] # None
             /\ found' = [found EXCEPT ![c] =
                   [id |-> id, entry |-> store[id], kind |-> "direct"]]
             /\ pc' = [pc EXCEPT ![c] = "directBuild"]
          \/ /\ store[id] = None \/ Faults
             /\ pc' = [pc EXCEPT ![c] = AfterDirect(c)]
             /\ UNCHANGED found
    /\ UNCHANGED <<now, store, doomed, req, embedding, stateVars, taskVars, drainVars,
                   admin, feedVars, giveVars>>

\* performSemanticSearch up to the reply of Embed.
Embed(c) ==
    /\ pc[c] = "embed"
    /\ \/ /\ embedding' = [embedding EXCEPT ![c] = req[c].q]
          /\ pc' = [pc EXCEPT ![c] = "nearest"]
       \/ /\ Faults
          /\ pc' = [pc EXCEPT ![c] = "miss"]
          /\ UNCHANGED embedding
    /\ UNCHANGED <<now, store, doomed, req, found, stateVars, taskVars, drainVars,
                   admin, feedVars, giveVars>>

\* The reply of GetNearest.  The threshold in force (the caller's or the
\* adaptive one) and the index decide which match comes first, if any does.
performSemanticSearch(c) ==
    /\ pc[c] = "nearest"
    /\ \/ \E id \in Ids :
             /\ store[id] # None
             /\ Matches(req[c].q, store[id])
             /\ found' = [found EXCEPT ![c] =
                   [id |-> id, entry |-> store[id], kind |-> "semantic"]]
             /\ pc' = [pc EXCEPT ![c] = "nearestBuild"]
       \/ pc' = [pc EXCEPT ![c] = "miss"] /\ UNCHANGED found
    /\ UNCHANGED <<now, store, doomed, req, embedding, stateVars, taskVars, drainVars,
                   admin, feedVars, giveVars>>

(* buildResponseFromResult on the search result the call holds.               *)

\* Plausible bug: the eviction is skipped once the cache has been closed.
EvictExpired_NotWhenStopped(c, next) ==
    /\ Expired(found[c].entry)
    /\ IF stopped THEN UNCHANGED taskVars
       ELSE Spawn([op |-> "evict", by |-> c, kind |-> found[c].kind, id |-> found[c].id])
    /\ pc' = [pc EXCEPT ![c] = next]
    /\ found' = [found EXCEPT ![c] = None]
    /\ UNCHANGED stateVars

EvictExpired(c, next) ==
    /\ Expired(found[c].entry)
    /\ Spawn([op |-> "evict", by |-> c, kind |-> found[c].kind, id |-> found[c].id])
    /\ pc' = [pc EXCEPT ![c] = next]
    /\ found' = [found EXCEPT ![c] = None]
    /\ UNCHANGED stateVars

FormatMismatch(c, next) ==
    /\ ~ Expired(found[c].entry)
    /\ ~ Replayable(req[c].q, found[c].entry)
    /\ pc' = [pc EXCEPT ![c] = next]
    /\ found' = [found EXCEPT ![c] = None]
    /\ UNCHANGED <<stateVars, taskVars>>

\* history: a semantic hit, in order.
HitCounted(c) ==
    hits' = IF found[c].kind = "semantic"
            THEN [hits EXCEPT ![found[c].id] = Append(@, IntentOf[req[c].q])] ELSE hits

\* Plausible bug: every hit is remembered, and none clears its request's state.
Replay_AnyKind(c) ==
    /\ ~ Expired(found[c].entry)
    /\ Replayable(req[c].q, found[c].entry)
    /\ pc' = [pc EXCEPT ![c] = "hit"]
    /\ hitIntents' = [hitIntents EXCEPT ![found[c].id] = IntentOf[req[c].q]]
    /\ HitCounted(c)
    /\ UNCHANGED <<cacheStates, found, taskVars>>

\* Plausible bug: LoadOrStore keeps the intent of an earlier hit.
Replay_KeepsFirst(c) ==
    /\ ~ Expired(found[c].entry)
    /\ Replayable(req[c].q, found[c].entry)
    /\ pc' = [pc EXCEPT ![c] = "hit"]
    /\ hitIntents' = IF found[c].kind = "semantic" /\ hitIntents[found[c].id] = None
                     THEN [hitIntents EXCEPT ![found[c].id] = IntentOf[req[c].q]]
                     ELSE hitIntents
    /\ HitCounted(c)
    /\ cacheStates' = [cacheStates EXCEPT ![RequestIdOf[c]] = None]
    /\ UNCHANGED <<found, taskVars>>

Replay(c) ==
    /\ ~ Expired(found[c].entry)
    /\ Replayable(req[c].q, found[c].entry)
    /\ pc' = [pc EXCEPT ![c] = "hit"]
    /\ hitIntents' = IF found[c].kind = "semantic"
                     THEN [hitIntents EXCEPT ![found[c].id] = IntentOf[req[c].q]]
                     ELSE hitIntents
    /\ HitCounted(c)
    /\ cacheStates' = [cacheStates EXCEPT ![RequestIdOf[c]] = None]
    /\ UNCHANGED <<found, taskVars>>

buildResponseFromResult(c) ==
    /\ \/ pc[c] = "directBuild" /\ (EvictExpired(c, AfterDirect(c)) \/ FormatMismatch(c, AfterDirect(c)) \/ Replay(c))
       \/ pc[c] = "nearestBuild" /\ (EvictExpired(c, "miss") \/ FormatMismatch(c, "miss") \/ Replay(c))
    /\ UNCHANGED <<now, store, doomed, req, embedding, drainVars, admin, feedVars, giveVars>>

-------------------------------------------------------------------------------
(* The write path: Store and StoreStream, with or without token counts.       *)

\* An empty response (or no non-empty chunk) is refused before anything
\* changes, and NoStore makes the call a no-op: neither is a step.
storeResponse(c, form) ==
    /\ pc[c] = "miss" /\ ~ req[c].noStore
    /\ stores[c] < MaxStores
    /\ <<req[c].q, form>> \in StoreForms
    /\ LET n == stores[c] + 1
           a == [q |-> req[c].q, by |-> c, n |-> n, exp |-> now + req[c].ttl, form |-> form]
       IN /\ Spawn([op |-> "add", by |-> c, n |-> n, id |-> StorageID(c),
                    entry |-> [answer |-> a, vec |-> MissVector(c)]])
          /\ stores' = [stores EXCEPT ![c] = n]
          /\ given' = given \cup {a}
    /\ cacheStates' = [cacheStates EXCEPT ![RequestIdOf[c]] = None]
    /\ UNCHANGED <<now, store, doomed, callVars, hitIntents, hits, drainVars, admin, feedVars>>

\* What Add leaves under an ID that holds old (None: nothing).  Qdrant and
\* Pinecone replace the point; Redis sets the hash fields it is given and so
\* keeps an old embedding when there is no new one; Weaviate refuses a taken ID.
Added(old, new) ==
    CASE old = None -> new
      [] old # None /\ AddMode = "upsert" -> new
      [] old # None /\ AddMode = "create" -> old
      [] old # None /\ AddMode = "merge" ->
            [new EXCEPT !.vec = IF new.vec = NoVec THEN old.vec ELSE new.vec]

\* A delete: the entry is gone when it returns or, on Qdrant, which is not asked
\* to wait, only marked; the mark takes effect later.
Remove(id) ==
    IF DeletesWait
    THEN store' = [store EXCEPT ![id] = None] /\ UNCHANGED doomed
    ELSE doomed' = doomed \cup {id} /\ UNCHANGED store

\* The store applies a delete it has accepted, whichever.
ApplyDelete ==
    /\ \E id \in doomed :
          /\ store' = [store EXCEPT ![id] = None]
          /\ doomed' = doomed \ {id}
    /\ UNCHANGED <<now, callVars, stateVars, taskVars, drainVars, admin, feedVars, giveVars>>

\* An Add is applied after the deletes accepted before it, and waited for.
Write(id, entry) ==
    /\ store' = [store EXCEPT ![id] =
                    Added(IF id \in doomed THEN None ELSE store[id], entry)]
    /\ doomed' = doomed \ {id}

\* Plausible bug: any goroutine that ends wakes every Wait.
TaskDone_WakesAny(t) ==
    /\ tasks' = tasks \ {t}
    /\ writersWg' = writersWg - 1
    /\ drain' = [d \in Drainers |->
                    IF drain[d] = "waiting" THEN "woken" ELSE drain[d]]

\* Done, the deferred last act of the goroutine, wakes every Wait at zero.
TaskDone(t) ==
    /\ tasks' = tasks \ {t}
    /\ writersWg' = writersWg - 1
    /\ drain' = [d \in Drainers |->
                    IF writersWg = 1 /\ drain[d] = "waiting" THEN "woken" ELSE drain[d]]

\* The body of a goroutine.  A failure is logged; nothing retries.
FinishTask(t) ==
    /\ t \in tasks
    /\ \/ t.op = "add" /\ Write(t.id, t.entry)
       \/ t.op = "evict" /\ Remove(t.id)
       \/ Faults /\ UNCHANGED <<store, doomed>>
    /\ TaskDone(t)
    /\ UNCHANGED <<now, callVars, stateVars, reapers, stopped, awaited, admin,
                   feedVars, giveVars>>

-------------------------------------------------------------------------------
(* Invalidation                                                               *)

EntriesOf(key) == {id \in Ids : store[id] # None /\ KeyOf[store[id].answer.q] = key}

\* gone (history): the answers under the key when the call began.
Invalidate(a) ==
    /\ admin[a].pc = "idle"
    /\ \E key \in Keys :
          admin' = [admin EXCEPT ![a] =
              [pc |-> "scan", key |-> key, todo |-> {}, failed |-> FALSE,
               gone |-> {store[id].answer : id \in EntriesOf(key)}]]
    /\ UNCHANGED <<now, store, doomed, callVars, stateVars, taskVars, drainVars, feedVars, giveVars>>

\* DeleteAll first lists the matching IDs ...
ListMatching(a) ==
    /\ admin[a].pc = "scan"
    /\ \/ admin' = [admin EXCEPT ![a].pc = "delete",
                                 ![a].todo = EntriesOf(admin[a].key)]
       \/ Faults /\ admin' = [admin EXCEPT ![a].pc = "error"]
    /\ UNCHANGED <<now, store, doomed, callVars, stateVars, taskVars, drainVars, feedVars, giveVars>>

\* Plausible bug: a delete that fails is not reported.
DeleteMatching_Silent(a) ==
    /\ admin[a].pc = "delete"
    /\ \E id \in admin[a].todo :
          /\ Remove(id) \/ (Faults /\ UNCHANGED <<store, doomed>>)
          /\ admin' = [admin EXCEPT ![a].todo = @ \ {id}]
    /\ UNCHANGED <<now, callVars, stateVars, taskVars, drainVars, feedVars, giveVars>>

\* ... and then deletes them: one by one, or by the filter again, which takes
\* what matches by then too.  An ID that has gone meanwhile is an error to Redis
\* and none to the others.
DeleteMatching(a) ==
    /\ admin[a].pc = "delete"
    /\ \/ \E id \in admin[a].todo \cup EntriesOf(admin[a].key) :
             /\ Remove(id)
             /\ admin' = [admin EXCEPT ![a].todo = @ \ {id}]
       \/ \E id \in admin[a].todo :
             /\ Faults \/ store[id] = None
             /\ admin' = [admin EXCEPT ![a].todo = @ \ {id}, ![a].failed = TRUE]
             /\ UNCHANGED <<store, doomed>>
    /\ UNCHANGED <<now, callVars, stateVars, taskVars, drainVars, feedVars, giveVars>>

\* One delete status in error makes the whole call return an error.
InvalidateReturns(a) ==
    /\ admin[a].pc = "delete" /\ admin[a].todo = {}
    /\ admin' = [admin EXCEPT ![a].pc = IF admin[a].failed THEN "error" ELSE "ok"]
    /\ UNCHANGED <<now, store, doomed, callVars, stateVars, taskVars, drainVars, feedVars, giveVars>>

InvalidateByID(a) ==
    /\ admin[a].pc = "idle"
    /\ \E id \in Ids :
          /\ store[id] # None
          /\ \/ /\ Remove(id)
                /\ admin' = [admin EXCEPT ![a].pc = "ok", ![a].gone = {store[id].answer}]
             \/ /\ Faults /\ UNCHANGED <<store, doomed>>
                /\ admin' = [admin EXCEPT ![a].pc = "error"]
    /\ UNCHANGED <<now, callVars, stateVars, taskVars, drainVars, feedVars, giveVars>>

-------------------------------------------------------------------------------
(* RecordFeedback: Load, count, Delete are three operations on shared state.  *)

\* nth, after (history): how many hits the entry had had, and which reports had
\* returned.
LoadIntent(f) ==
    /\ report[f].pc = "idle"
    /\ \E c \in Calls :
          /\ pc[c] = "hit"
          /\ hitIntents[found[c].id] # None
          /\ report' = [report EXCEPT ![f] =
                [pc |-> "loaded", call |-> c, intent |-> hitIntents[found[c].id],
                 nth |-> Len(hits[found[c].id]),
                 after |-> {g \in Reporters : report[g].pc = "done"}]]
    /\ UNCHANGED <<now, store, doomed, callVars, stateVars, taskVars, drainVars, admin,
                   outcomes, giveVars>>

RecordOutcome(f) ==
    /\ report[f].pc = "loaded"
    /\ report' = [report EXCEPT ![f].pc = "counted"]
    /\ outcomes' = outcomes \cup
          {[by |-> f, call |-> report[f].call, intent |-> report[f].intent]}
    /\ UNCHANGED <<now, store, doomed, callVars, stateVars, taskVars, drainVars, admin, giveVars>>

\* Plausible bug: the hit is not forgotten.
ForgetHit_Keeps(f) ==
    /\ report[f].pc = "counted"
    /\ report' = [report EXCEPT ![f].pc = "done"]
    /\ UNCHANGED <<now, store, doomed, callVars, stateVars, taskVars, drainVars, admin,
                   outcomes, giveVars>>

ForgetHit(f) ==
    /\ report[f].pc = "counted"
    /\ report' = [report EXCEPT ![f].pc = "done"]
    /\ hitIntents' = [hitIntents EXCEPT ![found[report[f].call].id] = None]
    /\ UNCHANGED <<now, store, doomed, callVars, cacheStates, hits, taskVars, drainVars, admin,
                   outcomes, giveVars>>

-------------------------------------------------------------------------------
(* WaitForPendingOps, Close and the cleanup loops.                            *)

\* WaitGroup.Wait returns at once on a zero counter and parks otherwise.
WaitForPendingOps(w) ==
    /\ drain[w] = "idle"
    /\ drain' = [drain EXCEPT ![w] = IF writersWg = 0 THEN "drained" ELSE "waiting"]
    /\ awaited' = [awaited EXCEPT ![w] = tasks]
    /\ UNCHANGED <<reapers, stopped>>

\* The parked Wait runs again some time after Done woke it, and panics
\* ("WaitGroup is reused before previous Wait has returned") when a Store or a
\* lookup has called Add in between.
WaitReturns(d) ==
    /\ drain[d] = "woken"
    /\ drain' = [drain EXCEPT ![d] = IF writersWg = 0 THEN "drained" ELSE "panicked"]
    /\ UNCHANGED <<reapers, stopped, awaited>>

\* closeOnce: the first caller does the work, the others wait for it.
Close(k) ==
    /\ drain[k] = "idle"
    /\ IF stopped
       THEN /\ drain' = [drain EXCEPT ![k] = "blocked"]
            /\ UNCHANGED <<reapers, stopped, awaited>>
       ELSE /\ stopped' = TRUE
            /\ drain' = [drain EXCEPT ![k] = IF writersWg = 0 THEN "drained" ELSE "waiting"]
            /\ awaited' = [awaited EXCEPT ![k] = tasks]
            /\ UNCHANGED reapers

CloseReturns(k) ==
    /\ \/ drain[k] = "drained" /\ reapers = {}
       \/ drain[k] = "blocked" /\ \E j \in Closers : drain[j] \in {"closed", "panicked"}
    /\ drain' = [drain EXCEPT ![k] = "closed"]
    /\ UNCHANGED <<reapers, stopped, awaited>>

\* Plausible bug: the stream loop does not watch stopCh.
LoopStops_StateOnly(l) ==
    /\ stopped
    /\ l \in reapers /\ l = "state"
    /\ reapers' = reapers \ {l}
    /\ UNCHANGED <<drain, stopped, awaited>>

LoopStops(l) ==
    /\ stopped
    /\ l \in reapers
    /\ reapers' = reapers \ {l}
    /\ UNCHANGED <<drain, stopped, awaited>>

DrainFrame == UNCHANGED <<now, store, doomed, callVars, stateVars, taskVars, admin, feedVars, giveVars>>

BeginDrain ==
    /\ (\E w \in Waiters : WaitForPendingOps(w)) \/ (\E k \in Closers : Close(k))
    /\ DrainFrame

EndDrain ==
    /\ (\E d \in Drainers : WaitReturns(d)) \/ (\E k \in Closers : CloseReturns(k)) \/ (\E l \in reapers : LoopStops(l))
    /\ DrainFrame

\* A tick of the state loop.  The stream loop's map is never written to: no
\* code creates an accumulator, so its ticks change nothing.
cleanupOldCacheStates ==
    /\ "state" \in reapers
    /\ cacheStates' = [r \in RequestIds |->
          IF cacheStates[r] # None /\ cacheStates[r] < now - StateMaxAge
          THEN None ELSE cacheStates[r]]
    /\ UNCHANGED <<now, store, doomed, callVars, hitIntents, hits, taskVars, drainVars, admin,
                   feedVars, giveVars>>

Tick ==
    /\ now < MaxNow
    /\ now' = now + 1
    /\ UNCHANGED <<store, doomed, callVars, stateVars, taskVars, drainVars, admin, feedVars, giveVars>>

-------------------------------------------------------------------------------
\* State after New: an empty namespace, both cleanup loops running.
Init ==
    /\ now = 0
    /\ store = [id \in Ids |-> None]
    /\ doomed = {}
    /\ pc = [c \in Calls |-> "new"]
    /\ req = [c \in Calls |-> None]
    /\ found = [c \in Calls |-> None]
    /\ embedding = [c \in Calls |-> NoVec]
    /\ stores = [c \in Calls |-> 0]
    /\ cacheStates = [r \in RequestIds |-> None]
    /\ hitIntents = [id \in Ids |-> None]
    /\ hits = [id \in Ids |-> <<>>]
    /\ tasks = {}
    /\ writersWg = 0
    /\ drain = [d \in Drainers |-> "idle"]
    /\ awaited = [d \in Drainers |-> {}]
    /\ reapers = {"state", "stream"}
    /\ stopped = FALSE
    /\ admin = [a \in Admins |->
          [pc |-> "idle", key |-> None, todo |-> {}, failed |-> FALSE, gone |-> {}]]
    /\ report = [f \in Reporters |->
          [pc |-> "idle", call |-> None, intent |-> None, nth |-> 0, after |-> {}]]
    /\ outcomes = {}
    /\ given = {}

\* What a Lookup does by itself once it has been called.
Search(c) ==
    \/ performDirectSearch(c)
    \/ Embed(c)
    \/ performSemanticSearch(c)
    \/ buildResponseFromResult(c)

Run(c) ==
    \/ LookupSkipped(c)
    \/ Lookup(c)
    \/ Search(c)
    \/ \E form \in Forms : storeResponse(c, form)

Delete(a) == ListMatching(a) \/ DeleteMatching(a) \/ InvalidateReturns(a)

Administer(a) == Invalidate(a) \/ InvalidateByID(a) \/ Delete(a)

RecordFeedback(f) == LoadIntent(f) \/ RecordOutcome(f) \/ ForgetHit(f)

Next ==
    \/ \E c \in Calls : Run(c)
    \/ \E t \in tasks : FinishTask(t)
    \/ ApplyDelete
    \/ \E a \in Admins : Administer(a)
    \/ \E f \in Reporters : RecordFeedback(f)
    \/ BeginDrain \/ EndDrain
    \/ cleanupOldCacheStates
    \/ Tick

Spec == Init /\ [][Next]_vars

\* Store and embedder answer or time out (every call carries a deadline), the
\* store applies what it has accepted, and Go runs every goroutine that can run.
\* Nothing makes a client store an answer, invalidate a key or close the cache.
Fairness ==
    /\ \A c \in Calls : WF_vars(Search(c))
    /\ WF_vars(\E t \in tasks : FinishTask(t))
    /\ WF_vars(ApplyDelete)
    /\ WF_vars(EndDrain)

FairSpec == Spec /\ Fairness

-------------------------------------------------------------------------------
(* Properties                                                                 *)

HitsTyped == hits \in [Ids -> Seq(Intents)]

TypeOK ==
    /\ now \in Nat
    /\ store \in [Ids -> Entries \cup {None}]
    /\ doomed \subseteq Ids /\ (DeletesWait => doomed = {})
    /\ pc \in [Calls -> searching \cup {"new", "skipped", "hit", "miss"}]
    /\ req \in [Calls -> Requests \cup {None}]
    /\ found \in [Calls -> Results \cup {None}]
    /\ embedding \in [Calls -> Vectors]
    /\ stores \in [Calls -> 0..MaxStores]
    /\ cacheStates \in [RequestIds -> Nat \cup {None}]
    /\ hitIntents \in [Ids -> Intents \cup {None}]
    /\ HitsTyped
    /\ tasks \subseteq AddTasks \cup EvictTasks
    /\ writersWg \in Nat
    /\ drain \in [Drainers -> {"idle", "waiting", "woken", "drained", "panicked", "blocked", "closed"}]
    /\ awaited \in [Drainers -> SUBSET (AddTasks \cup EvictTasks)]
    /\ reapers \subseteq {"state", "stream"}
    /\ stopped \in BOOLEAN
    /\ admin \in [Admins -> [pc: {"idle", "scan", "delete", "ok", "error"},
                             key: Keys \cup {None}, todo: SUBSET Ids,
                             failed: BOOLEAN, gone: SUBSET Answers]]
    /\ report \in [Reporters -> [pc: {"idle", "loaded", "counted", "done"},
                                 call: Calls \cup {None}, intent: Intents \cup {None},
                                 nth: Nat, after: SUBSET Reporters]]
    /\ outcomes \subseteq [by: Reporters, call: Calls, intent: Intents]
    /\ given \subseteq Answers

\* Every Lookup keeps the cache's promise, whatever else runs: the served
\* answer was given, belongs to the caller's scope and has not expired.
Promise == INSTANCE CachePromise WITH
    clock <- now,
    served <- [c \in Calls |->
        IF pc[c] = "hit"
        THEN [kind |-> found[c].kind, q |-> req[c].q, answer |-> found[c].entry.answer]
        ELSE None]

KeepsPromise == Promise!PromiseSpec

\* The namespace stays sound (Lookup's storageID and embedding, Add): a direct
\* ID holds an answer to its own request, and no entry is indexed under the
\* vector of a request other than the one it answers.
FiledUnderOwnRequest ==
    \A id \in Ids : store[id] # None =>
        /\ id \in Queries => store[id].answer.q = id
        /\ store[id].vec \in {store[id].answer.q, NoVec, Placeholder}

\* c.writersWg counts exactly the goroutines still to write or to evict, the
\* ones Store starts and the ones a lookup starts: it never goes negative
\* (Done would panic) nor stays up (Close would hang).
WriterAccounting == writersWg = Cardinality(tasks)

\* WaitForPendingOps and Close return only when every write and eviction that
\* was in flight when they were called has ended, however many start meanwhile.
DrainCoversInFlight ==
    \A d \in Drainers : drain[d] \notin {"idle", "waiting"} => awaited[d] \cap tasks = {}

\* A successful Invalidate or InvalidateByID: what the store held under the key
\* (or ID) when it was called is gone for good, though other calls overwrite,
\* evict and rewrite the same IDs between its listing and its deletes.  A store
\* whose deletes do not wait has it still, but no longer than until it applies
\* the delete it has accepted.
InvalidatedGone ==
    \A a \in Admins : admin[a].pc = "ok" =>
        \A id \in Ids : store[id] # None /\ store[id].answer \in admin[a].gone =>
            id \in doomed

\* c.cacheStates holds no state of a request that is over: one left behind
\* belongs to a search in progress or to a miss that nobody stored.
StatesAccounted ==
    \A r \in RequestIds : cacheStates[r] # None =>
        \E c \in Calls : /\ RequestIdOf[c] = r
                         /\ pc[c] \in searching \cup {"miss"}
                         /\ stores[c] = 0

\* RecordFeedback credits the intent of the latest semantic hit on that entry at
\* the time it looked, whoever of the callers it hit reports, and never the
\* intent that skips semantic search.
OutcomesJustified ==
    \A o \in outcomes :
        LET of == hits[found[o.call].id]
            n == report[o.by].nth
        IN o.intent # Complaint /\ n \in DOMAIN of /\ o.intent = of[n]

\* A hit that has been reported on is consumed: of two reports on an entry, one
\* that begins after the other has returned counts a later hit.  (Reports that
\* overlap may count the same one.)
HitsConsumed ==
    \A o, p \in outcomes :
        found[o.call].id = found[p.call].id /\ o.by \in report[p.by].after
        => report[o.by].nth < report[p.by].nth

\* Every Close and every WaitForPendingOps that has been called ends (returns,
\* or panics in Wait), once callers stop storing: the writes end, the cleanup
\* loops see stopCh, and a second Close does not wait for one that panicked.
DrainReturns ==
    /\ \A w \in Waiters : drain[w] # "idle" ~> drain[w] \in {"drained", "panicked"}
    /\ \A k \in Closers : drain[k] # "idle" ~> drain[k] \in {"closed", "panicked"}

\* An expired entry that a lookup has read does not stay in the store (when
\* Delete works), also when the cache is being closed at the same time.
ExpiredEvicted ==
    \A id \in Ids :
        (\E c \in Calls : /\ pc[c] \in {"directBuild", "nearestBuild"}
                          /\ found[c].id = id
                          /\ Expired(found[c].entry))
        ~> (store[id] = None \/ ~ Expired(store[id]))
-------------------------------------------------------------------------------
(* What the documentation says and the code does not do.                      *)

\* cache.go:389 on WaitForPendingOps: it "blocks until all in-flight cache-write
\* goroutines complete"; that is, it returns then, and so does Close.
WaitReturnsNormally == \A d \in Drainers : drain[d] # "panicked"

\* cache.go:389 on WaitForPendingOps: "ensure entries are visible before
\* asserting cache hits".  Without invalidation, an answer whose write was
\* awaited is in the store until it expires, so identical requests get it.
VisibleAfterWait ==
    \A w \in Waiters : drain[w] = "drained" =>
        \A t \in awaited[w] :
            t.op = "add" /\ t.entry.answer.exp >= now => store[t.id] # None
===============================================================================
