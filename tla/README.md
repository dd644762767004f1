# Formal verification of the semantic cache

This directory holds TLA+ models of the semantic cache for LLM responses in
`src/`, TLC configurations that check them on small instances, and proofs that
the TLA+ proof system checks for every value of the constants.

## The system

`package cache` sits between an application and an LLM. `Lookup` looks for a
stored answer, first under a hash of the request (direct search), then by vector
similarity (semantic search). On a miss it returns a `MissHandle` whose `Store`
or `StoreStream` writes the answer back in a goroutine. The answers live in a
vector store (Redis, Qdrant, Pinecone or Weaviate) shared by all processes.

| component | state | operations | interacts with |
|---|---|---|---|
| Lookup and write-back (`cache.go`, `search.go`, `types.go`) | `writersWg`, `stopCh`, `hitIntents`, the entries in the store | `Lookup`, `Store*`, `Invalidate`, `InvalidateByID`, `RecordFeedback`, `WaitForPendingOps`, `Close` | store, embedder, thresholds, request states |
| Per-request state (`state.go`) | `cacheStates` (a `sync.Map` by request ID), a reaper goroutine | get or create, clear, reap | Lookup, Store, Close |
| Hit replay (`search.go`, `utils.go`) | a channel, a goroutine, the lookup context | judge an entry, replay its chunks | Lookup, the caller |
| Adaptive thresholds (`intent.go`) | a ring of outcomes and a live threshold per intent, a mutex | `Threshold`, `RecordOutcome` | Lookup, RecordFeedback |
| Intent detection (`intent.go`) | none | keywords to an intent | Lookup |
| Request identity (`search.go`, `utils.go`) | none | normalise, hash, filters | Lookup |
| Stream accumulators (`stream.go`) | a `sync.Map` nothing writes to, a reaper | – | Close |
| Vector store contract and backends (`vectorstore/`) | a remote collection; Pinecone a connection cache, Redis a field-type cache | `GetChunk`, `GetNearest`, `GetAll`, `Add`, `Delete`, `DeleteAll` | everything |
| Embedder (`embedding/`) | none | text to vector over HTTP | semantic search |
| Configuration, metrics, logger, `types/` | settings, counters | defaults, JSON forms, counting | – |
| `cmd/gen-eval`, `eval` | – | an offline generator and its tests | – |

What is hard here:

- **Goroutines nobody orders.** A store write and the eviction of an expired
  entry both run after the call that started them has returned, for up to 30 and
  5 seconds, and touch the same IDs as later calls.
- **Checks separated from use.** An entry is fetched, then judged, then served;
  a miss handle fixes its storage ID and vector at lookup time and is used at any
  later time; feedback is Load, count, Delete.
- **Shared maps keyed by something callers choose.** `cacheStates` by request
  ID, `hitIntents` by cache ID.
- **Shutdown.** `Close` and `WaitForPendingOps` wait on a counter that lookups
  and stores go on moving.
- **Partial failure.** Every call of the store or embedder may fail or time out;
  `DeleteAll` deletes one entry after another.
- **Isolation.** Tenants share one namespace; only filters and a hash keep them
apart, and every server compares strings by rules of its own. - **Four servers,
one interface.** A value comes back in another type than it was written in, a page
cursor means something else on each server, and Qdrant applies an update after it
has accepted it. - **Connections shared by callers.** Pinecone's are made under
double-checked locking and closed under the callers that use them.

What makes each part correct is stated as properties below; `PROJECT.json` lists
the hazards, line by line, with the property that covers each or the reason why
none does.

## Modules

| module | models |
|---|---|
| `CachePromise` | what the cache promises to callers of `Lookup`: three actions, `Pass` (time), `Give` (an answer is handed to Store) and `Serve` (a lookup is answered) |
| `SemanticCache`, `MCSemanticCache` | the request path in detail, over one abstract store; small instances of it |
| `SemanticCacheProofs` | its proofs |
| `HitReplay`, `HitReplayProofs` | one hit in detail: judging any entry, the replay goroutine, the channel, the reader, the context; its proofs |
| `AdaptiveThreshold`, `MCAdaptiveThreshold`, `AdaptiveThresholdProofs` | the threshold manager, a small instance, its proofs |
| `RequestKey` | under what a request is cached: normalisation, parameters, request hash, direct ID, embedded text, as functions |
| `CachedEntry`, `MCCachedEntry` | one entry: what a write puts in it, how each backend gives it back, what a lookup of any request makes of it |
| `CachedEntryProofs` | its proofs |
| `VectorStore` | the contract of `store.go`: a namespace is a dictionary, and a call changes it at most once, in one step, as its name says |
| `StoreClients`, `StoreCalls` | what the models of the three server backends share: callers, calls, pages, the server's points |
| `Orders`, `OrdersProofs` | sets of IDs in ascending order and the pages taken from them, sequences filtered and sorted; lemmas about them |
| `QdrantStore`, `WeaviateStore`, `PineconeStore` | each backend's commands |
| `PineconeConnections`, `PineconeConnectionsProofs` | Pinecone's connection cache by itself, and its proofs |
| `VectorStores`, `MCVectorStores`, `VectorStoresProofs` | `NewVectorStore` and a process that calls the store it made from several goroutines; a small instance; the proofs about it and the three backends |
| `RedisStore` | the Redis backend: listing by index pages or by scan, deleting a listed snapshot, namespaces, against other clients |
| `RedisStoreProofs` | its proofs |

`SemanticCache` composes calls, goroutines, feedback, administration and
shutdown; `VectorStores` composes the three backends, and Pinecone's with its
connection cache; `CachedEntry` composes request identity with the backends'
conversions. Between the first and the other two stand `AddMode`, what `Add` does
with an ID in use, and `DeletesWait`, whether an entry is gone when a delete
returns: the two differences of the backends that the interleaving of calls
depends on.

Operators named `X_Something` are plausible bugs in `X`. Nothing refers to them
but the mutation tests listed in `PROJECT.json`: with `X` replaced by one of
them, TLC finds the property it is listed with violated.

### SemanticCache and the code

A process is one call of `Lookup` with the Store calls on its handle; `pc` is how
far it has got. Each call of the store or embedder, each goroutine and each
`sync.Map` operation that another goroutine can overtake is a step of its own.

| action | code |
|---|---|
| `LookupSkipped`, `Lookup` | `Lookup` up to the first search: no cache key, a conversation too long, else a new request state |
| `performDirectSearch`, `Embed`, `performSemanticSearch` | the replies of `GetChunk`, `Embed` and `GetNearest`, or their failure, which the lookup takes for a miss |
| `buildResponseFromResult` (`EvictExpired`, `FormatMismatch`, `Replay`) | the judgement of the fetched entry at the clock of that moment, and `Lookup`'s two hit branches: remembering the intent (semantic only), clearing the state |
| `storeResponse` | `storeResponse` and `storeStreamResponse` up to the `go` statement |
| `FinishTask` | the body of a goroutine: `Add` (`Write`) or `Delete` (`Remove`), or its failure, then `Done` |
| `ApplyDelete` | Qdrant, whose `Delete` and `DeleteAll` set no `Wait`, applies a delete it has accepted: `doomed` has those still to come. An `Add`, which waits, is applied after them |
| `Invalidate`, `ListMatching`, `DeleteMatching`, `InvalidateReturns`, `InvalidateByID` | the listing and the single deletes of `DeleteAll`, and the error if one failed |
| `LoadIntent`, `RecordOutcome`, `ForgetHit` | the three steps of `RecordFeedback` |
| `WaitForPendingOps`, `Close`, `WaitReturns`, `CloseReturns`, `LoopStops` | `WaitGroup.Wait`, `closeOnce`, the two cleanup loops ending. A waiter whose count reached zero is woken at once and returns in a step of its own (`WaitReturns`), where the wait group panics if it is in use again |
| `cleanupOldCacheStates`, `Tick` | the reaper; the clock |

`given`, `outcomes`, `awaited`, `hits` (the intents of the semantic hits on each
entry, in order), the `gone` field of `admin` and the fields `nth` and `after` of
`report` are history: they record what happened for the properties and nothing
else reads them.

The four stores differ, as the cache sees them, in what `Add` does with an ID in
use (`AddMode`): Qdrant and Pinecone replace the point, Redis sets the hash
fields it is given and so keeps an old embedding when none is given, Weaviate
refuses. Qdrant alone returns from a delete before it is applied (`DeletesWait` is
FALSE). `RequiresVectors` says whether a miss without a vector gets a placeholder.

Abstractions, all in one place:

- A query is a class of requests with equal direct cache ID, so distinct classes
  have distinct IDs: xxhash and SHA-1 are taken to be injective.
- A cache key stands for the strings that the server's filters do not tell apart,
  and so does a bucket (`params_hash` with provider and model). On Qdrant and
  Pinecone that is each string by itself; Redis tags ignore case and are split at
  commas, Weaviate compares words, and neither of these is quite an equivalence.
  `KeepsPromise` is isolation up to that; the strings are in `CachedEntry`.
- Params that are the JSON null, which make `Lookup` panic, are in `CachedEntry`
  only.
- The similarity score is a relation `Similar` between the query asked and the
  vector stored. Which match `GetNearest` returns, if any, is left open, so every
  threshold, adaptive or given, is covered. A placeholder vector is similar to
  nothing.
- A call that times out has no effect later: an `Add` whose reply is lost fails
  or succeeds, but does not land after the cache has given up on it.
- Intent detection is a function from queries to intents.
- The conversation-length check and an empty cache key are one nondeterministic
  branch. Metrics and logging are left out.
- `MaxNow` bounds the clock and `MaxStores` the Store calls on one handle.

### HitReplay and the code

Its entry is any combination of an `expires_at`, a chunk list and a response that
a store can return, well-formed or not (`ForeignEntries`), or only those this
cache writes. `SendChunk` and `GiveUp` are the two branches of the `select`, both
possible when both are ready; `LookupReturns` is the deferred `cancel`.

### AdaptiveThreshold and the code

`record` is the ring update, `Accepted` the count over the first `count` slots,
`Nudged` the adjustment. Thresholds are counted in hundredths. The code adds
0.01 in floating point, so a threshold that would land exactly on its bound may
come out just beyond it and be refused: the model allows both. Every call holds
the mutex to its end, so `RecordOutcome` is one step.

### RequestKey, CachedEntry and the code

A text is a sequence of words; `Lower` and `Stripped` say of each word what
`strings.ToLower` and the trimming of punctuation make of it, so that
`normalizeText`, `extractMessageText` and joining by spaces are what they are in
the code. A hash is its argument. The other definitions have the names of the
functions in `search.go` and `utils.go`. Parameters are a function from names to
values: `buildParamsMetadata` overwrites what a caller may have sent as `stream`,
and `Panics` is the assignment to the nil map that the JSON null leaves.

An entry's fields carry the type they are read back in: `RedisField` makes
everything a string, `mapToPayload` keeps it, `WeaviateValue` and
`convertMetadataForStructpb` make integers floats. `Finds` is external: which
stored string an equality filter finds on each server. Qdrant and Pinecone find
the string itself; Redis tags ignore case, Weaviate finds a string by its words.
In the instance a filter on "acme" finds "ACME,eu" on both, and over Redis a
filter on "ACME,eu" finds nothing: the stored tag is split at the comma and the
one asked for is not. `NotUTF8` are strings that no protocol buffer can carry:
Qdrant and Pinecone refuse to add an entry with one (`Sendable`, `AddRefused`),
and `Unfiltered` is Pinecone's query when its filter cannot be built for one,
which is sent without a filter. `historyThreshold` is the configured conversation
limit: 0 is made 3, and a negative one switches the check off (`Limit`,
`TooLong`). A lookup is one step here, as its interleavings are the matter of
`SemanticCache`; whether the entry is near enough is left open.

### The server backends and the code

A step is one command to the server, which carries it out before it answers, but
for Qdrant: an update is accepted (`Accept`), later applied (`ApplyUpdate`), and
only an upsert waits for that, since it alone sets `Wait`.

| action | code |
|---|---|
| `NewVectorStore` | `NewVectorStore` and the constructors, which return a store or an error |
| `*Call` | a method begins; of its arguments those that it uses are chosen |
| `QdrantAdd`, `WeaviateAdd`, `PineconeAdd`; `*Delete` | `Add` and `Delete`; Weaviate refuses an ID it has |
| `*GetAll` | one page; the action repeats as a client would that passes the cursor back |
| `QdrantScroll`, `QdrantDeleteSelected`; `ClassExists`, `BatchDelete`; `DeleteByFilter`, `ListVectors`, `DeleteListed` | the two commands of `DeleteAll`. Without a filter, Qdrant and Pinecone list one page and delete that |
| `CollectionExists`, `GetCollectionInfo`, `CreateCollection`; `WeaviateCreateNamespace`; `SetDimension`, `DescribeIndexStats` | `CreateNamespace`: asking, comparing the dimension (Qdrant only), creating |
| `*DeleteNamespace`, `*Close` | the rest; Qdrant's `Close` of any namespace closes the one client |
| `Connect`, `LookupConnection`, `CreateConnection`, `CloseConnections` | `getNamespaceConnection` before and after it changes from `RLock` to `Lock`; `Close` |
| `Unusable` | a command on a nil connection (a panic) or a closed one (an error) |

Commands fail before they have an effect (`CommandFails`) or after (`Outcome`).
`before` and `touched` are history. A point is told apart by whether the
conditions of a call select it. `sent` is how many of these the backend sends:
`buildQdrantFilter` leaves out the conditions it cannot express (a range over
something that is no number), so `DeleteAll` deletes by a weaker filter ("some")
or, when none is left, as if it had been called without ("none"); the branch is on
the filter built, as in the code. `NamedVectors` stands for a collection whose
vectors are named, which has no dimension to compare. Weaviate's `GetAll` may end
a walk without an error when the reply lacks the class. `MaxCalls`, `MaxListed`
and `MaxConns` bound calls, what a walk collects and connections.

### RedisStore and the code

A step is one command sent to Redis. Redis itself is external: a hash per entry,
of which only "matches the filter" or not is kept, and an index that answers
`FT.SEARCH` in the order the hashes were last written.

| action | code |
|---|---|
| `Call` | `GetAll`, `DeleteAll` or `DeleteNamespace` begins; `Arguments` is the arithmetic of limits and page sizes. A `GetAll` with a limit stands for the walk of a client that passes each cursor back, which is the loop of `getAllWithPagination` with other sizes |
| `SearchPage`, `SearchRefused`, `CommandFails` | one `FT.SEARCH` of `executeSearch` or `getAllMatchingIDs` and its errors |
| `ScanFallback`, `Scan`, `Fetch` | `getAllByScan`: SCAN may report a key twice and is only bound to reach those that stay; `HGETALL` and the filter follow in a step of their own, so a key may be gone by then |
| `DelOne`, `PipelineReplies`, `PipelineFails` | `deleteAllBySnapshot`: the commands of a pipeline run one by one, and Exec may fail after any of them |
| `DeleteNamespace`, `DropScan`, `DropKeys`, `CreateNamespace` | dropping with and without an index; creating |
| `Write` | `Add` and `Delete` of other clients, `MaxWrites` in all, while the call is in progress |

`before`, `touched` and `removed` are history. `MaxListed` and `MaxRepeated` bound
what a call collects; the first is large enough never to stop a `DeleteAll`
(three entries and two writes make five), the second cuts a walk that scans the
same page again and again.

## What TLC checks

| run | instance | properties |
|---|---|---|
| `reads` | three calls, two tenants asking the same, merging Add, any call may fail, clock 0..2, lifetime 1 | `TypeOK`, `FiledUnderOwnRequest`, `KeepsPromise` (refinement of `CachePromise`) |
| `requests` | three calls sharing one request ID, three intents, two of which hit one entry semantically, streams, an invalidator, two feedback reports, replacing Add, deletes applied later, any call may fail | `OutcomesJustified`, `HitsConsumed`, `StatesAccounted`, `InvalidatedGone` |
| `drain` | two direct calls with or without `NoStore`, a `WaitForPendingOps`, two `Close`, replacing Add, deletes applied later, under fairness | `WriterAccounting`, `DrainCoversInFlight`, `DrainReturns`, `ExpiredEvicted` |
| `hitreplay` | any entry of up to three chunks, any reader, under fairness | `ReplayFaithful`, `ReplayEnds` (its `TypeOK` is proved) |
| `threshold` | two buckets, a ring of four, every sequence of outcomes | `TypeOK`, `RingIsRecent`, `WithinDelta`, `NudgesJustified` |
| `entries` | one entry on any backend, sixteen requests, three keys, two configurations, a clock of 0..2 | `HitIsolated`, `DirectHitAlike`, `QuestionNormalized`, `RepeatHits`, `ExpiredNeverServed`, `PayloadIntact`, `HitsReportSavings` |
| `backends` | two callers, two calls of any kind, three entries, pages of one and two, filters sent whole, in part or not at all, two dimensions or named vectors, any command may fail, on each of three backends | `TypeOK`, `WalkComplete`, `WalkRepeats`, `AddVisible`, `ReportedDeleted`, `CollectionFits`, `NoneLeaked`, `HeldIsOpen`, `KeepsContract` (refinement of `VectorStore`) |
| `backends_live` | the same over two entries, no failures, under fairness | `CallsReturn` |
| `redis` | one call of any kind, three entries in any order, two writes by others, pages of one, two and three, any command may fail, under fairness | `TypeOK`, `ListingExact`, `ReportHonest`, `DeleteAllDeletes`, `NamespaceCleared`, `DeletesReturn` |

Why the bounds are enough to be interesting: a clock of three values lets an entry
be written, expire, be read, evicted and written again; three calls are a writer,
a reader that evicts and one that gets the second answer; two tenants and two
paraphrases are what isolation and similarity tell apart; `drain` needs no
semantic search, since an eviction and a write under one ID are what its drains
wait for. A ring of four, judged from three on, wraps after five outcomes and has
rates on both sides of the target. Three entries and pages of two give a full
page, a short one and a batch boundary, and two writes move an entry across an
offset and back. Two calls on a backend are one and the call that gets in its way.
In `requests` both paraphrases may hit the entry of one of them, so that there are
two intents a report could be credited to and two reports on one hit; a complaint
is the third intent, and its streams and answers mismatch in form. The sixteen
requests of `entries` are one question with every variation that should or should
not make another of it (case, punctuation, blocks, a system prompt, a stream,
parameters, one called `stream`, none, null, provider, model, a prompt, an
embedding input) and two conversations on either side of the length limit; two of
the three keys are one to the filters of Redis and Weaviate, and the third is not
UTF-8. What grows with the number of calls is left to the proofs.

`CHECK_DEADLOCK FALSE` stands in the runs of `SemanticCache`, `HitReplay`,
`RedisStore` and `VectorStores` because all four stop when their callers are
done.

**Fairness** (`drain`, `hitreplay`, `redis`, `backends_live`). Weak fairness of
the steps a lookup takes by itself, of the goroutines, of the end of a drain and
of the replay goroutine: every call of a store or embedder carries a deadline, and
Go runs every goroutine that can run. Nothing makes a client store an answer, read
a stream or close the cache, so those steps have none. Writers finish and callers
are finite in number, so the counter that `Wait` watches reaches zero; with
callers that never stop storing the code gives no such guarantee, and a drain that
panics counts as ended (`wait_panic` shows it). `ExpiredEvicted` assumes deletes
that do not fail: a failed eviction is retried only by the next lookup; and that
Qdrant applies what it has accepted. In `redis` and `backends_live` the steps of a
call are fair and its failures are not, so `DeletesReturn` and `CallsReturn` do
not lean on deadlines, which the configuration may leave out; Qdrant is taken to
apply what it has accepted.

`InvalidatedGone` lets an entry stay whose delete the store has accepted and not
yet applied (`doomed`), since Qdrant's deletes do not wait; with `DeletesWait` it
is gone when the call returns. It takes what `DeleteAll` lists in one step. That
is so for up to `BatchLimit` entries on Redis; `DeleteAllDeletes` says what a
longer listing guarantees.

**The contract.** `KeepsContract` is the refinement of `VectorStore` by Qdrant,
Weaviate and Pinecone; the dictionary is the server's points with the accepted
updates applied. What matches is what fulfils the conditions that the backend
sends: the contract promises nothing for those it leaves out. Redis does not
implement it, by design of `deleteAllBySnapshot`: it deletes in as many steps as
there are entries, and by ID, also an entry that has stopped matching since it was
listed. What it promises instead is stated by the properties of `redis`.

Some properties name an exception, and each is something the code does. Nothing is
claimed of the excepted case, so a property that passes does not call it right;
where a document says otherwise, the next section tells it.

- Qdrant's cursor is the last entry of a page and its next page starts there, so
  entries repeat at page boundaries and a walk by pages of one never ends
  (`WalkRepeats`, `CallsReturn`).
- Pinecone has no cursor, and a walk on Weaviate may end without its reply
  (`WalkComplete`).
- Qdrant compares no dimension when the collection cannot be inspected or has
  named vectors, and Weaviate and Pinecone never do (`CollectionFits`).
- A connection may be closed after it was handed out (`HeldIsOpen`).
- Listings that other clients disturb may skip entries over Redis (`ListingExact`,
  `DeleteAllDeletes`).
- Two reports that overlap may count one hit twice (`HitsConsumed` is about
  reports that follow each other), and a report is credited to the latest hit of
  its entry, whichever the caller means (`OutcomesJustified`).
- A semantic hit on Redis or Weaviate may cross keys that the server's filters do
  not tell apart, and one on Pinecone's query without its filter any
  (`HitIsolated`).
- Over Redis token counts are read as zero (`HitsReportSavings`).
- A non-streaming lookup of a stream's entry is given an empty body
  (`PayloadIntact`).
- A request whose params are null is not answered (`RepeatHits`).

## Where code and documentation disagree

Each of these runs checks one sentence of the repository's own documentation, and
TLC shows an execution of the code that contradicts it.

| run | what happens |
|---|---|
| `evict_race` | A lookup finds an expired entry and starts its deletion, misses, and stores the fresh answer under the same ID; the deletion lands last. After `WaitForPendingOps` the fresh answer is gone. |
| `wait_panic` | The last goroutine ends and wakes a waiter; before it runs, another call starts a write. `sync.WaitGroup` panics: it is reused before `Wait` has returned. |
| `stream_cut` | `Lookup` cancels its context when it returns; the replay goroutine may then close the channel before the last chunk. |

Also met while reading, without a run of their own.

*Request path.* `MissHandle.Store` called twice writes twice (`types.go:137` calls
the second a no-op). `RecordFeedback` feeds "the intent that produced the hit"
(`cache.go:408`), but an entry hit under two intents remembers only the later one,
so feedback on the earlier hit moves the wrong threshold. Two concurrent
`RecordFeedback` calls on one hit both count (`cache.go:412` calls a consumed ID a
no-op), and a hit between the Load and the Delete is forgotten. `hitIntents` is
never reaped. `Config.Threshold` is ignored when the caller gives no threshold
(`cache.go:184`, `config.go:36`). A conversation threshold of 0 is documented to
disable the check, and `New` makes it 3; only a negative one disables it. Over
Redis, two semantic-only calls with one request ID, the second with a failed
embedding, pair the second answer with the first vector: `FiledUnderOwnRequest`
has distinct request IDs as its hypothesis. Params that are the JSON null make
`Lookup` panic (`search.go:244`), with its request state left for the reaper.

*Isolation.* `CacheKey` "partitions cache entries" (`types.go:81`). Over Redis and
Weaviate a semantic lookup under one key may be served an entry of another that
differs in case, or that has it as one of the parts between commas (Redis) or as
one of its words (Weaviate); provider and model filters are as loose. On Pinecone a
lookup whose filter cannot be built, since its key is not UTF-8, is logged at Debug
level and answered from the entries of all keys and parameters
(`pinecone.go:186-193`). Over Redis an entry under a key with a comma is never
found semantically by that key. A request without a provider or model skips that
filter and may be served another's answer. "All fields in Params participate"
in the hash (`types.go:71-73`), but for one named `stream`, which is overwritten
(`search.go:244`).

*Entries.* `StoreStream` writes an empty `response`, so a non-streaming lookup of
that entry is a hit with an empty body, not the soft miss `search.go:118`
promises; what keeps this from most callers is that the stream flag is part of the
hash. `RecordCostSaved` runs before the format check, so a lookup that misses can
report savings (`metrics.go:30`), and one that goes on to hit another entry
reports both. Stored token counts let hits report savings (`types.go:174-176`),
but from Redis they come back as strings, which `readIntProperty` reads as 0, so
over Redis no hit reports any. Images are in neither hash nor embedding: two
requests that differ in an image alone share one answer. A prompt and an embedding
input with the same text share a direct ID, the request type not being hashed.
`types.go:40` gives content blocks precedence over text, `extractMessageText` the
text.

*Backends.* Over Redis a `GetAll` whose query is rejected ignores the cursor and
returns the first page again and again; a limit above `RedisMaxSearchResults`
never yields a cursor; a delete by another client between two pages of a listing
moves an entry across the offset, so that `DeleteAll` reports success and leaves
it; and a `DeleteNamespace` overtaken by a `CreateNamespace` forgets the field
types of an index that exists, after which a tag that looks like a number is
searched as a number. Qdrant's `DeleteAll` "removes all points matching the
filter" (`qdrant.go:276`), but conditions it cannot express are left out, so it
deletes more, and when none is left it deletes one page of everything; the cache
itself asks for equality only, which can always be expressed. Without a filter it
stops after the server's first page, as Pinecone's does. Qdrant's `Delete` and
`DeleteAll` return before the points are gone. A Qdrant collection of named
vectors is accepted unchecked, with a Debug line and no warning
(`qdrant.go:48-49`), and what the cache adds to it is refused. Weaviate's `GetAll`
takes a reply without the class for the end of the entries
(`weaviate.go:151-160`). `Close` of one Qdrant namespace closes the client of all.
Weaviate says it requires vectors (`weaviate.go:315`), `store.go:104` that it does
not.

## What is proved

TLAPS checks these for any number of calls, requests, tenants, entries, waiters
and administrators, any bounds and page sizes, any `AddMode`, with deletes that
wait or not, with or without failures. They rest on the named assumptions of the
modules and nothing else:

| proofs of | assume |
|---|---|
| `SemanticCache` | `ConstantsAssumption`: types; request IDs, direct IDs and `None` are apart |
| `HitReplay` | `ReplayAssumption`: the number of chunks is a positive bound |
| `AdaptiveThreshold` | `ThresholdAssumption`: types; no more samples are asked for than the ring holds |
| `CachedEntry` | `RequestKeyAssumption`, `CachedEntryAssumption` (types; conversation limits are integers; Qdrant and Pinecone find a string by itself alone), `AnswersAssumption` (an answer has content) |
| `PineconeConnections` | `ClientsAssumption`, `ConnectionsAssumption`: the default namespace is one of them; a connection can be made |
| `VectorStores` | the last two and `CallsAssumption`: types; IDs are numbers, finitely many; page limits of the server are positive; something can be called, with some limit and some dimension; `None` and `NamedVectors` are no dimensions |
| `RedisStore` | `ConstantsAssumption`: types; IDs are numbers, finitely many; pages and batches are not empty; no call is named as the other clients are |

IDs are ordered because Qdrant's and Weaviate's cursors follow an order of IDs,
and because a scan over Redis is sorted; which one it is does not matter.

| theorem | says |
|---|---|
| `TypeCorrect` | `Spec => []TypeOK` |
| `WriterAccountingHolds` | the wait group counts exactly the goroutines in flight |
| `DrainCoversInFlightHolds` | a drain returns only when what it found in flight has ended |
| `FiledUnderOwnRequestHolds` | direct IDs hold answers to their own request, vectors belong to the request answered |
| `KeepsPromiseHolds` | `SemanticCache` implements `CachePromise` |
| `InvalidatedGoneHolds` | what a successful invalidation found never comes back: it is gone, or the store has accepted a delete of it that it has still to apply |
| `OutcomesJustifiedHolds` | feedback is credited to the intent of the latest hit on the entry when the report looked |
| `HitsConsumedHolds` | of two reports on an entry, one that begins after the other has returned counts a later hit |
| `StatesAccountedHolds` | request states belong to searches in progress or unstored misses |
| `AdaptiveThresholdProofs!TypeCorrect`, `WithinDeltaHolds` | rings and thresholds stay within bounds, for any ring size, step and delta |
| `RingIsRecentHolds` | the ring holds the last outcomes, however often it has wrapped around |
| `NudgesJustifiedHolds` | a threshold moves only when the recent outcomes of its own intent say so (an action property) |
| `HitReplayProofs!TypeCorrect`, `ReplayFaithfulHolds` | what is read and buffered are the first chunks of the stream, in order, for a stream of any length |
| `HitIsolatedHolds` | a hit has the parameters and the kind of delivery asked for; by ID, or by a filter of exact strings, also the key, the provider and the model; nothing is said of Pinecone's query without its filter |
| `ExpiredNeverServedHolds`, `PayloadIntactHolds` | nothing is served after its time; what is served in the form it was stored in is what was stored, through any backend's conversion, and no stream is made of a response |
| `RepeatHitsHolds`, `HitsReportSavingsHolds` | the same question has a direct hit again; a hit reports its entry's tokens on every backend but Redis, of which nothing is said |
| `ConnTypesHold`, `NoneLeakedHolds`, `HeldIsOpenHolds` | the connection cache: one open connection per namespace, known to the cache, and no caller uses a closed or foreign one unless a `Close` came after it asked |
| `StoreTypesHold`, `StoreLeaksNone` | types of the process and its servers; the two invariants above among all calls of a store |
| `ContractKept` | Qdrant, Weaviate and Pinecone implement the contract `VectorStore`, for the conditions they send |
| `WalkCompleteHolds`, `WalkRepeatsHolds` | a walk with cursors misses no entry that others leave alone, and repeats one only on Qdrant and at a page boundary |
| `AddVisibleHolds`, `ReportedDeletedHolds`, `CollectionFitsHolds` | what `Add` and `DeleteAll` report is so, and `CreateNamespace` where it has created the collection or compared its dimension |
| `DirectHitSameInputHolds` | a direct hit is of a request with the normal form of its writer's |
| `RedisStoreProofs!TypeCorrect` | types of the Redis backend; no pipeline exceeds `BatchLimit` and no report its listing |
| `ListingExactHolds` | over Redis, index pages of one undisturbed call hold every match once, whatever the page size |
| `ReportHonestHolds` | over Redis, `DeleteAll` claims no delete it did not make and reports on every one it made |
| `DeleteAllDeletesHolds`, `NamespaceClearedHolds` | over Redis, what `DeleteAll` and `DeleteNamespace` leave behind was touched by others |

`FiledUnderOwnRequestHolds` and `KeepsPromiseHolds` assume `DistinctRequestIds`:
on a store whose `Add` merges (Redis) no two calls use one request ID. Without it
a failed embedding leaves the earlier vector in place, as told above, so the
hypothesis cannot be dropped. `RepeatHitsHolds` says `RepeatHits` of every state in
which `QuestionNormalized` holds: that a request which `Question` (a table) says
asks what the entry's writer asked has the same normal form. What the normal form
of a text is depends on a recursion over it, which the provers cannot compute;
`QuestionNormalized` is an invariant of `entries`, where TLC checks it on the
sixteen requests. `DirectHitSameInputHolds` is what can be proved of the converse:
no entry but one written for that normal form is found under the direct ID,
whatever is written, expires or is deleted. That two requests with one normal form
ask one question is not a matter of proof, and false where images differ or a
prompt meets an embedding input; `DirectHitAlike` compares the questions of the
sixteen requests and is model-checked.

The argument. `Inv` is `TypeOK /\ Linked`. `TypeOK` alone is not inductive: that
`buildResponseFromResult` finds a request and a result to judge, and that a
report in progress is about a hit, is what `CallLinked` and `ReportLinked` add.
`TasksKnown` says that a goroutine that runs, or that a drain once saw running,
was started by a step its call has left behind, so no step starts the same one
again; without it starting a goroutine might not raise the cardinality of
`tasks`, and the count of the wait group could not be proved. On top of `Inv`:

- `Filing`: an entry in the store or on its way there was given by a call that is
  at its miss and stores under that ID, and a fetched result is one its caller
  may have. Stable because a call at its miss keeps its request (`MissStable`).
- `OwnVectors`: such an entry has the vector of its own request; the one hard
  case is a merging `Add` (`FiledTogether`). With `Filing` this makes every hit a
  `Serve`, every Store a `Give`, and every other step a stutter.
- `Purging`: an answer that has been written is written by nobody again
  (`Settled`), so an entry found by an invalidation is either still to be
  deleted, failed to be, doomed, or gone; an `Add` ends the doom of an ID together
  with the entry.
- `Feedback`: what `hitIntents` holds is the intent of the latest hit on its entry
  (`HitsRemembered`); a report is about the hit it looked at, and once it has
  returned, an intent that is remembered is a later hit's (`ReportKept`), from
  which `HitsConsumed` follows; an outcome is what its report has counted.
- `DrainsCover` and `StatesOwned` for the remaining two.

For `CachedEntry` the invariant `EntryInv` says that the entry's fields are the
conversion of what its writer was given (`Sound`), which is what a lookup needs to
know to serve nothing else; `StoredKeeps` is the lemma that every conversion
keeps the value and changes only its type. A direct hit is isolated because the
direct ID contains what the properties compare, a semantic hit because of the
filter (`DirectFound`, `SemanticFound`). The metadata of a request determine its
kind of delivery and its parameters but for `stream` (`MetadataTells`), and are
determined by them (`MetadataSame`), which is what `RepeatFound` needs.

On top of it `ServiceInv` adds by `Typed` the type each field comes back in on each
backend: a repeated lookup is refused by none of the readers (`RepeatFound`).

For `AdaptiveThreshold` the strengthening is `RingHolds`: place `k` of the history is
slot `Slot(i, k)` of the ring, counted from the oldest. Equal numbers of
acceptances follow by a bijection between places and slots (`SameAccepted`), and a
nudge is justified in the next state by the rate the step itself has seen.

For `HitReplay` it is `Playing`: a goroutine replays only an entry that has chunks,
has sent no more than there are, and before it starts nothing is in the channel.

For `PineconeConnections` the strengthening `EntriesOpen` says that what the map
and `indexConn` hold is open and of the right namespace, and that only a named
namespace is looked up under `Lock`. `CloseConnections` is the one step that
closes, and sets `closedSince` for everybody; `CreateConnection` is the one that
opens, and finds the map empty for its namespace, so by `NoneLeaked` there is no
other open one.

`VectorStoresProofs` proves one invariant for the three backends and every caller,
`Inv == TypeOK /\ ConnInv /\ Global /\ \A c \in Callers : CallerInv(c)`. None of the
checked properties is inductive:

- `WalkComplete` speaks of the end of a walk. `StaysThere` (an entry untouched
  since the walk began is there, and no update that waits on the server will touch
  it) and `UpToCursor` (all such entries up to the cursor have been given) hold
  along the way; `InSequence` gives `WalkRepeats`.
- `AddVisible` needs `AddHeld`: from its upsert on, the entry is there whichever of
  the later updates have been applied. `ReportsTrue` and `FitsCollection` are the
  same for deletes and for dimensions.
- `GetsThere` says which call gets to which place and with which arguments, and
  `Global` that nobody calls before there is a store and only Qdrant has updates
  waiting.

The proof is in two halves, so that it need not be made once for each action and
each other caller. `Moves(b)` is all that is asked of a step of caller `b`: it moves
only `b`'s entries, changes the server in one of four ways (not at all, an entry at
once, an update accepted, everything dropped), re-establishes `CallerInv(b)`, and
is a stutter or the effect its call may have. `MovesKeep` shows that such a step
keeps `Inv` (the other callers by `OthersKept`) and the contract (`ContractStep`); a
lemma per command shows that the command is one. What remains is `NewVectorStore`,
the beginning of a call, and the server applying an update.

`Applied` is the sequence of states the points go through as the waiting updates
are applied, a recursive function; its lemmas (`AppliedChain`, `AcceptAppends`,
`ApplyShifts`) are by the least counterexample (`LeastNat` of `OrdersProofs`), which
is induction without an operator as a parameter. That an update is applied leaves
the end of that sequence alone, so the contract does not see it. `OrdersProofs` has
what pages rest on: ranks fill `0..n-1` by the pigeonhole (`RanksFill`), so that
`InOrder` lists every member once and in order (`InOrderSorts`), and a first page
leaves out nothing before its end (`FirstOfPages`).

`RedisStoreProofs` goes the same way, with
`Inv == TypeOK /\ IndexInv /\ \A c \in Callers : CallerInv(c)`. `IndexInv` says that
the index holds every hash once. Again no property is inductive:

- `ListingExact` speaks of the end of a listing. On the way `Paging` says that what
  is listed is the part of the index's answer before the offset, which stands still
  while nobody else changes an entry (`Intact`).
- `DeleteAllDeletes` needs that everything to be deleted was listed (`Covered`), which
  for a scan means that what is not found yet is still to come (`Scanning`), and that
  what was acknowledged stays gone (`Gone`).
- `ReportHonest` compares numbers. `Counted` puts the number of removals of an entry
  between the successes among its attempts and the attempts, acknowledged
  (`results`) or in the pipeline (`acks`). A pipeline that fails moves attempts to the
  reports as errors, so the lower number falls and the upper stays.
- `Dropping` is to `NamespaceCleared` what `Scanning` is to `DeleteAllDeletes`.
- `Phases` and `Reports` say which call gets where, and that reports follow the
  listing in order.

A step of one call leaves the others alone (`Same`) and counts the entries it
changes among those that they find touched (`Leaves`), so one lemma, `OthersKept`,
takes care of them for every step. `OrdersProofs` has the lemmas about listings:
what `Kept` leaves of a sequence and in which order (`KeptElements`, `KeptPlaces`),
and that `Sorted` only rearranges (`SortedElements`).

Only model-checked: liveness (`DrainReturns`, `ExpiredEvicted`, `ReplayEnds`,
`DeletesReturn`, `CallsReturn`), since the prover does not reason about fairness,
and `QuestionNormalized` and `DirectHitAlike`, which compare what the recursion
over texts makes of them with a table of questions. Every other property that a
passing run checks is also a theorem.

## Not modelled, and why

Metrics (but for the savings a hit reports), the logger and the HTTP exchange of
the embedder are I/O. `cmd/gen-eval` and `eval` are not part of the running
cache. `stream.go` is unreachable: no code creates an accumulator. Configuration
is defaults and JSON forms, assignments without interaction; `CachedEntry` has
the one default that contradicts its comment. `GetChunk`, `GetChunks`,
`GetNearest` and `Ping` of the backends change nothing; what `GetChunk` and
`GetNearest` answer is in `SemanticCache` and, by type, in `CachedEntry`. Of
Redis, the field-type cache, the text of queries, parsing of replies and TLS
set-up are left out; of Weaviate, a `GetAll` without a limit and a `DeleteAll`
without a filter, which its client and server decide; keyword matching of
intents, which is a table.

## Plan

1. Done: `CachePromise`, `SemanticCache`, `HitReplay`, `AdaptiveThreshold`,
   `RedisStore`, the contract `VectorStore` with the three backends that implement
   it, `RequestKey` and `CachedEntry`; the proofs listed above.
2. The field-type cache of Redis under concurrent creation and dropping of a
   namespace, which needs two calls of one process on one index.
