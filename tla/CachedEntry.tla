------------------------------ MODULE CachedEntry ------------------------------
(* One cached entry: what a write puts in it, the form each backend gives its  *)
(* fields back in, and what a lookup of the same or another request makes of   *)
(* it.  Lookups are whole here: SemanticCache interleaves their steps.         *)
EXTENDS RequestKey

CONSTANTS
    Requests, Keys, Answers, Tokens,
    Configs,     \* of the fields that decide under what a request is cached
    TTL, MaxTime,
    Question,    \* what a request asks: of a configuration and a request
    Finds,       \* of a backend: the strings <<q, s>> where a filter on q finds s
    NotUTF8,     \* the strings that no protocol buffer can carry
    Empty        \* a response or a chunk of no bytes

Backends == {"redis", "qdrant", "weaviate", "pinecone"}
Exact == {"qdrant", "pinecone"}  \* their filters find only the string itself

ASSUME CachedEntryAssumption ==
    /\ TTL \in Nat /\ MaxTime \in Nat /\ Tokens \subseteq Nat
    /\ \A conf \in Configs : conf.historyThreshold \in Int
    /\ \A answer \in Answers : answer.form \in {"response", "stream_chunks"}
    /\ \A b \in Exact : \A pair \in Finds[b] : pair[1] = pair[2]

VARIABLES
    backend, config,
    clock,
    entry,  \* the entry written last, or None
    asked   \* the lookup that ended last, or None

vars == <<backend, config, clock, entry, asked>>

Init ==
    /\ backend \in Backends /\ config \in Configs
    /\ clock = 0 /\ entry = None /\ asked = None

\* A configured limit of 0 is the default one, a negative one none at all.
Limit == IF config.historyThreshold = 0 THEN 3 ELSE config.historyThreshold

TooLong(r) == Limit > 0 /\ conversationMessageCount(r, config.excludeSystem) > Limit

(* -------------------------------- Writing -------------------------------- *)

Value(type, value) == [as |-> type, is |-> value]

NonEmpty(parts) == SelectSeq(parts, LAMBDA p : p # Empty)

ASSUME AnswersAssumption ==
    \A answer \in Answers : answer.parts # None /\ NonEmpty(answer.parts) # None

\* The field of the other form is written too, empty.
Fields(r, key, answer, tokens) ==
    [provider |-> Value("string", r.provider),
     model |-> Value("string", r.model),
     cache_key |-> Value("string", key),
     params_hash |-> Value("string", buildParamsMetadata(r)),
     expires_at |-> Value("int", clock + TTL),
     response |-> Value("string", IF answer.form = "response" THEN answer.parts ELSE <<>>),
     stream_chunks |-> Value("list", IF answer.form = "response" THEN <<>>
                                     ELSE NonEmpty(answer.parts)),
     tokens |-> Value("int", tokens)]

\* Plausible bug: a list is stored as its first element.
RedisField_FirstOnly(v) ==
    Value("string", IF v.as = "list" /\ v.is # <<>> THEN <<v.is[1]>> ELSE v.is)

\* A hash field is a string, a list the JSON text of it.
RedisField(v) == Value("string", v.is)

mapToPayload(v) == v

WeaviateValue(v) == Value(IF v.as = "int" THEN "float" ELSE v.as, v.is)

convertMetadataForStructpb(v) == Value(IF v.as = "int" THEN "float" ELSE v.as, v.is)

Stored(v) ==
    IF backend = "redis" THEN RedisField(v)
    ELSE IF backend = "qdrant" THEN mapToPayload(v)
    ELSE IF backend = "weaviate" THEN WeaviateValue(v)
    ELSE convertMetadataForStructpb(v)

\* Qdrant and Pinecone are sent protocol buffers.
Sendable(s) == backend \in {"qdrant", "pinecone"} => s \notin NotUTF8

\* An entry names its key, provider and model.  Weaviate refuses an ID it has.
AddRefused(r, key, direct, id) ==
    \/ ~ (Sendable(key) /\ Sendable(r.provider) /\ Sendable(r.model))
    \/ backend = "weaviate" /\ entry # None /\ direct /\ entry.direct /\ entry.id = id

\* A write on the handle of a lookup that missed; direct: under the direct ID,
\* which that lookup had looked for, else under the request's own.
Store(r, key, direct, answer, tokens) ==
    LET id == generateDirectCacheID(r, key, config)
        fields == Fields(r, key, answer, tokens)
    IN /\ asked = None
       /\ ~ TooLong(r) /\ ~ Panics(r)
       /\ NonEmpty(answer.parts) # <<>>  \* else an error
       /\ IF AddRefused(r, key, direct, id)
          THEN UNCHANGED entry
          ELSE entry' = [direct |-> direct, id |-> id,
                         props |-> [f \in DOMAIN fields |-> Stored(fields[f])],
                         by |-> r, under |-> key, answer |-> answer, tokens |-> tokens,
                         until |-> clock + TTL]
       /\ UNCHANGED <<backend, config, clock, asked>>

(* -------------------------------- Reading -------------------------------- *)

isExpiredEntry(props) == props.expires_at.is < clock

\* Plausible bug: a time that comes back as a string is not read.
ParseFailed_Strings(props) == props.expires_at.as \notin {"float", "int"}

ParseFailed(props) == props.expires_at.as \notin {"string", "float", "int"}

\* Plausible bug: only the numbers of JSON are read.
readIntProperty_FloatOnly(v) == IF v.as = "float" THEN v.is ELSE 0

readIntProperty(v) == IF v.as \in {"float", "int"} THEN v.is ELSE 0

parseStreamChunks(v) == IF v.as \in {"list", "string"} THEN v.is ELSE <<>>

\* None is a soft miss: no chunks.  Any string is a response, the empty one too.
Payload(r, props) ==
    IF ~ IsStream(r) THEN props.response.is
    ELSE IF parseStreamChunks(props.stream_chunks) = <<>> THEN None
    ELSE parseStreamChunks(props.stream_chunks)

\* Plausible bug: only entries whose time does not parse are left out.
Usable_Expired(props) == ~ ParseFailed(props)

Usable(props) == ~ isExpiredEntry(props) /\ ~ ParseFailed(props)

buildResponseFromResult(r, props) ==
    [payload |-> IF Usable(props) THEN Payload(r, props) ELSE None,
     saved |-> IF Usable(props) THEN readIntProperty(props.tokens) ELSE 0]

Found(sought, stored) == <<sought, stored>> \in Finds[backend]

Named(name, by) == by /\ name # Unnamed

\* Plausible bug: the key is not one of the conditions.
Filtered_NoKey(r, key, props) == props.params_hash.is = buildParamsMetadata(r)

\* A hash is found by itself alone, whatever the backend.
Filtered(r, key, props) ==
    /\ Found(key, props.cache_key.is)
    /\ props.params_hash.is = buildParamsMetadata(r)
    /\ Named(r.provider, config.byProvider) => Found(r.provider, props.provider.is)
    /\ Named(r.model, config.byModel) => Found(r.model, props.model.is)

\* On Pinecone a filter that cannot be built is left out of the query.
Unfiltered(r, key) ==
    /\ backend = "pinecone"
    /\ ~ /\ Sendable(key)
         /\ Named(r.provider, config.byProvider) => Sendable(r.provider)
         /\ Named(r.model, config.byModel) => Sendable(r.model)

Nothing == [payload |-> None, saved |-> 0]

\* The entry is the one under the direct ID.
FoundDirect(r, key) ==
    entry # None /\ entry.direct /\ entry.id = generateDirectCacheID(r, key, config)

performDirectSearch(r, key) ==
    IF FoundDirect(r, key) THEN buildResponseFromResult(r, entry.props) ELSE Nothing

\* The entry may be the nearest one of those the query selects.
FoundSimilar(r, key) ==
    /\ entry # None /\ extractTextForEmbedding(r, config.excludeSystem) # None
    /\ Unfiltered(r, key) \/ Filtered(r, key, entry.props)

performSemanticSearch(r, key) ==
    IF FoundSimilar(r, key) THEN buildResponseFromResult(r, entry.props) ELSE Nothing

Answered(r, key, doDirect, outcome, payload, saved) ==
    asked' = [request |-> r, key |-> key, doDirect |-> doDirect, outcome |-> outcome,
              payload |-> payload, saved |-> saved, entry |-> entry, at |-> clock]

\* An expired entry that a search finds is deleted in the background, if it is
\* (SemanticCache).
Evicts(r, key, doDirect, similar) ==
    /\ (doDirect /\ FoundDirect(r, key)) \/ (similar /\ FoundSimilar(r, key))
    /\ isExpiredEntry(entry.props)

\* similar: the entry is the nearest one, and near enough.
Searched(r, key, doDirect, similar) ==
    LET direct == IF doDirect THEN performDirectSearch(r, key) ELSE Nothing
        semantic == IF similar THEN performSemanticSearch(r, key) ELSE Nothing
    IN /\ \/ /\ direct.payload # None
             /\ Answered(r, key, doDirect, "direct", direct.payload, direct.saved)
          \/ /\ direct.payload = None
             /\ Answered(r, key, doDirect,
                         IF semantic.payload = None THEN "miss" ELSE "semantic",
                         semantic.payload, direct.saved + semantic.saved)
       /\ IF Evicts(r, key, doDirect, similar) THEN entry' \in {entry, None}
          ELSE UNCHANGED entry

Lookup(r, key, doDirect, similar) ==
    /\ asked = None
    /\ \/ /\ TooLong(r)
          /\ Answered(r, key, doDirect, "skipped", None, 0)
          /\ UNCHANGED entry
       \/ /\ ~ TooLong(r) /\ Panics(r)
          /\ Answered(r, key, doDirect, "panicked", None, 0)
          /\ UNCHANGED entry
       \/ ~ TooLong(r) /\ ~ Panics(r) /\ Searched(r, key, doDirect, similar)
    /\ UNCHANGED <<backend, config, clock>>

\* The caller has its answer.
Return ==
    /\ asked # None
    /\ asked' = None
    /\ UNCHANGED <<backend, config, clock, entry>>

Tick ==
    /\ asked = None /\ clock < MaxTime
    /\ clock' = clock + 1
    /\ UNCHANGED <<backend, config, entry, asked>>

Next ==
    \/ \E r \in Requests, key \in Keys, direct \in BOOLEAN, answer \in Answers,
         tokens \in Tokens : Store(r, key, direct, answer, tokens)
    \/ \E r \in Requests, key \in Keys, doDirect, similar \in BOOLEAN :
         Lookup(r, key, doDirect, similar)
    \/ Return
    \/ Tick

Spec == Init /\ [][Next]_vars

(* ------------------------------- Properties ------------------------------ *)

Hit == asked # None /\ asked.outcome \in {"direct", "semantic"}

\* The parameters other than the stream flag.
Sampling(r) == LET m == paramsToMap(r) IN [n \in DOMAIN m \ {"stream"} |-> m[n]]

\* What a hit serves was stored for the same parameters and the same kind of
\* delivery; and, if the ID found it or a filter of exact strings, under the same
\* key and, where the configuration says so, for the provider and the model the
\* request names (generateDirectCacheID, the queries of performSemanticSearch).
\* Nothing is said of a hit of Pinecone's query without its filter.
HitIsolated ==
    Hit /\ ~ (asked.outcome = "semantic" /\ Unfiltered(asked.request, asked.key)) =>
        LET by == asked.entry.by
            r == asked.request
            Same(s, t) == s = t \/ (s = Unnamed /\ asked.outcome = "semantic")
        IN /\ Sampling(by) = Sampling(r) /\ IsStream(by) = IsStream(r)
           /\ asked.outcome = "direct" \/ backend \in Exact =>
                /\ asked.key = asked.entry.under
                /\ config.byProvider => Same(r.provider, by.provider)
                /\ config.byModel => Same(r.model, by.model)

\* A direct hit answers the question that was asked: the same words by the same
\* speakers, up to case and the punctuation at the end.  Neither images nor the
\* difference between a prompt and a text to embed is part of the question.
DirectHitAlike ==
    asked # None /\ asked.outcome = "direct" =>
        Question[config.excludeSystem][asked.request] =
            Question[config.excludeSystem][asked.entry.by]

\* A request that asks the same question as the entry's is normalized to the same
\* text, whatever the case, the punctuation and the blocks it comes in (getNormalizedInput).
QuestionNormalized ==
    asked # None /\ asked.entry # None
    /\ Question[config.excludeSystem][asked.request] =
          Question[config.excludeSystem][asked.entry.by]
    => getNormalizedInput(asked.request, config.excludeSystem) =
          getNormalizedInput(asked.entry.by, config.excludeSystem)

FormFits(r, answer) == IsStream(r) <=> answer.form = "stream_chunks"

\* Who asks again what was stored under a direct ID, before it expires and for
\* the same parameters, provider and model, has a direct hit on every backend.
RepeatHits ==
    /\ asked # None /\ asked.outcome \notin {"skipped", "panicked"} /\ asked.doDirect
    /\ asked.entry # None /\ asked.entry.direct
    /\ asked.at <= asked.entry.until
    /\ asked.key = asked.entry.under /\ FormFits(asked.request, asked.entry.answer)
    /\ LET by == asked.entry.by  r == asked.request IN
        /\ Question[config.excludeSystem][r] = Question[config.excludeSystem][by]
        /\ <<Sampling(r), r.provider, r.model, IsStream(r)>> =
           <<Sampling(by), by.provider, by.model, IsStream(by)>>
    => asked.outcome = "direct"

\* Nothing is served after its time, on any backend and by either search.
ExpiredNeverServed == Hit => asked.at <= asked.entry.until

\* A stream is never served what was stored as one response, and a hit of the
\* form its writer stored delivers it whole, chunk by chunk and in order.  Nothing
\* is said of a response asked for where chunks were stored.
PayloadIntact ==
    Hit => /\ IsStream(asked.request) => asked.entry.answer.form = "stream_chunks"
           /\ FormFits(asked.request, asked.entry.answer) =>
                asked.payload = IF IsStream(asked.request)
                                THEN NonEmpty(asked.entry.answer.parts)
                                ELSE asked.entry.answer.parts

\* A hit reports the token counts that were stored with its entry (types.go:175),
\* in whichever type of number they come back.  Nothing is said of Redis, where
\* they come back as strings.
HitsReportSavings ==
    Hit /\ backend # "redis" => asked.saved = asked.entry.tokens
===============================================================================
