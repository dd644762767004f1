--------------------------- MODULE CachedEntryProofs ---------------------------
(* What a hit serves is of the request's own bucket, still valid and intact, on *)
(* every backend.  The invariant ties the fields a backend gives back to what   *)
(* was written; a lookup then reads nothing else.                               *)
EXTENDS CachedEntry, TLAPS

\* The fields say what the writer said, whatever type they come back in.
Sound(e) ==
    /\ e.props.provider.is = e.by.provider /\ e.props.model.is = e.by.model
    /\ e.props.cache_key.is = e.under
    /\ e.props.params_hash.is = buildParamsMetadata(e.by)
    /\ e.props.expires_at.is = e.until /\ e.until \in Nat
    /\ e.answer \in Answers
    /\ e.props.response.is = IF e.answer.form = "response" THEN e.answer.parts ELSE <<>>
    /\ e.props.stream_chunks.is =
            IF e.answer.form = "response" THEN <<>> ELSE NonEmpty(e.answer.parts)
    /\ e.id = generateDirectCacheID(e.by, e.under, config)

EntryInv ==
    /\ clock \in Nat
    /\ entry # None => Sound(entry)
    /\ HitIsolated /\ ExpiredNeverServed /\ PayloadIntact

\* No backend changes a value, only its type.
LEMMA StoredKeeps ==
    ASSUME NEW type, NEW value
    PROVE  Stored(Value(type, value)).is = value
  BY Zenon DEF Stored, Value, RedisField, mapToPayload, WeaviateValue,
               convertMetadataForStructpb

\* The parameters' map, and so its hash, tells the caller's parameters and the kind
\* of delivery.
LEMMA MetadataTells ==
    ASSUME NEW r, NEW s, buildParamsMetadata(r) = buildParamsMetadata(s)
    PROVE  Sampling(r) = Sampling(s) /\ IsStream(r) = IsStream(s)
<1> DEFINE m == buildParamsMetadata(r)
           k == buildParamsMetadata(s)
<1>1. /\ DOMAIN m = DOMAIN paramsToMap(r) \cup {"stream"}
      /\ DOMAIN k = DOMAIN paramsToMap(s) \cup {"stream"}
      /\ m["stream"] = IsStream(r) /\ k["stream"] = IsStream(s)
  BY Zenon DEF buildParamsMetadata
<1>2. /\ \A n \in DOMAIN paramsToMap(r) \ {"stream"} : m[n] = paramsToMap(r)[n]
      /\ \A n \in DOMAIN paramsToMap(s) \ {"stream"} : k[n] = paramsToMap(s)[n]
  BY DEF buildParamsMetadata
<1>3. m = k
  OBVIOUS
<1> HIDE DEF m, k
<1>4. DOMAIN paramsToMap(r) \ {"stream"} = DOMAIN paramsToMap(s) \ {"stream"}
  BY <1>1, <1>3
<1>5. \A n \in DOMAIN paramsToMap(r) \ {"stream"} : paramsToMap(r)[n] = paramsToMap(s)[n]
  BY <1>2, <1>3, <1>4
<1>6. Sampling(r) = Sampling(s)
  BY <1>4, <1>5 DEF Sampling
<1>7. IsStream(r) = IsStream(s)
  BY <1>1, <1>3
<1> QED
  BY <1>6, <1>7

\* The same the other way round.
LEMMA MetadataSame ==
    ASSUME NEW r, NEW s, Sampling(r) = Sampling(s), IsStream(r) = IsStream(s)
    PROVE  buildParamsMetadata(r) = buildParamsMetadata(s)
<1> DEFINE m == paramsToMap(r)
           k == paramsToMap(s)
<1>1. /\ DOMAIN Sampling(r) = DOMAIN m \ {"stream"}
      /\ DOMAIN Sampling(s) = DOMAIN k \ {"stream"}
      /\ \A n \in DOMAIN m \ {"stream"} : Sampling(r)[n] = m[n]
      /\ \A n \in DOMAIN k \ {"stream"} : Sampling(s)[n] = k[n]
  BY DEF Sampling
<1> HIDE DEF m, k
<1>2. DOMAIN m \cup {"stream"} = DOMAIN k \cup {"stream"}
  BY <1>1
<1>3. \A n \in (DOMAIN m \cup {"stream"}) \ {"stream"} : m[n] = k[n]
  BY <1>1
<1> QED
  BY <1>2, <1>3 DEF buildParamsMetadata, m, k

LEMMA InitInv == Init => EntryInv
  BY DEF Init, EntryInv, HitIsolated, ExpiredNeverServed, PayloadIntact, Hit

\* What a search of the entry returns was stored for parameters, a kind of
\* delivery and a time that fit.
LEMMA ServedFits ==
    ASSUME EntryInv, entry # None, NEW r,
           buildResponseFromResult(r, entry.props).payload # None
    PROVE  /\ clock <= entry.until
           /\ FormFits(r, entry.answer) =>
                buildResponseFromResult(r, entry.props).payload =
                    IF IsStream(r) THEN NonEmpty(entry.answer.parts)
                                   ELSE entry.answer.parts
           /\ IsStream(r) => entry.answer.form = "stream_chunks"
<1> DEFINE p == entry.props
<1>1. Sound(entry) /\ clock \in Nat
  BY DEF EntryInv
<1>2. Usable(p) /\ buildResponseFromResult(r, p).payload = Payload(r, p)
  BY DEF buildResponseFromResult
<1>3. clock <= entry.until
  BY <1>1, <1>2 DEF Usable, isExpiredEntry, Sound
<1>4. entry.answer.form \in {"response", "stream_chunks"}
  BY <1>1, CachedEntryAssumption DEF Sound
<1>5. CASE ~ IsStream(r)
  BY <1>1, <1>2, <1>3, <1>4, <1>5 DEF Payload, Sound, FormFits
<1>6. CASE IsStream(r)
  <2>1. Payload(r, p) = p.stream_chunks.is /\ p.stream_chunks.is # <<>>
    BY <1>2, <1>6 DEF Payload, parseStreamChunks
  <2>2. entry.answer.form = "stream_chunks"
    BY <1>1, <1>4, <2>1 DEF Sound
  <2> QED
    BY <1>1, <1>2, <1>3, <1>6, <2>1, <2>2 DEF Sound, FormFits
<1> QED
  BY <1>5, <1>6

\* What was served before stays as it was.
LEMMA ServedStays ==
    ASSUME UNCHANGED <<backend, config>>, asked' = asked \/ asked' = None,
           HitIsolated, ExpiredNeverServed, PayloadIntact
    PROVE  (HitIsolated /\ ExpiredNeverServed /\ PayloadIntact)'
<1>1. CASE asked' = None
  BY <1>1 DEF HitIsolated, ExpiredNeverServed, PayloadIntact, Hit
<1>2. CASE asked' = asked
  <2>1. Unfiltered(asked.request, asked.key)' = Unfiltered(asked.request, asked.key)
    BY <1>2 DEF Unfiltered, Sendable, Named
  <2>2. HitIsolated'
    BY <1>2, <2>1 DEF HitIsolated, Hit
  <2> QED
    BY <1>2, <2>2 DEF ExpiredNeverServed, PayloadIntact, Hit
<1> QED
  BY <1>1, <1>2

LEMMA StoreStep ==
    ASSUME EntryInv, NEW r, NEW key, NEW direct, NEW answer \in Answers, NEW tokens,
           Store(r, key, direct, answer, tokens)
    PROVE  EntryInv'
<1> DEFINE fields == Fields(r, key, answer, tokens)
           props == [f \in DOMAIN fields |-> Stored(fields[f])]
<1>1. asked' = asked /\ clock' = clock /\ config' = config /\ backend' = backend
  BY DEF Store
<1>2. (HitIsolated /\ ExpiredNeverServed /\ PayloadIntact)'
  BY <1>1, ServedStays DEF EntryInv
<1>3. CASE entry' = entry
  <2>1. Sound(entry) => Sound(entry)'
    BY <1>1, <1>3 DEF Sound
  <2> QED
    BY <1>1, <1>2, <1>3, <2>1 DEF EntryInv
<1>4. CASE entry' # entry
  <2>1. entry' = [direct |-> direct, id |-> generateDirectCacheID(r, key, config),
                  props |-> props, by |-> r, under |-> key, answer |-> answer,
                  tokens |-> tokens, until |-> clock + TTL]
    BY <1>4 DEF Store
  <2>2. \A f \in DOMAIN fields : props[f].is = Stored(fields[f]).is
    OBVIOUS
  <2>3. /\ props.provider.is = r.provider /\ props.model.is = r.model
        /\ props.cache_key.is = key
        /\ props.params_hash.is = buildParamsMetadata(r)
        /\ props.expires_at.is = clock + TTL
        /\ props.response.is = IF answer.form = "response" THEN answer.parts ELSE <<>>
        /\ props.stream_chunks.is =
                IF answer.form = "response" THEN <<>> ELSE NonEmpty(answer.parts)
    BY <2>2, StoredKeeps DEF Fields
  <2>4. clock + TTL \in Nat
    BY CachedEntryAssumption DEF EntryInv
  <2>5. Sound(entry)'
    BY <1>1, <2>1, <2>3, <2>4 DEF Sound
  <2> QED
    BY <1>1, <1>2, <2>5 DEF EntryInv
<1> QED
  BY <1>3, <1>4

LEMMA DirectFound ==
    ASSUME EntryInv, NEW r, NEW key, performDirectSearch(r, key).payload # None
    PROVE  /\ entry # None /\ Sound(entry)
           /\ performDirectSearch(r, key) = buildResponseFromResult(r, entry.props)
           /\ entry.under = key
           /\ Sampling(entry.by) = Sampling(r) /\ IsStream(entry.by) = IsStream(r)
           /\ config.byProvider => r.provider = entry.by.provider
           /\ config.byModel => r.model = entry.by.model
<1>1. /\ entry # None /\ entry.id = generateDirectCacheID(r, key, config)
      /\ performDirectSearch(r, key) = buildResponseFromResult(r, entry.props)
  BY DEF performDirectSearch, FoundDirect, Nothing
<1>2. Sound(entry)
  BY <1>1 DEF EntryInv
<1>3. generateDirectCacheID(entry.by, entry.under, config) =
        generateDirectCacheID(r, key, config)
  BY <1>1, <1>2 DEF Sound
<1>4. /\ entry.under = key
      /\ buildParamsMetadata(entry.by) = buildParamsMetadata(r)
      /\ config.byProvider => r.provider = entry.by.provider
      /\ config.byModel => r.model = entry.by.model
  BY <1>3 DEF generateDirectCacheID
<1> QED
  BY <1>1, <1>2, <1>4, MetadataTells

LEMMA SemanticFound ==
    ASSUME EntryInv, NEW r, NEW key, performSemanticSearch(r, key).payload # None
    PROVE  /\ entry # None /\ Sound(entry)
           /\ performSemanticSearch(r, key) = buildResponseFromResult(r, entry.props)
           /\ ~ Unfiltered(r, key) =>
                /\ <<key, entry.under>> \in Finds[backend]
                /\ Sampling(entry.by) = Sampling(r) /\ IsStream(entry.by) = IsStream(r)
                /\ config.byProvider /\ r.provider # Unnamed =>
                     <<r.provider, entry.by.provider>> \in Finds[backend]
                /\ config.byModel /\ r.model # Unnamed =>
                     <<r.model, entry.by.model>> \in Finds[backend]
<1>1. /\ entry # None
      /\ Unfiltered(r, key) \/ Filtered(r, key, entry.props)
      /\ performSemanticSearch(r, key) = buildResponseFromResult(r, entry.props)
  BY DEF performSemanticSearch, FoundSimilar, Nothing
<1>2. Sound(entry)
  BY <1>1 DEF EntryInv
<1>3. ASSUME Filtered(r, key, entry.props)
      PROVE  Sampling(entry.by) = Sampling(r) /\ IsStream(entry.by) = IsStream(r)
  <2>1. buildParamsMetadata(entry.by) = buildParamsMetadata(r)
    BY <1>2, <1>3 DEF Filtered, Sound
  <2> QED
    BY <2>1, MetadataTells
<1> QED
  BY <1>1, <1>2, <1>3 DEF Filtered, Found, Named, Sound

\* An exact server finds a string by itself alone.
LEMMA ExactFinds ==
    ASSUME NEW s, NEW t, backend \in Exact, <<s, t>> \in Finds[backend]
    PROVE  s = t
  BY CachedEntryAssumption

LEMMA LookupStep ==
    ASSUME EntryInv, NEW r, NEW key, NEW doDirect, NEW similar,
           Lookup(r, key, doDirect, similar)
    PROVE  EntryInv'
<1> DEFINE direct == IF doDirect THEN performDirectSearch(r, key) ELSE Nothing
           semantic == IF similar THEN performSemanticSearch(r, key) ELSE Nothing
<1>1. /\ clock' = clock /\ config' = config /\ backend' = backend
      /\ entry' \in {entry, None}
  BY DEF Lookup, Searched
<1>2. (entry # None => Sound(entry))'
  BY <1>1 DEF EntryInv, Sound
<1>3. CASE ~ Hit'
  BY <1>1, <1>2, <1>3 DEF EntryInv, HitIsolated, ExpiredNeverServed, PayloadIntact
<1>4. CASE direct.payload # None /\ Answered(r, key, doDirect, "direct", direct.payload, direct.saved)
  <2>1. direct = performDirectSearch(r, key) /\ performDirectSearch(r, key).payload # None
    BY <1>4 DEF Nothing
  <2>2. /\ asked'.request = r /\ asked'.key = key /\ asked'.outcome = "direct"
        /\ asked'.payload = direct.payload /\ asked'.entry = entry /\ asked'.at = clock
    BY <1>4 DEF Answered
  <2>3. HitIsolated'
    BY <1>1, <2>1, <2>2, DirectFound DEF HitIsolated
  <2>4. ExpiredNeverServed' /\ PayloadIntact'
    BY <2>1, <2>2, DirectFound, ServedFits DEF ExpiredNeverServed, PayloadIntact
  <2> QED
    BY <1>1, <1>2, <2>3, <2>4 DEF EntryInv
<1>5. CASE /\ semantic.payload # None
           /\ Answered(r, key, doDirect, "semantic", semantic.payload,
                       direct.saved + semantic.saved)
  <2>1. /\ semantic = performSemanticSearch(r, key)
        /\ performSemanticSearch(r, key).payload # None
    BY <1>5 DEF Nothing
  <2>2. /\ asked'.request = r /\ asked'.key = key /\ asked'.outcome = "semantic"
        /\ asked'.payload = semantic.payload /\ asked'.entry = entry /\ asked'.at = clock
    BY <1>5 DEF Answered
  <2>3. HitIsolated'
    <3>1. Unfiltered(asked.request, asked.key)' = Unfiltered(r, key)
      BY <1>1, <2>2 DEF Unfiltered, Sendable, Named
    <3>2. CASE Unfiltered(r, key)
      BY <2>2, <3>1, <3>2 DEF HitIsolated
    <3>3. CASE ~ Unfiltered(r, key)
      <4>1. /\ Sampling(entry.by) = Sampling(r) /\ IsStream(entry.by) = IsStream(r)
            /\ <<key, entry.under>> \in Finds[backend]
            /\ config.byProvider /\ r.provider # Unnamed =>
                 <<r.provider, entry.by.provider>> \in Finds[backend]
            /\ config.byModel /\ r.model # Unnamed =>
                 <<r.model, entry.by.model>> \in Finds[backend]
        BY <2>1, <3>3, SemanticFound
      <4>2. backend \in Exact =>
                /\ key = entry.under
                /\ config.byProvider => r.provider = entry.by.provider \/ r.provider = Unnamed
                /\ config.byModel => r.model = entry.by.model \/ r.model = Unnamed
        BY <4>1, ExactFinds
      <4>3. Sampling(asked.entry.by)' = Sampling(entry.by) /\ Sampling(asked.request)' = Sampling(r)
        BY <2>2 DEF Sampling, paramsToMap
      <4> QED
        BY <1>1, <2>2, <4>1, <4>2, <4>3 DEF HitIsolated, IsStream
    <3> QED
      BY <3>2, <3>3
  <2>4. ExpiredNeverServed' /\ PayloadIntact'
    BY ZenonT(30), <2>1, <2>2, SemanticFound, ServedFits DEF ExpiredNeverServed, PayloadIntact
  <2> QED
    BY <1>1, <1>2, <2>3, <2>4 DEF EntryInv
<1>6. Hit' => \/ /\ direct.payload # None
                 /\ Answered(r, key, doDirect, "direct", direct.payload, direct.saved)
              \/ /\ semantic.payload # None
                 /\ Answered(r, key, doDirect, "semantic", semantic.payload,
                             direct.saved + semantic.saved)
  BY DEF Lookup, Searched, Answered, Hit
<1> QED
  BY <1>3, <1>4, <1>5, <1>6

\* A step that serves nothing new and writes nothing.
LEMMA IdleStep ==
    ASSUME EntryInv, UNCHANGED <<backend, config, entry>>, clock' \in Nat,
           asked' = asked \/ asked' = None
    PROVE  EntryInv'
<1>1. (entry # None => Sound(entry))'
  BY DEF EntryInv, Sound
<1>2. (HitIsolated /\ ExpiredNeverServed /\ PayloadIntact)'
  BY ServedStays DEF EntryInv
<1> QED
  BY <1>1, <1>2 DEF EntryInv

LEMMA NextInv == EntryInv /\ [Next]_vars => EntryInv'
<1> SUFFICES ASSUME EntryInv, [Next]_vars PROVE EntryInv'
  OBVIOUS
<1>1. ASSUME NEW r \in Requests, NEW key \in Keys, NEW direct \in BOOLEAN,
             NEW answer \in Answers, NEW tokens \in Tokens,
             Store(r, key, direct, answer, tokens)
      PROVE  EntryInv'
  BY <1>1, StoreStep
<1>2. ASSUME NEW r \in Requests, NEW key \in Keys, NEW doDirect \in BOOLEAN,
             NEW similar \in BOOLEAN, Lookup(r, key, doDirect, similar)
      PROVE  EntryInv'
  BY <1>2, LookupStep
<1>3. CASE Return
  BY <1>3, IdleStep DEF Return, EntryInv
<1>4. CASE Tick
  BY <1>4, IdleStep DEF Tick, EntryInv
<1>5. CASE UNCHANGED vars
  BY <1>5, IdleStep DEF vars, EntryInv
<1> QED
  BY <1>1, <1>2, <1>3, <1>4, <1>5 DEF Next

\* HitIsolated always holds: what is served was stored for the same parameters
\* and kind of delivery, unless Pinecone was queried without its filter; a hit by
\* ID, and a hit on Qdrant or Pinecone by its filter, also has the key, provider
\* and model asked for (generateDirectCacheID, buildParamsMetadata, the queries of
\* performSemanticSearch).
THEOREM HitIsolatedHolds == Spec => []HitIsolated
<1>1. EntryInv => HitIsolated
  BY DEF EntryInv
<1> QED
  BY InitInv, NextInv, <1>1, PTL DEF Spec

\* ExpiredNeverServed always holds: isExpiredEntry reads the time in every form
\* a backend gives it back in.
THEOREM ExpiredNeverServedHolds == Spec => []ExpiredNeverServed
<1>1. EntryInv => ExpiredNeverServed
  BY DEF EntryInv
<1> QED
  BY InitInv, NextInv, <1>1, PTL DEF Spec

\* PayloadIntact always holds: the response and the chunks survive each backend's
\* conversions and parseStreamChunks, if they are of the form asked for, and no
\* stream is made of a response.
THEOREM PayloadIntactHolds == Spec => []PayloadIntact
<1>1. EntryInv => PayloadIntact
  BY DEF EntryInv
<1> QED
  BY InitInv, NextInv, <1>1, PTL DEF Spec

(* ------------------------ Repetition and savings ------------------------- *)

Numbers == {"int", "float"}

\* The types the fields come back in, by backend: readIntProperty and
\* parseStreamChunks read no others.
Typed(e) ==
    /\ e.by \in Requests /\ e.tokens \in Tokens
    /\ NonEmpty(e.answer.parts) # <<>>
    /\ e.props.expires_at.as \in Numbers \cup {"string"}
    /\ e.props.stream_chunks.as \in {"list", "string"}
    /\ e.props.tokens.is = e.tokens
    /\ IF backend = "redis" THEN e.props.tokens.as = "string"
                            ELSE e.props.tokens.as \in Numbers

ServiceInv ==
    /\ EntryInv
    /\ config \in Configs /\ backend \in Backends
    /\ entry # None => Typed(entry)
    /\ HitsReportSavings

LEMMA StoredTypes ==
    ASSUME backend \in Backends, NEW value
    PROVE  /\ Stored(Value("list", value)).as \in {"list", "string"}
           /\ IF backend = "redis" THEN Stored(Value("int", value)).as = "string"
                                   ELSE Stored(Value("int", value)).as \in Numbers
  BY DEF Backends, Stored, Value, RedisField, mapToPayload, WeaviateValue,
         convertMetadataForStructpb, Numbers

LEMMA StoreTyped ==
    ASSUME ServiceInv, NEW r \in Requests, NEW key, NEW direct, NEW answer \in Answers,
           NEW tokens \in Tokens, Store(r, key, direct, answer, tokens)
    PROVE  (entry # None => Typed(entry))'
<1> DEFINE fields == Fields(r, key, answer, tokens)
           props == [f \in DOMAIN fields |-> Stored(fields[f])]
<1>1. backend' = backend /\ backend \in Backends /\ NonEmpty(answer.parts) # <<>>
  BY DEF Store, ServiceInv
<1>2. CASE entry' = entry
  BY <1>1, <1>2 DEF ServiceInv, Typed
<1>3. CASE entry' # entry
  <2>1. entry' = [direct |-> direct, id |-> generateDirectCacheID(r, key, config),
                  props |-> props, by |-> r, under |-> key, answer |-> answer,
                  tokens |-> tokens, until |-> clock + TTL]
    BY <1>3 DEF Store
  <2>2. /\ props.expires_at = Stored(Value("int", clock + TTL))
        /\ props.tokens = Stored(Value("int", tokens))
        /\ props.stream_chunks = Stored(Value("list",
                IF answer.form = "response" THEN <<>> ELSE NonEmpty(answer.parts)))
    BY DEF Fields
  <2> HIDE DEF props
  <2> QED
    BY <1>1, <2>1, <2>2, StoredTypes, StoredKeeps DEF Typed, Numbers
<1> QED
  BY <1>2, <1>3

\* What a search of the entry reports as saved, if it serves the entry.
LEMMA ServedSaves ==
    ASSUME ServiceInv, entry # None, NEW r,
           buildResponseFromResult(r, entry.props).payload # None
    PROVE  /\ buildResponseFromResult(r, entry.props).saved \in Nat
           /\ buildResponseFromResult(r, entry.props).saved =
                IF backend = "redis" THEN 0 ELSE entry.tokens
<1>1. Typed(entry) /\ Usable(entry.props)
  BY DEF ServiceInv, buildResponseFromResult
<1>2. readIntProperty(entry.props.tokens) = IF backend = "redis" THEN 0 ELSE entry.tokens
  BY <1>1 DEF Typed, readIntProperty, Numbers
<1>3. buildResponseFromResult(r, entry.props).saved = readIntProperty(entry.props.tokens)
  BY <1>1 DEF buildResponseFromResult
<1>4. entry.tokens \in Nat
  BY <1>1, CachedEntryAssumption DEF Typed
<1> QED
  BY <1>2, <1>3, <1>4

\* Either search makes the same of the entry, if it finds it.
LEMMA SearchesAgree ==
    ASSUME NEW r, NEW key
    PROVE  /\ \/ performDirectSearch(r, key) = Nothing
              \/ entry # None /\ performDirectSearch(r, key) = buildResponseFromResult(r, entry.props)
           /\ \/ performSemanticSearch(r, key) = Nothing
              \/ entry # None /\ performSemanticSearch(r, key) = buildResponseFromResult(r, entry.props)
  BY DEF performDirectSearch, performSemanticSearch, FoundDirect, FoundSimilar

LEMMA LookupSaves ==
    ASSUME ServiceInv, NEW r, NEW key, NEW doDirect, NEW similar,
           Lookup(r, key, doDirect, similar)
    PROVE  HitsReportSavings'
<1> DEFINE direct == IF doDirect THEN performDirectSearch(r, key) ELSE Nothing
           semantic == IF similar THEN performSemanticSearch(r, key) ELSE Nothing
           built == buildResponseFromResult(r, entry.props)
           savings == IF backend = "redis" THEN 0 ELSE entry.tokens
<1>1. /\ direct = Nothing \/ (entry # None /\ direct = built)
      /\ semantic = Nothing \/ (entry # None /\ semantic = built)
  BY SearchesAgree
<1>2. entry # None /\ built.payload # None => built.saved \in Nat /\ built.saved = savings
  BY ServedSaves
<1>3. backend' = backend
  BY DEF Lookup
<1>4. CASE ~ Hit'
  BY <1>4 DEF HitsReportSavings
<1>5. CASE direct.payload # None /\ Answered(r, key, doDirect, "direct", direct.payload, direct.saved)
  <2>1. asked'.saved = direct.saved /\ asked'.entry = entry
    BY <1>5 DEF Answered
  <2>2. entry # None /\ direct = built /\ built.payload # None
    BY <1>1, <1>5 DEF Nothing
  <2> QED
    BY <1>2, <1>3, <2>1, <2>2 DEF HitsReportSavings
<1>6. CASE /\ semantic.payload # None /\ direct.payload = None
           /\ Answered(r, key, doDirect, "semantic", semantic.payload,
                       direct.saved + semantic.saved)
  <2>1. asked'.saved = direct.saved + semantic.saved /\ asked'.entry = entry
    BY <1>6 DEF Answered
  <2>2. entry # None /\ semantic = built /\ built.payload # None
    BY <1>1, <1>6 DEF Nothing
  <2>3. direct.saved = 0
    BY <1>1, <1>6, <2>2 DEF Nothing
  <2>4. asked'.saved = savings
    BY <1>2, <2>1, <2>2, <2>3
  <2> QED
    BY <1>3, <2>1, <2>4 DEF HitsReportSavings
<1>7. Hit' => \/ /\ direct.payload # None
                 /\ Answered(r, key, doDirect, "direct", direct.payload, direct.saved)
              \/ /\ semantic.payload # None /\ direct.payload = None
                 /\ Answered(r, key, doDirect, "semantic", semantic.payload,
                             direct.saved + semantic.saved)
  BY DEF Lookup, Searched, Answered, Hit
<1> QED
  BY <1>4, <1>5, <1>6, <1>7

LEMMA ServiceStep == ServiceInv /\ [Next]_vars => ServiceInv'
<1> SUFFICES ASSUME ServiceInv, [Next]_vars PROVE ServiceInv'
  OBVIOUS
<1>1. EntryInv'
  BY NextInv DEF ServiceInv
<1>2. UNCHANGED <<config, backend>>
  BY DEF Next, Store, Lookup, Return, Tick, vars
<1>3. ASSUME NEW r \in Requests, NEW key \in Keys, NEW direct \in BOOLEAN,
             NEW answer \in Answers, NEW tokens \in Tokens,
             Store(r, key, direct, answer, tokens)
      PROVE  (entry # None => Typed(entry))' /\ HitsReportSavings'
  <2>1. asked' = asked
    BY <1>3 DEF Store
  <2>2. HitsReportSavings'
    BY <1>2, <2>1 DEF ServiceInv, HitsReportSavings, Hit
  <2> QED
    BY <1>3, <2>2, StoreTyped
<1>4. ASSUME NEW r \in Requests, NEW key \in Keys, NEW doDirect \in BOOLEAN,
             NEW similar \in BOOLEAN, Lookup(r, key, doDirect, similar)
      PROVE  (entry # None => Typed(entry))' /\ HitsReportSavings'
  <2>1. entry' \in {entry, None}
    BY <1>4 DEF Lookup, Searched
  <2>2. (entry # None => Typed(entry))'
    BY <1>2, <2>1 DEF ServiceInv, Typed
  <2> QED
    BY <1>4, <2>2, LookupSaves
<1>5. CASE Return \/ Tick \/ UNCHANGED vars
  <2>1. entry' = entry /\ (asked' = asked \/ asked' = None)
    BY <1>5 DEF Return, Tick, vars
  <2> QED
    BY <1>1, <1>2, <2>1 DEF ServiceInv, Typed, HitsReportSavings, Hit
<1> QED
  BY <1>1, <1>2, <1>3, <1>4, <1>5 DEF Next, ServiceInv

LEMMA ServiceHolds == Spec => []ServiceInv
<1>1. Init => ServiceInv
  BY InitInv DEF Init, ServiceInv, HitsReportSavings, Hit
<1> QED
  BY <1>1, ServiceStep, PTL DEF Spec

\* HitsReportSavings always holds: on every backend that gives numbers back, a hit
\* reports the tokens stored with its entry (readIntProperty, buildResponseFromResult).
THEOREM HitsReportSavingsHolds == Spec => []HitsReportSavings
<1>1. ServiceInv => HitsReportSavings
  BY DEF ServiceInv
<1> QED
  BY ServiceHolds, <1>1, PTL

\* An entry that is asked for again in time is found by its direct ID and not
\* refused on the way.
LEMMA RepeatFound ==
    ASSUME ServiceInv, NEW r \in Requests, entry # None, entry.direct,
           clock <= entry.until, FormFits(r, entry.answer),
           getNormalizedInput(r, config.excludeSystem) =
              getNormalizedInput(entry.by, config.excludeSystem),
           <<Sampling(r), r.provider, r.model, IsStream(r)>> =
              <<Sampling(entry.by), entry.by.provider, entry.by.model, IsStream(entry.by)>>
    PROVE  performDirectSearch(r, entry.under).payload # None
<1>1. Sound(entry) /\ Typed(entry) /\ config \in Configs /\ clock \in Nat
  BY DEF ServiceInv, EntryInv
<1>2. buildParamsMetadata(r) = buildParamsMetadata(entry.by)
  BY MetadataSame
<1>3. generateDirectCacheID(r, entry.under, config) = entry.id
  BY <1>1, <1>2 DEF Sound, generateDirectCacheID, generateRequestHash
<1>4. performDirectSearch(r, entry.under) = buildResponseFromResult(r, entry.props)
  BY <1>3 DEF performDirectSearch, FoundDirect
<1>5. Usable(entry.props)
  BY <1>1 DEF Usable, isExpiredEntry, ParseFailed, Sound, Typed, Numbers
<1>6. Payload(r, entry.props) # None
  BY <1>1, AnswersAssumption, CachedEntryAssumption
     DEF Payload, parseStreamChunks, Sound, Typed, FormFits
<1> QED
  BY <1>4, <1>5, <1>6 DEF buildResponseFromResult

\* RepeatHits holds whenever the request, if it asks the same question as the
\* entry's, has the same normal form: a direct ID does not depend on the writer, and the time of the
\* entry is read in every form it comes back in (generateDirectCacheID,
\* performDirectSearch, isExpiredEntry).
THEOREM RepeatHitsHolds == Spec => [](QuestionNormalized => RepeatHits)
<1> DEFINE Repeats == QuestionNormalized => RepeatHits
<1>1. ASSUME ServiceInv, NEW r \in Requests, NEW key \in Keys, NEW doDirect \in BOOLEAN,
             NEW similar \in BOOLEAN, Lookup(r, key, doDirect, similar)
      PROVE  Repeats'
  <2> SUFFICES ASSUME /\ asked'.outcome \notin {"skipped", "panicked"} /\ asked'.doDirect
                      /\ asked'.entry # None /\ asked'.entry.direct
                      /\ asked'.at <= asked'.entry.until
                      /\ asked'.key = asked'.entry.under
                      /\ FormFits(asked'.request, asked'.entry.answer),
                      getNormalizedInput(asked'.request, config'.excludeSystem) =
                          getNormalizedInput(asked'.entry.by, config'.excludeSystem),
                      <<Sampling(asked'.request), asked'.request.provider,
                        asked'.request.model, IsStream(asked'.request)>> =
                      <<Sampling(asked'.entry.by), asked'.entry.by.provider,
                        asked'.entry.by.model, IsStream(asked'.entry.by)>>
               PROVE  asked'.outcome = "direct"
    <3>1. Sampling(asked.request)' = Sampling(asked'.request)
          /\ Sampling(asked.entry.by)' = Sampling(asked'.entry.by)
      BY DEF Sampling, paramsToMap
    <3> QED
      BY <3>1 DEF QuestionNormalized, RepeatHits, FormFits, IsStream
  <2>1. /\ asked'.request = r /\ asked'.key = key /\ asked'.doDirect = doDirect
        /\ asked'.entry = entry /\ asked'.at = clock /\ config' = config
    <3>1. \E outcome, payload, saved : Answered(r, key, doDirect, outcome, payload, saved)
      BY <1>1, Zenon DEF Lookup, Searched
    <3>2. config' = config
      BY <1>1 DEF Lookup
    <3> QED
      BY <3>1, <3>2 DEF Answered
  <2>2. performDirectSearch(r, key).payload # None
    BY <1>1, <2>1, RepeatFound
  <2> QED
    BY <1>1, <2>1, <2>2 DEF Lookup, Searched, Answered
<1>2. ASSUME ServiceInv, Repeats, [Next]_vars PROVE Repeats'
  <2>1. CASE \E r \in Requests, key \in Keys, doDirect, similar \in BOOLEAN :
                Lookup(r, key, doDirect, similar)
    BY <1>1, <1>2, <2>1
  <2>2. CASE (asked' = asked \/ asked' = None) /\ config' = config
    BY <1>2, <2>2 DEF QuestionNormalized, RepeatHits
  <2> QED
    BY <1>2, <2>1, <2>2 DEF Next, Store, Return, Tick, vars
<1>3. Init => Repeats
  BY DEF Init, RepeatHits
<1> QED
  BY <1>2, <1>3, ServiceHolds, PTL DEF Spec

\* A direct hit is of a request whose input is normalized to what its writer's
\* was (getNormalizedInput).
DirectHitSameInput ==
    asked # None /\ asked.outcome = "direct" =>
        /\ asked.request \in Requests /\ asked.entry.by \in Requests
        /\ getNormalizedInput(asked.request, config.excludeSystem) =
              getNormalizedInput(asked.entry.by, config.excludeSystem)

LEMMA DirectFoundSame ==
    ASSUME ServiceInv, NEW r, NEW key, performDirectSearch(r, key).payload # None
    PROVE  /\ entry.by \in Requests
           /\ getNormalizedInput(r, config.excludeSystem) =
                getNormalizedInput(entry.by, config.excludeSystem)
<1>1. entry # None /\ entry.id = generateDirectCacheID(r, key, config)
  BY DEF performDirectSearch, FoundDirect, Nothing
<1>2. Sound(entry) /\ Typed(entry)
  BY <1>1 DEF ServiceInv, EntryInv
<1>3. generateDirectCacheID(r, key, config) =
        generateDirectCacheID(entry.by, entry.under, config)
  BY <1>1, <1>2 DEF Sound
<1>4. generateRequestHash(r, config) = generateRequestHash(entry.by, config)
  BY <1>3 DEF generateDirectCacheID
<1> QED
  BY <1>2, <1>4 DEF generateRequestHash, Typed

LEMMA SameInputStep ==
    ServiceInv /\ DirectHitSameInput /\ [Next]_vars => DirectHitSameInput'
<1> SUFFICES ASSUME ServiceInv, DirectHitSameInput, [Next]_vars
             PROVE  DirectHitSameInput'
  OBVIOUS
<1>1. ASSUME NEW r \in Requests, NEW key \in Keys, NEW doDirect \in BOOLEAN,
             NEW similar \in BOOLEAN, Lookup(r, key, doDirect, similar),
             asked'.outcome = "direct"
      PROVE  DirectHitSameInput'
  <2>1. /\ asked'.request = r /\ asked'.entry = entry /\ config' = config
        /\ performDirectSearch(r, key).payload # None
    BY <1>1 DEF Lookup, Searched, Answered, Nothing
  <2> QED
    BY <2>1, DirectFoundSame DEF DirectHitSameInput
<1>2. CASE (asked' = asked \/ asked' = None) /\ config' = config
  BY <1>2 DEF DirectHitSameInput
<1> QED
  BY <1>1, <1>2 DEF Next, Store, Return, Tick, vars, DirectHitSameInput

\* DirectHitSameInput always holds: no entry but one written for the same normal
\* form has the direct ID of a request, whatever has been written, expired or
\* deleted (generateDirectCacheID, performDirectSearch).
THEOREM DirectHitSameInputHolds == Spec => []DirectHitSameInput
<1>1. Init => DirectHitSameInput
  BY DEF Init, DirectHitSameInput
<1> QED
  BY <1>1, SameInputStep, ServiceHolds, PTL DEF Spec
===============================================================================
