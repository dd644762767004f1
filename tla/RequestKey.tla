------------------------------- MODULE RequestKey -------------------------------
(* Under what a request is cached: the text that is hashed and embedded, its  *)
(* parameters and the direct cache ID.  A text is a sequence of words, so that *)
(* joining texts by spaces is concatenation; hashes have no collisions.       *)
EXTENDS Integers, Sequences

CONSTANTS
    Words,
    Lower,       \* of each word, in lower case
    Stripped,    \* of each word, without punctuation at its end
    Unnamed,     \* the empty provider or model
    NoParams,    \* parameters that are absent or do not parse
    NullParams,  \* parameters that are the JSON null
    None

ASSUME RequestKeyAssumption ==
    /\ Lower \in [Words -> Words] /\ Stripped \in [Words -> Words]

Kinds == {"chat", "chat_stream", "text", "text_stream", "embedding"}

IsStream(r) == r.kind \in {"chat_stream", "text_stream"}
IsChat(r) == r.kind \in {"chat", "chat_stream"}

\* Plausible bug: only the case is normalized.
normalizeText_KeepsPunctuation(text) == [i \in DOMAIN text |-> Lower[text[i]]]

\* Every word in lower case, the last without its punctuation.
normalizeText(text) ==
    [i \in DOMAIN text |->
        IF i = Len(text) THEN Stripped[Lower[text[i]]] ELSE Lower[text[i]]]

Joined(texts) ==
    LET upTo[n \in 0..Len(texts)] == IF n = 0 THEN <<>> ELSE upTo[n - 1] \o texts[n]
    IN upTo[Len(texts)]

\* The text, else the text blocks; a block without text is an image.
extractMessageText(msg) ==
    IF msg.text # None THEN msg.text
    ELSE Joined(SelectSeq(msg.blocks, LAMBDA b : b # None))

\* Plausible bug: system messages are always left out.
Counted_NoSystem(r, excludeSystem) ==
    SelectSeq(r.messages, LAMBDA m : m.role # "system")

Counted(r, excludeSystem) ==
    SelectSeq(r.messages, LAMBDA m : ~ excludeSystem \/ m.role # "system")

conversationMessageCount(r, excludeSystem) ==
    IF IsChat(r) THEN Len(Counted(r, excludeSystem)) ELSE 0

\* A chat is hashed as a list of messages, any other request as a string.
getNormalizedInput(r, excludeSystem) ==
    IF IsChat(r)
    THEN LET msgs == Counted(r, excludeSystem)
         IN [form |-> "messages",
             of |-> [i \in DOMAIN msgs |-> <<msgs[i].role,
                                            normalizeText(extractMessageText(msgs[i]))>>]]
    ELSE [form |-> "string",
          of |-> IF r.prompt = None THEN <<>> ELSE normalizeText(r.prompt)]

\* None when there is nothing to embed.
extractTextForEmbedding(r, excludeSystem) ==
    IF IsChat(r)
    THEN LET said == SelectSeq(Counted(r, excludeSystem),
                               LAMBDA m : extractMessageText(m) # <<>>)
         IN IF said = <<>> THEN None
            ELSE [i \in DOMAIN said |-> <<said[i].role,
                                         normalizeText(extractMessageText(said[i]))>>]
    ELSE IF r.kind = "embedding" \/ r.prompt \in {None, <<>>} THEN None
         ELSE <<normalizeText(r.prompt)>>

\* A map from names; null leaves it nil, which reads as an empty one.
paramsToMap(r) == IF r.params \in {NoParams, NullParams} THEN <<>> ELSE r.params

\* What a caller may send as stream is overwritten.
buildParamsMetadata(r) ==
    LET m == paramsToMap(r)
    IN [n \in DOMAIN m \cup {"stream"} |-> IF n = "stream" THEN IsStream(r) ELSE m[n]]

\* An assignment to a nil map.
Panics(r) == r.params = NullParams

generateRequestHash(r, config) ==
    <<getNormalizedInput(r, config.excludeSystem), buildParamsMetadata(r)>>

generateDirectCacheID(r, key, config) ==
    [cache_key |-> key,
     request_hash |-> generateRequestHash(r, config),
     params_hash |-> buildParamsMetadata(r),
     provider |-> IF config.byProvider THEN r.provider ELSE Unnamed,
     model |-> IF config.byModel THEN r.model ELSE Unnamed]
===============================================================================
