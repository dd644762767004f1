---- MODULE MCCachedEntry ----
\* Requests around one question, with its variants; a key that the filters of
\* Redis and Weaviate find for another, and one that is not UTF-8.
EXTENDS CachedEntry

MCWords == {"Where", "where", "it", "it?", "be", "hi"}
MCLower == [w \in MCWords |-> IF w = "Where" THEN "where" ELSE w]
MCStripped == [w \in MCWords |-> IF w = "it?" THEN "it" ELSE w]

Said(role, words) == [role |-> role, text |-> words, blocks |-> <<>>]
Shown(role, blocks) == [role |-> role, text |-> None, blocks |-> blocks]
Chat(msgs) == [kind |-> "chat", messages |-> msgs, prompt |-> None,
               params |-> [temp |-> "cold"], provider |-> "p1", model |-> "m1"]
Text(words) == [Chat(<<>>) EXCEPT !.kind = "text", !.prompt = words]

Where == Chat(<<Said("user", <<"Where", "it?">>)>>)
where == Chat(<<Said("user", <<"where", "it">>)>>)
Other == Chat(<<Said("user", <<"where", "be">>)>>)
System == Chat(<<Said("system", <<"be">>), Said("user", <<"where", "it">>)>>)
Image == Chat(<<Shown("user", <<<<"Where">>, None, <<"it?">>>>)>>)
Long == Chat(<<Said("user", <<"hi">>), Said("assistant", <<"hi">>),
               Said("user", <<"hi">>), Said("user", <<"hi">>)>>)
LongSystem == [Long EXCEPT !.messages[1] = Said("system", <<"hi">>)]

MCRequests ==
    {Where, where, Other, System, Image, Long, LongSystem,
     [where EXCEPT !.kind = "chat_stream"], [where EXCEPT !.params = NoParams],
     [where EXCEPT !.params = NullParams],
     [where EXCEPT !.params = [temp |-> "cold", stream |-> TRUE]],
     [where EXCEPT !.provider = "P1"],
     [where EXCEPT !.provider = Unnamed, !.model = Unnamed], [where EXCEPT !.model = "m2"],
     Text(<<"where", "it">>), [Text(<<"Where", "it">>) EXCEPT !.kind = "embedding"]}

\* Written by hand, from the requests above.
Asks(r, excludeSystem) ==
    CASE r.kind \in {"text", "embedding"} -> "where it, without a speaker"
      [] r.messages = Other.messages -> "where be"
      [] r.messages = System.messages ->
            IF excludeSystem THEN "where it" ELSE "be, where it"
      [] r.messages = Long.messages -> "hi"
      [] r.messages = LongSystem.messages -> IF excludeSystem THEN "hi hi hi" ELSE "system hi"
      [] OTHER -> "where it"

MCQuestion == [ex \in BOOLEAN |-> [r \in MCRequests |-> Asks(r, ex)]]

MCConfigs ==
    {[byProvider |-> TRUE, byModel |-> TRUE, excludeSystem |-> FALSE, historyThreshold |-> -1],
     [byProvider |-> FALSE, byModel |-> FALSE, excludeSystem |-> TRUE, historyThreshold |-> 0]}

MCAnswers == {[form |-> "response", parts |-> <<"r">>],
              [form |-> "response", parts |-> <<Empty>>],
              [form |-> "stream_chunks", parts |-> <<"c1", Empty, "c2">>]}

MCNotUTF8 == {"acm\\xff"}
MCKeys == {"acme", "ACME,eu"} \cup MCNotUTF8
Strings == MCKeys \cup {"p1", "P1", "m1", "m2", Unnamed}
Itself == {<<s, s>> : s \in Strings}
Caseless == {<<"p1", "P1">>, <<"P1", "p1">>, <<"acme", "ACME,eu">>}

\* Redis splits a tag at its comma, but not the query; Weaviate finds a string by
\* any of its words.  Neither tells upper case from lower.
MCFinds == [b \in Backends |->
    CASE b = "redis" -> (Itself \ {<<"ACME,eu", "ACME,eu">>}) \cup Caseless
      [] b = "weaviate" -> Itself \cup Caseless
      [] OTHER -> Itself]
====
