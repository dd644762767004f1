---------------------------- MODULE MCSemanticCache ----------------------------
(* Small instances of SemanticCache.  Four requests: qa and qb paraphrase each *)
(* other under the cache key k1, qx asks the same under k2, and qc is a        *)
(* complaint under k1 that an embedding would put next to qa.                  *)
EXTENDS SemanticCache, TLC

CONSTANTS c1, c2, c3, qa, qb, qx, qc, r1, k1, k2, faq, order, complaint

MCKeyOf == [q \in Queries |-> IF q = qx THEN k2 ELSE k1]
MCBucketOf == [q \in Queries |-> "chat"]
MCIntentOf == [q \in Queries |->
    CASE q = qc -> complaint [] q = qb -> order [] OTHER -> faq]

\* Every two of the requests mean about the same.
MCSimilar == Queries \X Queries

\* Distinct request IDs (the calls serve as such), or one used by every call.
OwnRequestIds == [c \in Calls |-> c]
OneRequestId == [c \in Calls |-> r1]

CallSymmetry == Permutations(Calls)
RequestSymmetry == CallSymmetry \cup Permutations(Reporters)

\* No two of them do.
NoneSimilar == {<<q, q>> : q \in Queries}

\* Every request means about the same as qa, and as itself.
SimilarToFirst == {<<q, p>> \in Queries \X Queries : p \in {q, qa}}

\* Callers that use the Store call of the request's type, or either for qc and
\* none for qb.
ResponseForms == Queries \X {"response"}
MixedForms == {<<qa, "response">>, <<qc, "response">>, <<qc, "chunks">>}
===============================================================================
