------------------------------ MODULE VectorStores -----------------------------
(* A process that makes one of the vector stores (NewVectorStore) and calls   *)
(* it from several goroutines: Qdrant, Weaviate or Pinecone.                  *)
EXTENDS QdrantStore, WeaviateStore, PineconeStore

vars == <<callsVars, clientOpen, connVars>>

\* What the JSON of a Config says, as UnmarshalJSON leaves it: a backend, or an
\* unknown type, and a nested struct that fits it only when it came from there.
Configs == [enabled: BOOLEAN, type: {"qdrant", "weaviate", "pinecone", "unknown"},
            fits: BOOLEAN]

\* Anything wrong with the configuration, or a server that does not answer the
\* constructor's first command, is an error: there is no store.
NewVectorStore ==
    /\ backend = None
    /\ \E config \in Configs :
          /\ config.enabled /\ config.type # "unknown" /\ config.fits
          /\ backend' = config.type
          /\ config.type = "weaviate" => collection # NamedVectors
          /\ IF config.type = "pinecone"
             THEN name' \in Names /\ collection' = None
             ELSE UNCHANGED <<name, collection>>
    /\ UNCHANGED <<points, updates, calls, pc, call, walkVars, results, historyVars,
                   clientOpen, connVars>>

Init == CallsInit /\ ConnInit /\ clientOpen = TRUE

\* A step of the caller's own: a command that the server answers.
Step(c) ==
    \/ backend = "qdrant" /\ QdrantStep(c) /\ UNCHANGED connVars
    \/ backend = "weaviate" /\ WeaviateStep(c) /\ UNCHANGED <<clientOpen, connVars>>
    \/ backend = "pinecone" /\ PineconeStep(c) /\ UNCHANGED clientOpen

Begin(c) ==
    /\ \/ QdrantCall(c) /\ UNCHANGED connVars
       \/ WeaviateCall(c) /\ UNCHANGED connVars
       \/ PineconeCall(c)
    /\ UNCHANGED clientOpen

Fail(c) ==
    /\ Faults
    /\ \/ backend = "qdrant" /\ QdrantFails(c) /\ UNCHANGED connVars
       \/ backend = "weaviate" /\ WeaviateFails(c) /\ UNCHANGED connVars
       \/ backend = "pinecone" /\ PineconeFails(c)
    /\ UNCHANGED clientOpen

Apply == backend = "qdrant" /\ ApplyUpdate /\ UNCHANGED <<clientOpen, connVars>>

Next ==
    \/ NewVectorStore
    \/ \E c \in Callers : Begin(c) \/ Step(c) \/ Fail(c)
    \/ Apply

Spec == Init /\ [][Next]_vars

\* Servers answer every command, and Qdrant applies what it has accepted.
Fairness == (\A c \in Callers : WF_vars(Step(c))) /\ WF_vars(Apply)

FairSpec == Spec /\ Fairness

-------------------------------------------------------------------------------
(* Properties                                                                 *)

TypeOK ==
    /\ backend \in {"qdrant", "weaviate", "pinecone", None} /\ name \in Names \cup {None}
    /\ collection \in Collections
    /\ points \in [Ids -> Contents] /\ updates \in Seq(Updates)
    /\ calls \in 0..MaxCalls /\ clientOpen \in BOOLEAN
    /\ pc \in [Callers -> Rest \cup {"connect", "command", "applying", "delete",
                                     "inspect", "create", "drop", "stats"}]
    /\ call \in [Callers -> Requests]
    /\ cursor \in [Callers -> Ids \cup {None}] /\ listed \in [Callers -> Seq(Ids)]
    /\ results \in [Callers -> Seq([id: Ids, status: {"success", "error"}])]
    /\ before \in [Callers -> SUBSET Ids] /\ touched \in [Callers -> SUBSET Ids]
    /\ ConnTypeOK

\* Whatever the backend, its calls change the namespace as the interface
\* promises, once what the server has accepted is applied: the dictionary of
\* the contract is the server's points with the pending updates applied.
Contract == INSTANCE VectorStore WITH
    dict <- Accepted,
    doing <- [c \in Callers |->
        IF InProgress(c)
        THEN [op |-> "call", of |-> call[c], due |-> pc[c] # "applying"]
        ELSE [op |-> "none"]]

KeepsContract == Contract!ContractSpec

Walked(c) == call[c].op = "getAll" /\ pc[c] = "done"

\* A walk over GetAll meets every matching entry that nobody else touches,
\* whatever others do to the rest meanwhile: a cursor that names an ID does not
\* move as an offset does.  Pinecone has no cursor and lists topK of them, and
\* nothing is said of a walk that an answer without objects ends on Weaviate.
WalkComplete ==
    \A c \in Callers : Walked(c) =>
        \/ before[c] \ touched[c] \subseteq ToSet(listed[c])
        \/ backend = "pinecone" /\ Len(listed[c]) = Limit(c)

\* It meets none twice, but for Qdrant, whose cursor is the last ID of a page
\* and whose next page starts there again.
WalkRepeats ==
    \A c \in Callers : Walked(c) =>
        \A i, j \in DOMAIN listed[c] :
            i < j /\ listed[c][i] = listed[c][j] =>
                backend = "qdrant" /\ (Limit(c) = 1 \/ (j = i + 1 /\ i % Limit(c) = 0))

\* When Add has returned, the entry can be read, though the server applies
\* updates later than it accepts them (cache.go:391, entries are to be visible
\* once the writes are over).
AddVisible ==
    \A c \in Callers :
        call[c].op = "add" /\ pc[c] = "done" /\ call[c].id \notin touched[c]
        => points[call[c].id] = call[c].content

\* When DeleteAll has returned, every entry it reports as deleted is gone, or
\* on Qdrant its delete is accepted.
ReportedDeleted ==
    \A c \in Callers : call[c].op = "deleteAll" /\ pc[c] = "done" =>
        \A i \in DOMAIN results[c] :
            LET d == results[c][i].id
            IN results[c][i].status = "success" /\ d \notin touched[c] =>
                  Accepted[d] # "match" /\ (call[c].sent # "all" => Accepted[d] = "absent")

\* On Qdrant, a namespace that CreateNamespace has created, or whose dimension
\* it has compared, has the configured dimension, also when processes create it
\* at once.  Where it compares nothing, because the collection cannot be
\* inspected or has named vectors, it succeeds too, and nothing is said.
CollectionFits ==
    \A c \in Callers :
        (/\ backend = "qdrant" /\ call[c].op = "createNamespace" /\ pc[c] = "done"
         /\ ~ (Ids \subseteq touched[c]))
        => collection = call[c].dim

\* Every call returns, whatever others do meanwhile: a walk ends though entries
\* come and go before its cursor, an upsert though its collection is dropped or
\* the client closed under it.  But for one: with one entry per page Qdrant's
\* cursor may never move.
CallsReturn ==
    \A c \in Callers :
        InProgress(c) ~> (~ InProgress(c) \/
                          (backend = "qdrant" /\ call[c].op = "getAll" /\ Limit(c) = 1))
===============================================================================
