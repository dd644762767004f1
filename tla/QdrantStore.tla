------------------------------ MODULE QdrantStore ------------------------------
(* The Qdrant backend.  The server, external, applies the updates it has      *)
(* accepted one after the other; a client learns that an update is accepted,  *)
(* and that it is applied only if it asked to wait.  A scroll starts at the   *)
(* point its offset names, that point included.                               *)
EXTENDS StoreCalls

VARIABLE clientOpen  \* the gRPC client, one for all namespaces

QdrantReady(c) == clientOpen /\ collection # None

QdrantCall(c) ==
    /\ backend = "qdrant"
    /\ Call(c, "command")

\* An error of the delete that ends a DeleteAll becomes the status of every
\* entry, not an error of the call.
QdrantDeleteReported(c) ==
    /\ pc' = [pc EXCEPT ![c] = "done"]
    /\ results' = [results EXCEPT ![c] = All("error", listed[c])]
    /\ UNCHANGED <<backend, name, serverVars, calls, call, walkVars, historyVars>>

\* No collection, or the client is closed; a collection of named vectors may
\* also have none for the one of a point.
QdrantRefuses(c) ==
    /\ \/ /\ pc[c] = "command" /\ call[c].op \in {"add", "delete", "getAll", "deleteAll"}
          /\ ~ QdrantReady(c)
       \/ Doing(c, "add", "command") /\ collection = NamedVectors
       \/ pc[c] = "delete" /\ ~ QdrantReady(c)
       \/ /\ call[c].op \in {"createNamespace", "deleteNamespace"}
          /\ pc[c] \in {"command", "create", "drop"} /\ ~ clientOpen
    /\ IF pc[c] = "delete" THEN QdrantDeleteReported(c) ELSE Goto(c, "failed")

\* The server accepts an update.
Accept(c, u, outcome) ==
    /\ updates' = Append(updates, u)
    /\ Touch(c, AffectedIn(points, u) \cup AffectedIn(Accepted, u))
    /\ pc' = [pc EXCEPT ![c] = outcome]
    /\ UNCHANGED <<backend, name, collection, points, calls, call, walkVars, before>>

\* Plausible bug: the upsert does not wait either.
QdrantAdd_NoWait(c) ==
    /\ Doing(c, "add", "command") /\ QdrantReady(c) /\ call[c].id # None
    /\ Accept(c, [by |-> c, kind |-> "upsert", ids |-> {call[c].id},
                  content |-> call[c].content], "done")
    /\ UNCHANGED results

\* Upsert with Wait: returns once the update is applied.
QdrantAdd(c) ==
    /\ Doing(c, "add", "command") /\ QdrantReady(c) /\ call[c].id # None
    /\ Accept(c, [by |-> c, kind |-> "upsert", ids |-> {call[c].id},
                  content |-> call[c].content], "applying")
    /\ UNCHANGED results

\* Without Wait.
QdrantDelete(c) ==
    /\ Doing(c, "delete", "command") /\ QdrantReady(c) /\ call[c].id # None
    /\ \E outcome \in Outcome :
          Accept(c, [by |-> c, kind |-> "ids", ids |-> {call[c].id}, content |-> "absent"], outcome)
    /\ UNCHANGED results

\* Plausible bug: a page that is exactly full is taken for the last.
QdrantGetAll_LastWhenFull(c) ==
    /\ Doing(c, "getAll", "command") /\ QdrantReady(c)
    /\ Len(listed[c]) < MaxListed
    /\ LET page == FirstOf(Limit(c), {d \in Matching(c) : cursor[c] # None => d >= cursor[c]})
       IN Page(c, page, IF Len(page) > Limit(c) THEN Last(page) ELSE None)

\* The cursor is the last ID of a full page.
QdrantGetAll(c) ==
    /\ Doing(c, "getAll", "command") /\ QdrantReady(c)
    /\ Len(listed[c]) < MaxListed
    /\ LET page == FirstOf(Limit(c), {d \in Matching(c) : cursor[c] # None => d >= cursor[c]})
       IN Page(c, page, IF Len(page) >= Limit(c) THEN Last(page) ELSE None)

\* DeleteAll first scrolls, with no limit of its own and one page only ...
QdrantScroll(c) ==
    /\ Doing(c, "deleteAll", "command") /\ QdrantReady(c)
    /\ LET page == FirstOf(ServerPage, Matching(c))
       IN /\ listed' = [listed EXCEPT ![c] = page]
          /\ pc' = [pc EXCEPT ![c] = IF page = <<>> THEN "done" ELSE "delete"]
    /\ UNCHANGED <<backend, name, serverVars, calls, call, cursor, results, historyVars>>

\* Plausible bug: the listed points are deleted by ID whatever the filter.
QdrantDeleteSelected_ById(c) ==
    /\ Doing(c, "deleteAll", "delete") /\ QdrantReady(c)
    /\ Accept(c, [by |-> c, kind |-> "ids", ids |-> ToSet(listed[c]), content |-> "absent"], "done")
    /\ results' = [results EXCEPT ![c] = All("success", listed[c])]

\* ... and then deletes by the filter, or by those IDs when it is nil.  The page
\* it scrolled is what it reports on.
QdrantDeleteSelected(c) ==
    /\ Doing(c, "deleteAll", "delete") /\ QdrantReady(c)
    /\ Accept(c, [by |-> c,
                  kind |-> CASE call[c].sent = "all" -> "filter"
                             [] call[c].sent = "some" -> "weaker filter"
                             [] call[c].sent = "none" -> "ids",
                  ids |-> IF call[c].sent = "none" THEN ToSet(listed[c]) ELSE {},
                  content |-> "absent"], "done")
    /\ \E status \in (IF Faults THEN {"success", "error"} ELSE {"success"}) :
          results' = [results EXCEPT ![c] = All(status, listed[c])]

QdrantDeleteFails(c) == Doing(c, "deleteAll", "delete") /\ QdrantDeleteReported(c)

\* CreateNamespace: is there a collection?
CollectionExists(c) ==
    /\ Doing(c, "createNamespace", "command") /\ clientOpen
    /\ Goto(c, IF collection = None THEN "create" ELSE "inspect")

\* Plausible bug: the dimension of an existing collection is not compared.
GetCollectionInfo_NoCheck(c) ==
    /\ Doing(c, "createNamespace", "inspect")
    /\ Goto(c, IF ~ clientOpen \/ collection \in {None, NamedVectors}
               THEN "unverified" ELSE "done")

\* An existing collection must have the configured dimension; one that cannot
\* be inspected, which may have been dropped, is accepted with a warning, and
\* one of named vectors without.
GetCollectionInfo(c) ==
    /\ Doing(c, "createNamespace", "inspect")
    /\ \/ /\ clientOpen /\ collection # None
          /\ Goto(c, CASE collection = NamedVectors -> "unverified"
                       [] collection = call[c].dim -> "done"
                       [] OTHER -> "failed")
       \/ /\ Faults \/ ~ clientOpen \/ collection = None
          /\ Goto(c, "unverified")

\* The field indexes that follow are best effort and change no entry.
CreateCollection(c) ==
    /\ Doing(c, "createNamespace", "create")
    /\ clientOpen
    /\ IF collection = None
       THEN /\ collection' = call[c].dim
            /\ Command(c, points, "done")
            /\ UNCHANGED results
       ELSE Goto(c, "failed")

QdrantDeleteNamespace(c) ==
    \/ /\ Doing(c, "deleteNamespace", "command") /\ clientOpen
       /\ Goto(c, IF collection = None THEN "done" ELSE "drop")
    \/ /\ Doing(c, "deleteNamespace", "drop") /\ clientOpen
       /\ collection' = None
       /\ points' = Without(Ids)
       /\ updates' = <<>>
       /\ Touch(c, Ids)
       /\ \E outcome \in Outcome : pc' = [pc EXCEPT ![c] = outcome]
       /\ UNCHANGED <<backend, name, calls, call, walkVars, results, before>>

\* Close of any namespace closes the client they share.
QdrantClose(c) ==
    /\ Doing(c, "close", "command")
    /\ clientOpen' = FALSE
    /\ Goto(c, "done")

\* The server applies the oldest update, which is the answer an upsert waits
\* for (the last one, if an earlier call of the same client has timed out).
ApplyUpdate ==
    /\ updates # <<>>
    /\ LET u == Head(updates)
           waits == \A i \in DOMAIN Tail(updates) :
                        Tail(updates)[i].by = u.by => Tail(updates)[i].kind # "upsert"
       IN /\ points' = Updated(points, u)
          /\ pc' = IF u.kind = "upsert" /\ pc[u.by] = "applying" /\ waits
                   THEN [pc EXCEPT ![u.by] = "done"] ELSE pc
    /\ updates' = Tail(updates)
    /\ UNCHANGED <<backend, name, collection, calls, call, walkVars, results, historyVars>>

\* The collection has been dropped under the upsert, or the client closed.
UpsertLost(c) ==
    /\ Doing(c, "add", "applying")
    /\ ~ clientOpen \/ \A i \in DOMAIN updates :
                          updates[i].by = c => updates[i].kind # "upsert"
    /\ Goto(c, "failed")

QdrantStep(c) ==
    \/ QdrantClose(c)
    \/ /\ \/ InvalidId(c, "command") \/ QdrantRefuses(c)
          \/ QdrantAdd(c) \/ UpsertLost(c) \/ QdrantDelete(c) \/ QdrantGetAll(c)
          \/ QdrantScroll(c) \/ QdrantDeleteSelected(c)
          \/ CollectionExists(c) \/ GetCollectionInfo(c) \/ CreateCollection(c)
          \/ QdrantDeleteNamespace(c)
       /\ UNCHANGED clientOpen

QdrantFails(c) ==
    \/ CommandFails(c, {"command", "create", "drop", "applying"})
    \/ QdrantDeleteFails(c)
===============================================================================
