----------------------------- MODULE WeaviateStore -----------------------------
(* The Weaviate backend.  The server, external, carries a command out before  *)
(* it answers.  Its `after` cursor names the last object of the page before.  *)
EXTENDS StoreCalls

WeaviateCall(c) == backend = "weaviate" /\ Call(c, "command")

\* A class that does not exist: DeleteAll finds nothing, the others fail.
WeaviateRefuses(c) ==
    /\ collection = None
    /\ \/ /\ pc[c] = "command" /\ call[c].op \in {"add", "delete", "getAll"}
          /\ Goto(c, "failed")
       \/ Doing(c, "deleteAll", "delete") /\ Goto(c, "failed")

\* The Creator refuses an ID that is taken.
WeaviateAdd(c) ==
    /\ Doing(c, "add", "command") /\ collection # None /\ call[c].id # None
    /\ IF points[call[c].id] = "absent"
       THEN /\ \E outcome \in Outcome :
                  Command(c, [points EXCEPT ![call[c].id] = call[c].content], outcome)
            /\ UNCHANGED <<collection, results>>
       ELSE Goto(c, "failed")

\* Whether deleting an absent object is an error is up to the server.
WeaviateDelete(c) ==
    /\ Doing(c, "delete", "command") /\ collection # None /\ call[c].id # None
    /\ \E outcome \in Outcome \cup (IF points[call[c].id] = "absent" THEN {"failed"} ELSE {}) :
          Command(c, Without({call[c].id}), outcome)
    /\ UNCHANGED <<collection, results>>

\* Plausible bug: the cursor is set once, from the first object of the page.
WeaviateGetAll_FirstId(c) ==
    /\ Doing(c, "getAll", "command") /\ collection # None
    /\ Len(listed[c]) < MaxListed
    /\ LET page == FirstOf(call[c].limit, {d \in Matching(c) : cursor[c] # None => d > cursor[c]})
       IN Page(c, page, IF page = <<>> THEN None ELSE Head(page))

\* Plausible bug: the cursor is empty, not nil, after the last page.
WeaviateGetAll_EmptyCursor(c) ==
    /\ Doing(c, "getAll", "command") /\ collection # None
    /\ Len(listed[c]) < MaxListed
    /\ LET page == FirstOf(call[c].limit, {d \in Matching(c) : cursor[c] # None => d > cursor[c]})
       IN Page(c, page, IF page = <<>> THEN 0 ELSE Last(page))

\* Plausible bug: the old cursor is handed back when a page is empty.
WeaviateGetAll_KeepsCursor(c) ==
    /\ Doing(c, "getAll", "command") /\ collection # None
    /\ Len(listed[c]) < MaxListed
    /\ LET page == FirstOf(call[c].limit, {d \in Matching(c) : cursor[c] # None => d > cursor[c]})
       IN Page(c, page, IF page = <<>> THEN cursor[c] ELSE Last(page))

\* The cursor is the last ID of the page.  An empty page ends the walk; so does,
\* with no error, an answer that does not have the objects of the class.
WeaviateGetAll(c) ==
    /\ Doing(c, "getAll", "command") /\ collection # None
    /\ Len(listed[c]) < MaxListed
    /\ \/ LET page == FirstOf(call[c].limit,
                              {d \in Matching(c) : cursor[c] # None => d > cursor[c]})
          IN Page(c, page, IF page = <<>> THEN None ELSE Last(page))
       \/ Faults /\ Goto(c, "unverified")

ClassExists(c) ==
    /\ Doing(c, "deleteAll", "command")
    /\ Goto(c, IF collection = None THEN "done" ELSE "delete")

\* Plausible bug: an object that could not be deleted is reported as deleted.
BatchDelete_AllSuccess(c) ==
    /\ Doing(c, "deleteAll", "delete") /\ collection # None
    /\ \E kept \in (IF Faults THEN SUBSET Matching(c) ELSE {{}}) :
          Command(c, Without(Matching(c) \ kept), "done")
    /\ results' = [results EXCEPT ![c] = All("success", InOrder(Matching(c)))]
    /\ UNCHANGED collection

\* The batch delete reports on each object by itself.
BatchDelete(c) ==
    /\ Doing(c, "deleteAll", "delete") /\ collection # None
    /\ \E kept \in (IF Faults THEN SUBSET Matching(c) ELSE {{}}), outcome \in Outcome :
          /\ Command(c, Without(Matching(c) \ kept), outcome)
          /\ results' = [results EXCEPT ![c] =
                IF outcome = "failed" THEN <<>>
                ELSE All("success", InOrder(Matching(c) \ kept))
                     \o All("error", InOrder(kept))]
    /\ UNCHANGED collection

\* An existing class is taken as it is, whatever its dimension.
WeaviateCreateNamespace(c) ==
    \/ /\ Doing(c, "createNamespace", "command")
       /\ Goto(c, IF collection = None THEN "create" ELSE "done")
    \/ /\ Doing(c, "createNamespace", "create")
       /\ IF collection = None
          THEN /\ collection' = call[c].dim
               /\ Command(c, points, "done")
               /\ UNCHANGED results
          ELSE Goto(c, "failed")

WeaviateDeleteNamespace(c) ==
    \/ /\ Doing(c, "deleteNamespace", "command")
       /\ Goto(c, IF collection = None THEN "done" ELSE "drop")
    \/ /\ Doing(c, "deleteNamespace", "drop")
       /\ collection' = None
       /\ \E outcome \in Outcome : Command(c, Without(Ids), outcome)
       /\ UNCHANGED results

\* The HTTP client keeps nothing to close.
WeaviateClose(c) == Doing(c, "close", "command") /\ Goto(c, "done")

WeaviateStep(c) ==
    \/ InvalidId(c, "command") \/ WeaviateRefuses(c) \/ WeaviateAdd(c) \/ WeaviateDelete(c) \/ WeaviateGetAll(c)
    \/ ClassExists(c) \/ BatchDelete(c)
    \/ WeaviateCreateNamespace(c) \/ WeaviateDeleteNamespace(c) \/ WeaviateClose(c)

WeaviateFails(c) ==
    /\ call[c].op # "close"
    /\ CommandFails(c, {"command", "delete", "create", "drop"})
===============================================================================
