----------------------------- MODULE PineconeStore -----------------------------
(* The Pinecone backend.  Every call first takes a connection for its         *)
(* namespace from the cache of connections, then sends its commands on it;    *)
(* CreateNamespace uses the index's own.  The server, external, carries a     *)
(* command out before it answers.  There is nothing to create on the server:  *)
(* collection is s.dimension, which a new store does not know yet.            *)
EXTENDS StoreCalls, PineconeConnections

Connecting == {"add", "delete", "getAll", "deleteAll", "deleteNamespace"}

PineconeCall(c) ==
    /\ backend = "pinecone"
    /\ Call(c, "connect")
    /\ UNCHANGED connVars

\* getNamespaceConnection.
Connect(c) ==
    /\ pc[c] = "connect" /\ call[c].op \in Connecting
    /\ call[c].op \in {"add", "delete"} => call[c].id # None
    /\ \/ LookupConnection(c, name)
       \/ CreateConnection(c)
    /\ Goto(c, IF phase'[c] = "holding" THEN "command" ELSE "connect")

ConnectFails(c) ==
    /\ pc[c] = "connect"
    /\ ConnectionFails(c)
    /\ Goto(c, "failed")

Usable(c) == held[c] # 0 /\ conns[held[c]].open

\* A nil connection is dereferenced; a closed one makes the command fail.
\* An error of the delete that ends a DeleteAll goes into the statuses.
Unusable(c) ==
    /\ pc[c] \in {"command", "delete"} /\ phase[c] = "holding" /\ ~ Usable(c)
    /\ IF pc[c] = "delete"
       THEN /\ pc' = [pc EXCEPT ![c] = "done"]
            /\ results' = [results EXCEPT ![c] = All("error", listed[c])]
            /\ UNCHANGED <<backend, name, serverVars, calls, call, walkVars, historyVars>>
       ELSE Goto(c, IF held[c] = 0 THEN "panicked" ELSE "failed")
    /\ Release(c)

PineconeCommand(c, op, at) == Doing(c, op, at) /\ Usable(c)

PineconeAdd(c) ==
    /\ PineconeCommand(c, "add", "command")
    /\ \E outcome \in Outcome :
          Command(c, [points EXCEPT ![call[c].id] = call[c].content], outcome)
    /\ Release(c)
    /\ UNCHANGED <<collection, results>>

PineconeDelete(c) ==
    /\ PineconeCommand(c, "delete", "command")
    /\ \E outcome \in Outcome : Command(c, Without({call[c].id}), outcome)
    /\ Release(c)
    /\ UNCHANGED <<collection, results>>

\* A query by the zero vector: any topK of the matches, and never a cursor.
PineconeGetAll(c) ==
    /\ PineconeCommand(c, "getAll", "command")
    /\ IF collection = None
       THEN Goto(c, "failed")
       ELSE \E S \in SUBSET Matching(c) :
               /\ Cardinality(S) = Min({Limit(c), Cardinality(Matching(c))})
               /\ Page(c, InOrder(S), None)
    /\ Release(c)

\* DeleteAll with a filter: one command, and nothing to report.
DeleteByFilter(c) ==
    /\ PineconeCommand(c, "deleteAll", "command") /\ call[c].sent = "all"
    /\ \E outcome \in Outcome : Command(c, Without(Matching(c)), outcome)
    /\ Release(c)
    /\ UNCHANGED <<collection, results>>

\* Without one: one page of IDs ...
ListVectors(c) ==
    /\ PineconeCommand(c, "deleteAll", "command") /\ call[c].sent = "none"
    /\ LET page == FirstOf(ServerPage, Matching(c))
       IN /\ listed' = [listed EXCEPT ![c] = page]
          /\ pc' = [pc EXCEPT ![c] = IF page = <<>> THEN "done" ELSE "delete"]
          /\ IF page = <<>> THEN Release(c) ELSE UNCHANGED connVars
    /\ UNCHANGED <<backend, name, serverVars, calls, call, cursor, results, historyVars>>

\* ... is deleted.
DeleteListed(c) ==
    /\ PineconeCommand(c, "deleteAll", "delete")
    /\ \E outcome \in Outcome :
          /\ Command(c, Without(ToSet(listed[c])), "done")
          /\ results' = [results EXCEPT ![c] =
                All(IF outcome = "done" THEN "success" ELSE "error", listed[c])]
    /\ Release(c)
    /\ UNCHANGED collection

\* A delete that fails before its effect is no error of the call either.
ListedKept(c) ==
    /\ PineconeCommand(c, "deleteAll", "delete")
    /\ pc' = [pc EXCEPT ![c] = "done"]
    /\ results' = [results EXCEPT ![c] = All("error", listed[c])]
    /\ Release(c)
    /\ UNCHANGED <<backend, name, serverVars, calls, call, walkVars, historyVars>>

PineconeDeleteNamespace(c) ==
    /\ PineconeCommand(c, "deleteNamespace", "command")
    /\ \E outcome \in Outcome : Command(c, Without(Ids), outcome)
    /\ Release(c)
    /\ UNCHANGED <<collection, results>>

\* CreateNamespace stores the dimension before it asks the server anything.
SetDimension(c) ==
    /\ Doing(c, "createNamespace", "connect")
    /\ collection' = call[c].dim
    /\ Command(c, points, "stats")
    /\ UNCHANGED <<results, connVars>>

\* DescribeIndexStats on s.indexConn, read without the lock.
DescribeIndexStats(c) ==
    /\ Doing(c, "createNamespace", "stats")
    /\ Goto(c, IF indexConn = 0 THEN "panicked" ELSE "done")
    /\ UNCHANGED connVars

PineconeClose(c) ==
    /\ Doing(c, "close", "connect")
    /\ CloseConnections(call[c].scope)
    /\ Goto(c, "done")

PineconeStep(c) ==
    \/ Connect(c)
    \/ InvalidId(c, "connect") /\ UNCHANGED connVars
    \/ Unusable(c)
    \/ PineconeAdd(c) \/ PineconeDelete(c) \/ PineconeGetAll(c)
    \/ DeleteByFilter(c) \/ ListVectors(c) \/ DeleteListed(c)
    \/ PineconeDeleteNamespace(c) \/ PineconeClose(c)
    \/ SetDimension(c) \/ DescribeIndexStats(c)

PineconeFails(c) ==
    \/ ConnectFails(c) \/ ListedKept(c)
    \/ phase[c] = "holding" /\ CommandFails(c, {"command"}) /\ Release(c)
    \/ CommandFails(c, {"stats"}) /\ UNCHANGED connVars
===============================================================================
