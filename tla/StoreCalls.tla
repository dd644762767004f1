------------------------------- MODULE StoreCalls ------------------------------
(* What the Qdrant, Weaviate and Pinecone backends share: the state of calls  *)
(* on a VectorStore of one namespace, and the server's points.  Each backend  *)
(* adds the commands it sends; every command is a step, and the server, which *)
(* is external, carries it out in that step unless the backend says           *)
(* otherwise.  RedisStore models the fourth backend on its own.               *)
(*                                                                            *)
(* A point is told apart by whether the conditions of a call select it; one   *)
(* they do not select fails a condition that Qdrant cannot express.  IDs are  *)
(* numbers because servers page through them in order.  A GetAll stands for   *)
(* the walk of a client that passes the returned cursor back until there is   *)
(* none.                                                                      *)
EXTENDS StoreClients, Orders, SequencesExt

CONSTANTS
    Ids,        \* entry IDs
    Operations, \* the operations called
    Limits,     \* limits GetAll is called with
    DefaultLimit, \* the limit of a GetAll called with 0
    ServerPage, \* how many points a server lists when it is told no limit
    Dimensions, \* vector dimensions that CreateNamespace is called with
    NamedVectors, \* what a collection of named vectors has for a dimension
    Faults,     \* TRUE: any command may fail, before or after its effect
    MaxCalls,   \* bound on the calls made
    MaxListed,  \* bound on the entries a walk collects
    None

ASSUME CallsAssumption ==
    /\ Ids \subseteq Nat /\ IsFiniteSet(Ids) /\ None \notin Ids
    /\ Limits \subseteq Nat /\ Dimensions \subseteq Nat \ {0}
    /\ {} \notin {Operations, Limits, Dimensions}
    /\ DefaultLimit \in Nat \ {0} /\ ServerPage \in Nat \ {0}
    /\ Faults \in BOOLEAN /\ MaxCalls \in Nat /\ MaxListed \in Nat
    /\ {None, NamedVectors} \cap Dimensions = {} /\ None # NamedVectors
    /\ None \notin {"qdrant", "weaviate", "pinecone"}

VARIABLES
    backend,    \* what NewVectorStore made, or None
    name,       \* the namespace a client of Pinecone uses
    collection, \* what the namespace has for a dimension, or None when there is none
    points,     \* the server's points: "absent", "match" or "other"
    updates,    \* updates the server has accepted but not applied, oldest first
    calls,      \* how many calls have begun
    pc,         \* progress of each caller
    call,       \* the call it makes
    cursor,     \* of its walk
    listed,     \* the IDs it has been given
    results,    \* its DeleteResults
    before,     \* history: what its filter selected when the call began
    touched     \* history: IDs that other calls have changed since

serverVars == <<collection, points, updates>>
walkVars   == <<cursor, listed>>
historyVars == <<before, touched>>
callsVars  == <<backend, name, serverVars, calls, pc, call, walkVars, results, historyVars>>

Contents == {"absent", "match", "other"}
Collections == Dimensions \cup {NamedVectors, None}
\* An ID the backend refuses (blank, on Qdrant any that is no UUID) is None.
\* sent: how many of the call's conditions the backend sends; without any, or
\* when none can be expressed, there is no filter.
Requests == [op: Operations, id: Ids \cup {None}, content: {"match", "other"},
             sent: {"all", "some", "none"}, limit: Limits, dim: Dimensions, scope: Names]
Updates == [by: Callers, kind: {"upsert", "ids", "filter", "weaker filter"},
            ids: SUBSET Ids, content: Contents]
Rest == {"idle", "done", "failed", "unverified", "panicked"}

Outcome == IF Faults THEN {"done", "failed"} ELSE {"done"}

InProgress(c) == pc[c] \notin Rest

\* The limit of a GetAll in force.
Limit(c) == IF call[c].limit = 0 THEN DefaultLimit ELSE call[c].limit

Selects(c, content) == content = "match" \/ (content = "other" /\ call[c].sent # "all")
Matching(c) == {d \in Ids : Selects(c, points[d])}
Without(ds) == [d \in Ids |-> IF d \in ds THEN "absent" ELSE points[d]]

\* What an update changes among the given points, what the points are once n
\* of the accepted ones are applied, and once all are.
AffectedIn(ps, u) ==
    CASE u.kind = "filter" -> {d \in Ids : ps[d] = "match"}
      [] u.kind = "weaker filter" -> {d \in Ids : ps[d] # "absent"}
      [] OTHER -> u.ids
Updated(ps, u) == [d \in Ids |-> IF d \in AffectedIn(ps, u) THEN u.content ELSE ps[d]]
Applied[n \in 0..Len(updates)] ==
    IF n = 0 THEN points ELSE Updated(Applied[n - 1], updates[n])
Accepted == Applied[Len(updates)]

Touch(c, ds) ==
    touched' = [b \in Callers |-> IF b = c THEN touched[b] ELSE touched[b] \cup ds]

All(status, ids) == [i \in DOMAIN ids |-> [id |-> ids[i], status |-> status]]

-------------------------------------------------------------------------------
\* The arguments that matter to an operation; the others are fixed, so that a
\* call is not made twice.
CanonicalRequests ==
    LET some == CHOOSE r \in Requests : r.sent = "all"
    IN {r \in Requests :
          /\ r.op \notin {"add", "delete"} => r.id = some.id
          /\ r.op # "add" => r.content = some.content
          /\ r.op \notin {"getAll", "deleteAll"} => r.sent = some.sent
          /\ r.op # "getAll" => r.limit = some.limit
          /\ r.op # "createNamespace" => r.dim = some.dim
          /\ r.op # "close" => r.scope = some.scope}

\* Only Qdrant leaves conditions out; Pinecone sends all or, when it cannot, lists
\* without a filter and refuses to delete.  Weaviate is asked for a batch delete
\* with a filter only, and for pages of a given size: without either, its client
\* and server decide.
Sensible(r) ==
    /\ r.sent = "some" => backend = "qdrant"
    /\ backend = "weaviate" => /\ r.op = "deleteAll" => r.sent = "all"
                               /\ r.op = "getAll" => r.limit > 0

Call(c, first) ==
    /\ ~ InProgress(c) /\ backend # None
    /\ calls < MaxCalls
    /\ calls' = calls + 1
    /\ \E r \in CanonicalRequests :
          /\ Sensible(r)
          /\ call' = [call EXCEPT ![c] = r]
          /\ before' = [before EXCEPT ![c] =
                {d \in Ids : /\ points[d] = "match" \/ (points[d] = "other" /\ r.sent # "all")
                             /\ \A i \in DOMAIN updates : d \notin AffectedIn(points, updates[i])}]
    /\ pc' = [pc EXCEPT ![c] = first]
    /\ cursor' = [cursor EXCEPT ![c] = None]
    /\ listed' = [listed EXCEPT ![c] = <<>>]
    /\ results' = [results EXCEPT ![c] = <<>>]
    /\ touched' = [touched EXCEPT ![c] = {}]
    /\ UNCHANGED <<backend, name, serverVars>>

\* A command that fails before it has had an effect, or the deadline, where
\* the call then returns the error.
CommandFails(c, phases) ==
    /\ pc[c] \in phases
    /\ pc' = [pc EXCEPT ![c] = "failed"]
    /\ UNCHANGED <<backend, name, serverVars, calls, call, walkVars, results, historyVars>>

\* One page of a walk; next is the cursor returned with it, None for the end.
Page(c, ids, next) ==
    /\ listed' = [listed EXCEPT ![c] = @ \o ids]
    /\ cursor' = [cursor EXCEPT ![c] = next]
    /\ pc' = [pc EXCEPT ![c] = IF next = None THEN "done" ELSE "command"]
    /\ UNCHANGED <<backend, name, serverVars, calls, call, results, historyVars>>

\* A command that leaves the points of the server in the given state at once.
Command(c, after, outcome) ==
    /\ points' = after
    /\ Touch(c, {d \in Ids : after[d] # points[d]})
    /\ pc' = [pc EXCEPT ![c] = outcome]
    /\ UNCHANGED <<backend, name, updates, calls, call, walkVars, before>>

\* A step that only moves the call on.
Goto(c, next) ==
    /\ pc' = [pc EXCEPT ![c] = next]
    /\ UNCHANGED <<backend, name, serverVars, calls, call, walkVars, results, historyVars>>

Doing(c, op, at) == pc[c] = at /\ call[c].op = op

\* Refused before a command is sent, or by the server.
InvalidId(c, at) ==
    /\ Doing(c, "add", at) \/ Doing(c, "delete", at)
    /\ call[c].id = None
    /\ Goto(c, "failed")

CallsInit ==
    /\ backend = None
    /\ name = None
    /\ collection \in Collections
    /\ points \in IF collection = None THEN {[d \in Ids |-> "absent"]} ELSE [Ids -> Contents]
    /\ updates = <<>>
    /\ calls = 0
    /\ pc = [c \in Callers |-> "idle"]
    /\ call = [c \in Callers |-> CHOOSE r \in Requests : TRUE]
    /\ cursor = [c \in Callers |-> None]
    /\ listed = [c \in Callers |-> <<>>]
    /\ results = [c \in Callers |-> <<>>]
    /\ before = [c \in Callers |-> {}]
    /\ touched = [c \in Callers |-> {}]
===============================================================================
