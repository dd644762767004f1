-------------------------- MODULE SemanticCacheProofs --------------------------
(* Proofs about SemanticCache, for every value of its constants.              *)
EXTENDS SemanticCache, FiniteSetTheorems, TLAPS

-------------------------------------------------------------------------------
(* The inductive invariant.                                                   *)

\* A search knows its request, the steps that judge a result hold one, and the
\* vector of a call is the one of its query.
CallLinked(c) ==
    /\ pc[c] \in searching \cup {"hit", "miss"} => req[c] \in Requests
    /\ pc[c] \in {"directBuild", "nearestBuild", "hit"} => found[c] \in Results
    /\ pc[c] = "directBuild" => found[c].kind = "direct"
    /\ pc[c] = "nearestBuild" => found[c].kind = "semantic"
    /\ embedding[c] # NoVec =>
          pc[c] \in {"nearest", "nearestBuild", "hit", "miss"} /\ embedding[c] = req[c].q

\* Feedback in progress is about a hit, an invalidation in progress has a key.
ReportLinked(f) ==
    report[f].pc # "idle" =>
        /\ report[f].call \in Calls /\ pc[report[f].call] = "hit"
        /\ report[f].intent \in Intents

\* A goroutine that runs, or that a drain has seen run, was started by a step
\* its call has left behind: no later step starts the same one again.
Known(t) ==
    /\ t.op = "add" => t.n <= stores[t.by]
    /\ t.op = "evict" /\ t.kind = "direct" => pc[t.by] \notin {"new", "direct", "directBuild"}
    /\ t.op = "evict" /\ t.kind = "semantic" => pc[t.by] = "miss"

TasksKnown ==
    /\ \A t \in tasks : Known(t)
    /\ \A d \in Drainers : \A t \in awaited[d] : Known(t)

Linked ==
    /\ \A c \in Calls : CallLinked(c)
    /\ \A f \in Reporters : ReportLinked(f)
    /\ TasksKnown
    /\ IsFiniteSet(tasks)
    /\ WriterAccounting

Inv == TypeOK /\ Linked
-------------------------------------------------------------------------------
LEMMA InitInv == Init => Inv
<1> SUFFICES ASSUME Init PROVE Inv
  OBVIOUS
<1> USE ConstantsAssumption
<1>1. TypeOK
  <2>1. admin \in [Admins -> [pc: {"idle", "scan", "delete", "ok", "error"},
                             key: Keys \cup {None}, todo: SUBSET Ids,
                             failed: BOOLEAN, gone: SUBSET Answers]]
    BY DEF Init
  <2>2. report \in [Reporters -> [pc: {"idle", "loaded", "counted", "done"},
                                 call: Calls \cup {None}, intent: Intents \cup {None},
                                 nth: Nat, after: SUBSET Reporters]]
    BY DEF Init
  <2>3. /\ store \in [Ids -> Entries \cup {None}]
        /\ req \in [Calls -> Requests \cup {None}]
        /\ found \in [Calls -> Results \cup {None}]
        /\ hitIntents \in [Ids -> Intents \cup {None}]
    BY DEF Init
  <2>4. /\ drain \in [Drainers -> {"idle", "waiting", "woken", "drained", "panicked", "blocked", "closed"}]
        /\ awaited \in [Drainers -> SUBSET (AddTasks \cup EvictTasks)]
        /\ tasks \subseteq AddTasks \cup EvictTasks
        /\ outcomes \subseteq [by: Reporters, call: Calls, intent: Intents]
        /\ given \subseteq Answers
    BY DEF Init
  <2>5. /\ now \in Nat
        /\ pc \in [Calls -> searching \cup {"new", "skipped", "hit", "miss"}]
        /\ embedding \in [Calls -> Vectors]
        /\ stores \in [Calls -> 0..MaxStores]
        /\ cacheStates \in [RequestIds -> Nat \cup {None}]
        /\ writersWg \in Nat
        /\ reapers \subseteq {"state", "stream"}
        /\ doomed \subseteq Ids /\ (DeletesWait => doomed = {})
        /\ HitsTyped
    BY DEF Init, Vectors, HitsTyped
  <2>6. stopped \in BOOLEAN
    BY DEF Init
  <2> QED
    BY <2>1, <2>2, <2>3, <2>4, <2>5, <2>6 DEF TypeOK
<1>2. \A c \in Calls : CallLinked(c)
  BY DEF Init, CallLinked, searching
<1>3. \A f \in Reporters : ReportLinked(f)
  BY DEF Init, ReportLinked
<1>4. TasksKnown
  BY DEF Init, TasksKnown
<1>5. IsFiniteSet(tasks) /\ WriterAccounting
  BY FS_EmptySet DEF Init, WriterAccounting
<1> QED
  BY <1>1, <1>2, <1>3, <1>4, <1>5 DEF Inv, Linked

LEMMA HitsTypedStays == ASSUME HitsTyped, UNCHANGED hits PROVE HitsTyped'
BY DEF HitsTyped

LEMMA LookupSkippedInv ==
    ASSUME Inv, NEW c \in Calls, LookupSkipped(c)
    PROVE  Inv'
<1> USE ConstantsAssumption DEF Inv, LookupSkipped, taskVars, drainVars, feedVars, giveVars
<1>1. TypeOK'
  BY HitsTypedStays DEF TypeOK
<1>2. \A d \in Calls : CallLinked(d)'
  BY DEF TypeOK, Linked, CallLinked, searching
<1>3. \A f \in Reporters : ReportLinked(f)'
  BY DEF TypeOK, Linked, ReportLinked
<1>4. TasksKnown'
  BY DEF TypeOK, Linked, TasksKnown, Known, AddTasks, EvictTasks
<1>5. IsFiniteSet(tasks)' /\ WriterAccounting'
  BY DEF Linked, WriterAccounting
<1> QED
  BY <1>1, <1>2, <1>3, <1>4, <1>5 DEF Inv, Linked

LEMMA LookupInv ==
    ASSUME Inv, NEW c \in Calls, Lookup(c)
    PROVE  Inv'
<1> USE ConstantsAssumption DEF Inv, Lookup, taskVars, drainVars, feedVars, giveVars
<1>1. TypeOK'
  <2> PICK r \in Requests :
          /\ req' = [req EXCEPT ![c] = r]
          /\ pc' = [pc EXCEPT ![c] = IF DoDirect(r) THEN "direct"
                                     ELSE IF CanSemantic(r) THEN "embed" ELSE "miss"]
    OBVIOUS
  <2>1. req' \in [Calls -> Requests \cup {None}]
    BY DEF TypeOK
  <2>2. pc' \in [Calls -> searching \cup {"new", "skipped", "hit", "miss"}]
    BY DEF TypeOK, searching
  <2> QED
    BY <2>1, <2>2, HitsTypedStays DEF TypeOK
<1>2. \A d \in Calls : CallLinked(d)'
  BY DEF TypeOK, Linked, CallLinked, searching
<1>3. \A f \in Reporters : ReportLinked(f)'
  BY DEF TypeOK, Linked, ReportLinked
<1>4. TasksKnown'
  BY DEF TypeOK, Linked, TasksKnown, Known, AddTasks, EvictTasks
<1>5. IsFiniteSet(tasks)' /\ WriterAccounting'
  BY DEF Linked, WriterAccounting
<1> QED
  BY <1>1, <1>2, <1>3, <1>4, <1>5 DEF Inv, Linked
LEMMA performDirectSearchInv ==
    ASSUME Inv, NEW c \in Calls, performDirectSearch(c)
    PROVE  Inv'
<1> USE ConstantsAssumption
    DEF Inv, performDirectSearch, stateVars, taskVars, drainVars, feedVars, giveVars
<1>0. /\ pc[c] = "direct" /\ req[c] \in Requests /\ DirectID(req[c].q) \in Ids
      /\ AfterDirect(c) \in {"embed", "miss"}
  BY DEF Linked, CallLinked, searching, DirectID, Ids, Requests, AfterDirect
<1>1. found' \in [Calls -> Results \cup {None}]
  BY <1>0 DEF TypeOK, Results
<1>2. TypeOK'
  BY HitsTypedStays, <1>0, <1>1 DEF TypeOK, searching
<1>3. ASSUME NEW d \in Calls PROVE CallLinked(d)'
  <2>1. CASE d # c
    BY <2>1 DEF TypeOK, Linked, CallLinked, searching
  <2>2. CASE d = c
    BY <2>2, <1>0 DEF TypeOK, Linked, CallLinked, searching, Results
  <2> QED
    BY <2>1, <2>2
<1>4. \A f \in Reporters : ReportLinked(f)'
  BY <1>0 DEF TypeOK, Linked, ReportLinked
<1>5. TasksKnown'
  BY <1>0 DEF TypeOK, Linked, TasksKnown, Known, AddTasks, EvictTasks
<1>6. IsFiniteSet(tasks)' /\ WriterAccounting'
  BY DEF Linked, WriterAccounting
<1> QED
  BY <1>2, <1>3, <1>4, <1>5, <1>6 DEF Inv, Linked

LEMMA EmbedInv ==
    ASSUME Inv, NEW c \in Calls, Embed(c)
    PROVE  Inv'
<1> USE ConstantsAssumption DEF Inv, Embed, stateVars, taskVars, drainVars, feedVars, giveVars
<1>0. pc[c] = "embed" /\ req[c] \in Requests /\ req[c].q \in Queries
  BY DEF Linked, CallLinked, searching, Requests
<1>1. TypeOK'
  BY HitsTypedStays, <1>0 DEF TypeOK, searching, Vectors
<1>2. ASSUME NEW d \in Calls PROVE CallLinked(d)'
  BY <1>0 DEF TypeOK, Linked, CallLinked, searching
<1>3. \A f \in Reporters : ReportLinked(f)'
  BY <1>0 DEF TypeOK, Linked, ReportLinked
<1>4. TasksKnown'
  BY <1>0 DEF TypeOK, Linked, TasksKnown, Known, AddTasks, EvictTasks
<1>5. IsFiniteSet(tasks)' /\ WriterAccounting'
  BY DEF Linked, WriterAccounting
<1> QED
  BY <1>1, <1>2, <1>3, <1>4, <1>5 DEF Inv, Linked

LEMMA performSemanticSearchInv ==
    ASSUME Inv, NEW c \in Calls, performSemanticSearch(c)
    PROVE  Inv'
<1> USE ConstantsAssumption
    DEF Inv, performSemanticSearch, stateVars, taskVars, drainVars, feedVars, giveVars
<1>0. pc[c] = "nearest" /\ req[c] \in Requests
  BY DEF Linked, CallLinked, searching
<1>1. found' \in [Calls -> Results \cup {None}]
  BY <1>0 DEF TypeOK, Results
<1>2. TypeOK'
  BY HitsTypedStays, <1>0, <1>1 DEF TypeOK, searching
<1>3. ASSUME NEW d \in Calls PROVE CallLinked(d)'
  <2>1. CASE d # c
    BY <2>1 DEF TypeOK, Linked, CallLinked, searching
  <2>2. CASE d = c
    BY <2>2, <1>0 DEF TypeOK, Linked, CallLinked, searching, Results
  <2> QED
    BY <2>1, <2>2
<1>4. \A f \in Reporters : ReportLinked(f)'
  BY <1>0 DEF TypeOK, Linked, ReportLinked
<1>5. TasksKnown'
  BY <1>0 DEF TypeOK, Linked, TasksKnown, Known, AddTasks, EvictTasks
<1>6. IsFiniteSet(tasks)' /\ WriterAccounting'
  BY DEF Linked, WriterAccounting
<1> QED
  BY <1>2, <1>3, <1>4, <1>5, <1>6 DEF Inv, Linked
-------------------------------------------------------------------------------
(* Steps that start or end a goroutine.                                       *)

\* Starting a goroutine that does not run yet keeps the wait group exact.
LEMMA SpawnAccounting ==
    ASSUME IsFiniteSet(tasks), WriterAccounting, NEW t, t \notin tasks, Spawn(t)
    PROVE  IsFiniteSet(tasks)' /\ WriterAccounting'
BY FS_AddElement DEF Spawn, WriterAccounting

\* So does ending one that runs.
LEMMA DoneAccounting ==
    ASSUME IsFiniteSet(tasks), WriterAccounting, NEW t \in tasks, TaskDone(t)
    PROVE  /\ IsFiniteSet(tasks)' /\ WriterAccounting'
           /\ writersWg \in Nat => writersWg' \in Nat
BY FS_RemoveElement, FS_CardinalityType, FS_EmptySet DEF TaskDone, WriterAccounting

LEMMA buildResponseFromResultInv ==
    ASSUME Inv, NEW c \in Calls, buildResponseFromResult(c)
    PROVE  Inv'
<1> USE ConstantsAssumption DEF Inv
<1>0. /\ pc[c] \in {"directBuild", "nearestBuild"}
      /\ req[c] \in Requests /\ req[c].q \in Queries
      /\ found[c] \in Results /\ found[c].id \in Ids
      /\ pc[c] = "directBuild" => found[c].kind = "direct"
      /\ pc[c] = "nearestBuild" => found[c].kind = "semantic"
      /\ AfterDirect(c) \in {"embed", "miss"}
  BY DEF buildResponseFromResult, Linked, CallLinked, searching, Requests, Results, AfterDirect
<1> DEFINE next == IF pc[c] = "directBuild" THEN AfterDirect(c) ELSE "miss"
<1>1. /\ EvictExpired(c, next) \/ FormatMismatch(c, next) \/ Replay(c)
      /\ UNCHANGED <<now, store, doomed, req, embedding, drainVars, admin, feedVars, giveVars>>
  BY DEF buildResponseFromResult
<1>2. next \in {"embed", "miss"} /\ (pc[c] = "nearestBuild" => next = "miss")
  BY <1>0
<1> HIDE DEF next
<1> USE DEF drainVars, feedVars, giveVars
<1>3. CASE EvictExpired(c, next)
  <2> PICK t : t = [op |-> "evict", by |-> c, kind |-> found[c].kind, id |-> found[c].id]
    OBVIOUS
  <2>1. t \in EvictTasks
    BY <1>0 DEF EvictTasks, Results
  <2>2. t \notin tasks
    BY <1>0 DEF Linked, TasksKnown, Known
  <2>3. Spawn(t) /\ UNCHANGED stateVars
    BY <1>3 DEF EvictExpired
  <2>4. pc' = [pc EXCEPT ![c] = next] /\ found' = [found EXCEPT ![c] = None]
    BY <1>3 DEF EvictExpired
  <2>5. IsFiniteSet(tasks)' /\ WriterAccounting'
    BY <2>2, <2>3, SpawnAccounting DEF Linked
  <2>6. TypeOK'
    BY HitsTypedStays, <1>1, <1>2, <2>1, <2>3, <2>4 DEF TypeOK, searching, Spawn, stateVars
  <2>7. ASSUME NEW d \in Calls PROVE CallLinked(d)'
    BY <1>0, <1>1, <1>2, <2>4 DEF TypeOK, Linked, CallLinked, searching
  <2>8. \A f \in Reporters : ReportLinked(f)'
    BY <1>0, <1>1, <2>4 DEF TypeOK, Linked, ReportLinked
  <2>9. TasksKnown'
    <3>1. \A u : Known(u) => Known(u)'
      BY <1>0, <1>1, <1>2, <2>4 DEF TypeOK, Known
    <3>2. t.op = "evict" /\ t.by = c /\ t.kind = found[c].kind
      OBVIOUS
    <3>3. pc'[c] = next
      BY <2>4 DEF TypeOK
    <3>4. Known(t)'
      BY <1>0, <1>2, <3>2, <3>3 DEF Known
    <3>5. tasks' = tasks \cup {t} /\ awaited' = awaited
      BY <1>1, <2>3 DEF Spawn
    <3> QED
      BY <3>1, <3>4, <3>5 DEF Linked, TasksKnown
  <2> QED
    BY <2>5, <2>6, <2>7, <2>8, <2>9 DEF Linked
<1>4. CASE FormatMismatch(c, next)
  <2>1. /\ pc' = [pc EXCEPT ![c] = next] /\ found' = [found EXCEPT ![c] = None]
        /\ UNCHANGED <<stateVars, taskVars>>
    BY <1>4 DEF FormatMismatch
  <2>2. TypeOK'
    BY HitsTypedStays, <1>1, <1>2, <2>1 DEF TypeOK, searching, stateVars, taskVars
  <2>3. ASSUME NEW d \in Calls PROVE CallLinked(d)'
    BY <1>0, <1>1, <1>2, <2>1 DEF TypeOK, Linked, CallLinked, searching
  <2>4. \A f \in Reporters : ReportLinked(f)'
    BY <1>0, <1>1, <2>1 DEF TypeOK, Linked, ReportLinked
  <2>5. \A u : Known(u) => Known(u)'
    BY <1>0, <1>1, <1>2, <2>1 DEF TypeOK, Known
  <2>6. TasksKnown' /\ IsFiniteSet(tasks)' /\ WriterAccounting'
    BY <1>1, <2>1, <2>5 DEF Linked, TasksKnown, WriterAccounting, taskVars
  <2> QED
    BY <2>2, <2>3, <2>4, <2>6 DEF Linked
<1>5. CASE Replay(c)
  <2>1. pc' = [pc EXCEPT ![c] = "hit"] /\ UNCHANGED <<found, taskVars>>
    BY <1>5 DEF Replay
  <2>2. hitIntents' \in [Ids -> Intents \cup {None}]
    BY <1>0, <1>5 DEF Replay, TypeOK
  <2>3. /\ cacheStates' \in [RequestIds -> Nat \cup {None}]
        /\ HitsTyped'
    <3>1. IntentOf[req[c].q] \in Intents
      BY <1>0
    <3>2. HitsTyped
      BY DEF TypeOK
    <3>3. HitsTyped'
      BY <1>0, <1>5, <3>1, <3>2 DEF Replay, HitCounted, HitsTyped
    <3> QED
      BY <1>5, <3>3 DEF Replay, TypeOK
  <2>4. TypeOK'
    BY HitsTypedStays, <1>1, <2>1, <2>2, <2>3 DEF TypeOK, taskVars
  <2>5. ASSUME NEW d \in Calls PROVE CallLinked(d)'
    BY <1>0, <1>1, <2>1 DEF TypeOK, Linked, CallLinked, searching
  <2>6. \A f \in Reporters : ReportLinked(f)'
    BY <1>0, <1>1, <2>1 DEF TypeOK, Linked, ReportLinked
  <2>7. \A u : Known(u) => Known(u)'
    BY <1>0, <1>1, <2>1 DEF TypeOK, Known
  <2>8. TasksKnown' /\ IsFiniteSet(tasks)' /\ WriterAccounting'
    BY <1>1, <2>1, <2>7 DEF Linked, TasksKnown, WriterAccounting, taskVars
  <2> QED
    BY <2>4, <2>5, <2>6, <2>8 DEF Linked
<1> QED
  BY <1>1, <1>3, <1>4, <1>5
LEMMA storeResponseInv ==
    ASSUME Inv, NEW c \in Calls, NEW form \in Forms, storeResponse(c, form)
    PROVE  Inv'
<1> USE ConstantsAssumption DEF Inv
<1> DEFINE n == stores[c] + 1
           a == [q |-> req[c].q, by |-> c, n |-> n, exp |-> now + req[c].ttl, form |-> form]
           e == [answer |-> a, vec |-> MissVector(c)]
           job == [op |-> "add", by |-> c, n |-> n, id |-> StorageID(c), entry |-> e]
<1> PICK t : t = job
  OBVIOUS
<1>0. /\ pc[c] = "miss" /\ stores[c] < MaxStores
      /\ Spawn(t)
      /\ stores' = [stores EXCEPT ![c] = n]
      /\ given' = given \cup {a}
      /\ cacheStates' = [cacheStates EXCEPT ![RequestIdOf[c]] = None]
      /\ UNCHANGED <<now, store, doomed, callVars, hitIntents, hits, drainVars, admin, feedVars>>
  BY DEF storeResponse
<1>1. req[c] \in Requests /\ req[c].q \in Queries /\ req[c].ttl \in Nat
  BY <1>0 DEF Linked, CallLinked, Requests
<1>2. n \in 1..MaxStores
  BY <1>0 DEF TypeOK
<1>3. a \in Answers
  BY <1>1, <1>2 DEF TypeOK, Answers
<1>4. MissVector(c) \in Vectors
  BY DEF MissVector, TypeOK, Vectors
<1>5. StorageID(c) \in Ids
  BY <1>1 DEF StorageID, DirectID, Ids
<1>6. t \in AddTasks
  <2> HIDE DEF a, n
  <2>1. e \in Entries
    BY <1>3, <1>4 DEF Entries
  <2> HIDE DEF e
  <2> QED
    BY <1>2, <1>5, <2>1 DEF AddTasks
<1>7. t.op = "add" /\ t.by = c /\ t.n = n
  OBVIOUS
<1>8. t \notin tasks
  BY <1>2, <1>7 DEF TypeOK, Linked, TasksKnown, Known
<1> HIDE DEF job, e, a
<1>9. IsFiniteSet(tasks)' /\ WriterAccounting'
  BY <1>0, <1>8, SpawnAccounting DEF Linked
<1>10. TypeOK'
  BY HitsTypedStays, <1>0, <1>2, <1>3, <1>6
  DEF TypeOK, callVars, drainVars, feedVars, Spawn
<1>11. ASSUME NEW d \in Calls PROVE CallLinked(d)'
  BY <1>0 DEF Linked, CallLinked, callVars
<1>12. \A f \in Reporters : ReportLinked(f)'
  BY <1>0 DEF Linked, ReportLinked, callVars, feedVars
<1>13. TasksKnown'
  <2>1. ASSUME NEW u \in AddTasks \cup EvictTasks, Known(u) PROVE Known(u)'
    BY <1>0, <2>1 DEF TypeOK, Known, callVars, AddTasks, EvictTasks
  <2>2. Known(t)'
    BY <1>0, <1>2, <1>7 DEF TypeOK, Known
  <2>3. tasks' = tasks \cup {t} /\ awaited' = awaited
    BY <1>0 DEF Spawn, drainVars
  <2>4. \A u \in tasks' : Known(u)'
    BY <2>1, <2>2, <2>3 DEF TypeOK, Linked, TasksKnown
  <2>5. \A d \in Drainers : \A u \in awaited'[d] : Known(u)'
    BY <2>1, <2>3 DEF TypeOK, Linked, TasksKnown
  <2> QED
    BY <2>4, <2>5 DEF TasksKnown
<1> QED
  BY <1>9, <1>10, <1>11, <1>12, <1>13 DEF Linked

\* Whatever an Add finds under its ID, it leaves an entry.
LEMMA AddedType ==
    ASSUME NEW old \in Entries \cup {None}, NEW new \in Entries
    PROVE  Added(old, new) \in Entries
<1>1. [new EXCEPT !.vec = IF new.vec = NoVec THEN old.vec ELSE new.vec] \in Entries
      \/ old = None
  BY DEF Entries
<1> QED
  BY <1>1, ConstantsAssumption DEF Added

\* A delete takes an entry at once or marks its ID, and no other entry.
LEMMA RemoveTakes ==
    ASSUME TypeOK, NEW id \in Ids, Remove(id)
    PROVE  /\ store' \in [Ids -> Entries \cup {None}]
           /\ doomed' \subseteq Ids /\ (DeletesWait => doomed' = {})
           /\ doomed \subseteq doomed'
           /\ store'[id] = None \/ id \in doomed'
           /\ \A i \in Ids : store'[i] \in {store[i], None}
           /\ \A i \in Ids : i # id => store'[i] = store[i]
BY ConstantsAssumption DEF Remove, TypeOK

\* A write leaves an entry under its ID and nothing to delete there.
LEMMA WriteLeaves ==
    ASSUME TypeOK, NEW id \in Ids, NEW e \in Entries, Write(id, e)
    PROVE  /\ store' \in [Ids -> Entries \cup {None}]
           /\ doomed' \subseteq Ids /\ (DeletesWait => doomed' = {})
           /\ \A i \in Ids : i # id => store'[i] = store[i]
           /\ \E old \in {store[id], None} : store'[id] = Added(old, e)
           /\ id \in doomed => store'[id] = Added(None, e)
           /\ \A i \in doomed : i # id => i \in doomed'
<1> PICK old : old = IF id \in doomed THEN None ELSE store[id]
  OBVIOUS
<1>1. store' = [store EXCEPT ![id] = Added(old, e)] /\ doomed' = doomed \ {id}
  BY DEF Write
<1>2. Added(old, e) \in Entries
  BY AddedType DEF TypeOK
<1> QED
  BY <1>1, <1>2 DEF TypeOK

LEMMA FinishTaskInv ==
    ASSUME Inv, NEW t \in tasks, FinishTask(t)
    PROVE  Inv'
<1> USE ConstantsAssumption DEF Inv, FinishTask, callVars, stateVars, feedVars, giveVars
<1>1. IsFiniteSet(tasks)' /\ WriterAccounting' /\ writersWg' \in Nat
  BY DoneAccounting DEF Linked, TypeOK
<1>2. /\ store' \in [Ids -> Entries \cup {None}]
      /\ doomed' \subseteq Ids /\ (DeletesWait => doomed' = {})
  <2>1. CASE t.op = "add" /\ Write(t.id, t.entry)
    <3>1. t.id \in Ids /\ t.entry \in Entries
      BY <2>1 DEF TypeOK, AddTasks, EvictTasks
    <3> QED
      BY <2>1, <3>1, WriteLeaves
  <2>2. CASE t.op = "evict" /\ Remove(t.id)
    <3>1. t.id \in Ids
      BY DEF TypeOK, AddTasks, EvictTasks
    <3> QED
      BY <2>2, <3>1, RemoveTakes
  <2>3. CASE UNCHANGED <<store, doomed>>
    BY <2>3 DEF TypeOK
  <2> QED
    BY <2>1, <2>2, <2>3
<1>3. tasks' = tasks \ {t}
  BY DEF TaskDone
<1>4. drain' \in [Drainers -> {"idle", "waiting", "woken", "drained", "panicked", "blocked", "closed"}]
  BY DEF TypeOK, TaskDone
<1>5. TypeOK'
  BY HitsTypedStays, <1>1, <1>2, <1>3, <1>4 DEF TypeOK
<1>6. ASSUME NEW d \in Calls PROVE CallLinked(d)'
  BY DEF Linked, CallLinked
<1>7. \A f \in Reporters : ReportLinked(f)'
  BY DEF Linked, ReportLinked
<1>8. TasksKnown'
  BY <1>3 DEF Linked, TasksKnown, Known
<1> QED
  BY <1>1, <1>5, <1>6, <1>7, <1>8 DEF Linked
-------------------------------------------------------------------------------
(* Invalidation, feedback, drains, the reaper and the clock.                  *)

\* Steps that leave the calls and their goroutines alone keep what links them.
LEMMA StutterLinked ==
    ASSUME Linked, UNCHANGED <<callVars, taskVars, awaited, report, stores>>
    PROVE  Linked'
<1> USE DEF Linked, callVars, taskVars
<1>1. \A c \in Calls : CallLinked(c)'
  BY DEF CallLinked
<1>2. \A f \in Reporters : ReportLinked(f)'
  BY DEF ReportLinked
<1>3. TasksKnown'
  BY DEF TasksKnown, Known
<1>4. IsFiniteSet(tasks)' /\ WriterAccounting'
  BY DEF WriterAccounting
<1> QED
  BY <1>1, <1>2, <1>3, <1>4

LEMMA AdministerInv ==
    ASSUME Inv, NEW a \in Admins, Administer(a)
    PROVE  Inv'
<1> USE ConstantsAssumption DEF Inv
<1> DEFINE Admin == [pc: {"idle", "scan", "delete", "ok", "error"},
                     key: Keys \cup {None}, todo: SUBSET Ids,
                     failed: BOOLEAN, gone: SUBSET Answers]
<1>1. /\ admin \in [Admins -> Admin] /\ store \in [Ids -> Entries \cup {None}]
      /\ doomed \subseteq Ids /\ (DeletesWait => doomed = {})
  BY DEF TypeOK
<1>2. /\ UNCHANGED <<now, callVars, stateVars, taskVars, drainVars, feedVars, giveVars>>
      /\ store' \in [Ids -> Entries \cup {None}]
      /\ doomed' \subseteq Ids /\ (DeletesWait => doomed' = {})
      /\ admin' \in [Admins -> Admin]
  <2>1. CASE Invalidate(a)
    <3> PICK key \in Keys :
          admin' = [admin EXCEPT ![a] =
              [pc |-> "scan", key |-> key, todo |-> {}, failed |-> FALSE,
               gone |-> {store[id].answer : id \in EntriesOf(key)}]]
      BY <2>1 DEF Invalidate
    <3>1. {store[id].answer : id \in EntriesOf(key)} \subseteq Answers
      BY <1>1 DEF EntriesOf, Entries
    <3>2. [pc |-> "scan", key |-> key, todo |-> {}, failed |-> FALSE,
           gone |-> {store[id].answer : id \in EntriesOf(key)}] \in Admin
      BY <3>1
    <3> HIDE DEF Admin
    <3> QED
      BY <1>1, <2>1, <3>2 DEF Invalidate
  <2>2. CASE ListMatching(a)
    <3>1. EntriesOf(admin[a].key) \subseteq Ids
      BY DEF EntriesOf
    <3> QED
      BY <1>1, <2>2, <3>1 DEF ListMatching
  <2>3. CASE DeleteMatching(a)
    <3>1. admin' \in [Admins -> Admin]
      <4>1. PICK id : \/ admin' = [admin EXCEPT ![a].todo = @ \ {id}]
                      \/ admin' = [admin EXCEPT ![a].todo = @ \ {id}, ![a].failed = TRUE]
        BY <2>3 DEF DeleteMatching
      <4> QED
        BY <1>1, <4>1
    <3>2. CASE \E id \in Ids : Remove(id)
      BY <2>3, <3>1, <3>2, RemoveTakes DEF DeleteMatching
    <3>3. CASE UNCHANGED <<store, doomed>>
      BY <1>1, <2>3, <3>1, <3>3 DEF DeleteMatching
    <3>4. admin[a].todo \cup EntriesOf(admin[a].key) \subseteq Ids
      BY <1>1 DEF EntriesOf
    <3> QED
      BY <2>3, <3>2, <3>3, <3>4 DEF DeleteMatching
  <2>4. CASE InvalidateReturns(a)
    BY <1>1, <2>4 DEF InvalidateReturns
  <2>5. CASE InvalidateByID(a)
    <3>1. PICK id \in Ids :
            /\ store[id] # None
            /\ \/ /\ Remove(id)
                  /\ admin' = [admin EXCEPT ![a].pc = "ok", ![a].gone = {store[id].answer}]
               \/ /\ UNCHANGED <<store, doomed>>
                  /\ admin' = [admin EXCEPT ![a].pc = "error"]
      BY <2>5 DEF InvalidateByID
    <3>2. {store[id].answer} \subseteq Answers
      BY <1>1, <3>1 DEF Entries
    <3>3. admin' \in [Admins -> Admin]
      BY <1>1, <3>1, <3>2
    <3>4. /\ store' \in [Ids -> Entries \cup {None}]
          /\ doomed' \subseteq Ids /\ (DeletesWait => doomed' = {})
      BY <1>1, <3>1, RemoveTakes
    <3> QED
      BY <2>5, <3>3, <3>4 DEF InvalidateByID
  <2> QED
    BY <2>1, <2>2, <2>3, <2>4, <2>5 DEF Administer, Delete
<1>3. TypeOK'
  BY HitsTypedStays, <1>2 DEF TypeOK, callVars, stateVars, taskVars, drainVars, feedVars, giveVars
<1>4. Linked'
  BY <1>2, StutterLinked DEF drainVars, feedVars, giveVars
<1> QED
  BY <1>3, <1>4

LEMMA RecordFeedbackInv ==
    ASSUME Inv, NEW f \in Reporters, RecordFeedback(f)
    PROVE  Inv'
<1> USE ConstantsAssumption DEF Inv
<1>0. /\ UNCHANGED <<now, store, doomed, callVars, cacheStates, hits, taskVars, drainVars, admin, giveVars>>
  BY DEF RecordFeedback, LoadIntent, RecordOutcome, ForgetHit, stateVars
<1>1. /\ report' \in [Reporters -> [pc: {"idle", "loaded", "counted", "done"},
                                 call: Calls \cup {None}, intent: Intents \cup {None},
                                 nth: Nat, after: SUBSET Reporters]]
      /\ \A g \in Reporters : ReportLinked(g)'
  <2>1. CASE LoadIntent(f)
    <3> PICK c \in Calls :
          /\ pc[c] = "hit"
          /\ hitIntents[found[c].id] # None
          /\ report' = [report EXCEPT ![f] =
                [pc |-> "loaded", call |-> c, intent |-> hitIntents[found[c].id],
                 nth |-> Len(hits[found[c].id]),
                 after |-> {g \in Reporters : report[g].pc = "done"}]]
      BY <2>1 DEF LoadIntent
    <3>1. found[c].id \in Ids /\ hitIntents[found[c].id] \in Intents
      BY DEF TypeOK, Linked, CallLinked, Results
    <3>2. Len(hits[found[c].id]) \in Nat
      BY <3>1 DEF TypeOK, HitsTyped
    <3> QED
      BY <1>0, <3>1, <3>2 DEF TypeOK, Linked, ReportLinked, callVars
  <2>2. ASSUME NEW next \in {"counted", "done"}, report[f].pc # "idle",
               report' = [report EXCEPT ![f].pc = next]
        PROVE  <1>1!:
    <3>0. report \in [Reporters -> [pc: {"idle", "loaded", "counted", "done"},
                                 call: Calls \cup {None}, intent: Intents \cup {None},
                                 nth: Nat, after: SUBSET Reporters]]
      BY DEF TypeOK
    <3>1. report' \in [Reporters -> [pc: {"idle", "loaded", "counted", "done"},
                                 call: Calls \cup {None}, intent: Intents \cup {None},
                                 nth: Nat, after: SUBSET Reporters]]
      BY <2>2, <3>0
    <3>2. \A g \in Reporters :
             /\ report'[g].call = report[g].call
             /\ report'[g].intent = report[g].intent
             /\ report'[g].pc # "idle" => report[g].pc # "idle"
      BY <2>2, <3>0
    <3>3. UNCHANGED pc
      BY <1>0 DEF callVars
    <3>4. \A g \in Reporters : ReportLinked(g)'
      BY <3>2, <3>3 DEF Linked, ReportLinked
    <3> QED
      BY <3>1, <3>4
  <2>3. CASE RecordOutcome(f) \/ ForgetHit(f)
    BY <2>2, <2>3 DEF RecordOutcome, ForgetHit
  <2> QED
    BY <2>1, <2>3 DEF RecordFeedback
<1>2. hitIntents' \in [Ids -> Intents \cup {None}]
  BY DEF RecordFeedback, LoadIntent, RecordOutcome, ForgetHit, TypeOK, stateVars
<1>3. outcomes' \subseteq [by: Reporters, call: Calls, intent: Intents]
  BY DEF RecordFeedback, LoadIntent, RecordOutcome, ForgetHit, TypeOK, Linked, ReportLinked
<1>4. TypeOK'
  BY HitsTypedStays, <1>0, <1>1, <1>2, <1>3 DEF TypeOK, callVars, taskVars, drainVars, giveVars
<1>5. \A c \in Calls : CallLinked(c)'
  BY <1>0 DEF Linked, CallLinked, callVars
<1>6. TasksKnown'
  BY <1>0 DEF Linked, TasksKnown, Known, callVars, taskVars, drainVars, giveVars
<1>7. IsFiniteSet(tasks)' /\ WriterAccounting'
  BY <1>0 DEF Linked, WriterAccounting, taskVars
<1> QED
  BY <1>1, <1>4, <1>5, <1>6, <1>7 DEF Linked

LEMMA DrainInv ==
    ASSUME Inv, BeginDrain \/ EndDrain
    PROVE  Inv'
<1> USE ConstantsAssumption DEF Inv
<1>0. UNCHANGED <<now, store, doomed, callVars, stateVars, taskVars, admin, feedVars, giveVars>>
  BY DEF BeginDrain, EndDrain, DrainFrame
<1>1. /\ drain' \in [Drainers -> {"idle", "waiting", "woken", "drained", "panicked", "blocked", "closed"}]
      /\ stopped' \in BOOLEAN
      /\ reapers' \subseteq {"state", "stream"}
      /\ awaited' = awaited \/ \E d \in Drainers : awaited' = [awaited EXCEPT ![d] = tasks]
  <2> Waiters \subseteq Drainers /\ Closers \subseteq Drainers
    BY DEF Drainers
  <2>1. ASSUME NEW w \in Waiters, WaitForPendingOps(w) PROVE <1>1!:
    BY <2>1 DEF WaitForPendingOps, TypeOK
  <2>2. ASSUME NEW k \in Closers, Close(k) PROVE <1>1!:
    <3>1. stopped' \in BOOLEAN
      BY <2>2 DEF Close, TypeOK
    <3>2. /\ drain' \in [Drainers -> {"idle", "waiting", "woken", "drained", "panicked", "blocked", "closed"}]
          /\ reapers' = reapers
      BY <2>2 DEF Close, TypeOK
    <3>3. awaited' = awaited \/ awaited' = [awaited EXCEPT ![k] = tasks]
      BY <2>2 DEF Close
    <3>4. reapers' \subseteq {"state", "stream"}
      BY <3>2 DEF TypeOK
    <3> QED
      BY <3>1, <3>2, <3>3, <3>4
  <2>3. ASSUME NEW k \in Closers, CloseReturns(k) PROVE <1>1!:
    BY <2>3 DEF CloseReturns, TypeOK
  <2>4. ASSUME NEW l \in reapers, LoopStops(l) PROVE <1>1!:
    BY <2>4 DEF LoopStops, TypeOK
  <2>5. ASSUME NEW d \in Drainers, WaitReturns(d) PROVE <1>1!:
    BY <2>5 DEF WaitReturns, TypeOK
  <2> QED
    BY <2>1, <2>2, <2>3, <2>4, <2>5 DEF BeginDrain, EndDrain
<1>2. awaited' \in [Drainers -> SUBSET (AddTasks \cup EvictTasks)]
  BY <1>1 DEF TypeOK
<1>3. TypeOK'
  BY HitsTypedStays, <1>0, <1>1, <1>2 DEF TypeOK, callVars, stateVars, taskVars, feedVars, giveVars
<1>4. \A c \in Calls : CallLinked(c)'
  BY <1>0 DEF Linked, CallLinked, callVars
<1>5. \A f \in Reporters : ReportLinked(f)'
  BY <1>0 DEF Linked, ReportLinked, callVars, feedVars
<1>6. TasksKnown'
  <2>1. \A t : Known(t) => Known(t)'
    BY <1>0 DEF Known, callVars, giveVars
  <2>2. \A d \in Drainers : awaited'[d] \in {awaited[d], tasks}
    BY <1>1 DEF TypeOK
  <2> QED
    BY <1>0, <2>1, <2>2 DEF Linked, TasksKnown, taskVars
<1>7. IsFiniteSet(tasks)' /\ WriterAccounting'
  BY <1>0 DEF Linked, WriterAccounting, taskVars
<1> QED
  BY <1>3, <1>4, <1>5, <1>6, <1>7 DEF Linked

LEMMA BackgroundInv ==
    ASSUME Inv, cleanupOldCacheStates \/ Tick
    PROVE  Inv'
<1> USE ConstantsAssumption DEF Inv
<1>1. UNCHANGED <<store, doomed, callVars, hitIntents, hits, taskVars, drainVars, admin, feedVars, giveVars>>
  BY DEF cleanupOldCacheStates, Tick, stateVars
<1>2. now' \in Nat /\ cacheStates' \in [RequestIds -> Nat \cup {None}]
  BY DEF cleanupOldCacheStates, Tick, TypeOK, stateVars
<1>3. TypeOK'
  BY HitsTypedStays, <1>1, <1>2 DEF TypeOK, callVars, taskVars, drainVars, feedVars, giveVars
<1>4. Linked'
  BY <1>1, StutterLinked DEF drainVars, feedVars, giveVars
<1> QED
  BY <1>3, <1>4

-------------------------------------------------------------------------------
LEMMA NextInv == Inv /\ [Next]_vars => Inv'
<1> SUFFICES ASSUME Inv, [Next]_vars PROVE Inv'
  OBVIOUS
<1>1. ASSUME NEW c \in Calls, Run(c) PROVE Inv'
  BY <1>1, LookupSkippedInv, LookupInv, performDirectSearchInv, EmbedInv,
     performSemanticSearchInv, buildResponseFromResultInv, storeResponseInv
  DEF Run, Search
<1>2. ASSUME NEW t \in tasks, FinishTask(t) PROVE Inv'
  BY <1>2, FinishTaskInv
<1>3. ASSUME NEW a \in Admins, Administer(a) PROVE Inv'
  BY <1>3, AdministerInv
<1>4. ASSUME NEW f \in Reporters, RecordFeedback(f) PROVE Inv'
  BY <1>4, RecordFeedbackInv
<1>5. CASE BeginDrain \/ EndDrain
  BY <1>5, DrainInv
<1>6. CASE cleanupOldCacheStates \/ Tick
  BY <1>6, BackgroundInv
<1>7. CASE ApplyDelete
  <2>1. UNCHANGED <<now, callVars, stateVars, taskVars, drainVars, admin, feedVars, giveVars>>
    BY <1>7 DEF ApplyDelete
  <2>2. /\ store' \in [Ids -> Entries \cup {None}]
        /\ doomed' \subseteq Ids /\ (DeletesWait => doomed' = {})
    BY <1>7 DEF ApplyDelete, Inv, TypeOK
  <2>3. TypeOK'
    BY HitsTypedStays, <2>1, <2>2 DEF Inv, TypeOK, callVars, stateVars, taskVars, drainVars, feedVars, giveVars
  <2>4. Linked'
    BY <2>1, StutterLinked DEF Inv, drainVars, feedVars, giveVars
  <2> QED
    BY <2>3, <2>4 DEF Inv
<1>8. CASE UNCHANGED vars
  <2>1. UNCHANGED <<now, store, doomed, callVars, stateVars, taskVars, drainVars, admin, feedVars, giveVars>>
    BY <1>8 DEF vars
  <2>2. TypeOK'
    BY HitsTypedStays, <2>1 DEF Inv, TypeOK, callVars, stateVars, taskVars, drainVars, feedVars, giveVars
  <2>3. Linked'
    BY <2>1, StutterLinked DEF Inv, drainVars, feedVars, giveVars
  <2> QED
    BY <2>2, <2>3 DEF Inv
<1> QED
  BY <1>1, <1>2, <1>3, <1>4, <1>5, <1>6, <1>7, <1>8 DEF Next

LEMMA InvHolds == Spec => []Inv
BY InitInv, NextInv, PTL DEF Spec

\* Every variable keeps its type, whatever the interleaving: in particular the
\* counter of writersWg never goes below zero, where Done would panic.
THEOREM TypeCorrect == Spec => []TypeOK
BY InvHolds, PTL DEF Inv

\* c.writersWg counts exactly the goroutines that have not ended (writersWg.Add
\* in storeResponse, storeStreamResponse and buildResponseFromResult; Done).
THEOREM WriterAccountingHolds == Spec => []WriterAccounting
BY InvHolds, PTL DEF Inv, Linked
-------------------------------------------------------------------------------
(* Drains.                                                                    *)

\* A drain that has not begun to wait has seen no goroutine.
Unseen == \A d \in Drainers : drain[d] \in {"idle", "blocked"} => awaited[d] = {}

DrainsCover == Unseen /\ DrainCoversInFlight

\* A goroutine that starts now is none that a drain has seen.
LEMMA SpawnCovers ==
    ASSUME DrainsCover, NEW t, Spawn(t), \A d \in Drainers : t \notin awaited[d],
           UNCHANGED <<drain, awaited>>
    PROVE  DrainsCover'
BY DEF DrainsCover, Unseen, DrainCoversInFlight, Spawn

LEMMA DrainsCoverStep ==
    ASSUME Inv, DrainsCover, [Next]_vars
    PROVE  DrainsCover'
<1>1. CASE UNCHANGED <<tasks, drain, awaited>>
  BY <1>1 DEF DrainsCover, Unseen, DrainCoversInFlight
<1>2. ASSUME NEW c \in Calls, Run(c) PROVE DrainsCover'
  <2>1. CASE buildResponseFromResult(c)
    <3>1. UNCHANGED <<drain, awaited>> /\ pc[c] \in {"directBuild", "nearestBuild"}
      BY <2>1 DEF buildResponseFromResult, drainVars
    <3>2. CASE UNCHANGED tasks
      BY <1>1, <3>1, <3>2
    <3>3. CASE \E next \in {AfterDirect(c), "miss"} : EvictExpired(c, next)
      <4> PICK t : t = [op |-> "evict", by |-> c, kind |-> found[c].kind, id |-> found[c].id]
        OBVIOUS
      <4>1. Spawn(t)
        BY <3>3 DEF EvictExpired
      <4>2. ~ Known(t)
        BY <3>1 DEF Inv, Linked, CallLinked, Known
      <4>3. \A d \in Drainers : t \notin awaited[d]
        BY <4>2 DEF Inv, Linked, TasksKnown
      <4> QED
        BY <3>1, <4>1, <4>3, SpawnCovers
    <3> QED
      BY <2>1, <3>2, <3>3 DEF buildResponseFromResult, FormatMismatch, Replay, taskVars
  <2>2. CASE \E form \in Forms : storeResponse(c, form)
    <3> PICK form \in Forms : storeResponse(c, form)
      BY <2>2
    <3> PICK t : t = [op |-> "add", by |-> c, n |-> stores[c] + 1, id |-> StorageID(c),
                      entry |-> [answer |-> [q |-> req[c].q, by |-> c, n |-> stores[c] + 1,
                                             exp |-> now + req[c].ttl, form |-> form],
                                 vec |-> MissVector(c)]]
      OBVIOUS
    <3>1. Spawn(t) /\ UNCHANGED <<drain, awaited>>
      BY DEF storeResponse, drainVars
    <3>2. ~ Known(t)
      BY DEF Inv, TypeOK, Known
    <3>3. \A d \in Drainers : t \notin awaited[d]
      BY <3>2 DEF Inv, Linked, TasksKnown
    <3> QED
      BY <3>1, <3>3, SpawnCovers
  <2>3. CASE UNCHANGED <<taskVars, drainVars>>
    BY <1>1, <2>3 DEF taskVars, drainVars
  <2> QED
    BY <1>2, <2>1, <2>2, <2>3
    DEF Run, Search, LookupSkipped, Lookup, performDirectSearch, Embed, performSemanticSearch
<1>3. ASSUME NEW t \in tasks, FinishTask(t) PROVE DrainsCover'
  <2>1. /\ tasks' = tasks \ {t} /\ awaited' = awaited
        /\ drain' = [d \in Drainers |->
                IF writersWg = 1 /\ drain[d] = "waiting" THEN "woken" ELSE drain[d]]
    BY <1>3 DEF FinishTask, TaskDone
  <2>2. writersWg = 1 => tasks' = {}
    <3>1. IsFiniteSet(tasks') /\ Cardinality(tasks') = Cardinality(tasks) - 1
      BY <2>1, FS_RemoveElement DEF Inv, Linked
    <3> QED
      BY <3>1, FS_EmptySet DEF Inv, Linked, WriterAccounting
  <2> QED
    BY <2>1, <2>2 DEF DrainsCover, Unseen, DrainCoversInFlight
<1>4. CASE BeginDrain
  <2>1. UNCHANGED tasks
    BY <1>4 DEF BeginDrain, DrainFrame, taskVars
  <2>2. writersWg = 0 => tasks = {}
    BY FS_EmptySet DEF Inv, Linked, WriterAccounting
  <2>3. ASSUME NEW w \in Waiters, WaitForPendingOps(w) PROVE DrainsCover'
    BY <2>1, <2>2, <2>3
    DEF WaitForPendingOps, DrainsCover, Unseen, DrainCoversInFlight, Inv, TypeOK, Drainers
  <2>4. ASSUME NEW k \in Closers, Close(k) PROVE DrainsCover'
    BY <2>1, <2>2, <2>4
    DEF Close, DrainsCover, Unseen, DrainCoversInFlight, Inv, TypeOK, Drainers
  <2> QED
    BY <1>4, <2>3, <2>4 DEF BeginDrain
<1>5. CASE EndDrain
  <2>1. UNCHANGED <<tasks, awaited>>
    BY <1>5 DEF EndDrain, DrainFrame, taskVars, WaitReturns, CloseReturns, LoopStops
  <2>2. ASSUME NEW k \in Closers, CloseReturns(k) PROVE DrainsCover'
    BY <2>1, <2>2
    DEF CloseReturns, DrainsCover, Unseen, DrainCoversInFlight, Inv, TypeOK, Drainers
  <2>3. ASSUME NEW l \in reapers, LoopStops(l) PROVE DrainsCover'
    BY <1>1, <2>1, <2>3 DEF LoopStops
  <2>4. ASSUME NEW d \in Drainers, WaitReturns(d) PROVE DrainsCover'
    BY <2>1, <2>4
    DEF WaitReturns, DrainsCover, Unseen, DrainCoversInFlight, Inv, TypeOK
  <2> QED
    BY <1>5, <2>2, <2>3, <2>4 DEF EndDrain
<1>6. ASSUME NEW a \in Admins, Administer(a) PROVE DrainsCover'
  BY <1>1, <1>6 DEF Administer, Delete, Invalidate, InvalidateByID, ListMatching,
     DeleteMatching, InvalidateReturns, taskVars, drainVars
<1>7. ASSUME NEW f \in Reporters, RecordFeedback(f) PROVE DrainsCover'
  BY <1>1, <1>7 DEF RecordFeedback, LoadIntent, RecordOutcome, ForgetHit, taskVars, drainVars
<1>8. CASE cleanupOldCacheStates \/ Tick \/ ApplyDelete
  BY <1>1, <1>8 DEF cleanupOldCacheStates, Tick, ApplyDelete, taskVars, drainVars
<1>9. CASE UNCHANGED vars
  BY <1>1, <1>9 DEF vars, taskVars, drainVars
<1> QED
  BY <1>2, <1>3, <1>4, <1>5, <1>6, <1>7, <1>8, <1>9 DEF Next

\* WaitForPendingOps and Close return only when everything that was in flight
\* when they were called has ended (WaitGroup.Wait on writersWg).
THEOREM DrainCoversInFlightHolds == Spec => []DrainCoversInFlight
<1>1. Init => DrainsCover
  BY DEF Init, DrainsCover, Unseen, DrainCoversInFlight
<1> QED
  BY <1>1, InvHolds, DrainsCoverStep, PTL DEF Spec, DrainsCover
-------------------------------------------------------------------------------
(* What is filed where.                                                       *)

\* An entry that a call wrote, or is about to write, under id: the call is at
\* its miss, the ID is the one the call stores under, the answer is one it gave.
Filed(id, e) ==
    LET by == e.answer.by
    IN /\ e \in Entries
       /\ e.answer \in given
       /\ pc[by] = "miss"
       /\ e.answer.n <= stores[by]
       /\ e.answer.q = req[by].q
       /\ id = StorageID(by)

\* A result under judgement, or served, is one the caller may have.
FoundFor(c) ==
    /\ found[c].entry.answer \in given
    /\ KeyOf[found[c].entry.answer.q] = KeyOf[req[c].q]
    /\ BucketOf[found[c].entry.answer.q] = BucketOf[req[c].q]
    /\ found[c].kind = "direct" => found[c].entry.answer.q = req[c].q
    /\ found[c].kind = "semantic" => <<req[c].q, found[c].entry.vec>> \in Similar

Filing ==
    /\ \A id \in Ids : store[id] # None => Filed(id, store[id])
    /\ \A t \in tasks : t.op = "add" =>
          /\ Filed(t.id, t.entry)
          /\ t.entry.answer.by = t.by /\ t.entry.answer.n = t.n
    /\ \A c \in Calls : pc[c] \in {"directBuild", "nearestBuild", "hit"} => FoundFor(c)

\* What only grows: a call at its miss stays there with its request, its count
\* of Store calls and the answers given never shrink.
LEMMA MissStable ==
    ASSUME Inv, [Next]_vars
    PROVE  /\ \A c \in Calls : pc[c] = "miss" =>
                  pc'[c] = "miss" /\ req'[c] = req[c] /\ stores'[c] >= stores[c]
           /\ given \subseteq given'
<1>1. CASE UNCHANGED <<callVars, giveVars>>
  BY <1>1 DEF callVars, giveVars, Inv, TypeOK
<1>2. ASSUME NEW d \in Calls, Run(d)
      PROVE  /\ \A c \in Calls : pc[c] = "miss" =>
                    pc'[c] = "miss" /\ req'[c] = req[c] /\ stores'[c] >= stores[c]
             /\ given \subseteq given'
  <2>1. CASE \E form \in Forms : storeResponse(d, form)
    BY <2>1 DEF storeResponse, callVars, Inv, TypeOK
  <2>2. CASE LookupSkipped(d) \/ Lookup(d) \/ Search(d)
    <3>1. pc[d] # "miss" /\ UNCHANGED giveVars
      BY <2>2 DEF LookupSkipped, Lookup, Search, performDirectSearch, Embed,
         performSemanticSearch, buildResponseFromResult
    <3>2. \A c \in Calls : c # d => pc'[c] = pc[c] /\ req'[c] = req[c]
      BY <2>2 DEF LookupSkipped, Lookup, Search, performDirectSearch, Embed,
         performSemanticSearch, buildResponseFromResult, EvictExpired, FormatMismatch,
         Replay, Inv, TypeOK
    <3> QED
      BY <3>1, <3>2 DEF giveVars, Inv, TypeOK
  <2> QED
    BY <1>2, <2>1, <2>2 DEF Run
<1>3. CASE ~ \E d \in Calls : Run(d)
  <2>1. UNCHANGED <<callVars, giveVars>>
    BY <1>3 DEF Next, vars, FinishTask, ApplyDelete, Administer, Delete, Invalidate, InvalidateByID,
       ListMatching, DeleteMatching, InvalidateReturns, RecordFeedback, LoadIntent,
       RecordOutcome, ForgetHit, BeginDrain, EndDrain, DrainFrame, cleanupOldCacheStates, Tick
  <2> QED
    BY <1>1, <2>1
<1> QED
  BY <1>2, <1>3

\* So an entry once filed stays filed.
LEMMA FiledStable ==
    ASSUME Inv, [Next]_vars, NEW id, NEW e, Filed(id, e)
    PROVE  Filed(id, e)'
<1>1. e.answer.by \in Calls
  BY DEF Filed, Entries, Answers
<1>2. e.answer.n \in Nat /\ stores[e.answer.by] \in Nat /\ stores'[e.answer.by] \in Nat
  BY <1>1, NextInv, ConstantsAssumption DEF Filed, Entries, Answers, Inv, TypeOK
<1> QED
  BY <1>1, <1>2, MissStable DEF Filed, StorageID, DoDirect, DirectID
\* Whichever way Add treats an ID in use, what it leaves was written under it.
LEMMA AddedFiled ==
    ASSUME NEW id, NEW old, NEW new, Filed(id, new), old = None \/ Filed(id, old)
    PROVE  Filed(id, Added(old, new))
<1> DEFINE mix == [new EXCEPT !.vec = IF new.vec = NoVec THEN old.vec ELSE new.vec]
<1>1. Added(old, new) \in {new} \/ (old # None /\ Added(old, new) \in {old, mix})
  BY ConstantsAssumption DEF Added
<1>2. old # None => mix \in Entries /\ mix.answer = new.answer
  BY DEF Filed, Entries
<1> QED
  BY <1>1, <1>2 DEF Filed

\* What it leaves, if it changes anything, has the new answer.
LEMMA AddedAnswer ==
    ASSUME NEW old, NEW new \in Entries, Added(old, new) # old
    PROVE  Added(old, new).answer = new.answer
<1> DEFINE mix == [new EXCEPT !.vec = IF new.vec = NoVec THEN old.vec ELSE new.vec]
<1>1. Added(old, new) \in {new, mix}
  BY ConstantsAssumption DEF Added
<1>2. mix.answer = new.answer
  BY DEF Entries
<1> QED
  BY <1>1, <1>2

\* An entry under the direct ID of a query answers that query.
LEMMA DirectFiled ==
    ASSUME Inv, NEW q \in Queries, NEW e, Filed(DirectID(q), e)
    PROVE  e.answer.q = q
<1>1. e.answer.by \in Calls /\ RequestIdOf[e.answer.by] \in RequestIds
  BY ConstantsAssumption DEF Filed, Entries, Answers
<1> QED
  BY <1>1, ConstantsAssumption DEF Filed, StorageID, DirectID

\* Only Store starts a goroutine that writes.
LEMMA NewAdd ==
    ASSUME [Next]_vars, NEW t \in tasks', t \notin tasks, t.op = "add"
    PROVE  \E c \in Calls, form \in Forms : storeResponse(c, form)
<1>1. ASSUME NEW c \in Calls, Search(c) PROVE FALSE
  BY <1>1 DEF Search, performDirectSearch, Embed, performSemanticSearch,
     buildResponseFromResult, EvictExpired, FormatMismatch, Replay, Spawn, taskVars
<1>2. ASSUME NEW c \in Calls, LookupSkipped(c) \/ Lookup(c) PROVE FALSE
  BY <1>2 DEF LookupSkipped, Lookup, taskVars
<1>3. \E c \in Calls : Run(c)
  BY DEF Next, vars, taskVars, FinishTask, ApplyDelete, TaskDone,
     Administer, Delete, Invalidate, InvalidateByID, ListMatching,
     DeleteMatching, InvalidateReturns, RecordFeedback, LoadIntent, RecordOutcome,
     ForgetHit, BeginDrain, EndDrain, DrainFrame, cleanupOldCacheStates, Tick
<1> QED
  BY <1>1, <1>2, <1>3 DEF Run

\* Only such a goroutine puts an entry into the store, and lifts a mark that a
\* delete has left without taking the entry.
LEMMA NewEntry ==
    ASSUME Inv, [Next]_vars, NEW id \in Ids, store'[id] # None,
           store'[id] # store[id] \/ (id \in doomed /\ id \notin doomed')
    PROVE  \E t \in tasks, old \in {store[id], None} :
              /\ FinishTask(t)
              /\ t.op = "add" /\ t.id = id
              /\ store'[id] = Added(old, t.entry)
              /\ id \in doomed => old = None
<1>1. ASSUME NEW i \in Ids, Remove(i) PROVE FALSE
  BY <1>1, RemoveTakes DEF Inv
<1>2. ~ (UNCHANGED <<store, doomed>>)
  OBVIOUS
<1>3. ASSUME NEW a \in Admins, Administer(a) PROVE FALSE
  <2>1. admin[a].todo \cup EntriesOf(admin[a].key) \subseteq Ids
    BY DEF Inv, TypeOK, EntriesOf
  <2> QED
    BY <1>1, <1>2, <1>3, <2>1 DEF Administer, Delete, Invalidate, InvalidateByID,
       ListMatching, DeleteMatching, InvalidateReturns
<1>4. ~ ApplyDelete
  BY DEF ApplyDelete, Inv, TypeOK
<1>5. \E t \in tasks : FinishTask(t)
  BY <1>2, <1>3, <1>4, ZenonT(40) DEF Next, vars, Run, Search, LookupSkipped, Lookup,
     performDirectSearch, Embed, performSemanticSearch, buildResponseFromResult,
     storeResponse, RecordFeedback, LoadIntent, RecordOutcome,
     ForgetHit, BeginDrain, EndDrain, DrainFrame, cleanupOldCacheStates, Tick
<1>6. PICK t \in tasks : FinishTask(t)
  BY <1>5
<1>7. t.id \in Ids
  BY DEF Inv, TypeOK, AddTasks, EvictTasks
<1>8. t.op = "add" /\ Write(t.id, t.entry)
  BY <1>1, <1>2, <1>6, <1>7 DEF FinishTask
<1>9. t.id = id
  BY <1>8 DEF Write, Inv, TypeOK
<1>10. store'[id] = Added(IF id \in doomed THEN None ELSE store[id], t.entry)
  BY <1>8, <1>9 DEF Write, Inv, TypeOK
<1> QED
  BY <1>6, <1>8, <1>9, <1>10

LEMMA FilingStore ==
    ASSUME Inv, Filing, [Next]_vars
    PROVE  (\A id \in Ids : store[id] # None => Filed(id, store[id]))'
<1> SUFFICES ASSUME NEW id \in Ids, NEW e, e = store'[id], e # None
             PROVE  Filed(id, e)'
  BY DEF Filed
<1>1. CASE e = store[id]
  BY <1>1, FiledStable DEF Filing
<1>2. CASE e # store[id]
  <2>1. PICK t \in tasks, old \in {store[id], None} :
          t.op = "add" /\ t.id = id /\ e = Added(old, t.entry)
    BY <1>2, NewEntry
  <2>2. Filed(id, e)
    BY <2>1, AddedFiled DEF Filing
  <2> QED
    BY <2>2, FiledStable
<1> QED
  BY <1>1, <1>2

LEMMA FilingTasks ==
    ASSUME Inv, Filing, [Next]_vars
    PROVE  \A t \in tasks' : t.op = "add" =>
              /\ Filed(t.id, t.entry)'
              /\ t.entry.answer.by = t.by /\ t.entry.answer.n = t.n
<1> SUFFICES ASSUME NEW t \in tasks', t.op = "add"
             PROVE  /\ Filed(t.id, t.entry)'
                    /\ t.entry.answer.by = t.by /\ t.entry.answer.n = t.n
  OBVIOUS
<1>1. CASE t \in tasks
  BY <1>1, FiledStable DEF Filing
<1>2. CASE t \notin tasks
  <2>2. PICK c \in Calls, form \in Forms : storeResponse(c, form)
    BY <1>2, NewAdd
  <2> DEFINE a == [q |-> req[c].q, by |-> c, n |-> stores[c] + 1,
                   exp |-> now + req[c].ttl, form |-> form]
  <2>3. t = [op |-> "add", by |-> c, n |-> stores[c] + 1, id |-> StorageID(c),
             entry |-> [answer |-> a, vec |-> MissVector(c)]]
    BY <1>2, <2>2 DEF storeResponse, Spawn
  <2>4. /\ pc[c] = "miss" /\ pc' = pc /\ req' = req
        /\ stores' = [stores EXCEPT ![c] = stores[c] + 1]
        /\ given' = given \cup {a}
    BY <2>2 DEF storeResponse, callVars
  <2>5. t.entry \in Entries
    <3>1. TypeOK' /\ t \in AddTasks
      BY <1>2, <2>3, NextInv DEF Inv, TypeOK, AddTasks, EvictTasks
    <3> QED
      BY <3>1 DEF AddTasks
  <2>6. t.entry.answer = a /\ t.id = StorageID(c)
    BY <2>3
  <2>7. a.by = c /\ a.n = stores[c] + 1 /\ a.q = req[c].q
    OBVIOUS
  <2>8. stores'[c] = stores[c] + 1 /\ stores[c] \in Nat
    BY <2>4 DEF Inv, TypeOK
  <2>9. StorageID(c)' = StorageID(c)
    BY <2>4 DEF StorageID, DoDirect, DirectID
  <2>10. t.entry.answer \in given'
    BY <2>4, <2>6
  <2>11. t.by = c /\ t.n = stores[c] + 1
    BY <2>3
  <2> HIDE DEF a
  <2> QED
    BY <2>4, <2>5, <2>6, <2>7, <2>8, <2>9, <2>10, <2>11 DEF Filed
<1> QED
  BY <1>1, <1>2
LEMMA FilingFound ==
    ASSUME Inv, Filing, [Next]_vars
    PROVE  (\A c \in Calls : pc[c] \in {"directBuild", "nearestBuild", "hit"} => FoundFor(c))'
<1> SUFFICES ASSUME NEW c \in Calls, pc'[c] \in {"directBuild", "nearestBuild", "hit"}
             PROVE  FoundFor(c)'
  OBVIOUS
<1>0. given \subseteq given'
  BY MissStable
<1>1. CASE /\ pc[c] \in {"directBuild", "nearestBuild", "hit"}
           /\ found'[c] = found[c] /\ req'[c] = req[c]
  BY <1>0, <1>1 DEF Filing, FoundFor
<1>2. CASE performDirectSearch(c)
  <2>1. req[c] \in Requests /\ req[c].q \in Queries
    BY <1>2 DEF performDirectSearch, Inv, Linked, CallLinked, searching, Requests
  <2> DEFINE id == DirectID(req[c].q)
  <2>2. /\ store[id] # None /\ req' = req /\ id \in Ids
        /\ found'[c] = [id |-> id, entry |-> store[id], kind |-> "direct"]
    BY <1>2, <2>1 DEF performDirectSearch, AfterDirect, Inv, TypeOK, DirectID, Ids
  <2>3. Filed(id, store[id])
    BY <2>2 DEF Filing
  <2>4. store[id].answer.q = req[c].q
    BY <2>1, <2>3, DirectFiled
  <2> QED
    BY <1>0, <2>2, <2>3, <2>4 DEF FoundFor, Filed
<1>3. CASE performSemanticSearch(c)
  <2>1. PICK id \in Ids :
          /\ store[id] # None
          /\ Matches(req[c].q, store[id])
          /\ found' = [found EXCEPT ![c] =
                [id |-> id, entry |-> store[id], kind |-> "semantic"]]
    BY <1>3 DEF performSemanticSearch, Inv, TypeOK
  <2>2. Filed(id, store[id])
    BY <2>1 DEF Filing
  <2>3. req' = req /\ found'[c] = [id |-> id, entry |-> store[id], kind |-> "semantic"]
    BY <1>3, <2>1 DEF performSemanticSearch, Inv, TypeOK
  <2> QED
    BY <1>0, <2>1, <2>2, <2>3 DEF FoundFor, Filed, Matches
<1>4. CASE buildResponseFromResult(c)
  <2>1. pc[c] \in {"directBuild", "nearestBuild"} /\ Replay(c) /\ req' = req
    BY <1>4 DEF buildResponseFromResult, EvictExpired, FormatMismatch, AfterDirect, Inv, TypeOK
  <2> QED
    BY <1>1, <2>1 DEF Replay
<1>5. CASE ~ (performDirectSearch(c) \/ performSemanticSearch(c) \/ buildResponseFromResult(c))
  <2>1. CASE \E d \in Calls : Run(d)
    <3> PICK d \in Calls : Run(d)
      BY <2>1
    <3>1. CASE d # c
      <4>1. pc'[c] = pc[c] /\ found'[c] = found[c] /\ req'[c] = req[c]
        BY <3>1 DEF Run, Search, LookupSkipped, Lookup, performDirectSearch, Embed,
           performSemanticSearch, buildResponseFromResult, EvictExpired, FormatMismatch,
           Replay, storeResponse, callVars, Inv, TypeOK
      <4> QED
        BY <1>1, <4>1
    <3>2. CASE d = c
      BY <1>1, <1>5, <3>2 DEF Run, Search, LookupSkipped, Lookup, Embed, storeResponse,
         callVars, Inv, TypeOK
    <3> QED
      BY <3>1, <3>2
  <2>2. CASE ~ \E d \in Calls : Run(d)
    <3>1. UNCHANGED callVars
      BY <2>2 DEF Next, vars, FinishTask, ApplyDelete, Administer, Delete, Invalidate, InvalidateByID,
         ListMatching, DeleteMatching, InvalidateReturns, RecordFeedback, LoadIntent,
         RecordOutcome, ForgetHit, BeginDrain, EndDrain, DrainFrame, cleanupOldCacheStates, Tick
    <3> QED
      BY <1>1, <3>1 DEF callVars
  <2> QED
    BY <2>1, <2>2
<1> QED
  BY <1>2, <1>3, <1>4, <1>5

LEMMA FilingStep ==
    ASSUME Inv, Filing, [Next]_vars
    PROVE  Filing'
BY FilingStore, FilingTasks, FilingFound DEF Filing

LEMMA FilingHolds == Spec => []Filing
<1>1. Init => Filing
  BY DEF Init, Filing
<1> QED
  BY <1>1, InvHolds, FilingStep, PTL DEF Spec
-------------------------------------------------------------------------------
(* Under which vector an entry is filed.                                      *)

\* The one thing the caller must do on a store whose Add keeps the embedding
\* that an entry already has: never use a request ID for two calls.
DistinctRequestIds ==
    AddMode = "merge" => \A c, d \in Calls : RequestIdOf[c] = RequestIdOf[d] => c = d

OwnVector(e) == e.vec \in {e.answer.q, NoVec, Placeholder}

OwnVectors ==
    /\ \A id \in Ids : store[id] # None => OwnVector(store[id])
    /\ \A t \in tasks : t.op = "add" => OwnVector(t.entry)
    /\ \A c \in Calls : pc[c] \in {"directBuild", "nearestBuild", "hit"} =>
          OwnVector(found[c].entry)

\* Two entries filed under one ID answer the same request, if request IDs are
\* used once: a direct ID is its request, a request ID is its call.
LEMMA FiledTogether ==
    ASSUME Inv, AddMode = "merge", DistinctRequestIds,
           NEW id, NEW d, NEW e, Filed(id, d), Filed(id, e)
    PROVE  d.answer.q = e.answer.q
<1>1. /\ d.answer.by \in Calls /\ e.answer.by \in Calls
      /\ d.answer.q \in Queries /\ e.answer.q \in Queries
  BY DEF Filed, Entries, Answers
<1>2. RequestIdOf[d.answer.by] \in RequestIds /\ RequestIdOf[e.answer.by] \in RequestIds
  BY <1>1, ConstantsAssumption
<1> QED
  BY <1>1, <1>2, ConstantsAssumption DEF Filed, StorageID, DirectID, DistinctRequestIds

LEMMA AddedOwnVector ==
    ASSUME Inv, DistinctRequestIds, NEW id, NEW old, NEW new,
           Filed(id, new), OwnVector(new),
           old = None \/ (Filed(id, old) /\ OwnVector(old))
    PROVE  OwnVector(Added(old, new))
<1> DEFINE mix == [new EXCEPT !.vec = IF new.vec = NoVec THEN old.vec ELSE new.vec]
<1>1. \/ Added(old, new) = new
      \/ old # None /\ Added(old, new) = old
      \/ old # None /\ AddMode = "merge" /\ Added(old, new) = mix
  BY ConstantsAssumption DEF Added
<1>2. CASE old # None /\ AddMode = "merge" /\ Added(old, new) = mix
  <2>1. old.answer.q = new.answer.q
    BY <1>2, FiledTogether
  <2>2. /\ mix.answer = new.answer
        /\ mix.vec = IF new.vec = NoVec THEN old.vec ELSE new.vec
    BY DEF Filed, Entries
  <2> QED
    BY <1>2, <2>1, <2>2 DEF OwnVector
<1> QED
  BY <1>1, <1>2

LEMMA OwnVectorsStep ==
    ASSUME Inv, Filing, OwnVectors, DistinctRequestIds, [Next]_vars
    PROVE  OwnVectors'
<1>1. CASE UNCHANGED <<store, tasks, pc, found>>
  BY <1>1 DEF OwnVectors, OwnVector
<1>2. ASSUME NEW c \in Calls, Run(c) PROVE OwnVectors'
  <2>1. store' = store
    BY <1>2 DEF Run, Search, LookupSkipped, Lookup, performDirectSearch, Embed,
       performSemanticSearch, buildResponseFromResult, storeResponse
  <2>2. \A d \in Calls : d # c => pc'[d] = pc[d] /\ found'[d] = found[d]
    BY <1>2 DEF Run, Search, LookupSkipped, Lookup, performDirectSearch, Embed,
       performSemanticSearch, buildResponseFromResult, EvictExpired, FormatMismatch,
       Replay, storeResponse, callVars, Inv, TypeOK
  <2>3. pc'[c] \in {"directBuild", "nearestBuild", "hit"} => OwnVector(found'[c].entry)
    <3>1. CASE performDirectSearch(c)
      <4>1. req[c].q \in Queries
        BY <3>1 DEF performDirectSearch, Inv, Linked, CallLinked, searching, Requests
      <4>2. DirectID(req[c].q) \in Ids
        BY <4>1 DEF DirectID, Ids
      <4> QED
        BY <3>1, <4>2 DEF performDirectSearch, AfterDirect, OwnVectors, Inv, TypeOK
    <3>2. CASE performSemanticSearch(c)
      BY <3>2 DEF performSemanticSearch, OwnVectors, Inv, TypeOK
    <3>3. CASE buildResponseFromResult(c)
      BY <3>3 DEF buildResponseFromResult, EvictExpired, FormatMismatch, Replay,
         AfterDirect, OwnVectors, Inv, TypeOK
    <3>4. CASE LookupSkipped(c) \/ Lookup(c) \/ Embed(c)
      BY <3>4 DEF LookupSkipped, Lookup, Embed, Inv, TypeOK
    <3>5. CASE \E form \in Forms : storeResponse(c, form)
      BY <3>5 DEF storeResponse, callVars, OwnVectors
    <3> QED
      BY <1>2, <3>1, <3>2, <3>3, <3>4, <3>5 DEF Run, Search
  <2>4. ASSUME NEW t \in tasks', t.op = "add" PROVE OwnVector(t.entry)
    <3>1. CASE t \in tasks
      BY <2>4, <3>1 DEF OwnVectors
    <3>2. CASE t \notin tasks
      <4>1. PICK form \in Forms : storeResponse(c, form)
        BY <1>2, <2>4, <3>2 DEF Run, Search, LookupSkipped, Lookup, performDirectSearch, Embed,
           performSemanticSearch, buildResponseFromResult, EvictExpired, FormatMismatch,
           Replay, Spawn, taskVars
      <4>2. t.entry.answer.q = req[c].q /\ t.entry.vec = MissVector(c)
        BY <3>2, <4>1 DEF storeResponse, Spawn
      <4>3. embedding[c] # NoVec => embedding[c] = req[c].q
        BY DEF Inv, Linked, CallLinked
      <4> QED
        BY <4>2, <4>3 DEF OwnVector, MissVector
    <3> QED
      BY <3>1, <3>2
  <2> QED
    BY <2>1, <2>2, <2>3, <2>4 DEF OwnVectors, OwnVector
<1>3. ASSUME NEW t \in tasks, FinishTask(t) PROVE OwnVectors'
  <2>1. tasks' = tasks \ {t} /\ UNCHANGED <<pc, found>>
    BY <1>3 DEF FinishTask, TaskDone, callVars
  <2>2. ASSUME NEW id \in Ids, store'[id] # None PROVE OwnVector(store'[id])
    <3>1. CASE store'[id] = store[id]
      BY <2>2, <3>1 DEF OwnVectors
    <3>2. CASE store'[id] # store[id]
      <4>1. PICK u \in tasks, old \in {store[id], None} :
              u.op = "add" /\ u.id = id /\ store'[id] = Added(old, u.entry)
        BY <2>2, <3>2, NewEntry
      <4>2. Filed(id, u.entry) /\ OwnVector(u.entry)
        BY <4>1 DEF Filing, OwnVectors
      <4>3. old = None \/ (Filed(id, old) /\ OwnVector(old))
        BY <4>1 DEF Filing, OwnVectors
      <4> QED
        BY <4>1, <4>2, <4>3, AddedOwnVector
    <3> QED
      BY <3>1, <3>2
  <2> QED
    BY <2>1, <2>2 DEF OwnVectors, OwnVector
<1>4. ASSUME NEW a \in Admins, Administer(a) PROVE OwnVectors'
  <2>1. UNCHANGED <<tasks, pc, found>>
    BY <1>4 DEF Administer, Delete, Invalidate, InvalidateByID, ListMatching,
       DeleteMatching, InvalidateReturns, taskVars, callVars
  <2>2. \A i \in Ids : Remove(i) => \A id \in Ids : store'[id] \in {store[id], None}
    BY RemoveTakes DEF Inv
  <2>3. admin[a].todo \cup EntriesOf(admin[a].key) \subseteq Ids
    BY DEF Inv, TypeOK, EntriesOf
  <2>4. \A id \in Ids : store'[id] \in {store[id], None}
    BY <1>4, <2>2, <2>3 DEF Administer, Delete, Invalidate, InvalidateByID, ListMatching,
       DeleteMatching, InvalidateReturns
  <2> QED
    BY <2>1, <2>4 DEF OwnVectors, OwnVector
<1>5. ASSUME NEW f \in Reporters, RecordFeedback(f) PROVE OwnVectors'
  BY <1>1, <1>5 DEF RecordFeedback, LoadIntent, RecordOutcome, ForgetHit, taskVars, callVars
<1>6. CASE BeginDrain \/ EndDrain \/ cleanupOldCacheStates \/ Tick \/ UNCHANGED vars
  BY <1>1, <1>6 DEF BeginDrain, EndDrain, DrainFrame, cleanupOldCacheStates, Tick, vars,
     taskVars, callVars
<1>7. CASE ApplyDelete
  <2>1. /\ UNCHANGED <<tasks, pc, found>>
        /\ \A id \in Ids : store'[id] \in {store[id], None}
    BY <1>7 DEF ApplyDelete, taskVars, callVars, Inv, TypeOK
  <2> QED
    BY <2>1 DEF OwnVectors, OwnVector
<1> QED
  BY <1>2, <1>3, <1>4, <1>5, <1>6, <1>7 DEF Next

LEMMA OwnVectorsHolds == ASSUME DistinctRequestIds PROVE Spec => []OwnVectors
<1>1. Init => OwnVectors
  BY DEF Init, OwnVectors
<1>2. Inv /\ Filing /\ OwnVectors /\ [Next]_vars => OwnVectors'
  BY OwnVectorsStep
<1> QED
  BY <1>1, <1>2, InvHolds, FilingHolds, PTL DEF Spec

\* The namespace stays sound: a direct ID holds an answer to its own request,
\* and no entry is indexed under the vector of another request than the one it
\* answers (storageID and the vector of the MissHandle, Add of the stores).
THEOREM FiledUnderOwnRequestHolds ==
    ASSUME DistinctRequestIds PROVE Spec => []FiledUnderOwnRequest
<1>1. Inv /\ Filing /\ OwnVectors => FiledUnderOwnRequest
  <2> SUFFICES ASSUME Inv, Filing, OwnVectors, NEW id \in Ids, store[id] # None
               PROVE  /\ id \in Queries => store[id].answer.q = id
                      /\ OwnVector(store[id])
    BY DEF FiledUnderOwnRequest, OwnVector
  <2>1. ASSUME id \in Queries PROVE store[id].answer.q = id
    <3>1. Filed(DirectID(id), store[id])
      BY DEF Filing, DirectID
    <3> QED
      BY <2>1, <3>1, DirectFiled
  <2> QED
    BY <2>1 DEF OwnVectors
<1> QED
  BY <1>1, InvHolds, FilingHolds, OwnVectorsHolds, PTL
-------------------------------------------------------------------------------
(* The cache implements its promise.                                          *)

\* What a call has been answered: the abstract variable "served".
answered == [c \in Calls |->
    IF pc[c] = "hit"
    THEN [kind |-> found[c].kind, q |-> req[c].q, answer |-> found[c].entry.answer]
    ELSE None]

LEMMA PromiseInitially == Init => Promise!PromiseInit
BY DEF Init, Promise!PromiseInit

\* A hit is a Serve: what Filing and OwnVectors say of the result under
\* judgement, and the clock read by buildResponseFromResult, make it admissible.
LEMMA ServeStep ==
    ASSUME Inv, Filing, OwnVectors, NEW c \in Calls,
           buildResponseFromResult(c), Replay(c)
    PROVE  Promise!PromiseNext
<1>1. /\ pc[c] \in {"directBuild", "nearestBuild"}
      /\ req[c] \in Requests /\ found[c] \in Results
      /\ FoundFor(c) /\ OwnVector(found[c].entry)
  BY DEF buildResponseFromResult, Inv, Linked, CallLinked, searching, Filing, OwnVectors
<1>2. UNCHANGED <<now, given, req, found>> /\ pc' = [pc EXCEPT ![c] = "hit"]
  BY DEF buildResponseFromResult, Replay, giveVars
<1> DEFINE e == found[c].entry
<1>3. /\ found[c].kind \in {"direct", "semantic"} /\ req[c].q \in Queries
      /\ e \in Entries /\ e.answer \in given /\ e.answer.exp \in Nat /\ e.answer.q \in Queries
  BY <1>1 DEF Requests, Results, Entries, Answers, FoundFor
<1>4. e.answer.exp >= now
  BY <1>3 DEF Replay, Expired, Inv, TypeOK
<1>5. found[c].kind = "semantic" => <<req[c].q, e.answer.q>> \in Similar
  <2>1. <<req[c].q, e.vec>> \in Similar => e.vec \in Queries
    BY ConstantsAssumption
  <2> QED
    BY <1>1, <2>1, ConstantsAssumption DEF FoundFor, OwnVector
<1>6. Promise!Admissible(found[c].kind, req[c].q, e.answer)
  BY <1>1, <1>3, <1>5 DEF FoundFor, Promise!Admissible, Promise!SameScope
<1>7. answered[c] = None
  BY <1>1 DEF answered
<1>8. answered' = [answered EXCEPT ![c] =
            [kind |-> found[c].kind, q |-> req[c].q, answer |-> e.answer]]
  BY <1>1, <1>2 DEF answered, Inv, TypeOK
<1> HIDE DEF e
<1>9. Promise!Serve(c)
  <2> PICK kind, q, a : kind = found[c].kind /\ q = req[c].q /\ a = e.answer
    OBVIOUS
  <2>1. kind \in {"direct", "semantic"} /\ q \in Queries /\ a \in given
    BY <1>3
  <2>2. Promise!Admissible(kind, q, a) /\ a.exp >= now
    BY <1>4, <1>6
  <2>3. answered' = [answered EXCEPT ![c] = [kind |-> kind, q |-> q, answer |-> a]]
    BY <1>8
  <2>4. now' = now /\ given' = given
    BY <1>2
  <2>5. \E k \in {"direct", "semantic"}, p \in Queries, b \in given :
          /\ Promise!Admissible(k, p, b)
          /\ b.exp >= now
          /\ answered' = [answered EXCEPT ![c] = [kind |-> k, q |-> p, answer |-> b]]
    BY <2>1, <2>2, <2>3
  <2> QED
    BY <1>7, <2>4, <2>5, Zenon DEF Promise!Serve, answered
<1> QED
  BY <1>9 DEF Promise!PromiseNext

\* Store and StoreStream are a Give: the answer expires a lifetime from now.
LEMMA GiveStep ==
    ASSUME Inv, NEW c \in Calls, NEW form \in Forms, storeResponse(c, form)
    PROVE  Promise!PromiseNext
<1> DEFINE a == [q |-> req[c].q, by |-> c, n |-> stores[c] + 1,
                 exp |-> now + req[c].ttl, form |-> form]
<1>1. req[c] \in Requests /\ req[c].q \in Queries /\ req[c].ttl \in TTLs
  BY DEF storeResponse, Inv, Linked, CallLinked, Requests
<1>2. stores[c] + 1 \in 1..MaxStores
  BY ConstantsAssumption DEF storeResponse, Inv, TypeOK
<1>3. a \in Promise!AnswerUntil({now + ttl : ttl \in TTLs})
  BY <1>1, <1>2 DEF Promise!AnswerUntil, Forms, Promise!Forms
<1>4. given' = given \cup {a} /\ UNCHANGED <<now, pc, req, found>>
  BY DEF storeResponse, callVars
<1> HIDE DEF a
<1>5. Promise!Give
  BY <1>3, <1>4 DEF Promise!Give
<1> QED
  BY <1>5 DEF Promise!PromiseNext

\* Every other step leaves what the caller sees alone: a call that was hit is
\* never touched again.
LEMMA StutterStep ==
    ASSUME Inv, NEW c \in Calls, Run(c),
           ~ (buildResponseFromResult(c) /\ Replay(c)),
           ~ \E form \in Forms : storeResponse(c, form)
    PROVE  UNCHANGED <<now, given, answered>>
<1>1. UNCHANGED <<now, given>>
  BY DEF Run, Search, LookupSkipped, Lookup, performDirectSearch, Embed,
     performSemanticSearch, buildResponseFromResult, giveVars
<1>2. pc[c] # "hit" /\ pc'[c] # "hit"
  BY DEF Run, Search, LookupSkipped, Lookup, performDirectSearch, Embed, AfterDirect,
     performSemanticSearch, buildResponseFromResult, EvictExpired, FormatMismatch, Inv, TypeOK
<1>3. \A d \in Calls : d # c => pc'[d] = pc[d] /\ found'[d] = found[d] /\ req'[d] = req[d]
  BY DEF Run, Search, LookupSkipped, Lookup, performDirectSearch, Embed,
     performSemanticSearch, buildResponseFromResult, EvictExpired, FormatMismatch,
     Replay, Inv, TypeOK
<1>4. answered' = answered
  BY <1>2, <1>3 DEF answered
<1> QED
  BY <1>1, <1>4

LEMMA PromiseStep ==
    ASSUME Inv, Filing, OwnVectors, [Next]_vars
    PROVE  [Promise!PromiseNext]_(Promise!promiseVars)
<1>1. ASSUME UNCHANGED <<now, given, answered>>
      PROVE  UNCHANGED Promise!promiseVars
  BY <1>1 DEF Promise!promiseVars, answered
<1>2. ASSUME UNCHANGED <<now, given, callVars>>
      PROVE  UNCHANGED Promise!promiseVars
  BY <1>1, <1>2 DEF callVars, answered
<1>3. ASSUME NEW c \in Calls, Run(c)
      PROVE  Promise!PromiseNext \/ UNCHANGED Promise!promiseVars
  BY <1>1, <1>3, ServeStep, GiveStep, StutterStep
<1>4. CASE Tick
  <2>1. now' = now + 1 /\ UNCHANGED <<given, pc, found, req>>
    BY <1>4 DEF Tick, giveVars, callVars
  <2> QED
    BY <2>1 DEF Promise!PromiseNext, Promise!Pass
<1>5. CASE ~ Tick /\ ~ \E c \in Calls : Run(c)
  <2>1. UNCHANGED <<now, given, callVars>>
    BY <1>5 DEF Next, vars, giveVars, FinishTask, ApplyDelete, Administer, Delete, Invalidate,
       InvalidateByID, ListMatching, DeleteMatching, InvalidateReturns, RecordFeedback,
       LoadIntent, RecordOutcome, ForgetHit, BeginDrain, EndDrain, DrainFrame,
       cleanupOldCacheStates
  <2> QED
    BY <1>2, <2>1
<1> QED
  BY <1>3, <1>4, <1>5

\* The cache implements CachePromise: whatever runs beside it, a lookup returns
\* only an answer that was given, in the caller's scope, for a request it may
\* stand for, and not expired when buildResponseFromResult judged it.
THEOREM KeepsPromiseHolds ==
    ASSUME DistinctRequestIds PROVE Spec => KeepsPromise
<1>1. Inv /\ Filing /\ OwnVectors /\ [Next]_vars
        => [Promise!PromiseNext]_(Promise!promiseVars)
  BY PromiseStep
<1> QED
  BY <1>1, PromiseInitially, InvHolds, FilingHolds, OwnVectorsHolds, PTL
  DEF Spec, KeepsPromise, Promise!PromiseSpec
-------------------------------------------------------------------------------
(* Invalidation.                                                              *)

\* An answer whose write has ended: no goroutine will write it (again).
Settled(x) ==
    /\ x \in Answers
    /\ x.n <= stores[x.by]
    /\ \A t \in tasks : t.op = "add" => t.entry.answer # x

\* How far an invalidation has got with what it found.
Purged(a) ==
    /\ \A x \in admin[a].gone : Settled(x)
    /\ admin[a].pc = "scan" => \A x \in admin[a].gone : KeyOf[x.q] = admin[a].key
    /\ admin[a].pc = "delete" =>
          \A id \in Ids : store[id] # None /\ store[id].answer \in admin[a].gone =>
              id \in admin[a].todo \cup doomed \/ admin[a].failed
    /\ admin[a].pc = "ok" =>
          \A id \in Ids : store[id] # None /\ store[id].answer \in admin[a].gone =>
              id \in doomed

WritesOnce ==
    /\ \A t, u \in tasks : /\ t.op = "add" /\ u.op = "add"
                           /\ t.by = u.by /\ t.n = u.n
                           => t = u
    /\ \A id \in Ids : store[id] # None => Settled(store[id].answer)

Purging == WritesOnce /\ \A a \in Admins : Purged(a)

LEMMA SettledStable ==
    ASSUME Inv, Filing, [Next]_vars, NEW x, Settled(x)
    PROVE  Settled(x)'
<1>1. x.by \in Calls /\ x.n \in Nat /\ stores[x.by] \in Nat /\ stores'[x.by] \in Nat
  BY NextInv, ConstantsAssumption DEF Settled, Answers, Inv, TypeOK
<1>2. stores'[x.by] >= stores[x.by]
  <2>1. CASE UNCHANGED stores
    BY <1>1, <2>1
  <2>2. CASE ~ UNCHANGED stores
    <3>1. \E c \in Calls, form \in Forms : storeResponse(c, form)
      BY <2>2 DEF Next, vars, giveVars, Run, Search, LookupSkipped, Lookup, performDirectSearch,
         Embed, performSemanticSearch, buildResponseFromResult, FinishTask, ApplyDelete,
         Administer, Delete, Invalidate, InvalidateByID, ListMatching,
         DeleteMatching, InvalidateReturns, RecordFeedback, LoadIntent,
         RecordOutcome, ForgetHit, BeginDrain, EndDrain, DrainFrame, cleanupOldCacheStates, Tick
    <3> QED
      BY <1>1, <3>1 DEF storeResponse, Inv, TypeOK
  <2> QED
    BY <2>1, <2>2
<1>3. ASSUME NEW t \in tasks', t.op = "add" PROVE t.entry.answer # x
  <2>1. CASE t \in tasks
    BY <1>3, <2>1 DEF Settled
  <2>2. CASE t \notin tasks
    <3>1. PICK c \in Calls, form \in Forms : storeResponse(c, form)
      BY <1>3, <2>2, NewAdd
    <3>2. t.by = c /\ t.n = stores[c] + 1
      BY <2>2, <3>1 DEF storeResponse, Spawn
    <3>3. t.entry.answer.by = t.by /\ t.entry.answer.n = t.n
      BY <1>3, FilingTasks
    <3> QED
      BY <1>1, <3>2, <3>3 DEF Settled
  <2> QED
    BY <2>1, <2>2
<1> QED
  BY <1>1, <1>2, <1>3 DEF Settled

\* The goroutine that writes an answer was the only one that would.
LEMMA FinishSettles ==
    ASSUME Inv, Filing, WritesOnce, NEW t \in tasks, t.op = "add", FinishTask(t)
    PROVE  Settled(t.entry.answer)'
<1>1. tasks' = tasks \ {t} /\ stores' = stores
  BY DEF FinishTask, TaskDone, giveVars
<1>2. t.entry.answer \in Answers /\ t.entry.answer.n <= stores[t.entry.answer.by]
  BY DEF Filing, Filed, Entries
<1>3. ASSUME NEW u \in tasks, u.op = "add", u.entry.answer = t.entry.answer PROVE u = t
  BY <1>3 DEF Filing, WritesOnce
<1> QED
  BY <1>1, <1>2, <1>3 DEF Settled

LEMMA WritesOnceStep ==
    ASSUME Inv, Filing, WritesOnce, [Next]_vars
    PROVE  WritesOnce'
<1>1. ASSUME NEW t \in tasks', NEW u \in tasks', t.op = "add", u.op = "add",
             t.by = u.by, t.n = u.n
      PROVE  t = u
  <2>1. CASE t \in tasks /\ u \in tasks
    BY <1>1, <2>1 DEF WritesOnce
  <2>2. ASSUME NEW w \in tasks', w \notin tasks, w.op = "add", NEW v \in tasks, v.op = "add"
        PROVE  ~ (v.by = w.by /\ v.n = w.n)
    <3>1. PICK c \in Calls, form \in Forms : storeResponse(c, form)
      BY <2>2, NewAdd
    <3>2. w.by = c /\ w.n = stores[c] + 1 /\ stores[c] \in Nat
      BY <2>2, <3>1 DEF storeResponse, Spawn, Inv, TypeOK
    <3>3. v.n <= stores[v.by]
      BY <2>2 DEF Inv, Linked, TasksKnown, Known
    <3> QED
      BY <3>2, <3>3
  <2>3. CASE t \notin tasks /\ u \notin tasks
    <3>1. PICK c \in Calls, form \in Forms : storeResponse(c, form)
      BY <1>1, <2>3, NewAdd
    <3> QED
      BY <2>3, <3>1 DEF storeResponse, Spawn
  <2> QED
    BY <1>1, <2>1, <2>2, <2>3
<1>2. ASSUME NEW id \in Ids, NEW e, e = store'[id], e # None PROVE Settled(e.answer)'
  <2>1. CASE e = store[id]
    BY <1>2, <2>1, SettledStable DEF WritesOnce
  <2>2. CASE e # store[id]
    <3>1. PICK t \in tasks, old \in {store[id], None} :
                             /\ FinishTask(t)
                             /\ t.op = "add" /\ t.id = id
                             /\ e = Added(old, t.entry)
      BY <1>2, <2>2, NewEntry
    <3>2. e.answer = t.entry.answer
      BY <1>2, <2>2, <3>1, AddedAnswer DEF Filing, Filed
    <3> QED
      BY <3>1, <3>2, FinishSettles
  <2> QED
    BY <2>1, <2>2
<1> QED
  BY <1>1, <1>2 DEF WritesOnce, Settled

\* What a write puts into the store is no answer that was settled before, so an
\* entry with such an answer is an old one, and marked if it was.
LEMMA NewNotGone ==
    ASSUME Inv, Filing, [Next]_vars, NEW x, Settled(x),
           NEW id \in Ids, store'[id] # None, store'[id].answer = x
    PROVE  store'[id] = store[id] /\ (id \in doomed => id \in doomed')
<1> SUFFICES ASSUME store'[id] # store[id] \/ (id \in doomed /\ id \notin doomed')
             PROVE  FALSE
  OBVIOUS
<1>1. PICK t \in tasks, old \in {store[id], None} :
          /\ t.op = "add" /\ store'[id] = Added(old, t.entry)
          /\ id \in doomed => old = None
  BY NewEntry
<1>2. t.entry \in Entries
  BY <1>1 DEF Filing, Filed
<1>3. Added(old, t.entry) # old
  BY <1>1
<1>4. store'[id].answer = t.entry.answer
  BY <1>1, <1>2, <1>3, AddedAnswer
<1> QED
  BY <1>1, <1>4 DEF Settled

LEMMA PurgedStep ==
    ASSUME Inv, Filing, WritesOnce, [Next]_vars, NEW a \in Admins, Purged(a)
    PROVE  Purged(a)'
<1>1. ASSUME \A x \in admin'[a].gone : x \in admin[a].gone \/ \E id \in Ids : store[id] # None /\ store[id].answer = x
      PROVE  \A x \in admin'[a].gone : Settled(x)'
  BY <1>1, SettledStable DEF Purged, WritesOnce
<1>2. CASE admin'[a] = admin[a]
  <2>1. \A x \in admin'[a].gone : Settled(x)'
    BY <1>1, <1>2
  <2>2. ASSUME NEW id \in Ids, store'[id] # None, store'[id].answer \in admin'[a].gone
        PROVE  store'[id] = store[id] /\ (id \in doomed => id \in doomed')
    BY <1>2, <2>2, NewNotGone DEF Purged
  <2> QED
    BY <1>2, <2>1, <2>2 DEF Purged, Settled
<1>3. CASE admin'[a] # admin[a]
  <2>1. Administer(a)
    <3>1. \E b \in Admins : Administer(b)
      BY <1>3 DEF Next, vars, Run, Search, LookupSkipped, Lookup, performDirectSearch, Embed,
         performSemanticSearch, buildResponseFromResult, storeResponse, FinishTask, ApplyDelete,
         RecordFeedback, LoadIntent, RecordOutcome, ForgetHit,
         BeginDrain, EndDrain, DrainFrame, cleanupOldCacheStates, Tick
    <3>2. ASSUME NEW b \in Admins, b # a, Administer(b) PROVE admin'[a] = admin[a]
      BY <3>2 DEF Administer, Delete, Invalidate, InvalidateByID, ListMatching,
         DeleteMatching, InvalidateReturns, Inv, TypeOK
    <3> QED
      BY <1>3, <3>1, <3>2
  <2>2. CASE Invalidate(a)
    <3>1. PICK key \in Keys : admin'[a] =
              [pc |-> "scan", key |-> key, todo |-> {}, failed |-> FALSE,
               gone |-> {store[id].answer : id \in EntriesOf(key)}]
      BY <2>2 DEF Invalidate, Inv, TypeOK
    <3>2. \A x \in admin'[a].gone : \E id \in EntriesOf(key) : store[id].answer = x
      BY <3>1
    <3>3. \A x \in admin'[a].gone : Settled(x)' /\ KeyOf[x.q] = key
      BY <1>1, <3>2 DEF EntriesOf
    <3> QED
      BY <3>1, <3>3 DEF Purged
  <2>3. CASE InvalidateByID(a)
    <3>1. PICK id \in Ids :
            /\ store[id] # None
            /\ \/ /\ Remove(id)
                  /\ admin'[a].pc = "ok" /\ admin'[a].gone = {store[id].answer}
               \/ admin'[a].pc = "error" /\ admin'[a].gone = admin[a].gone
      BY <2>3 DEF InvalidateByID, Inv, TypeOK
    <3>2. \A x \in admin'[a].gone : Settled(x)'
      BY <1>1, <3>1
    <3>3. \A i \in Ids : store[i] # None /\ store[i].answer = store[id].answer => i = id
      BY <3>1 DEF Filing, Filed
    <3>4. CASE Remove(id) /\ admin'[a].gone = {store[id].answer}
      <4>1. /\ store'[id] = None \/ id \in doomed'
            /\ \A i \in Ids : store'[i] \in {store[i], None}
        BY <3>4, RemoveTakes DEF Inv
      <4>2. \A i \in Ids : store'[i] # None /\ store'[i].answer \in admin'[a].gone =>
                i \in doomed'
        BY <3>3, <3>4, <4>1
      <4> QED
        BY <3>1, <3>2, <4>2 DEF Purged
    <3> QED
      BY <3>1, <3>2, <3>4 DEF Purged
  <2>4. CASE ListMatching(a)
    <3>1. /\ admin[a].pc = "scan" /\ store' = store
          /\ admin'[a].gone = admin[a].gone /\ admin'[a].key = admin[a].key
          /\ \/ admin'[a].pc = "delete" /\ admin'[a].todo = EntriesOf(admin[a].key)
             \/ admin'[a].pc = "error"
      BY <2>4 DEF ListMatching, Inv, TypeOK
    <3>2. \A x \in admin'[a].gone : Settled(x)'
      BY <1>1, <3>1
    <3> QED
      BY <3>1, <3>2 DEF Purged, EntriesOf
  <2>5. CASE DeleteMatching(a)
    <3>0. PICK id :
            \/ /\ id \in admin[a].todo \cup EntriesOf(admin[a].key) /\ Remove(id)
               /\ admin' = [admin EXCEPT ![a].todo = @ \ {id}]
            \/ admin' = [admin EXCEPT ![a].todo = @ \ {id}, ![a].failed = TRUE]
      BY <2>5 DEF DeleteMatching
    <3>1. /\ admin[a].pc = "delete" /\ admin'[a].pc = "delete"
          /\ admin'[a].gone = admin[a].gone /\ admin'[a].todo = admin[a].todo \ {id}
          /\ admin'[a].failed \in {admin[a].failed, TRUE}
      <4>1. admin \in [Admins -> [pc: {"idle", "scan", "delete", "ok", "error"},
                               key: Keys \cup {None}, todo: SUBSET Ids,
                               failed: BOOLEAN, gone: SUBSET Answers]]
        BY DEF Inv, TypeOK
      <4>2. admin[a].pc = "delete"
        BY <2>5 DEF DeleteMatching
      <4> QED
        BY <3>0, <4>1, <4>2
    <3>2. \A x \in admin'[a].gone : Settled(x)'
      BY <1>1, <3>1
    <3>3. CASE id \in admin[a].todo \cup EntriesOf(admin[a].key) /\ Remove(id)
      <4>1. id \in Ids
        BY <3>3 DEF EntriesOf, Inv, TypeOK
      <4>3. /\ store'[id] = None \/ id \in doomed'
            /\ doomed \subseteq doomed'
            /\ \A i \in Ids : store'[i] \in {store[i], None}
        BY <3>3, <4>1, RemoveTakes DEF Inv
      <4>4. ASSUME NEW i \in Ids, store'[i] # None, store'[i].answer \in admin'[a].gone
            PROVE  i \in admin'[a].todo \cup doomed' \/ admin'[a].failed
        <5>1. store[i] = store'[i]
          BY <4>3, <4>4
        <5>2. i \in admin[a].todo \cup doomed \/ admin[a].failed
          BY <3>1, <4>4, <5>1 DEF Purged
        <5> QED
          BY <3>1, <4>3, <4>4, <5>2
      <4> QED
        BY <3>1, <3>2, <4>4 DEF Purged
    <3>4. CASE admin'[a].failed = TRUE
      BY <3>1, <3>2, <3>4 DEF Purged
    <3> QED
      <4>1. admin' = [admin EXCEPT ![a].todo = @ \ {id}, ![a].failed = TRUE]
              => admin'[a].failed = TRUE
        BY DEF Inv, TypeOK
      <4> QED
        BY <3>0, <3>3, <3>4, <4>1
  <2>6. CASE InvalidateReturns(a)
    <3>1. /\ admin[a].pc = "delete" /\ admin[a].todo = {} /\ UNCHANGED <<store, doomed>>
          /\ admin'[a].gone = admin[a].gone
          /\ admin'[a].pc = IF admin[a].failed THEN "error" ELSE "ok"
      BY <2>6 DEF InvalidateReturns, Inv, TypeOK
    <3>2. \A x \in admin'[a].gone : Settled(x)'
      BY <1>1, <3>1
    <3> QED
      BY <3>1, <3>2 DEF Purged
  <2> QED
    BY <2>1, <2>2, <2>3, <2>4, <2>5, <2>6 DEF Administer, Delete
<1> QED
  BY <1>2, <1>3

\* After a successful Invalidate or InvalidateByID nothing that was there when
\* it was called is in the store any more, nor ever will be (Delete, DeleteAll),
\* but, on a store that is not asked to wait for its deletes (Qdrant), what it
\* has accepted to delete and not deleted yet.
THEOREM InvalidatedGoneHolds == Spec => []InvalidatedGone
<1>1. Init => Purging
  BY DEF Init, Purging, WritesOnce, Purged
<1>2. Inv /\ Filing /\ Purging /\ [Next]_vars => Purging'
  BY WritesOnceStep, PurgedStep DEF Purging
<1>3. Purging => InvalidatedGone
  BY DEF Purging, Purged, InvalidatedGone
<1> QED
  BY <1>1, <1>2, <1>3, InvHolds, FilingHolds, PTL DEF Spec
-------------------------------------------------------------------------------
(* Feedback and the table of request states.                                  *)

\* A call that has been answered is never touched again.
LEMMA HitStable ==
    ASSUME Inv, [Next]_vars, NEW c \in Calls, pc[c] = "hit"
    PROVE  pc'[c] = "hit" /\ found'[c] = found[c] /\ req'[c] = req[c]
<1>1. CASE UNCHANGED callVars
  BY <1>1 DEF callVars
<1>2. ASSUME NEW d \in Calls, Run(d)
      PROVE  pc'[c] = "hit" /\ found'[c] = found[c] /\ req'[c] = req[c]
  BY <1>2 DEF Run, Search, LookupSkipped, Lookup, performDirectSearch, Embed,
     performSemanticSearch, buildResponseFromResult, EvictExpired, FormatMismatch,
     Replay, storeResponse, callVars, Inv, TypeOK
<1>3. CASE ~ \E d \in Calls : Run(d)
  <2>1. UNCHANGED callVars
    BY <1>3 DEF Next, vars, FinishTask, ApplyDelete, Administer, Delete, Invalidate, InvalidateByID,
       ListMatching, DeleteMatching, InvalidateReturns, RecordFeedback, LoadIntent,
       RecordOutcome, ForgetHit, BeginDrain, EndDrain, DrainFrame, cleanupOldCacheStates, Tick
  <2> QED
    BY <1>1, <2>1
<1> QED
  BY <1>2, <1>3

\* The entry a report is about.
About(f) == found[report[f].call].id

\* Only requests that may be searched semantically are; what hitIntents holds is
\* the intent of the entry's latest hit; no hit is a complaint's.
HitsRemembered ==
    /\ \A c \in Calls :
          /\ pc[c] \in {"embed", "nearest", "nearestBuild"} => CanSemantic(req[c])
          /\ pc[c] = "hit" /\ found[c].kind = "semantic" => CanSemantic(req[c])
    /\ \A id \in Ids : hitIntents[id] # None =>
          /\ Len(hits[id]) \in DOMAIN hits[id]
          /\ hitIntents[id] = hits[id][Len(hits[id])]
    /\ \A id \in Ids : \A k \in DOMAIN hits[id] : hits[id][k] # Complaint

\* A report is about the hit it looked at; when it has returned, an intent that
\* is remembered is of a later hit, and so is what a report that begins then
\* looks at.
ReportKept(f) ==
    report[f].pc # "idle" =>
        /\ report[f].nth \in DOMAIN hits[About(f)]
        /\ report[f].intent = hits[About(f)][report[f].nth]
        /\ report[f].pc = "done" /\ hitIntents[About(f)] # None =>
              report[f].nth < Len(hits[About(f)])
        /\ \A g \in report[f].after :
              /\ report[g].pc = "done"
              /\ About(g) = About(f) => report[g].nth < report[f].nth

\* An outcome is what its report has counted.
Counted(o) ==
    /\ report[o.by].pc \in {"counted", "done"}
    /\ o.call = report[o.by].call /\ o.intent = report[o.by].intent

Feedback ==
    /\ HitsRemembered
    /\ \A f \in Reporters : ReportKept(f)
    /\ \A o \in outcomes : Counted(o)

LEMMA CanSemanticStep ==
    ASSUME Inv, Feedback, [Next]_vars, NEW c \in Calls
    PROVE  /\ pc'[c] \in {"embed", "nearest", "nearestBuild"} => CanSemantic(req'[c])
           /\ pc'[c] = "hit" /\ found'[c].kind = "semantic" => CanSemantic(req'[c])
<1>0. /\ pc[c] \in {"embed", "nearest", "nearestBuild"} => CanSemantic(req[c])
      /\ pc[c] = "hit" /\ found[c].kind = "semantic" => CanSemantic(req[c])
  BY DEF Feedback, HitsRemembered
<1>1. CASE pc'[c] = pc[c] /\ found'[c] = found[c] /\ req'[c] = req[c]
  BY <1>0, <1>1
<1>2. CASE Run(c)
  <2>1. CASE LookupSkipped(c) \/ \E form \in Forms : storeResponse(c, form)
    BY <1>0, <2>1 DEF LookupSkipped, storeResponse, callVars, Inv, TypeOK
  <2>2. CASE Lookup(c)
    <3>1. PICK r \in Requests :
            /\ req' = [req EXCEPT ![c] = r]
            /\ pc' = [pc EXCEPT ![c] = IF DoDirect(r) THEN "direct"
                                       ELSE IF CanSemantic(r) THEN "embed" ELSE "miss"]
      BY <2>2 DEF Lookup
    <3> QED
      BY <3>1 DEF Inv, TypeOK
  <2>3. CASE performDirectSearch(c)
    BY <2>3 DEF performDirectSearch, AfterDirect, Inv, TypeOK
  <2>4. CASE Embed(c) \/ performSemanticSearch(c)
    BY <1>0, <2>4 DEF Embed, performSemanticSearch, Inv, TypeOK
  <2>5. CASE buildResponseFromResult(c)
    <3>1. /\ pc[c] = "nearestBuild" => CanSemantic(req[c])
          /\ pc[c] = "directBuild" => found[c].kind = "direct"
      BY <1>0 DEF Inv, Linked, CallLinked
    <3> QED
      BY <2>5, <3>1 DEF buildResponseFromResult, AfterDirect, EvictExpired, FormatMismatch,
         Replay, Inv, TypeOK
  <2> QED
    BY <1>2, <2>1, <2>2, <2>3, <2>4, <2>5 DEF Run, Search
<1>3. CASE ~ Run(c)
  <2>1. ASSUME NEW d \in Calls, d # c, Run(d)
        PROVE  pc'[c] = pc[c] /\ found'[c] = found[c] /\ req'[c] = req[c]
    BY <2>1 DEF Run, Search, LookupSkipped, Lookup, performDirectSearch, Embed,
       performSemanticSearch, buildResponseFromResult, EvictExpired, FormatMismatch,
       Replay, storeResponse, callVars, Inv, TypeOK
  <2>2. CASE ~ \E d \in Calls : Run(d)
    <3>1. UNCHANGED callVars
      BY <2>2 DEF Next, vars, FinishTask, ApplyDelete, Administer, Delete, Invalidate, InvalidateByID,
         ListMatching, DeleteMatching, InvalidateReturns, RecordFeedback, LoadIntent,
         RecordOutcome, ForgetHit, BeginDrain, EndDrain, DrainFrame, cleanupOldCacheStates, Tick
    <3> QED
      BY <1>1, <3>1 DEF callVars
  <2> QED
    BY <1>1, <1>3, <2>1, <2>2
<1> QED
  BY <1>2, <1>3

\* The hits on an entry only grow, by the one that a step remembers.
LEMMA HitsGrow ==
    ASSUME Inv, Feedback, [Next]_vars, NEW id \in Ids
    PROVE  \/ hits'[id] = hits[id] /\ hitIntents'[id] \in {hitIntents[id], None}
           \/ \E i \in Intents \ {Complaint} :
                 hits'[id] = Append(hits[id], i) /\ hitIntents'[id] = i
<1>1. CASE \E c \in Calls : buildResponseFromResult(c) /\ Replay(c)
  <2>1. PICK c \in Calls : buildResponseFromResult(c) /\ Replay(c)
    BY <1>1
  <2>2. /\ pc[c] \in {"directBuild", "nearestBuild"} /\ req[c] \in Requests
        /\ found[c].kind = "semantic" => pc[c] = "nearestBuild"
    BY <2>1 DEF buildResponseFromResult, Inv, Linked, CallLinked, searching
  <2>3. found[c].kind = "semantic" => IntentOf[req[c].q] \in Intents \ {Complaint}
    BY <2>2, ConstantsAssumption DEF Feedback, HitsRemembered, CanSemantic, Requests
  <2> QED
    BY <2>1, <2>3 DEF Replay, HitCounted, Inv, TypeOK, HitsTyped
<1>2. CASE \E f \in Reporters : ForgetHit(f)
  BY <1>2 DEF ForgetHit, Inv, TypeOK
<1>3. CASE UNCHANGED <<hits, hitIntents>>
  BY <1>3
<1> QED
  BY <1>1, <1>2, <1>3, ZenonT(40) DEF Next, vars, stateVars, Run, Search, LookupSkipped, Lookup,
     performDirectSearch, Embed, performSemanticSearch, buildResponseFromResult,
     EvictExpired, FormatMismatch, storeResponse, FinishTask, ApplyDelete, Administer, Delete,
     Invalidate, InvalidateByID, ListMatching, DeleteMatching, InvalidateReturns,
     RecordFeedback, LoadIntent, RecordOutcome, BeginDrain, EndDrain,
     DrainFrame, cleanupOldCacheStates, Tick

\* So an earlier hit stays what it was.
LEMMA HitsStay ==
    ASSUME Inv, Feedback, [Next]_vars, NEW id \in Ids
    PROVE  /\ hits[id] \in Seq(Intents) /\ hits'[id] \in Seq(Intents)
           /\ Len(hits[id]) \in Nat /\ Len(hits'[id]) \in Nat
           /\ Len(hits[id]) <= Len(hits'[id])
           /\ \A k \in DOMAIN hits[id] : k \in DOMAIN hits'[id] /\ hits'[id][k] = hits[id][k]
<1>1. hits[id] \in Seq(Intents) /\ hits'[id] \in Seq(Intents)
  BY NextInv DEF Inv, TypeOK, HitsTyped
<1>2. CASE hits'[id] = hits[id]
  BY <1>1, <1>2
<1>3. CASE \E i \in Intents : hits'[id] = Append(hits[id], i)
  BY <1>1, <1>3
<1> QED
  BY <1>2, <1>3, HitsGrow

LEMMA HitsRememberedStep ==
    ASSUME Inv, Feedback, [Next]_vars
    PROVE  HitsRemembered'
<1>1. ASSUME NEW id \in Ids
      PROVE  /\ hitIntents'[id] # None =>
                   /\ Len(hits'[id]) \in DOMAIN hits'[id]
                   /\ hitIntents'[id] = hits'[id][Len(hits'[id])]
             /\ \A k \in DOMAIN hits'[id] : hits'[id][k] # Complaint
  <2>1. hits[id] \in Seq(Intents)
    BY DEF Inv, TypeOK, HitsTyped
  <2>2. CASE hits'[id] = hits[id] /\ hitIntents'[id] \in {hitIntents[id], None}
    BY <2>2 DEF Feedback, HitsRemembered
  <2>3. ASSUME NEW i \in Intents \ {Complaint},
               hits'[id] = Append(hits[id], i), hitIntents'[id] = i
        PROVE  /\ Len(hits'[id]) \in DOMAIN hits'[id]
               /\ hitIntents'[id] = hits'[id][Len(hits'[id])]
               /\ \A k \in DOMAIN hits'[id] : hits'[id][k] # Complaint
    BY <2>1, <2>3 DEF Feedback, HitsRemembered
  <2> QED
    BY <2>2, <2>3, HitsGrow
<1>2. (\A c \in Calls :
          /\ pc[c] \in {"embed", "nearest", "nearestBuild"} => CanSemantic(req[c])
          /\ pc[c] = "hit" /\ found[c].kind = "semantic" => CanSemantic(req[c]))'
  BY CanSemanticStep DEF CanSemantic
<1> QED
  BY <1>1, <1>2 DEF HitsRemembered

\* A report in progress goes on with what it looked at.
LEMMA ReportMoves ==
    ASSUME Inv, [Next]_vars, NEW f \in Reporters, ~ LoadIntent(f)
    PROVE  /\ report'[f].call = report[f].call /\ report'[f].intent = report[f].intent
           /\ report'[f].nth = report[f].nth /\ report'[f].after = report[f].after
           /\ report[f].pc = "idle" <=> report'[f].pc = "idle"
           /\ report[f].pc = "done" => report'[f].pc = "done"
           /\ report[f].pc = "counted" => report'[f].pc \in {"counted", "done"}
           /\ report'[f].pc = "done" /\ report[f].pc # "done" => ForgetHit(f)
<1>1. ASSUME NEW g \in Reporters, g # f, RecordFeedback(g) PROVE report'[f] = report[f]
  BY <1>1 DEF RecordFeedback, LoadIntent, RecordOutcome, ForgetHit, Inv, TypeOK
<1>2. CASE RecordOutcome(f)
  BY <1>2 DEF RecordOutcome, Inv, TypeOK
<1>3. CASE ForgetHit(f)
  BY <1>3 DEF ForgetHit, Inv, TypeOK
<1>4. CASE ~ \E g \in Reporters : RecordFeedback(g)
  <2>1. report' = report
    BY <1>4 DEF Next, vars, feedVars, Run, Search, LookupSkipped, Lookup,
       performDirectSearch, Embed, performSemanticSearch, buildResponseFromResult,
       storeResponse, FinishTask, ApplyDelete, Administer, Delete,
       Invalidate, InvalidateByID, ListMatching, DeleteMatching, InvalidateReturns,
       BeginDrain, EndDrain, DrainFrame, cleanupOldCacheStates, Tick
  <2> QED
    BY <2>1
<1> QED
  BY <1>1, <1>2, <1>3, <1>4 DEF RecordFeedback

\* What a report is about is fixed once it has begun.
LEMMA AboutStays ==
    ASSUME Inv, [Next]_vars, NEW f \in Reporters, report[f].pc # "idle"
    PROVE  /\ ~ LoadIntent(f) /\ About(f) \in Ids
           /\ About(f)' = About(f)
<1>1. report[f].call \in Calls /\ pc[report[f].call] = "hit"
  BY DEF Inv, Linked, ReportLinked
<1>2. About(f) \in Ids
  BY <1>1 DEF About, Inv, Linked, CallLinked, Results
<1>3. ~ LoadIntent(f)
  BY DEF LoadIntent
<1>4. found'[report[f].call] = found[report[f].call]
  BY <1>1, HitStable
<1>5. report'[f].call = report[f].call
  BY <1>3, ReportMoves
<1> QED
  BY <1>2, <1>3, <1>4, <1>5 DEF About

LEMMA ReportKeptStep ==
    ASSUME Inv, Feedback, [Next]_vars, NEW f \in Reporters
    PROVE  ReportKept(f)'
<1> SUFFICES ASSUME report'[f].pc # "idle" PROVE ReportKept(f)'
  BY DEF ReportKept
<1>0. \A g \in Reporters : ReportKept(g)
  BY DEF Feedback
<1>1. CASE LoadIntent(f)
  <2>1. PICK c \in Calls :
          /\ pc[c] = "hit" /\ hitIntents[found[c].id] # None
          /\ report' = [report EXCEPT ![f] =
                [pc |-> "loaded", call |-> c, intent |-> hitIntents[found[c].id],
                 nth |-> Len(hits[found[c].id]),
                 after |-> {g \in Reporters : report[g].pc = "done"}]]
          /\ UNCHANGED <<found, hits, hitIntents>>
    BY <1>1 DEF LoadIntent, callVars, stateVars
  <2> PICK id : id = found[c].id
    OBVIOUS
  <2>2. /\ report'[f].pc = "loaded" /\ report'[f].intent = hitIntents[id]
        /\ report'[f].nth = Len(hits[id])
        /\ report'[f].after = {g \in Reporters : report[g].pc = "done"}
        /\ About(f)' = id
        /\ \A g \in Reporters : g # f => report'[g] = report[g] /\ About(g)' = About(g)
    BY <2>1 DEF About, Inv, TypeOK
  <2>3. id \in Ids
    BY <2>1 DEF Inv, Linked, CallLinked, Results
  <2>4. Len(hits[id]) \in DOMAIN hits[id] /\ hitIntents[id] = hits[id][Len(hits[id])]
    BY <2>1, <2>3 DEF Feedback, HitsRemembered
  <2>5. report[f].pc = "idle"
    BY <1>1 DEF LoadIntent
  <2>6. ASSUME NEW g \in Reporters, report[g].pc = "done"
        PROVE  /\ report'[g].pc = "done"
               /\ About(g)' = id => report'[g].nth < Len(hits[id])
    <3>1. g # f /\ report'[g] = report[g] /\ About(g)' = About(g)
      BY <2>2, <2>5, <2>6
    <3>2. About(g) = id => report[g].nth < Len(hits[id])
      BY <1>0, <2>1, <2>6 DEF ReportKept
    <3> QED
      BY <2>6, <3>1, <3>2
  <2> QED
    BY <2>1, <2>2, <2>4, <2>6 DEF ReportKept
<1>2. CASE ~ LoadIntent(f)
  <2>1. /\ report[f].pc # "idle"
        /\ report'[f].intent = report[f].intent
        /\ report'[f].nth = report[f].nth /\ report'[f].after = report[f].after
    BY <1>2, ReportMoves
  <2> PICK id : id = About(f)
    OBVIOUS
  <2>2. id \in Ids /\ About(f)' = id
    BY <2>1, AboutStays
  <2>3. /\ report[f].nth \in DOMAIN hits[id] /\ report[f].intent = hits[id][report[f].nth]
        /\ report[f].pc = "done" /\ hitIntents[id] # None => report[f].nth < Len(hits[id])
    BY <1>0, <2>1 DEF ReportKept
  <2>4. /\ report[f].nth \in DOMAIN hits'[id] /\ report[f].intent = hits'[id][report[f].nth]
        /\ hits[id] \in Seq(Intents) /\ hits'[id] \in Seq(Intents)
    BY <2>2, <2>3, HitsStay
  <2>5. ASSUME report'[f].pc = "done", hitIntents'[id] # None
        PROVE  report[f].nth < Len(hits'[id])
    <3>1. CASE report[f].pc = "done" /\ hitIntents'[id] = hitIntents[id] /\ hits'[id] = hits[id]
      BY <2>3, <2>5, <3>1
    <3>2. CASE \E i \in Intents : hits'[id] = Append(hits[id], i)
      BY <2>3, <2>4, <3>2
    <3>3. CASE report[f].pc # "done"
      <4>1. ForgetHit(f)
        BY <1>2, <2>5, <3>3, ReportMoves
      <4>2. hitIntents'[id] = None
        BY <2>2, <4>1 DEF ForgetHit, About, Inv, TypeOK
      <4> QED
        BY <2>5, <4>2
    <3> QED
      BY <2>2, <2>5, <3>1, <3>2, <3>3, HitsGrow
  <2>6. ASSUME NEW g \in report[f].after
        PROVE  /\ report'[g].pc = "done"
               /\ About(g)' = id => report'[g].nth < report[f].nth
    <3>1. g \in Reporters /\ report[g].pc = "done"
      BY <1>0, <2>1, <2>6 DEF ReportKept, Inv, TypeOK
    <3>2. ~ LoadIntent(g) /\ About(g)' = About(g)
      BY <3>1, AboutStays
    <3>3. report'[g].pc = "done" /\ report'[g].nth = report[g].nth
      BY <3>1, <3>2, ReportMoves
    <3>4. About(g) = id => report[g].nth < report[f].nth
      BY <1>0, <2>1, <2>6 DEF ReportKept
    <3> QED
      BY <3>2, <3>3, <3>4
  <2> QED
    BY <2>1, <2>2, <2>4, <2>5, <2>6 DEF ReportKept
<1> QED
  BY <1>1, <1>2

LEMMA CountedStep ==
    ASSUME Inv, Feedback, [Next]_vars, NEW o \in outcomes'
    PROVE  Counted(o)'
<1>1. CASE o \in outcomes
  <2>1. Counted(o) /\ o.by \in Reporters
    BY <1>1 DEF Feedback, Inv, TypeOK
  <2>2. ~ LoadIntent(o.by)
    BY <2>1 DEF Counted, LoadIntent
  <2> QED
    BY <2>1, <2>2, ReportMoves DEF Counted
<1>2. CASE o \notin outcomes
  <2>1. PICK f \in Reporters : RecordOutcome(f)
    BY <1>2 DEF Next, vars, feedVars, Run, Search, LookupSkipped, Lookup,
       performDirectSearch, Embed, performSemanticSearch, buildResponseFromResult,
       storeResponse, FinishTask, ApplyDelete, Administer, Delete,
       Invalidate, InvalidateByID, ListMatching, DeleteMatching, InvalidateReturns,
       RecordFeedback, LoadIntent, ForgetHit, BeginDrain, EndDrain, DrainFrame,
       cleanupOldCacheStates, Tick
  <2> QED
    BY <1>2, <2>1 DEF RecordOutcome, Counted, Inv, TypeOK
<1> QED
  BY <1>1, <1>2

LEMMA FeedbackHolds == Spec => []Feedback
<1>1. Init => Feedback
  BY DEF Init, Feedback, HitsRemembered, ReportKept
<1>2. Inv /\ Feedback /\ [Next]_vars => Feedback'
  BY HitsRememberedStep, ReportKeptStep, CountedStep DEF Feedback
<1> QED
  BY <1>1, <1>2, InvHolds, PTL DEF Spec

\* RecordFeedback credits the intent of the latest semantic hit on the entry at
\* the time it looked (the Load from hitIntents), and never the intent whose
\* requests skip semantic search.
THEOREM OutcomesJustifiedHolds == Spec => []OutcomesJustified
<1>1. Inv /\ Feedback => OutcomesJustified
  <2> SUFFICES ASSUME Inv, Feedback, NEW o \in outcomes
               PROVE  LET of == hits[found[o.call].id]
                          n == report[o.by].nth
                      IN o.intent # Complaint /\ n \in DOMAIN of /\ o.intent = of[n]
    BY DEF OutcomesJustified
  <2>1. Counted(o) /\ o.by \in Reporters
    BY DEF Feedback, Inv, TypeOK
  <2>2. ReportKept(o.by) /\ ReportLinked(o.by) /\ report[o.by].pc # "idle"
    BY <2>1 DEF Feedback, Counted, Inv, Linked
  <2>3. found[o.call].id \in Ids
    BY <2>1, <2>2 DEF Counted, ReportLinked, Inv, Linked, CallLinked, Results
  <2> QED
    BY <2>1, <2>2, <2>3 DEF Counted, ReportKept, About, Feedback, HitsRemembered
<1> QED
  BY <1>1, InvHolds, FeedbackHolds, PTL

\* A hit that has been reported on is consumed (the Delete from hitIntents): a
\* report that begins after another one on the same entry has returned counts a
\* later hit, or nothing.
THEOREM HitsConsumedHolds == Spec => []HitsConsumed
<1>1. Inv /\ Feedback => HitsConsumed
  <2> SUFFICES ASSUME Inv, Feedback, NEW o \in outcomes, NEW p \in outcomes,
                      found[o.call].id = found[p.call].id, o.by \in report[p.by].after
               PROVE  report[o.by].nth < report[p.by].nth
    BY DEF HitsConsumed
  <2>1. Counted(o) /\ Counted(p) /\ o.by \in Reporters /\ p.by \in Reporters
    BY DEF Feedback, Inv, TypeOK
  <2>2. ReportKept(p.by) /\ report[p.by].pc # "idle"
    BY <2>1 DEF Feedback, Counted
  <2> QED
    BY <2>1, <2>2 DEF Counted, ReportKept, About
<1> QED
  BY <1>1, InvHolds, FeedbackHolds, PTL
-------------------------------------------------------------------------------
\* A call that may still own the state of request ID r.
Owner(c, r) ==
    /\ RequestIdOf[c] = r
    /\ pc[c] \in searching \cup {"miss"}
    /\ stores[c] = 0

StatesOwned ==
    /\ \A c \in Calls : pc[c] # "miss" => stores[c] = 0
    /\ StatesAccounted

LEMMA StatesOwnedStep ==
    ASSUME Inv, StatesOwned, [Next]_vars
    PROVE  StatesOwned'
<1> USE DEF StatesOwned
<1>1. CASE UNCHANGED <<pc, stores>> /\ (UNCHANGED cacheStates \/ cleanupOldCacheStates)
  BY <1>1 DEF cleanupOldCacheStates, StatesAccounted
<1>2. ASSUME NEW c \in Calls, Run(c) PROVE StatesOwned'
  <2>1. /\ \A d \in Calls : d # c => pc'[d] = pc[d] /\ stores'[d] = stores[d]
        /\ \A r \in RequestIds : r # RequestIdOf[c] => cacheStates'[r] = cacheStates[r]
    BY ZenonT(40), <1>2, ConstantsAssumption
       DEF Run, Search, LookupSkipped, Lookup, performDirectSearch, Embed,
       performSemanticSearch, buildResponseFromResult, EvictExpired, FormatMismatch,
       Replay, storeResponse, stateVars, callVars, giveVars, Inv, TypeOK
  <2>2. pc'[c] # "miss" => stores'[c] = 0
    BY <1>2 DEF Run, Search, LookupSkipped, Lookup, performDirectSearch, Embed,
       performSemanticSearch, buildResponseFromResult, EvictExpired, FormatMismatch,
       Replay, storeResponse, callVars, giveVars, Inv, TypeOK
  <2>3. \/ cacheStates'[RequestIdOf[c]] = None
        \/ pc'[c] \in searching \cup {"miss"} /\ stores'[c] = 0
        \/ /\ cacheStates'[RequestIdOf[c]] = cacheStates[RequestIdOf[c]]
           /\ pc[c] = "new"
    <3>1. RequestIdOf[c] \in RequestIds /\ AfterDirect(c) \in {"embed", "miss"}
      BY ConstantsAssumption DEF AfterDirect
    <3>2. CASE LookupSkipped(c) \/ Lookup(c)
      BY <3>1, <3>2 DEF LookupSkipped, Lookup, giveVars, searching, Inv, TypeOK
    <3>3. CASE performDirectSearch(c) \/ Embed(c) \/ performSemanticSearch(c)
      BY <3>1, <3>3 DEF performDirectSearch, Embed, performSemanticSearch, giveVars,
         searching, Inv, TypeOK
    <3>4. CASE buildResponseFromResult(c)
      BY <3>1, <3>4 DEF buildResponseFromResult, EvictExpired, FormatMismatch, Replay,
         giveVars, searching, Inv, TypeOK
    <3>5. CASE \E form \in Forms : storeResponse(c, form)
      BY <3>1, <3>5 DEF storeResponse, Inv, TypeOK
    <3> QED
      BY <1>2, <3>2, <3>3, <3>4, <3>5 DEF Run, Search
  <2>4. ASSUME NEW r \in RequestIds, cacheStates'[r] # None
        PROVE  \E d \in Calls : Owner(d, r)'
    <3>1. CASE r = RequestIdOf[c] /\ pc'[c] \in searching \cup {"miss"} /\ stores'[c] = 0
      BY <3>1 DEF Owner
    <3>2. CASE cacheStates[r] # None /\ (r # RequestIdOf[c] \/ pc[c] = "new")
      <4>1. PICK d \in Calls : Owner(d, r)
        BY <3>2 DEF StatesAccounted, Owner
      <4>2. d # c
        BY <3>2, <4>1 DEF Owner, searching
      <4> QED
        BY <2>1, <4>1, <4>2 DEF Owner
    <3> QED
      BY <2>1, <2>3, <2>4, <3>1, <3>2
  <2> QED
    BY <2>1, <2>2, <2>4 DEF StatesAccounted, Owner
<1>3. CASE ~ \E c \in Calls : Run(c)
  <2>1. /\ UNCHANGED <<pc, stores>>
        /\ UNCHANGED cacheStates \/ cleanupOldCacheStates
    BY <1>3 DEF Next, vars, callVars, stateVars, giveVars, FinishTask, ApplyDelete, Administer, Delete,
       Invalidate, InvalidateByID, ListMatching, DeleteMatching, InvalidateReturns,
       RecordFeedback, LoadIntent, RecordOutcome, ForgetHit, BeginDrain, EndDrain,
       DrainFrame, cleanupOldCacheStates, Tick
  <2> QED
    BY <1>1, <2>1
<1> QED
  BY <1>2, <1>3

\* A state in c.cacheStates belongs to a search in progress or to a miss that
\* nobody stored (clearCacheState on a hit and on Store).
THEOREM StatesAccountedHolds == Spec => []StatesAccounted
<1>1. Init => StatesOwned
  BY DEF Init, StatesOwned, StatesAccounted
<1> QED
  BY <1>1, InvHolds, StatesOwnedStep, PTL DEF Spec, StatesOwned
===============================================================================
