------------------------------ MODULE RedisStore ------------------------------
(* The Redis backend: listing entries in pages of FT.SEARCH, falling back to  *)
(* SCAN when the server rejects the query, deleting a listed snapshot by      *)
(* pipelines, creating and dropping a namespace, against other clients that   *)
(* write and delete.                                                          *)
(*                                                                            *)
(* Every command sent to Redis is a step.  Redis itself is external: a hash   *)
(* per entry, and an index that numbers the hashes of the namespace in the    *)
(* order they were last written and answers in that order.                    *)
EXTENDS Orders, SequencesExt

CONSTANTS
    Callers,     \* calls made on a RedisStore
    Ids,         \* entry IDs, numbers, so that the code may sort them
    Operations,  \* which of "getAll", "deleteAll", "deleteNamespace" are called
    Limits,      \* the limits GetAll is called with, 0 for everything
    BatchLimit, RedisMaxSearchResults,
    Rejections,  \* may the server reject the query syntax?
    Faults,      \* TRUE: any command may fail, a pipeline halfway through
    Cluster,     \* a cluster client removes what its nodes report twice
    MaxWrites,   \* bound on the writes of other clients
    MaxListed,   \* bound on the entries one call collects by index search
    MaxRepeated  \* bound on those a walk collects by repeated scans

ASSUME ConstantsAssumption ==
    /\ Ids \subseteq Nat /\ IsFiniteSet(Ids) /\ "other" \notin Callers
    /\ Operations \subseteq {"getAll", "deleteAll", "deleteNamespace"}
    /\ Limits \subseteq Nat
    /\ BatchLimit \in Nat \ {0} /\ RedisMaxSearchResults \in Nat \ {0}
    /\ Rejections \subseteq BOOLEAN /\ Faults \in BOOLEAN /\ Cluster \in BOOLEAN
    /\ MaxWrites \in Nat /\ MaxListed \in Nat /\ MaxRepeated \in Nat

VARIABLES
    hashes,    \* the keys of the namespace: "absent", "match" or "other"
    index,     \* the IDs the index holds, in index order
    hasIndex,  \* the index exists
    writes,    \* how many writes other clients have made
    pc,        \* progress of each call
    call,      \* its arguments
    offset,    \* offset of the next FT.SEARCH
    listed,    \* what it has collected
    unscanned, \* SCAN has yet to reach these
    keys,      \* the keys of the last SCAN reply
    scanned,   \* matches SCAN has found so far
    acks,      \* replies of the pipeline in progress
    results,   \* the DeleteResults
    before,    \* history: the matching entries when the call began
    touched,   \* history: entries others have written or deleted since
    removed    \* history: how often the call itself deleted an entry

redisVars == <<hashes, index, hasIndex>>
scanVars  == <<unscanned, keys, scanned>>
listVars  == <<offset, listed>>
delVars   == <<acks, results, removed>>
vars == <<redisVars, writes, pc, call, scanVars, listVars, delVars, before, touched>>

Contents == {"absent", "match", "other"}
Present == {d \in Ids : hashes[d] # "absent"}
Least(m, n) == IF m < n THEN m ELSE n
NoCall == [op |-> "none", size |-> 1, full |-> 1, rejected |-> FALSE, disabled |-> FALSE]

-------------------------------------------------------------------------------
(* What commands do to Redis.  by is the caller, or "other".                  *)

Touch(ds, by) ==
    touched' = [c \in Callers |-> IF c = by THEN touched[c] ELSE touched[c] \cup ds]

\* DEL of a set of keys.
Del(ds, by) ==
    /\ hashes' = [d \in Ids |-> IF d \in ds THEN "absent" ELSE hashes[d]]
    /\ index' = Kept(index, Ids \ ds)
    /\ Touch(ds, by)
    /\ UNCHANGED hasIndex

\* HSET: the index numbers the hash anew.
HSet(d, content) ==
    /\ hashes' = [hashes EXCEPT ![d] = content]
    /\ index' = IF hasIndex THEN Append(Kept(index, Ids \ {d}), d) ELSE index
    /\ Touch({d}, "other")
    /\ UNCHANGED hasIndex

InProgress(c) == pc[c] \notin {"new", "done", "failed"}

\* Add and Delete, as other clients call them; only those during a call matter.
\* Delete of an absent ID is an error and changes nothing.
Write ==
    /\ \E c \in Callers : InProgress(c)
    /\ writes < MaxWrites
    /\ writes' = writes + 1
    /\ \E d \in Ids :
          \/ \E content \in {"match", "other"} : HSet(d, content)
          \/ hashes[d] # "absent" /\ Del({d}, "other")
    /\ UNCHANGED <<pc, call, listVars, scanVars, delVars, before>>

\* FT.SEARCH ... LIMIT offset size
Matching == {d \in Ids : hashes[d] = "match"}
Matches == Kept(index, Matching)
Page(c) == SubSeq(Matches, offset[c] + 1, Least(offset[c] + call[c].size, Len(Matches)))

-------------------------------------------------------------------------------
(* Calls.  A GetAll with a limit stands for the whole walk of a client that   *)
(* passes the returned cursor back until there is none, with the same limit:  *)
(* as the loop of getAllWithPagination, it goes on after a page of `full`     *)
(* entries and from the end of that page.                                     *)

\* Plausible bug: a page of IDs to delete counts as full by the wrong constant.
Arguments_WrongFull(op, limit, r, f) ==
    [op |-> op, rejected |-> r, disabled |-> f,
     size |-> CASE op = "deleteAll" -> BatchLimit
                [] op # "deleteAll" /\ limit = 0 -> RedisMaxSearchResults
                [] op # "deleteAll" /\ limit > 0 -> Least(limit, RedisMaxSearchResults),
     full |-> IF limit = 0 \/ op = "deleteAll" THEN RedisMaxSearchResults ELSE limit]

\* size is what a page is asked for, full what makes it one with a successor.
Arguments(op, limit, r, f) ==
    [op |-> op, rejected |-> r, disabled |-> f,
     size |-> CASE op = "deleteAll" -> BatchLimit
                [] op # "deleteAll" /\ limit = 0 -> RedisMaxSearchResults
                [] op # "deleteAll" /\ limit > 0 -> Least(limit, RedisMaxSearchResults),
     full |-> CASE op = "deleteAll" -> BatchLimit
                [] op # "deleteAll" /\ limit = 0 -> RedisMaxSearchResults
                [] op # "deleteAll" /\ limit > 0 -> limit]

Call(c) ==
    /\ pc[c] = "new"
    /\ \E op \in Operations, limit \in Limits, r \in Rejections, f \in BOOLEAN :
          /\ f => r
          /\ call' = [call EXCEPT ![c] = IF op = "deleteNamespace" THEN [NoCall EXCEPT !.op = op]
                                         ELSE Arguments(op, limit, r, f)]
          /\ pc' = [pc EXCEPT ![c] = IF op = "deleteNamespace" THEN "drop" ELSE "list"]
    /\ before' = [before EXCEPT ![c] = Matching]
    /\ touched' = [touched EXCEPT ![c] = {}]
    /\ UNCHANGED <<redisVars, writes, listVars, scanVars, delVars>>

\* The end of a listing: deleteAllBySnapshot goes on with the deletes, if any.
AfterListing(c, ids) ==
    IF call[c].op = "deleteAll" /\ ids # <<>> THEN "delete" ELSE "done"

\* Plausible bug: the next page starts where this one did.
Collect_NoAdvance(c, page) ==
    /\ listed' = [listed EXCEPT ![c] = @ \o page]
    /\ IF Len(page) = call[c].full
       THEN UNCHANGED <<offset, pc>>
       ELSE pc' = [pc EXCEPT ![c] = AfterListing(c, listed'[c])] /\ UNCHANGED offset

\* A page that is not full ends the listing.
Collect(c, page) ==
    /\ listed' = [listed EXCEPT ![c] = @ \o page]
    /\ IF Len(page) = call[c].full
       THEN offset' = [offset EXCEPT ![c] = @ + Len(page)] /\ pc' = [pc EXCEPT ![c] = "list"]
       ELSE pc' = [pc EXCEPT ![c] = AfterListing(c, listed'[c])] /\ UNCHANGED offset

\* executeSearch and the loop of getAllMatchingIDs, index search.
SearchPage(c) ==
    /\ pc[c] = "list" /\ hasIndex /\ ~ call[c].rejected
    /\ Len(listed[c]) <= MaxListed
    /\ Collect(c, Page(c))
    /\ UNCHANGED <<redisVars, writes, call, scanVars, delVars, before, touched>>

\* Both dialects rejected: scan, unless the context forbids it.
ScanFallback(c) ==
    /\ pc[c] = "list" /\ hasIndex /\ call[c].rejected /\ ~ call[c].disabled
    /\ Len(listed[c]) <= MaxRepeated
    /\ pc' = [pc EXCEPT ![c] = "scan"]
    /\ unscanned' = [unscanned EXCEPT ![c] = Ids]
    /\ scanned' = [scanned EXCEPT ![c] = <<>>]
    /\ UNCHANGED <<redisVars, writes, call, listVars, keys, delVars, before, touched>>

Fail(c) ==
    /\ pc' = [pc EXCEPT ![c] = "failed"]
    /\ listed' = [listed EXCEPT ![c] = <<>>]
    /\ offset' = [offset EXCEPT ![c] = 0]
    /\ unscanned' = [unscanned EXCEPT ![c] = {}]
    /\ keys' = [keys EXCEPT ![c] = {}]
    /\ scanned' = [scanned EXCEPT ![c] = <<>>]
    /\ UNCHANGED <<redisVars, writes, call, delVars, before, touched>>

\* No index, or a rejected query in a context that forbids the scan.
SearchRefused(c) ==
    /\ pc[c] = "list" /\ (~ hasIndex \/ (call[c].rejected /\ call[c].disabled))
    /\ Fail(c)

\* Any other failure of a command, or the deadline, before the deletes begin.
CommandFails(c) ==
    /\ Faults /\ pc[c] \in {"list", "scan", "fetch", "drop", "dropScan", "dropKeys"}
    /\ Fail(c)

\* One SCAN: reaches some keys it has not reached yet, and maybe some again.
\* An ID it reaches is reported if its key exists at that moment.
ScanReply(c, next) ==
    /\ \E page \in SUBSET Ids :
          /\ page \cap unscanned[c] # {}
          /\ unscanned' = [unscanned EXCEPT ![c] = @ \ page]
          /\ keys' = [keys EXCEPT ![c] = page \cap Present]
    /\ pc' = [pc EXCEPT ![c] = next]
    /\ UNCHANGED <<redisVars, writes, call, listVars, scanned, delVars, before, touched>>

Scan(c) == pc[c] = "scan" /\ ScanReply(c, "fetch")

Found(c) ==
    {d \in keys[c] : hashes[d] = "match" /\ ~ (Cluster /\ d \in ToSet(scanned[c]))}

\* Plausible bug: the page of a failed search is returned for the whole listing
\* of a DeleteAll too.
ScanResult_Paged(c, all) ==
    SubSeq(Sorted(all), 1, Least(call[c].size, Len(all)))

\* getAllByScan without a cursor: everything for a DeleteAll, else one page.
ScanResult(c, all) ==
    IF call[c].op = "deleteAll" THEN Sorted(all)
    ELSE SubSeq(Sorted(all), 1, Least(call[c].size, Len(all)))

\* HGETALL of the keys of one SCAN reply, filtered here.  Cursor zero ends the
\* scan; executeSearch's caller then takes its page as one of the index.
Fetch(c) ==
    /\ pc[c] = "fetch"
    /\ \E all \in {scanned[c] \o InOrder(Found(c))} :
          \/ /\ unscanned[c] # {}
             /\ scanned' = [scanned EXCEPT ![c] = all]
             /\ pc' = [pc EXCEPT ![c] = "scan"]
             /\ UNCHANGED listVars
          \/ /\ unscanned[c] = {}
             /\ scanned' = [scanned EXCEPT ![c] = <<>>]
             /\ IF call[c].op = "getAll"
                THEN Collect(c, ScanResult(c, all))
                ELSE /\ listed' = [listed EXCEPT ![c] = ScanResult(c, all)]
                     /\ pc' = [pc EXCEPT ![c] = AfterListing(c, listed'[c])]
                     /\ UNCHANGED offset
    /\ keys' = [keys EXCEPT ![c] = {}]
    /\ UNCHANGED <<redisVars, writes, call, unscanned, delVars, before, touched>>

-------------------------------------------------------------------------------
(* deleteAllBySnapshot: a pipeline of DELs per batch of the listed IDs.       *)

\* Plausible bug: everything still to be deleted goes into one pipeline.
Batch_Rest(c) == SubSeq(listed[c], Len(results[c]) + 1, Len(listed[c]))

Batch(c) ==
    SubSeq(listed[c], Len(results[c]) + 1,
           Least(Len(results[c]) + BatchLimit, Len(listed[c])))

DelOne(c) ==
    /\ pc[c] = "delete" /\ Len(acks[c]) < Len(Batch(c))
    /\ LET d == Batch(c)[Len(acks[c]) + 1]
           ok == hashes[d] # "absent"
       IN /\ acks' = [acks EXCEPT ![c] = Append(@, IF ok THEN "success" ELSE "error")]
          /\ removed' = IF ok THEN [removed EXCEPT ![c][d] = @ + 1] ELSE removed
          /\ Del({d}, c)
    /\ UNCHANGED <<writes, pc, call, listVars, scanVars, results, before>>

Report(c, statuses) ==
    /\ results' = [results EXCEPT ![c] =
          @ \o [i \in 1..Len(statuses) |-> [id |-> Batch(c)[i], status |-> statuses[i]]]]
    /\ acks' = [acks EXCEPT ![c] = <<>>]
    /\ pc' = [pc EXCEPT ![c] = IF Len(results'[c]) = Len(listed[c]) THEN "done" ELSE "delete"]

\* Plausible bug: the error of Exec is logged and the batch taken for deleted.
PipelineFails_Ignored(c) ==
    /\ pc[c] = "delete" /\ Faults
    /\ Report(c, [i \in 1..Len(Batch(c)) |-> "success"])
    /\ UNCHANGED <<redisVars, writes, call, listVars, scanVars, removed, before, touched>>

\* pipe.Exec fails: the whole batch is reported as failed, whatever was run.
PipelineFails(c) ==
    /\ pc[c] = "delete" /\ Faults
    /\ Report(c, [i \in 1..Len(Batch(c)) |-> "error"])
    /\ UNCHANGED <<redisVars, writes, call, listVars, scanVars, removed, before, touched>>

PipelineReplies(c) ==
    /\ pc[c] = "delete" /\ Len(acks[c]) = Len(Batch(c))
    /\ Report(c, acks[c])
    /\ UNCHANGED <<redisVars, writes, call, listVars, scanVars, removed, before, touched>>

-------------------------------------------------------------------------------
(* Namespaces                                                                 *)

\* FT.DROPINDEX DD; without an index the keys are scanned and deleted.
DeleteNamespace(c) ==
    /\ pc[c] = "drop"
    /\ IF hasIndex
       THEN /\ hashes' = [d \in Ids |-> IF d \in ToSet(index) THEN "absent" ELSE hashes[d]]
            /\ index' = <<>> /\ hasIndex' = FALSE
            /\ Touch(ToSet(index), c)
            /\ pc' = [pc EXCEPT ![c] = "done"]
            /\ UNCHANGED unscanned
       ELSE /\ unscanned' = [unscanned EXCEPT ![c] = Ids]
            /\ pc' = [pc EXCEPT ![c] = "dropScan"]
            /\ UNCHANGED <<redisVars, touched>>
    /\ UNCHANGED <<writes, call, listVars, keys, scanned, delVars, before>>

DropScan(c) == pc[c] = "dropScan" /\ ScanReply(c, "dropKeys")

\* Plausible bug: an empty page is taken for the end of the scan.
DropKeys_StopsOnEmptyPage(c) ==
    /\ pc[c] = "dropKeys"
    /\ Del(keys[c], c)
    /\ pc' = [pc EXCEPT ![c] = IF unscanned[c] = {} \/ keys[c] = {} THEN "done" ELSE "dropScan"]
    /\ keys' = [keys EXCEPT ![c] = {}]
    /\ UNCHANGED <<writes, call, listVars, unscanned, scanned, delVars, before>>

DropKeys(c) ==
    /\ pc[c] = "dropKeys"
    /\ Del(keys[c], c)
    /\ pc' = [pc EXCEPT ![c] = IF unscanned[c] = {} THEN "done" ELSE "dropScan"]
    /\ keys' = [keys EXCEPT ![c] = {}]
    /\ UNCHANGED <<writes, call, listVars, unscanned, scanned, delVars, before>>

\* FT.CREATE, by whichever process starts first: existing hashes are indexed.
\* With the index in place CreateNamespace changes nothing in Redis.
CreateNamespace ==
    /\ ~ hasIndex
    /\ hasIndex' = TRUE
    /\ index' = InOrder(Present)
    /\ UNCHANGED <<hashes, writes, pc, call, listVars, scanVars, delVars, before, touched>>

-------------------------------------------------------------------------------
Init ==
    /\ hashes \in [Ids -> Contents]
    /\ hasIndex \in BOOLEAN
    /\ index \in IF hasIndex THEN SetToSeqs(Present) ELSE {<<>>}
    /\ writes = 0
    /\ pc = [c \in Callers |-> "new"]
    /\ call = [c \in Callers |-> NoCall]
    /\ offset = [c \in Callers |-> 0]
    /\ listed = [c \in Callers |-> <<>>]
    /\ unscanned = [c \in Callers |-> {}]
    /\ keys = [c \in Callers |-> {}]
    /\ scanned = [c \in Callers |-> <<>>]
    /\ acks = [c \in Callers |-> <<>>]
    /\ results = [c \in Callers |-> <<>>]
    /\ before = [c \in Callers |-> {}]
    /\ touched = [c \in Callers |-> {}]
    /\ removed = [c \in Callers |-> [d \in Ids |-> 0]]

\* The steps a call takes by itself once it has begun, failures apart.
Proceed(c) ==
    \/ SearchPage(c) \/ SearchRefused(c) \/ ScanFallback(c) \/ Scan(c) \/ Fetch(c)
    \/ DelOne(c) \/ PipelineReplies(c)
    \/ DeleteNamespace(c) \/ DropScan(c) \/ DropKeys(c)

Next ==
    \/ Write \/ CreateNamespace
    \/ \E c \in Callers : Call(c) \/ Proceed(c) \/ CommandFails(c) \/ PipelineFails(c)

Spec == Init /\ [][Next]_vars

\* Every command is answered in the end.
FairSpec == Spec /\ \A c \in Callers : WF_vars(Proceed(c))

-------------------------------------------------------------------------------
(* Properties                                                                 *)

Statuses == {"success", "error"}

\* The type of every variable.  A pipeline holds at most BatchLimit commands
\* and a call never reports on more entries than it listed
\* (deleteAllBySnapshot).
TypeOK ==
    /\ hashes \in [Ids -> Contents] /\ hasIndex \in BOOLEAN
    /\ index \in Seq(Ids) /\ writes \in 0..MaxWrites
    /\ pc \in [Callers -> {"new", "list", "scan", "fetch", "delete", "drop",
                           "dropScan", "dropKeys", "done", "failed"}]
    /\ call \in [Callers -> [op: Operations \cup {"none"}, size: Nat \ {0}, full: Nat \ {0},
                             rejected: BOOLEAN, disabled: BOOLEAN]]
    /\ offset \in [Callers -> Nat]
    /\ {listed, scanned} \subseteq [Callers -> Seq(Ids)]
    /\ {unscanned, keys, before, touched} \subseteq [Callers -> SUBSET Ids]
    /\ acks \in [Callers -> Seq(Statuses)]
    /\ results \in [Callers -> Seq([id: Ids, status: Statuses])]
    /\ removed \in [Callers -> [Ids -> Nat]]
    /\ \A c \in Callers :
          /\ Len(acks[c]) <= BatchLimit
          /\ Len(results[c]) + Len(acks[c]) <= Len(listed[c])

\* The index search pages of one call that nobody disturbed hold every matching
\* entry once (GetAll, getAllMatchingIDs).  A limit above RedisMaxSearchResults
\* is excepted: GetAll then caps the page, finds it short of the limit and
\* returns no cursor.
ListingExact ==
    \A c \in Callers :
        (/\ call[c].op \in {"getAll", "deleteAll"} /\ pc[c] \in {"delete", "done"}
         /\ call[c].op = "deleteAll" \/ call[c].full <= RedisMaxSearchResults
         /\ ~ call[c].rejected
         /\ touched[c] = {})
        => ToSet(listed[c]) = before[c] /\ IsInjective(listed[c])

ReportedAs(c, d, statuses) ==
    Cardinality({i \in DOMAIN results[c] : results[c][i].id = d /\ results[c][i].status \in statuses})

\* DeleteAll reports success for an entry no more often than it deleted it, and
\* reports on everything it deleted, one way or the other, even where a
\* pipeline broke off or a listing named an entry twice (deleteAllBySnapshot).
ReportHonest ==
    \A c \in Callers, d \in Ids :
        /\ ReportedAs(c, d, {"success"}) <= removed[c][d]
        /\ pc[c] = "done" => removed[c][d] <= ReportedAs(c, d, Statuses)

\* When DeleteAll returns without an error status, what matched when it began
\* and nobody else has touched is gone.  With the index search only if nobody
\* has touched anything: a change between two pages moves entries across the
\* offset.  The scan does not mind (getAllMatchingIDs, deleteAllBySnapshot).
DeleteAllDeletes ==
    \A c \in Callers :
        (/\ call[c].op = "deleteAll" /\ pc[c] = "done"
         /\ \A i \in DOMAIN results[c] : results[c][i].status = "success"
         /\ call[c].rejected \/ touched[c] = {})
        => \A d \in before[c] \ touched[c] : hashes[d] = "absent"

\* When DeleteNamespace returns, with or without an index to drop, nothing that
\* others have left alone is still there.
NamespaceCleared ==
    \A c \in Callers :
        call[c].op = "deleteNamespace" /\ pc[c] = "done"
        => \A d \in Ids \ touched[c] : hashes[d] = "absent"

\* DeleteAll and DeleteNamespace return, though the set they list changes under
\* them (getAllMatchingIDs, deleteNamespaceKeysSingle).
DeletesReturn ==
    \A c \in Callers :
        (pc[c] # "new" /\ call[c].op \in {"deleteAll", "deleteNamespace"}) ~> pc[c] \in {"done", "failed"}
===============================================================================
