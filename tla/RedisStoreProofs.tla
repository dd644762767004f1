--------------------------- MODULE RedisStoreProofs ---------------------------
(* Proofs about RedisStore: that a listing nobody disturbs is exact, that      *)
(* DeleteAll reports what it did, and what DeleteAll and DeleteNamespace       *)
(* remove, for any number of calls and entries, any page sizes and writes.     *)
EXTENDS RedisStore, OrdersProofs

-------------------------------------------------------------------------------
(* The inductive invariant.                                                    *)

\* The index holds every hash of the namespace once.
IndexInv ==
    /\ hasIndex => ToSet(index) = Present
    /\ ~ hasIndex => index = <<>>
    /\ IsInjective(index)

\* Which calls get where.  A page asked for is a full one, but for a limit
\* above what a page may hold.
Phases(c) ==
    /\ pc[c] = "new" => listed[c] = <<>> /\ offset[c] = 0
    /\ pc[c] \in {"list", "scan", "fetch"} => call[c].op \in {"getAll", "deleteAll"}
    /\ pc[c] \in {"scan", "fetch"} => call[c].rejected
    /\ pc[c] = "delete" => call[c].op = "deleteAll"
    /\ pc[c] \in {"drop", "dropScan", "dropKeys"} => call[c].op = "deleteNamespace"
    /\ call[c].op = "deleteAll" /\ pc[c] = "done" => Len(results[c]) = Len(listed[c])
    /\ \/ call[c].size = call[c].full
       \/ call[c].op = "getAll" /\ call[c].full > RedisMaxSearchResults

Deleting(c) == call[c].op = "deleteAll" /\ pc[c] \in {"delete", "done"}

\* The deletes of a call are those of listed[c][1], listed[c][2] and so on.
\* Before it comes to them it has deleted and reported nothing.
Reports(c) ==
    /\ ~ Deleting(c) => /\ results[c] = <<>> /\ acks[c] = <<>>
                        /\ removed[c] = [d \in Ids |-> 0]
    /\ \A i \in 1..Len(results[c]) : results[c][i].id = listed[c][i]

Run(c) == 1..Len(results[c]) + Len(acks[c])

Status(c, i) ==
    IF i <= Len(results[c]) THEN results[c][i].status ELSE acks[c][i - Len(results[c])]

Attempts(c, d) == {i \in Run(c) : listed[c][i] = d}
Removals(c, d) == {i \in Attempts(c, d) : Status(c, i) = "success"}

\* What is acknowledged was removed, and what was removed had been attempted.
Counted(c) ==
    \A d \in Ids : /\ Cardinality(Removals(c, d)) <= removed[c][d]
                   /\ removed[c][d] <= Cardinality(Attempts(c, d))

\* What is acknowledged is gone, unless others wrote it again.
Gone(c) ==
    \A i \in Run(c) : Status(c, i) = "success" /\ listed[c][i] \notin touched[c]
                      => hashes[listed[c][i]] = "absent"

\* A DeleteAll has listed what it is to delete.
Covered(c) ==
    Deleting(c) /\ (call[c].rejected \/ touched[c] = {})
    => before[c] \ touched[c] \subseteq ToSet(listed[c])

\* While it lists, what others have left alone matches as it did.
Intact(c) ==
    pc[c] \in {"list", "scan", "fetch"} =>
        \A d \in Ids \ touched[c] : d \in before[c] <=> hashes[d] = "match"

\* A scan has found every such entry or has yet to come to it.
Scanning(c) ==
    call[c].op = "deleteAll" /\ pc[c] \in {"scan", "fetch"} =>
        \A d \in before[c] \ touched[c] :
            \/ d \in unscanned[c]
            \/ pc[c] = "fetch" /\ d \in keys[c]
            \/ d \in ToSet(scanned[c])

\* An index search that nobody disturbs has listed what comes before its offset.
Paging(c) ==
    pc[c] = "list" /\ ~ call[c].rejected /\ touched[c] = {} =>
        offset[c] <= Len(Matches) /\ listed[c] = SubSeq(Matches, 1, offset[c])

Exact(c) ==
    (/\ call[c].op \in {"getAll", "deleteAll"} /\ pc[c] \in {"delete", "done"}
     /\ call[c].op = "deleteAll" \/ call[c].full <= RedisMaxSearchResults
     /\ ~ call[c].rejected
     /\ touched[c] = {})
    => ToSet(listed[c]) = before[c] /\ IsInjective(listed[c])

\* DeleteNamespace has deleted every entry or has yet to come to it.
Dropping(c) ==
    call[c].op = "deleteNamespace" /\ pc[c] \in {"dropScan", "dropKeys", "done"} =>
        \A d \in Ids \ touched[c] :
            \/ hashes[d] = "absent"
            \/ pc[c] # "done" /\ d \in unscanned[c]
            \/ pc[c] = "dropKeys" /\ d \in keys[c]

CallerInv(c) ==
    /\ Phases(c) /\ Reports(c) /\ Counted(c) /\ Gone(c) /\ Covered(c) /\ Intact(c)
    /\ Scanning(c) /\ Paging(c) /\ Exact(c) /\ Dropping(c)

Inv == TypeOK /\ IndexInv /\ \A c \in Callers : CallerInv(c)

-------------------------------------------------------------------------------
(* What a step does to the calls whose step it is not.                         *)

\* A step that is not c's leaves the state of c alone,
Same(c) ==
    /\ pc'[c] = pc[c] /\ call'[c] = call[c] /\ offset'[c] = offset[c]
    /\ listed'[c] = listed[c] /\ unscanned'[c] = unscanned[c] /\ keys'[c] = keys[c]
    /\ scanned'[c] = scanned[c] /\ acks'[c] = acks[c] /\ results'[c] = results[c]
    /\ before'[c] = before[c] /\ removed'[c] = removed[c]

\* and counts the entries it changes among those that c finds touched.  The
\* index it replaces without doing so was empty.
Leaves(c) ==
    /\ touched[c] \subseteq touched'[c]
    /\ \A d \in Ids \ touched'[c] : hashes'[d] = hashes[d]
    /\ touched'[c] = {} => index' = index \/ index = <<>>

\* The entries and the index keep their types, and the index its contents.
Store == /\ hashes \in [Ids -> Contents] /\ hasIndex \in BOOLEAN /\ index \in Seq(Ids)
         /\ touched \in [Callers -> SUBSET Ids] /\ IndexInv

LEMMA KeptNothing ==
    ASSUME NEW S
    PROVE  Kept(<<>>, S) = <<>>
<1>1. <<>> \in Seq(Ids) /\ Len(<<>>) = 0
  OBVIOUS
<1>2. \A i \in 1..Len(<<>>) : <<>>[i] \in S
  BY <1>1
<1> QED
  BY <1>1, <1>2, KeptAll

LEMMA DelKeeps ==
    ASSUME Store, NEW ds \in SUBSET Ids, NEW by, Del(ds, by)
    PROVE  /\ Store'
           /\ \A c \in Callers \ {by} : Leaves(c)
           /\ \A c \in Callers : c = by => touched'[c] = touched[c]
<1>1. /\ hashes' = [d \in Ids |-> IF d \in ds THEN "absent" ELSE hashes[d]]
      /\ index' = Kept(index, Ids \ ds) /\ hasIndex' = hasIndex
      /\ touched' = [c \in Callers |-> IF c = by THEN touched[c] ELSE touched[c] \cup ds]
  BY DEF Del, Touch
<1>2. /\ hashes' \in [Ids -> Contents] /\ hasIndex' \in BOOLEAN
      /\ touched' \in [Callers -> SUBSET Ids]
  BY <1>1 DEF Store, Contents
<1>3. /\ index' \in Seq(Ids) /\ ToSet(index') = ToSet(index) \cap (Ids \ ds)
      /\ IsInjective(index) => IsInjective(index')
  <2>1. index \in Seq(Ids)
    BY DEF Store
  <2> QED
    BY <1>1, <2>1, KeptElements
<1>4. IndexInv'
  <2>1. Present' = Present \cap (Ids \ ds)
    BY <1>1 DEF Present
  <2>2. hasIndex' => ToSet(index') = Present'
    BY <1>1, <1>3, <2>1 DEF Store, IndexInv
  <2>3. ~ hasIndex' => index' = <<>>
    BY <1>1, KeptNothing DEF Store, IndexInv
  <2> QED
    BY <1>3, <2>2, <2>3 DEF Store, IndexInv
<1>5. ASSUME NEW c \in Callers \ {by} PROVE Leaves(c)
  <2>1. touched'[c] = touched[c] \cup ds
    BY <1>1
  <2>2. \A d \in Ids \ touched'[c] : hashes'[d] = hashes[d]
    BY <1>1, <2>1
  <2>3. ASSUME touched'[c] = {} PROVE index' = index
    <3>1. \A i \in 1..Len(index) : index[i] \in Ids \ ds
      BY <2>1, <2>3, ElementOfSeq DEF Store
    <3> QED
      BY <1>1, <3>1, KeptAll DEF Store
  <2> QED
    BY <2>1, <2>2, <2>3 DEF Leaves
<1> QED
  BY <1>1, <1>2, <1>3, <1>4, <1>5 DEF Store

LEMMA HSetKeeps ==
    ASSUME Store, ConstantsAssumption, NEW d \in Ids,
           NEW content \in {"match", "other"}, HSet(d, content)
    PROVE  Store' /\ \A c \in Callers : Leaves(c)
<1> DEFINE kept == Kept(index, Ids \ {d})
<1>1. /\ hashes' = [hashes EXCEPT ![d] = content]
      /\ index' = IF hasIndex THEN Append(kept, d) ELSE index
      /\ hasIndex' = hasIndex
      /\ touched' = [c \in Callers |-> IF c = "other" THEN touched[c] ELSE touched[c] \cup {d}]
  BY DEF HSet, Touch
<1>2. /\ hashes' \in [Ids -> Contents] /\ hasIndex' \in BOOLEAN
      /\ touched' \in [Callers -> SUBSET Ids]
  BY <1>1 DEF Store, Contents
<1>3. /\ kept \in Seq(Ids) /\ ToSet(kept) = ToSet(index) \cap (Ids \ {d})
      /\ IsInjective(index) => IsInjective(kept)
  <2>1. index \in Seq(Ids)
    BY DEF Store
  <2> QED
    BY <2>1, KeptElements
<1> HIDE DEF kept
<1>4. index' \in Seq(Ids)
  BY <1>1, <1>3 DEF Store
<1>5. IndexInv'
  <2>1. Present' = Present \cup {d}
    BY <1>1 DEF Present, Store
  <2>2. ASSUME hasIndex PROVE ToSet(index') = Present' /\ IsInjective(index')
    <3>1. index' = Append(kept, d)
      BY <1>1, <2>2
    <3>2. /\ DOMAIN kept = 1..Len(kept) /\ Len(kept) \in Nat
          /\ DOMAIN index' = 1..Len(kept) + 1 /\ index'[Len(kept) + 1] = d
          /\ \A i \in 1..Len(kept) : index'[i] = kept[i]
      BY <1>3, <3>1, AppendProperties
    <3>3. ToSet(index') = ToSet(kept) \cup {d}
      BY <3>2 DEF ToSet
    <3>4. d \notin ToSet(kept) /\ IsInjective(kept) /\ ToSet(index) = Present
      BY <1>3, <2>2 DEF Store, IndexInv
    <3>5. \A i \in 1..Len(kept) : kept[i] # d
      BY <3>2, <3>4 DEF ToSet
    <3>6. IsInjective(index')
      BY <3>2, <3>4, <3>5 DEF IsInjective
    <3>7. ToSet(kept) = Present \ {d}
      BY <1>3, <3>4 DEF Present
    <3> QED
      BY <2>1, <3>3, <3>6, <3>7
  <2> QED
    BY <1>1, <2>2 DEF Store, IndexInv
<1>6. ASSUME NEW c \in Callers PROVE Leaves(c)
  <2>1. c # "other"
    BY DEF ConstantsAssumption
  <2>2. touched'[c] = touched[c] \cup {d}
    BY <1>1, <2>1
  <2> QED
    BY <1>1, <2>2 DEF Leaves, Store
<1> QED
  BY <1>2, <1>4, <1>5, <1>6 DEF Store

\* A step that changes nothing in Redis.
LEMMA QuietStep ==
    ASSUME Store, UNCHANGED redisVars, UNCHANGED touched
    PROVE  /\ Store' /\ Matches' = Matches /\ Matching' = Matching
           /\ \A c \in Callers : Leaves(c)
<1>1. hashes' = hashes /\ index' = index /\ hasIndex' = hasIndex /\ touched' = touched
  BY DEF redisVars
<1>2. Matches' = Matches /\ Matching' = Matching
  BY <1>1 DEF Matches, Matching
<1>3. Store'
  BY <1>1 DEF Store, IndexInv, Present
<1> QED
  BY <1>1, <1>2, <1>3 DEF Leaves

\* What FT.SEARCH answers: the matching entries, once.
LEMMA MatchesIs ==
    ASSUME Store
    PROVE  /\ Matches \in Seq(Ids) /\ IsInjective(Matches)
           /\ hasIndex => ToSet(Matches) = Matching
<1>1. index \in Seq(Ids) /\ IsInjective(index)
  BY DEF Store, IndexInv
<1>2. /\ Matches \in Seq(Ids) /\ IsInjective(Matches)
      /\ ToSet(Matches) = ToSet(index) \cap Matching
  BY <1>1, KeptElements DEF Matches
<1>3. Matching \subseteq Present
  BY DEF Matching, Present
<1> QED
  BY <1>2, <1>3 DEF Store, IndexInv

LEMMA CallerTypes ==
    ASSUME TypeOK, NEW c \in Callers
    PROVE  /\ offset[c] \in Nat /\ listed[c] \in Seq(Ids) /\ scanned[c] \in Seq(Ids)
           /\ unscanned[c] \in SUBSET Ids /\ keys[c] \in SUBSET Ids
           /\ before[c] \in SUBSET Ids /\ touched[c] \in SUBSET Ids
           /\ acks[c] \in Seq(Statuses) /\ results[c] \in Seq([id: Ids, status: Statuses])
           /\ removed[c] \in [Ids -> Nat]
           /\ call[c].size \in Nat \ {0} /\ call[c].full \in Nat \ {0}
           /\ call[c].rejected \in BOOLEAN
           /\ Len(listed[c]) \in Nat /\ Len(acks[c]) \in Nat /\ Len(results[c]) \in Nat
           /\ Len(acks[c]) <= BatchLimit
           /\ Len(results[c]) + Len(acks[c]) <= Len(listed[c])
<1>1. /\ listed \in [Callers -> Seq(Ids)] /\ scanned \in [Callers -> Seq(Ids)]
      /\ unscanned \in [Callers -> SUBSET Ids] /\ keys \in [Callers -> SUBSET Ids]
      /\ before \in [Callers -> SUBSET Ids] /\ touched \in [Callers -> SUBSET Ids]
      /\ results \in [Callers -> Seq([id: Ids, status: Statuses])]
  BY DEF TypeOK
<1>2. results[c] \in Seq([id: Ids, status: Statuses]) /\ Len(results[c]) \in Nat
  <2> DEFINE R == [id: Ids, status: Statuses]
  <2>1. results \in [Callers -> Seq(R)]
    BY <1>1
  <2> HIDE DEF R
  <2>2. results[c] \in Seq(R) /\ Len(results[c]) \in Nat
    BY <2>1
  <2> QED
    BY <2>2 DEF R
<1>3. /\ offset[c] \in Nat /\ acks[c] \in Seq(Statuses) /\ Len(acks[c]) \in Nat
      /\ removed[c] \in [Ids -> Nat]
      /\ call[c].size \in Nat \ {0} /\ call[c].full \in Nat \ {0}
      /\ call[c].rejected \in BOOLEAN
  BY DEF TypeOK
<1>4. /\ Len(acks[c]) <= BatchLimit
      /\ Len(results[c]) + Len(acks[c]) <= Len(listed[c])
  BY DEF TypeOK
<1> QED
  BY <1>1, <1>2, <1>3, <1>4

\* What has been run is a part of what is listed.
LEMMA RunIs ==
    ASSUME TypeOK, NEW c \in Callers
    PROVE  Run(c) \in SUBSET (1..Len(listed[c])) /\ IsFiniteSet(Run(c))
<1>1. \A m, n, k \in Nat : m + n <= k => 1..m + n \subseteq 1..k
  OBVIOUS
<1>2. Run(c) \subseteq 1..Len(listed[c])
  BY <1>1, CallerTypes DEF Run
<1>3. IsFiniteSet(1..Len(listed[c]))
  <2>1. Len(listed[c]) \in Nat
    BY CallerTypes
  <2> QED
    BY <2>1, FS_Interval
<1> QED
  BY <1>2, <1>3, FS_Subset

\* A call whose step it is not keeps its part of the invariant.
LEMMA OthersKept ==
    ASSUME Inv, Store', NEW c \in Callers, Same(c), Leaves(c)
    PROVE  CallerInv(c)'
<1>1. /\ pc'[c] = pc[c] /\ call'[c] = call[c] /\ offset'[c] = offset[c]
      /\ listed'[c] = listed[c] /\ unscanned'[c] = unscanned[c] /\ keys'[c] = keys[c]
      /\ scanned'[c] = scanned[c] /\ acks'[c] = acks[c] /\ results'[c] = results[c]
      /\ before'[c] = before[c] /\ removed'[c] = removed[c]
  BY DEF Same
<1>2. /\ touched[c] \subseteq touched'[c]
      /\ \A d \in Ids \ touched'[c] : hashes'[d] = hashes[d]
      /\ touched'[c] = {} => index' = index \/ index = <<>>
  BY DEF Leaves
<1>3. TypeOK /\ CallerInv(c)
  BY DEF Inv
<1>4. /\ before[c] \in SUBSET Ids /\ listed[c] \in Seq(Ids) /\ offset[c] \in Nat
      /\ Len(results[c]) \in Nat /\ Len(acks[c]) \in Nat /\ Len(listed[c]) \in Nat
      /\ Len(results[c]) + Len(acks[c]) <= Len(listed[c])
  BY <1>3, CallerTypes
<1>5. \A i : Status(c, i)' = Status(c, i)
  BY <1>1 DEF Status
<1>6. Run(c)' = Run(c)
  BY <1>1 DEF Run
<1>7. \A d : Attempts(c, d)' = Attempts(c, d) /\ Removals(c, d)' = Removals(c, d)
  BY <1>1, <1>5, <1>6 DEF Attempts, Removals
<1>8. Phases(c)'
  BY <1>1, <1>3 DEF CallerInv, Phases
<1>9. Reports(c)'
  BY <1>1, <1>3 DEF CallerInv, Reports, Deleting
<1>10. Counted(c)'
  BY <1>1, <1>3, <1>7 DEF CallerInv, Counted
<1>11. Gone(c)'
  <2> SUFFICES ASSUME NEW i \in Run(c), Status(c, i) = "success",
                      listed[c][i] \notin touched'[c]
               PROVE  hashes'[listed[c][i]] = "absent"
    BY <1>1, <1>5, <1>6 DEF Gone
  <2>1. i \in 1..Len(listed[c])
    BY <1>3, RunIs
  <2>2. listed[c][i] \in Ids
    BY <1>4, <2>1, ElementOfSeq
  <2> QED
    BY <1>2, <1>3, <2>2 DEF CallerInv, Gone
<1>12. Covered(c)'
  BY <1>1, <1>2, <1>3 DEF CallerInv, Covered, Deleting
<1>13. Intact(c)'
  BY <1>1, <1>2, <1>3 DEF CallerInv, Intact
<1>14. Scanning(c)'
  BY <1>1, <1>2, <1>3 DEF CallerInv, Scanning
<1>15. Paging(c)'
  <2> SUFFICES ASSUME pc[c] = "list", ~ call[c].rejected, touched'[c] = {}
               PROVE  /\ offset[c] <= Len(Matches')
                      /\ listed[c] = SubSeq(Matches', 1, offset[c])
    BY <1>1 DEF Paging
  <2>1. offset[c] <= Len(Matches) /\ listed[c] = SubSeq(Matches, 1, offset[c])
    BY <1>2, <1>3 DEF CallerInv, Paging
  <2>2. CASE index' = index
    <3>1. Matching' = Matching
      BY <1>2 DEF Matching
    <3> QED
      BY <2>1, <2>2, <3>1 DEF Matches
  <2>3. CASE index = <<>>
    <3>1. Matches = <<>>
      BY <2>3, KeptNothing DEF Matches
    <3>2. offset[c] = 0 /\ listed[c] = <<>>
      BY <1>4, <2>1, <3>1
    <3>3. Matches' \in Seq(Ids)
      <4>1. (Matches \in Seq(Ids))'
        BY MatchesIs, PTL
      <4> QED
        BY <4>1
    <3>4. Len(Matches') \in Nat /\ SubSeq(Matches', 1, 0) = <<>>
      BY <3>3
    <3> QED
      BY <3>2, <3>4
  <2> QED
    BY <1>2, <2>2, <2>3
<1>16. Exact(c)'
  BY <1>1, <1>2, <1>3 DEF CallerInv, Exact
<1>17. Dropping(c)'
  BY <1>1, <1>2, <1>3 DEF CallerInv, Dropping
<1> QED
  BY <1>8, <1>9, <1>10, <1>11, <1>12, <1>13, <1>14, <1>15, <1>16, <1>17 DEF CallerInv

\* A step of c, or of none, keeps the invariant of all if it keeps that of c.
LEMMA InvKept ==
    ASSUME Inv, TypeOK', IndexInv', NEW c, c \in Callers => CallerInv(c)',
           \A b \in Callers \ {c} : Same(b) /\ Leaves(b)
    PROVE  Inv'
<1>1. Store'
  BY DEF Store, TypeOK
<1>2. \A b \in Callers \ {c} : CallerInv(b)'
  BY <1>1, OthersKept
<1> QED
  BY <1>2 DEF Inv

\* A call that has deleted and reported nothing.
Unreported(c) == results[c] = <<>> /\ acks[c] = <<>> /\ removed[c] = [d \in Ids |-> 0]

LEMMA UnreportedCounts ==
    ASSUME NEW c \in Callers, Unreported(c)
    PROVE  Reports(c) /\ Counted(c) /\ Gone(c)
<1>1. Run(c) = {} /\ 1..Len(results[c]) = {}
  BY DEF Run, Unreported
<1>2. Reports(c)
  BY <1>1 DEF Reports, Unreported
<1>3. \A d \in Ids : Attempts(c, d) = {} /\ Removals(c, d) = {} /\ removed[c][d] = 0
  BY <1>1 DEF Attempts, Removals, Unreported
<1>4. Counted(c)
  BY <1>3, FS_EmptySet DEF Counted
<1>5. Gone(c)
  BY <1>1 DEF Gone
<1> QED
  BY <1>2, <1>4, <1>5

-------------------------------------------------------------------------------
(* Pages, of a listing and of what is to be deleted.                           *)

\* The page of at most n elements after the first o: a page cut short is the
\* last one.
PageAfter(s, o, n) == SubSeq(s, o + 1, Least(o + n, Len(s)))

LEMMA PageIs ==
    ASSUME NEW T, NEW s \in Seq(T), NEW o \in Nat, NEW n \in Nat
    PROVE  /\ PageAfter(s, o, n) \in Seq(T) /\ Len(PageAfter(s, o, n)) \in 0..n
           /\ o <= Len(s) => o + Len(PageAfter(s, o, n)) = Least(o + n, Len(s))
           /\ \A i \in 1..Len(PageAfter(s, o, n)) :
                 PageAfter(s, o, n)[i] = s[o + i] /\ o + i \in 1..Len(s)
<1> DEFINE hi == Least(o + n, Len(s))
           page == PageAfter(s, o, n)
<1>1. Len(s) \in Nat /\ hi \in Nat /\ hi <= Len(s) /\ hi <= o + n
  BY DEF Least
<1>2. page = SubSeq(s, o + 1, hi)
  BY DEF PageAfter
<1>3. \A i \in o + 1..hi : i \in 1..Len(s) /\ s[i] \in T
  <2>1. \A i \in o + 1..hi : i \in 1..Len(s)
    <3> HIDE DEF hi
    <3> QED
      BY <1>1
  <2> QED
    BY <2>1, ElementOfSeq
<1>4. hi = o + n \/ hi = Len(s)
  BY DEF Least
<1> HIDE DEF hi, page
<1>5. /\ page \in Seq(T)
      /\ Len(page) = IF o + 1 <= hi THEN hi - (o + 1) + 1 ELSE 0
      /\ \A i \in 1..hi - (o + 1) + 1 : page[i] = s[o + 1 + i - 1]
  <2>1. o + 1 \in Int /\ hi \in Int
    BY <1>1
  <2> QED
    BY <1>2, <1>3, <2>1, SubSeqProperties
<1>6. Len(page) \in 0..n
  BY <1>1, <1>5
<1>7. o <= Len(s) => o + Len(page) = hi
  BY <1>1, <1>4, <1>5
<1>8. ASSUME NEW i \in 1..Len(page) PROVE page[i] = s[o + i] /\ o + i \in 1..Len(s)
  <2>1. i \in 1..hi - (o + 1) + 1 /\ o + 1 + i - 1 = o + i /\ o + i \in 1..Len(s)
    BY <1>1, <1>5
  <2> QED
    BY <1>5, <2>1
<1> QED
  BY <1>5, <1>6, <1>7, <1>8 DEF page, hi

\* Page by page one has the beginning of the listing.
LEMMA PagesAppend ==
    ASSUME NEW T, NEW s \in Seq(T), NEW o \in Nat, NEW n \in Nat, o <= Len(s)
    PROVE  /\ o + Len(PageAfter(s, o, n)) \in 0..Len(s)
           /\ SubSeq(s, 1, o) \o PageAfter(s, o, n)
              = SubSeq(s, 1, o + Len(PageAfter(s, o, n)))
           /\ Len(PageAfter(s, o, n)) # n => o + Len(PageAfter(s, o, n)) = Len(s)
<1> DEFINE page == PageAfter(s, o, n)
           hi == Least(o + n, Len(s))
<1>1. Len(s) \in Nat /\ Len(page) \in 0..n /\ o + Len(page) = hi
  BY PageIs
<1>2. hi \in o..Len(s) /\ (hi = o + n \/ hi = Len(s))
  BY DEF Least
<1>3. SubSeq(s, 1, o) \o SubSeq(s, o + 1, hi) = SubSeq(s, 1, hi)
  <2>1. 1 \in 1..Len(s) + 1 /\ o \in 1 - 1..Len(s) /\ hi \in o..Len(s)
    BY <1>1, <1>2
  <2> HIDE DEF hi
  <2> QED
    BY <2>1, ConcatAdjacentSubSeq
<1>4. page = SubSeq(s, o + 1, hi)
  BY DEF PageAfter
<1> HIDE DEF page, hi
<1> QED
  BY <1>1, <1>2, <1>3, <1>4 DEF page

-------------------------------------------------------------------------------
(* The steps of a listing.                                                     *)

\* A call that is not deleting yet has reported nothing.
LEMMA NotYet ==
    ASSUME Inv, NEW c \in Callers, pc[c] \notin {"delete", "done"}
    PROVE  Unreported(c)
BY DEF Inv, CallerInv, Reports, Deleting, Unreported

\* What a step of a listing leaves to be shown.
LEMMA ListingKept ==
    ASSUME Inv, NEW c \in Callers, Unreported(c), UNCHANGED delVars, UNCHANGED redisVars,
           UNCHANGED touched, TypeOK',
           Phases(c)', Covered(c)', Intact(c)', Scanning(c)', Paging(c)', Exact(c)', Dropping(c)',
           \A b \in Callers \ {c} : Same(b)
    PROVE  Inv'
<1>1. Unreported(c)'
  BY DEF Unreported, delVars
<1>2. (Reports(c) /\ Counted(c) /\ Gone(c))'
  BY <1>1, UnreportedCounts, PTL
<1>3. Store
  BY DEF Inv, TypeOK, Store
<1>4. IndexInv' /\ \A b \in Callers : Leaves(b)
  BY <1>3, QuietStep DEF Store
<1>5. CallerInv(c)'
  BY <1>2 DEF CallerInv
<1> QED
  BY <1>4, <1>5, InvKept

\* What a call asks for.
LEMMA ArgumentsAre ==
    ASSUME ConstantsAssumption, NEW op \in Operations, NEW limit \in Limits,
           NEW r \in Rejections, NEW f \in BOOLEAN,
           NEW asked,
           asked = IF op = "deleteNamespace" THEN [NoCall EXCEPT !.op = op]
                   ELSE Arguments(op, limit, r, f)
    PROVE  /\ asked \in [op: Operations \cup {"none"}, size: Nat \ {0}, full: Nat \ {0},
                         rejected: BOOLEAN, disabled: BOOLEAN]
           /\ asked.op = op
           /\ \/ asked.size = asked.full
              \/ op = "getAll" /\ asked.full > RedisMaxSearchResults
<1>1. /\ limit \in Nat /\ r \in BOOLEAN /\ BatchLimit \in Nat \ {0}
      /\ RedisMaxSearchResults \in Nat \ {0}
      /\ op \in {"getAll", "deleteAll", "deleteNamespace"}
  BY DEF ConstantsAssumption
<1>2. CASE op = "deleteNamespace"
  <2>1. asked = [NoCall EXCEPT !.op = op]
    BY <1>2
  <2> DEFINE none == [op |-> op, size |-> 1, full |-> 1, rejected |-> FALSE, disabled |-> FALSE]
  <2>2. asked = none
    BY <2>1 DEF NoCall
  <2>3. /\ none \in [op: Operations \cup {"none"}, size: Nat \ {0}, full: Nat \ {0},
                     rejected: BOOLEAN, disabled: BOOLEAN]
        /\ none.op = op /\ none.size = none.full
    OBVIOUS
  <2> HIDE DEF none
  <2> QED
    BY <2>2, <2>3
<1>3. CASE op # "deleteNamespace"
  <2>1. asked = Arguments(op, limit, r, f)
    BY <1>3
  <2>2. CASE op = "deleteAll"
    <3>1. asked = [op |-> op, rejected |-> r, disabled |-> f, size |-> BatchLimit,
                   full |-> BatchLimit]
      BY <2>1, <2>2, Zenon DEF Arguments
    <3> QED
      BY <1>1, <3>1
  <2>3. CASE op = "getAll" /\ limit = 0
    <3>1. asked = [op |-> op, rejected |-> r, disabled |-> f,
                   size |-> RedisMaxSearchResults, full |-> RedisMaxSearchResults]
      BY <1>1, <2>1, <2>3 DEF Arguments
    <3> QED
      BY <1>1, <3>1
  <2>4. CASE op = "getAll" /\ limit # 0
    <3>1. limit > 0
      BY <1>1, <2>4
    <3>2. asked = [op |-> op, rejected |-> r, disabled |-> f,
                   size |-> Least(limit, RedisMaxSearchResults), full |-> limit]
      BY <1>1, <2>1, <2>4, <3>1 DEF Arguments
    <3> QED
      BY <1>1, <2>4, <3>1, <3>2 DEF Least
  <2> QED
    BY <1>1, <1>3, <2>2, <2>3, <2>4
<1> QED
  BY <1>2, <1>3

LEMMA CallKeeps ==
    ASSUME Inv, ConstantsAssumption, NEW c \in Callers, Call(c)
    PROVE  Inv'
<1>1. PICK op \in Operations, limit \in Limits, r \in Rejections, f \in BOOLEAN :
          /\ call' = [call EXCEPT ![c] = IF op = "deleteNamespace" THEN [NoCall EXCEPT !.op = op]
                                         ELSE Arguments(op, limit, r, f)]
          /\ pc' = [pc EXCEPT ![c] = IF op = "deleteNamespace" THEN "drop" ELSE "list"]
  BY DEF Call
<1>2. /\ pc[c] = "new"
      /\ before' = [before EXCEPT ![c] = Matching]
      /\ touched' = [touched EXCEPT ![c] = {}]
      /\ UNCHANGED <<redisVars, writes, listVars, scanVars, delVars>>
  BY DEF Call
<1>3. /\ hashes' = hashes /\ index' = index /\ hasIndex' = hasIndex /\ writes' = writes
      /\ offset' = offset /\ listed' = listed
      /\ unscanned' = unscanned /\ keys' = keys /\ scanned' = scanned
      /\ acks' = acks /\ results' = results /\ removed' = removed
  BY <1>2 DEF redisVars, listVars, scanVars, delVars
<1>4. TypeOK /\ IndexInv /\ CallerInv(c)
  BY DEF Inv
<1> DEFINE asked == IF op = "deleteNamespace" THEN [NoCall EXCEPT !.op = op]
                    ELSE Arguments(op, limit, r, f)
<1>5. /\ asked \in [op: Operations \cup {"none"}, size: Nat \ {0}, full: Nat \ {0},
                    rejected: BOOLEAN, disabled: BOOLEAN]
      /\ asked.op = op
      /\ \/ asked.size = asked.full
         \/ op = "getAll" /\ asked.full > RedisMaxSearchResults
  BY ArgumentsAre
<1>6. call' = [call EXCEPT ![c] = asked]
  BY <1>1
<1> HIDE DEF asked
<1>7. /\ pc \in [Callers -> {"new", "list", "scan", "fetch", "delete", "drop",
                              "dropScan", "dropKeys", "done", "failed"}]
      /\ call \in [Callers -> [op: Operations \cup {"none"}, size: Nat \ {0}, full: Nat \ {0},
                               rejected: BOOLEAN, disabled: BOOLEAN]]
      /\ before \in [Callers -> SUBSET Ids] /\ touched \in [Callers -> SUBSET Ids]
  BY <1>4 DEF TypeOK
<1>8. pc'[c] = IF op = "deleteNamespace" THEN "drop" ELSE "list"
  BY <1>1, <1>7
<1>9. call'[c] = asked /\ before'[c] = Matching /\ touched'[c] = {}
  BY <1>2, <1>6, <1>7
<1>10. TypeOK'
  <2>1. pc' \in [Callers -> {"new", "list", "scan", "fetch", "delete", "drop",
                             "dropScan", "dropKeys", "done", "failed"}]
    BY <1>1, <1>7
  <2>2. call' \in [Callers -> [op: Operations \cup {"none"}, size: Nat \ {0}, full: Nat \ {0},
                               rejected: BOOLEAN, disabled: BOOLEAN]]
    BY <1>5, <1>6, <1>7, Zenon
  <2>3. before' \in [Callers -> SUBSET Ids] /\ touched' \in [Callers -> SUBSET Ids]
    BY <1>2, <1>7 DEF Matching
  <2> QED
    BY ZenonT(60), <1>3, <1>4, <2>1, <2>2, <2>3 DEF TypeOK
<1>11. IndexInv'
  BY <1>3, <1>4 DEF IndexInv, Present
<1>12. Unreported(c)'
  BY <1>2, <1>3, NotYet DEF Unreported
<1>13. (Reports(c) /\ Counted(c) /\ Gone(c))'
  BY <1>12, UnreportedCounts, PTL
<1>14. CallerInv(c)'
  <2>1. op \in {"getAll", "deleteAll", "deleteNamespace"}
    BY DEF ConstantsAssumption
  <2>2. listed[c] = <<>> /\ offset[c] = 0
    BY <1>2, <1>4 DEF CallerInv, Phases
  <2>3. Phases(c)'
    BY <1>5, <1>8, <1>9, <2>1 DEF Phases
  <2>4. Covered(c)'
    BY <1>8 DEF Covered, Deleting
  <2>5. Intact(c)'
    BY <1>3, <1>9 DEF Intact, Matching
  <2>6. Scanning(c)' /\ Exact(c)'
    BY <1>8 DEF Scanning, Exact
  <2>7. Paging(c)'
    <3>1. Store'
      BY <1>10, <1>11 DEF Store, TypeOK
    <3>2. (Matches \in Seq(Ids))'
      BY <3>1, MatchesIs, PTL
    <3>3. 0 <= Len(Matches') /\ SubSeq(Matches', 1, 0) = <<>>
      BY <3>2
    <3> QED
      BY <1>3, <2>2, <3>3 DEF Paging
  <2>8. Dropping(c)'
    BY <1>8 DEF Dropping
  <2> QED
    BY <1>13, <2>3, <2>4, <2>5, <2>6, <2>7, <2>8 DEF CallerInv
<1>15. ASSUME NEW b \in Callers \ {c} PROVE Same(b) /\ Leaves(b)
  <2>1. touched'[b] = touched[b]
    BY <1>2, <1>7
  <2>2. Same(b)
    BY <1>1, <1>2, <1>3, <1>6, <1>7 DEF Same
  <2> QED
    BY <1>3, <2>1, <2>2 DEF Leaves
<1> QED
  BY <1>10, <1>11, <1>14, <1>15, InvKept

\* What a page does to the collecting call: it is the last one, or the next
\* one follows it.
LEMMA Collects ==
    ASSUME TypeOK, NEW c \in Callers, NEW page \in Seq(Ids), Unreported(c), Collect(c, page),
           call[c].op \in {"getAll", "deleteAll"}
    PROVE  /\ listed' \in [Callers -> Seq(Ids)] /\ offset' \in [Callers -> Nat]
           /\ pc' \in [Callers -> {"new", "list", "scan", "fetch", "delete", "drop",
                                   "dropScan", "dropKeys", "done", "failed"}]
           /\ listed'[c] = listed[c] \o page
           /\ \/ /\ Len(page) = call[c].full /\ pc'[c] = "list"
                 /\ offset'[c] = offset[c] + Len(page)
              \/ /\ Len(page) # call[c].full
                 /\ \/ pc'[c] = "delete" /\ call[c].op = "deleteAll"
                    \/ pc'[c] = "done" /\ (call[c].op = "getAll" \/ listed'[c] = <<>>)
           /\ \A b \in Callers \ {c} :
                 listed'[b] = listed[b] /\ offset'[b] = offset[b] /\ pc'[b] = pc[b]
<1>1. /\ listed \in [Callers -> Seq(Ids)] /\ offset \in [Callers -> Nat]
      /\ pc \in [Callers -> {"new", "list", "scan", "fetch", "delete", "drop",
                              "dropScan", "dropKeys", "done", "failed"}]
      /\ Len(page) \in Nat
  BY DEF TypeOK
<1>2. listed' = [listed EXCEPT ![c] = @ \o page]
  BY DEF Collect
<1>3. listed[c] \o page \in Seq(Ids)
  BY <1>1, ConcatProperties
<1>4. /\ listed' \in [Callers -> Seq(Ids)] /\ listed'[c] = listed[c] \o page
      /\ \A b \in Callers \ {c} : listed'[b] = listed[b]
  BY <1>1, <1>2, <1>3
<1>5. CASE Len(page) = call[c].full
  <2>1. offset' = [offset EXCEPT ![c] = @ + Len(page)] /\ pc' = [pc EXCEPT ![c] = "list"]
    BY <1>5 DEF Collect
  <2>2. offset[c] + Len(page) \in Nat
    BY <1>1
  <2> QED
    BY <1>1, <1>4, <1>5, <2>1, <2>2
<1>6. CASE Len(page) # call[c].full
  <2>1. offset' = offset /\ pc' = [pc EXCEPT ![c] = AfterListing(c, listed'[c])]
    BY <1>6 DEF Collect
  <2>2. /\ AfterListing(c, listed'[c]) \in {"delete", "done"}
        /\ AfterListing(c, listed'[c]) = "delete" => call[c].op = "deleteAll"
        /\ AfterListing(c, listed'[c]) = "done" => call[c].op = "getAll" \/ listed'[c] = <<>>
    BY DEF AfterListing
  <2>3. pc' \in [Callers -> {"new", "list", "scan", "fetch", "delete", "drop",
                             "dropScan", "dropKeys", "done", "failed"}]
    BY <1>1, <2>1, <2>2
  <2> QED
    BY <1>1, <1>4, <1>6, <2>1, <2>2, <2>3
<1> QED
  BY <1>5, <1>6

\* The bounds of TypeOK while a call lists.
LEMMA BoundsKept ==
    ASSUME TypeOK, ConstantsAssumption, NEW c \in Callers, Unreported(c),
           acks' = acks, results' = results, listed'[c] \in Seq(Ids),
           \A b \in Callers \ {c} : listed'[b] = listed[b]
    PROVE  \A b \in Callers : /\ Len(acks'[b]) <= BatchLimit
                              /\ Len(results'[b]) + Len(acks'[b]) <= Len(listed'[b])
<1>1. BatchLimit \in Nat /\ Len(listed'[c]) \in Nat
  BY DEF ConstantsAssumption
<1>2. Len(acks'[c]) <= BatchLimit /\ Len(results'[c]) + Len(acks'[c]) <= Len(listed'[c])
  <2>1. Len(results'[c]) = 0 /\ Len(acks'[c]) = 0
    BY DEF Unreported
  <2> QED
    BY <1>1, <2>1
<1>3. ASSUME NEW b \in Callers \ {c}
      PROVE  Len(acks'[b]) <= BatchLimit /\ Len(results'[b]) + Len(acks'[b]) <= Len(listed'[b])
  BY CallerTypes
<1> QED
  BY <1>2, <1>3

LEMMA SearchPageKeeps ==
    ASSUME Inv, ConstantsAssumption, NEW c \in Callers, SearchPage(c)
    PROVE  Inv'
<1>1. /\ pc[c] = "list" /\ hasIndex /\ ~ call[c].rejected /\ Collect(c, Page(c))
      /\ UNCHANGED <<redisVars, writes, call, scanVars, delVars, before, touched>>
  BY DEF SearchPage
<1>2. /\ hashes' = hashes /\ index' = index /\ hasIndex' = hasIndex /\ writes' = writes
      /\ call' = call /\ unscanned' = unscanned /\ keys' = keys /\ scanned' = scanned
      /\ acks' = acks /\ results' = results /\ removed' = removed
      /\ before' = before /\ touched' = touched
  BY <1>1 DEF redisVars, scanVars, delVars
<1>3. TypeOK /\ IndexInv /\ CallerInv(c)
  BY DEF Inv
<1>4. Store
  BY <1>3 DEF Store, TypeOK
<1>5. Matches \in Seq(Ids) /\ IsInjective(Matches) /\ ToSet(Matches) = Matching
  BY <1>1, <1>4, MatchesIs
<1>6. /\ offset[c] \in Nat /\ call[c].size \in Nat \ {0} /\ call[c].full \in Nat \ {0}
      /\ listed[c] \in Seq(Ids)
  BY <1>3, CallerTypes
<1> DEFINE page == PageAfter(Matches, offset[c], call[c].size)
<1>7. Page(c) = page
  BY DEF Page, PageAfter
<1>8. page \in Seq(Ids)
  BY <1>5, <1>6, PageIs
<1>9. Unreported(c)
  BY <1>1, NotYet
<1>10. call[c].op \in {"getAll", "deleteAll"}
  BY <1>1, <1>3 DEF CallerInv, Phases
<1> HIDE DEF page
<1>11. /\ listed' \in [Callers -> Seq(Ids)] /\ offset' \in [Callers -> Nat]
       /\ pc' \in [Callers -> {"new", "list", "scan", "fetch", "delete", "drop",
                               "dropScan", "dropKeys", "done", "failed"}]
       /\ listed'[c] = listed[c] \o page
       /\ \/ /\ Len(page) = call[c].full /\ pc'[c] = "list"
             /\ offset'[c] = offset[c] + Len(page)
          \/ /\ Len(page) # call[c].full
             /\ \/ pc'[c] = "delete" /\ call[c].op = "deleteAll"
                \/ pc'[c] = "done" /\ (call[c].op = "getAll" \/ listed'[c] = <<>>)
       /\ \A b \in Callers \ {c} :
             listed'[b] = listed[b] /\ offset'[b] = offset[b] /\ pc'[b] = pc[b]
  BY <1>1, <1>3, <1>7, <1>8, <1>9, <1>10, Collects
<1>12. TypeOK'
  <2>1. \A b \in Callers : /\ Len(acks'[b]) <= BatchLimit
                           /\ Len(results'[b]) + Len(acks'[b]) <= Len(listed'[b])
    BY <1>2, <1>3, <1>9, <1>11, BoundsKept
  <2> QED
    BY ZenonT(60), <1>2, <1>3, <1>11, <2>1 DEF TypeOK
<1>13. touched[c] = {} =>
          /\ offset[c] + Len(page) \in 0..Len(Matches)
          /\ listed'[c] = SubSeq(Matches, 1, offset[c] + Len(page))
          /\ Len(page) # call[c].size => listed'[c] = Matches
  <2> SUFFICES ASSUME touched[c] = {}
               PROVE  /\ offset[c] + Len(page) \in 0..Len(Matches)
                      /\ listed'[c] = SubSeq(Matches, 1, offset[c] + Len(page))
                      /\ Len(page) # call[c].size => listed'[c] = Matches
    OBVIOUS
  <2>1. offset[c] <= Len(Matches) /\ listed[c] = SubSeq(Matches, 1, offset[c])
    BY <1>1, <1>3 DEF CallerInv, Paging
  <2>2. /\ offset[c] + Len(page) \in 0..Len(Matches)
        /\ SubSeq(Matches, 1, offset[c]) \o page = SubSeq(Matches, 1, offset[c] + Len(page))
        /\ Len(page) # call[c].size => offset[c] + Len(page) = Len(Matches)
    BY <1>5, <1>6, <2>1, PagesAppend DEF page
  <2> QED
    BY <1>5, <1>11, <2>1, <2>2, SubSeqFull
<1>14. touched[c] = {} => before[c] = Matching
  <2>1. touched[c] = {} => \A d \in Ids : d \in before[c] <=> hashes[d] = "match"
    BY <1>1, <1>3 DEF CallerInv, Intact
  <2>2. before[c] \subseteq Ids
    BY <1>3, CallerTypes
  <2> QED
    BY <2>1, <2>2 DEF Matching
<1>15. /\ pc'[c] \in {"delete", "done"} /\ touched[c] = {}
       /\ call[c].op = "deleteAll" \/ call[c].full <= RedisMaxSearchResults
       => ToSet(listed'[c]) = before[c] /\ IsInjective(listed'[c])
  <2> SUFFICES ASSUME pc'[c] \in {"delete", "done"}, touched[c] = {},
                      call[c].op = "deleteAll" \/ call[c].full <= RedisMaxSearchResults
               PROVE  ToSet(listed'[c]) = before[c] /\ IsInjective(listed'[c])
    OBVIOUS
  <2>1. call[c].size = call[c].full
    <3>1. \/ call[c].size = call[c].full
          \/ call[c].op = "getAll" /\ call[c].full > RedisMaxSearchResults
      BY <1>3 DEF CallerInv, Phases
    <3>2. RedisMaxSearchResults \in Nat
      BY DEF ConstantsAssumption
    <3> QED
      BY <1>6, <3>1, <3>2
  <2>2. Len(page) # call[c].size
    BY <1>11, <2>1
  <2> QED
    BY <1>5, <1>13, <1>14, <2>2
<1>16. Phases(c)'
  <2>1. \/ call[c].size = call[c].full
        \/ call[c].op = "getAll" /\ call[c].full > RedisMaxSearchResults
    BY <1>3 DEF CallerInv, Phases
  <2>2. results'[c] = <<>>
    BY <1>2, <1>9 DEF Unreported
  <2>3. pc'[c] = "done" /\ call[c].op = "deleteAll" => Len(results'[c]) = Len(listed'[c])
    BY <1>11, <2>2
  <2> QED
    BY <1>2, <1>10, <1>11, <2>1, <2>3 DEF Phases
<1>17. Covered(c)'
  BY <1>1, <1>2, <1>11, <1>15 DEF Covered, Deleting
<1>18. Intact(c)'
  BY <1>1, <1>2, <1>3 DEF CallerInv, Intact
<1>19. Scanning(c)' /\ Dropping(c)'
  BY <1>2, <1>10, <1>11 DEF Scanning, Dropping
<1>20. Paging(c)'
  <2>1. Matches' = Matches
    BY <1>2 DEF Matches, Matching
  <2>2. offset[c] + Len(page) \in 0..Len(Matches) => offset[c] + Len(page) <= Len(Matches)
    BY <1>5
  <2> QED
    BY <1>2, <1>11, <1>13, <2>1, <2>2 DEF Paging
<1>21. Exact(c)'
  BY <1>2, <1>15 DEF Exact
<1>22. \A b \in Callers \ {c} : Same(b)
  BY <1>2, <1>11 DEF Same
<1> QED
  BY <1>1, <1>9, <1>12, <1>16, <1>17, <1>18, <1>19, <1>20, <1>21, <1>22, ListingKept

LEMMA ScanFallbackKeeps ==
    ASSUME Inv, NEW c \in Callers, ScanFallback(c)
    PROVE  Inv'
<1>1. /\ pc[c] = "list" /\ call[c].rejected
      /\ pc' = [pc EXCEPT ![c] = "scan"]
      /\ unscanned' = [unscanned EXCEPT ![c] = Ids]
      /\ scanned' = [scanned EXCEPT ![c] = <<>>]
      /\ UNCHANGED <<redisVars, writes, call, listVars, keys, delVars, before, touched>>
  BY DEF ScanFallback
<1>2. /\ hashes' = hashes /\ index' = index /\ hasIndex' = hasIndex /\ writes' = writes
      /\ call' = call /\ offset' = offset /\ listed' = listed /\ keys' = keys
      /\ acks' = acks /\ results' = results /\ removed' = removed
      /\ before' = before /\ touched' = touched
  BY <1>1 DEF redisVars, listVars, delVars
<1>3. TypeOK /\ CallerInv(c)
  BY DEF Inv
<1>4. /\ pc \in [Callers -> {"new", "list", "scan", "fetch", "delete", "drop",
                              "dropScan", "dropKeys", "done", "failed"}]
      /\ unscanned \in [Callers -> SUBSET Ids] /\ scanned \in [Callers -> Seq(Ids)]
      /\ before[c] \subseteq Ids
  BY <1>3 DEF TypeOK
<1>5. pc'[c] = "scan" /\ unscanned'[c] = Ids
  BY <1>1, <1>4
<1>6. TypeOK'
  <2>1. /\ pc' \in [Callers -> {"new", "list", "scan", "fetch", "delete", "drop",
                                "dropScan", "dropKeys", "done", "failed"}]
        /\ unscanned' \in [Callers -> SUBSET Ids]
    BY <1>1, <1>4
  <2>2. scanned' \in [Callers -> Seq(Ids)]
    BY <1>1, <1>4
  <2> QED
    BY <1>2, <1>3, <2>1, <2>2 DEF TypeOK
<1>7. Unreported(c)
  BY <1>1, NotYet
<1>8. Phases(c)'
  BY <1>1, <1>2, <1>3, <1>5 DEF CallerInv, Phases
<1>9. Covered(c)' /\ Paging(c)' /\ Exact(c)' /\ Dropping(c)'
  BY <1>5 DEF Covered, Deleting, Paging, Exact, Dropping
<1>10. Intact(c)'
  BY <1>1, <1>2, <1>3 DEF CallerInv, Intact
<1>11. Scanning(c)'
  BY <1>2, <1>4, <1>5 DEF Scanning
<1>12. \A b \in Callers \ {c} : Same(b)
  BY <1>1, <1>2, <1>4 DEF Same
<1> QED
  BY <1>1, <1>6, <1>7, <1>8, <1>9, <1>10, <1>11, <1>12, ListingKept

\* A call that fails has deleted and reported nothing, and lists nothing.
LEMMA FailKeeps ==
    ASSUME Inv, ConstantsAssumption, NEW c \in Callers, Fail(c),
           pc[c] \in {"list", "scan", "fetch", "drop", "dropScan", "dropKeys"}
    PROVE  Inv'
<1>1. /\ pc' = [pc EXCEPT ![c] = "failed"]
      /\ listed' = [listed EXCEPT ![c] = <<>>] /\ offset' = [offset EXCEPT ![c] = 0]
      /\ unscanned' = [unscanned EXCEPT ![c] = {}] /\ keys' = [keys EXCEPT ![c] = {}]
      /\ scanned' = [scanned EXCEPT ![c] = <<>>]
      /\ UNCHANGED <<redisVars, writes, call, delVars, before, touched>>
  BY DEF Fail
<1>2. /\ hashes' = hashes /\ index' = index /\ hasIndex' = hasIndex /\ writes' = writes
      /\ call' = call /\ acks' = acks /\ results' = results /\ removed' = removed
      /\ before' = before /\ touched' = touched
  BY <1>1 DEF redisVars, delVars
<1>3. TypeOK /\ CallerInv(c)
  BY DEF Inv
<1>4. /\ pc \in [Callers -> {"new", "list", "scan", "fetch", "delete", "drop",
                              "dropScan", "dropKeys", "done", "failed"}]
      /\ listed \in [Callers -> Seq(Ids)] /\ scanned \in [Callers -> Seq(Ids)]
      /\ unscanned \in [Callers -> SUBSET Ids] /\ keys \in [Callers -> SUBSET Ids]
      /\ offset \in [Callers -> Nat]
  BY <1>3 DEF TypeOK
<1>5. pc'[c] = "failed" /\ Unreported(c)
  BY <1>1, <1>4, NotYet
<1>6. TypeOK'
  <2>1. /\ pc' \in [Callers -> {"new", "list", "scan", "fetch", "delete", "drop",
                                "dropScan", "dropKeys", "done", "failed"}]
        /\ unscanned' \in [Callers -> SUBSET Ids] /\ keys' \in [Callers -> SUBSET Ids]
        /\ offset' \in [Callers -> Nat]
    BY <1>1, <1>4
  <2>2. /\ listed' \in [Callers -> Seq(Ids)] /\ scanned' \in [Callers -> Seq(Ids)]
        /\ \A b \in Callers \ {c} : listed'[b] = listed[b]
    BY <1>1, <1>4
  <2>3. \A b \in Callers : /\ Len(acks'[b]) <= BatchLimit
                           /\ Len(results'[b]) + Len(acks'[b]) <= Len(listed'[b])
    BY <1>2, <1>3, <1>5, <2>2, BoundsKept
  <2> QED
    BY <1>2, <1>3, <2>1, <2>2, <2>3 DEF TypeOK
<1>7. Phases(c)'
  BY <1>2, <1>3, <1>5 DEF CallerInv, Phases
<1>8. /\ Covered(c)' /\ Intact(c)' /\ Scanning(c)' /\ Paging(c)' /\ Exact(c)'
      /\ Dropping(c)'
  BY <1>5 DEF Covered, Deleting, Intact, Scanning, Paging, Exact, Dropping
<1>9. \A b \in Callers \ {c} : Same(b)
  BY <1>1, <1>2, <1>4 DEF Same
<1> QED
  BY <1>1, <1>5, <1>6, <1>7, <1>8, <1>9, ListingKept

\* One SCAN, for a listing or for the end of a namespace.
LEMMA ScanReplyKeeps ==
    ASSUME Inv, NEW c \in Callers, NEW next, ScanReply(c, next),
           (pc[c] = "scan" /\ next = "fetch") \/ (pc[c] = "dropScan" /\ next = "dropKeys")
    PROVE  Inv'
<1>1. PICK page \in SUBSET Ids :
          /\ unscanned' = [unscanned EXCEPT ![c] = @ \ page]
          /\ keys' = [keys EXCEPT ![c] = page \cap Present]
  BY DEF ScanReply
<1>2. /\ pc' = [pc EXCEPT ![c] = next]
      /\ UNCHANGED <<redisVars, writes, call, listVars, scanned, delVars, before, touched>>
  BY DEF ScanReply
<1>3. /\ hashes' = hashes /\ index' = index /\ hasIndex' = hasIndex /\ writes' = writes
      /\ call' = call /\ offset' = offset /\ listed' = listed /\ scanned' = scanned
      /\ acks' = acks /\ results' = results /\ removed' = removed
      /\ before' = before /\ touched' = touched
  BY <1>2 DEF redisVars, listVars, delVars
<1>4. TypeOK /\ CallerInv(c)
  BY DEF Inv
<1>5. /\ pc \in [Callers -> {"new", "list", "scan", "fetch", "delete", "drop",
                              "dropScan", "dropKeys", "done", "failed"}]
      /\ unscanned \in [Callers -> SUBSET Ids] /\ keys \in [Callers -> SUBSET Ids]
      /\ before[c] \subseteq Ids
  BY <1>4 DEF TypeOK
<1>6. /\ pc'[c] = next /\ unscanned'[c] = unscanned[c] \ page /\ keys'[c] = page \cap Present
      /\ next \in {"fetch", "dropKeys"}
  BY <1>1, <1>2, <1>5
<1>7. TypeOK'
  <2>1. /\ pc' \in [Callers -> {"new", "list", "scan", "fetch", "delete", "drop",
                                "dropScan", "dropKeys", "done", "failed"}]
    BY <1>2, <1>5
  <2>2. unscanned' \in [Callers -> SUBSET Ids] /\ keys' \in [Callers -> SUBSET Ids]
    BY <1>1, <1>5
  <2> QED
    BY <1>3, <1>4, <2>1, <2>2 DEF TypeOK
<1>8. Unreported(c)
  BY NotYet
<1>9. Phases(c)'
  BY <1>3, <1>4, <1>6 DEF CallerInv, Phases
<1>10. Covered(c)' /\ Paging(c)' /\ Exact(c)'
  BY <1>6 DEF Covered, Deleting, Paging, Exact
<1>11. Intact(c)'
  BY <1>3, <1>4, <1>6 DEF CallerInv, Intact
<1>12. Scanning(c)'
  <2> SUFFICES ASSUME call[c].op = "deleteAll", pc[c] = "scan", NEW d \in before[c] \ touched[c],
                      d \notin unscanned'[c], d \notin ToSet(scanned[c])
               PROVE  d \in keys'[c]
    BY <1>3, <1>4, <1>6 DEF CallerInv, Phases, Scanning
  <2>1. hashes[d] = "match"
    BY <1>4, <1>5 DEF CallerInv, Intact
  <2>2. d \in unscanned[c]
    BY <1>4 DEF CallerInv, Scanning
  <2> QED
    BY <1>5, <1>6, <2>1, <2>2 DEF Present
<1>13. Dropping(c)'
  <2> SUFFICES ASSUME call[c].op = "deleteNamespace", pc[c] = "dropScan",
                      NEW d \in Ids \ touched[c], hashes[d] # "absent", d \notin unscanned'[c]
               PROVE  d \in keys'[c]
    BY <1>3, <1>4, <1>6 DEF CallerInv, Phases, Dropping
  <2>1. d \in unscanned[c]
    BY <1>4 DEF CallerInv, Dropping
  <2> QED
    BY <1>6, <2>1 DEF Present
<1>14. \A b \in Callers \ {c} : Same(b)
  BY <1>1, <1>2, <1>3, <1>5 DEF Same
<1>15. UNCHANGED delVars /\ UNCHANGED redisVars /\ UNCHANGED touched
  BY <1>2
<1> QED
  BY <1>7, <1>8, <1>9, <1>10, <1>11, <1>12, <1>13, <1>14, <1>15, ListingKept

LEMMA IdsAreNumbers ==
    ASSUME ConstantsAssumption
    PROVE  Ids \in SUBSET Int /\ IsFiniteSet(Ids)
<1>1. Ids \subseteq Nat /\ IsFiniteSet(Ids)
  BY DEF ConstantsAssumption
<1>2. Nat \subseteq Int
  OBVIOUS
<1> QED
  BY <1>1, <1>2, Zenon

\* What a scan has found, and what its caller makes of it.
LEMMA FoundIs ==
    ASSUME TypeOK, ConstantsAssumption, NEW c \in Callers
    PROVE  /\ scanned[c] \o InOrder(Found(c)) \in Seq(Ids)
           /\ ToSet(scanned[c] \o InOrder(Found(c))) = ToSet(scanned[c]) \cup Found(c)
<1> DEFINE s == scanned[c]
           f == InOrder(Found(c))
<1>1. s \in Seq(Ids) /\ keys[c] \in SUBSET Ids /\ Ids \in SUBSET Int /\ IsFiniteSet(Ids)
  BY CallerTypes, IdsAreNumbers
<1>2. Found(c) \in SUBSET Ids /\ Found(c) \in SUBSET Int /\ IsFiniteSet(Found(c))
  <2>1. Found(c) \in SUBSET Ids
    BY <1>1 DEF Found
  <2> QED
    BY <1>1, <2>1, FS_Subset
<1>3. f \in Seq(Found(c)) /\ ToSet(f) = Found(c)
  BY <1>2, InOrderElements
<1>4. f \in Seq(Ids)
  BY <1>2, <1>3, SeqMonotonic
<1> HIDE DEF s, f
<1>5. s \o f \in Seq(Ids) /\ ToSet(s \o f) = ToSet(s) \cup ToSet(f)
  <2>1. /\ s \o f \in Seq(Ids) /\ Len(s \o f) = Len(s) + Len(f)
        /\ \A i \in 1..Len(s) + Len(f) :
              (s \o f)[i] = IF i <= Len(s) THEN s[i] ELSE f[i - Len(s)]
    BY <1>1, <1>4, ConcatProperties
  <2>2. /\ Len(s) \in Nat /\ Len(f) \in Nat /\ DOMAIN s = 1..Len(s) /\ DOMAIN f = 1..Len(f)
        /\ DOMAIN (s \o f) = 1..Len(s) + Len(f)
    BY <1>1, <1>4, <2>1
  <2>3. ToSet(s \o f) \subseteq ToSet(s) \cup ToSet(f)
    <3> SUFFICES ASSUME NEW i \in 1..Len(s) + Len(f)
                 PROVE  (s \o f)[i] \in ToSet(s) \cup ToSet(f)
      BY <2>2 DEF ToSet
    <3>1. CASE i <= Len(s)
      <4>1. i \in DOMAIN s /\ (s \o f)[i] = s[i]
        BY <2>1, <2>2, <3>1
      <4> QED
        BY <4>1 DEF ToSet
    <3>2. CASE ~ (i <= Len(s))
      <4>1. i - Len(s) \in DOMAIN f /\ (s \o f)[i] = f[i - Len(s)]
        BY <2>1, <2>2, <3>2
      <4> QED
        BY <4>1 DEF ToSet
    <3> QED
      BY <3>1, <3>2
  <2>4. ToSet(s) \subseteq ToSet(s \o f)
    <3> SUFFICES ASSUME NEW i \in 1..Len(s) PROVE s[i] \in ToSet(s \o f)
      BY <2>2 DEF ToSet
    <3>1. i \in DOMAIN (s \o f) /\ (s \o f)[i] = s[i]
      BY <2>1, <2>2
    <3> QED
      BY <3>1 DEF ToSet
  <2>5. ToSet(f) \subseteq ToSet(s \o f)
    <3> SUFFICES ASSUME NEW i \in 1..Len(f) PROVE f[i] \in ToSet(s \o f)
      BY <2>2 DEF ToSet
    <3>1. /\ Len(s) + i \in DOMAIN (s \o f) /\ ~ (Len(s) + i <= Len(s))
          /\ Len(s) + i - Len(s) = i
      BY <2>2
    <3>2. (s \o f)[Len(s) + i] = f[i]
      BY <2>1, <2>2, <3>1
    <3> QED
      BY <3>1, <3>2 DEF ToSet
  <2> QED
    BY <2>1, <2>3, <2>4, <2>5
<1> QED
  BY <1>3, <1>5 DEF s, f

LEMMA ScanResultIs ==
    ASSUME TypeOK, ConstantsAssumption, NEW c \in Callers, NEW all \in Seq(Ids)
    PROVE  /\ ScanResult(c, all) \in Seq(Ids)
           /\ call[c].op = "deleteAll" => ToSet(ScanResult(c, all)) = ToSet(all)
<1>1. Ids \in SUBSET Int /\ call[c].size \in Nat
  BY CallerTypes, IdsAreNumbers
<1>2. Sorted(all) \in Seq(Ids) /\ Len(Sorted(all)) = Len(all) /\ ToSet(Sorted(all)) = ToSet(all)
  BY <1>1, SortedElements
<1>3. SubSeq(Sorted(all), 1, Least(call[c].size, Len(all))) \in Seq(Ids)
  <2>1. 0 + 1 = 1 /\ 0 + call[c].size = call[c].size /\ 0 \in Nat
    BY <1>1
  <2>2. PageAfter(Sorted(all), 0, call[c].size)
        = SubSeq(Sorted(all), 1, Least(call[c].size, Len(all)))
    BY <1>2, <2>1 DEF PageAfter
  <2> QED
    BY <1>1, <1>2, <2>1, <2>2, PageIs
<1> QED
  BY <1>2, <1>3 DEF ScanResult

\* Every entry a scan has come to and others have left alone is found.
LEMMA NothingMissed ==
    ASSUME Inv, NEW c \in Callers, pc[c] = "fetch", call[c].op = "deleteAll",
           NEW d \in before[c] \ touched[c]
    PROVE  d \in unscanned[c] \/ d \in ToSet(scanned[c]) \cup Found(c)
<1>1. CallerInv(c) /\ before[c] \subseteq Ids
  BY CallerTypes DEF Inv
<1>2. d \in unscanned[c] \/ d \in keys[c] \/ d \in ToSet(scanned[c])
  BY <1>1 DEF CallerInv, Scanning
<1>3. hashes[d] = "match"
  BY <1>1 DEF CallerInv, Intact
<1> QED
  BY <1>2, <1>3 DEF Found

LEMMA FetchKeeps ==
    ASSUME Inv, ConstantsAssumption, NEW c \in Callers, Fetch(c)
    PROVE  Inv'
<1> DEFINE all == scanned[c] \o InOrder(Found(c))
<1>1. /\ pc[c] = "fetch" /\ keys' = [keys EXCEPT ![c] = {}]
      /\ UNCHANGED <<redisVars, writes, call, unscanned, delVars, before, touched>>
  BY DEF Fetch
<1>2. \/ /\ unscanned[c] # {}
         /\ scanned' = [scanned EXCEPT ![c] = all]
         /\ pc' = [pc EXCEPT ![c] = "scan"]
         /\ UNCHANGED listVars
      \/ /\ unscanned[c] = {}
         /\ scanned' = [scanned EXCEPT ![c] = <<>>]
         /\ IF call[c].op = "getAll"
            THEN Collect(c, ScanResult(c, all))
            ELSE /\ listed' = [listed EXCEPT ![c] = ScanResult(c, all)]
                 /\ pc' = [pc EXCEPT ![c] = AfterListing(c, listed'[c])]
                 /\ UNCHANGED offset
  BY DEF Fetch
<1>3. /\ hashes' = hashes /\ index' = index /\ hasIndex' = hasIndex /\ writes' = writes
      /\ call' = call /\ unscanned' = unscanned
      /\ acks' = acks /\ results' = results /\ removed' = removed
      /\ before' = before /\ touched' = touched
  BY <1>1 DEF redisVars, delVars
<1>4. TypeOK /\ CallerInv(c)
  BY DEF Inv
<1>5. /\ pc \in [Callers -> {"new", "list", "scan", "fetch", "delete", "drop",
                              "dropScan", "dropKeys", "done", "failed"}]
      /\ listed \in [Callers -> Seq(Ids)] /\ scanned \in [Callers -> Seq(Ids)]
      /\ keys \in [Callers -> SUBSET Ids] /\ offset \in [Callers -> Nat]
  BY <1>4 DEF TypeOK
<1>6. all \in Seq(Ids) /\ ToSet(all) = ToSet(scanned[c]) \cup Found(c)
  BY <1>4, FoundIs
<1>7. call[c].op \in {"getAll", "deleteAll"} /\ call[c].rejected
  BY <1>1, <1>4 DEF CallerInv, Phases
<1>8. Unreported(c)
  BY <1>1, NotYet
<1>9. ASSUME call[c].op = "deleteAll", NEW d \in before[c] \ touched[c]
      PROVE  d \in unscanned[c] \/ d \in ToSet(all)
  BY <1>1, <1>6, <1>9, NothingMissed
<1> HIDE DEF all
<1>10. /\ ScanResult(c, all) \in Seq(Ids)
       /\ call[c].op = "deleteAll" => ToSet(ScanResult(c, all)) = ToSet(all)
  BY <1>4, <1>6, ScanResultIs
\* What the three outcomes have in common.
<1>11. /\ listed' \in [Callers -> Seq(Ids)] /\ offset' \in [Callers -> Nat]
       /\ scanned' \in [Callers -> Seq(Ids)]
       /\ pc' \in [Callers -> {"new", "list", "scan", "fetch", "delete", "drop",
                               "dropScan", "dropKeys", "done", "failed"}]
       /\ \/ /\ pc'[c] = "scan" /\ scanned'[c] = all /\ unscanned[c] # {}
          \/ /\ pc'[c] \in {"list", "done"} /\ call[c].op = "getAll"
          \/ /\ call[c].op = "deleteAll" /\ unscanned[c] = {}
             /\ listed'[c] = ScanResult(c, all)
             /\ pc'[c] = "delete" \/ (pc'[c] = "done" /\ listed'[c] = <<>>)
       /\ \A b \in Callers \ {c} : /\ listed'[b] = listed[b] /\ offset'[b] = offset[b]
                                   /\ scanned'[b] = scanned[b] /\ pc'[b] = pc[b]
  <2>1. CASE /\ unscanned[c] # {}
             /\ scanned' = [scanned EXCEPT ![c] = all]
             /\ pc' = [pc EXCEPT ![c] = "scan"]
             /\ UNCHANGED listVars
    <3>1. listed' = listed /\ offset' = offset
      BY <2>1 DEF listVars
    <3>2. scanned' \in [Callers -> Seq(Ids)] /\ scanned'[c] = all
      BY <1>5, <1>6, <2>1
    <3> QED
      BY <1>5, <2>1, <3>1, <3>2
  <2>2. CASE /\ unscanned[c] = {}
             /\ scanned' = [scanned EXCEPT ![c] = <<>>]
             /\ call[c].op = "getAll" /\ Collect(c, ScanResult(c, all))
    <3>1. /\ listed' \in [Callers -> Seq(Ids)] /\ offset' \in [Callers -> Nat]
          /\ pc' \in [Callers -> {"new", "list", "scan", "fetch", "delete", "drop",
                                  "dropScan", "dropKeys", "done", "failed"}]
          /\ pc'[c] \in {"list", "done"}
          /\ \A b \in Callers \ {c} :
                listed'[b] = listed[b] /\ offset'[b] = offset[b] /\ pc'[b] = pc[b]
      BY <1>4, <1>7, <1>8, <1>10, <2>2, Collects
    <3>2. /\ scanned' \in [Callers -> Seq(Ids)]
          /\ \A b \in Callers \ {c} : scanned'[b] = scanned[b]
      BY <1>5, <2>2
    <3> QED
      BY <2>2, <3>1, <3>2
  <2>3. CASE /\ unscanned[c] = {}
             /\ scanned' = [scanned EXCEPT ![c] = <<>>]
             /\ call[c].op = "deleteAll"
             /\ listed' = [listed EXCEPT ![c] = ScanResult(c, all)]
             /\ pc' = [pc EXCEPT ![c] = AfterListing(c, listed'[c])]
             /\ UNCHANGED offset
    <3>1. /\ listed' \in [Callers -> Seq(Ids)] /\ listed'[c] = ScanResult(c, all)
          /\ scanned' \in [Callers -> Seq(Ids)]
          /\ \A b \in Callers \ {c} : listed'[b] = listed[b] /\ scanned'[b] = scanned[b]
      BY <1>5, <1>10, <2>3
    <3>2. /\ AfterListing(c, listed'[c]) \in {"delete", "done"}
          /\ AfterListing(c, listed'[c]) = "done" => listed'[c] = <<>>
      BY <2>3 DEF AfterListing
    <3> QED
      BY <1>5, <2>3, <3>1, <3>2
  <2> QED
    BY <1>2, <1>7, <2>1, <2>2, <2>3
<1>12. TypeOK'
  <2>1. \A b \in Callers : /\ Len(acks'[b]) <= BatchLimit
                           /\ Len(results'[b]) + Len(acks'[b]) <= Len(listed'[b])
    BY <1>3, <1>4, <1>8, <1>11, BoundsKept
  <2>2. keys' \in [Callers -> SUBSET Ids]
    BY <1>1, <1>5
  <2>3. /\ listed' \in [Callers -> Seq(Ids)] /\ offset' \in [Callers -> Nat]
        /\ scanned' \in [Callers -> Seq(Ids)]
        /\ pc' \in [Callers -> {"new", "list", "scan", "fetch", "delete", "drop",
                                "dropScan", "dropKeys", "done", "failed"}]
    BY <1>11
  <2> QED
    BY ZenonT(60), <1>3, <1>4, <2>1, <2>2, <2>3 DEF TypeOK
<1>13. Phases(c)'
  <2>1. \/ call[c].size = call[c].full
        \/ call[c].op = "getAll" /\ call[c].full > RedisMaxSearchResults
    BY <1>4 DEF CallerInv, Phases
  <2>2. results'[c] = <<>>
    BY <1>3, <1>8 DEF Unreported
  <2>3. pc'[c] = "done" /\ call[c].op = "deleteAll" => Len(results'[c]) = Len(listed'[c])
    BY <1>11, <2>2
  <2> QED
    BY <1>3, <1>7, <1>11, <2>1, <2>3 DEF Phases
<1>14. Covered(c)'
  <2> SUFFICES ASSUME call[c].op = "deleteAll", pc'[c] \in {"delete", "done"},
                      NEW d \in before[c] \ touched[c]
               PROVE  d \in ToSet(listed'[c])
    BY <1>3 DEF Covered, Deleting
  <2> QED
    BY <1>9, <1>10, <1>11
<1>15. Intact(c)'
  BY <1>1, <1>3, <1>4 DEF CallerInv, Intact
<1>16. Scanning(c)'
  BY <1>3, <1>9, <1>11 DEF Scanning
<1>17. Paging(c)' /\ Exact(c)' /\ Dropping(c)'
  BY <1>3, <1>7 DEF Paging, Exact, Dropping
<1>18. \A b \in Callers \ {c} : Same(b)
  BY <1>1, <1>3, <1>5, <1>11 DEF Same
<1>19. UNCHANGED delVars /\ UNCHANGED redisVars /\ UNCHANGED touched
  BY <1>1
<1> QED
  BY <1>8, <1>12, <1>13, <1>14, <1>15, <1>16, <1>17, <1>18, <1>19, ListingKept

-------------------------------------------------------------------------------
(* The deletes.                                                                *)

LEMMA BatchIs ==
    ASSUME TypeOK, ConstantsAssumption, NEW c \in Callers
    PROVE  /\ Batch(c) \in Seq(Ids) /\ Len(Batch(c)) \in Nat /\ Len(Batch(c)) <= BatchLimit
           /\ Len(acks[c]) <= Len(Batch(c))
           /\ Len(results[c]) + Len(Batch(c)) <= Len(listed[c])
           /\ \A i \in 1..Len(Batch(c)) : Batch(c)[i] = listed[c][Len(results[c]) + i]
<1> DEFINE o == Len(results[c])  a == Len(acks[c])  s == listed[c]  m == Len(s)
           page == PageAfter(s, o, BatchLimit)
<1>1. /\ s \in Seq(Ids) /\ o \in Nat /\ a \in Nat /\ m \in Nat
      /\ a <= BatchLimit /\ o + a <= m /\ BatchLimit \in Nat
  BY CallerTypes DEF ConstantsAssumption
<1>2. Batch(c) = page
  BY DEF Batch, PageAfter
<1> HIDE DEF o, a, s
<1>3. /\ page \in Seq(Ids) /\ Len(page) \in 0..BatchLimit
      /\ o <= m => o + Len(page) = Least(o + BatchLimit, m)
      /\ \A i \in 1..Len(page) : page[i] = s[o + i] /\ o + i \in 1..m
  <2> HIDE DEF page
  <2> QED
    BY <1>1, PageIs DEF page
<1> DEFINE n == Len(page)
<1> HIDE DEF page, m, n
<1>4. n \in Nat /\ n <= BatchLimit /\ o + n = Least(o + BatchLimit, m)
  BY <1>1, <1>3 DEF n
<1>5. o + n <= m /\ a <= n
  BY <1>1, <1>4 DEF Least
<1> QED
  BY <1>2, <1>3, <1>4, <1>5 DEF n, m, o, a, s

\* The numbers of attempts and of removals, one more or as they were.
LEMMA CountsFinite ==
    ASSUME TypeOK, NEW c \in Callers, NEW d
    PROVE  /\ IsFiniteSet(Attempts(c, d)) /\ Cardinality(Attempts(c, d)) \in Nat
           /\ IsFiniteSet(Removals(c, d)) /\ Cardinality(Removals(c, d)) \in Nat
<1>1. Attempts(c, d) \subseteq Run(c) /\ Removals(c, d) \subseteq Run(c) /\ IsFiniteSet(Run(c))
  BY RunIs DEF Attempts, Removals
<1> QED
  BY <1>1, FS_Subset, FS_CardinalityType

\* A step of the deletes, as seen by its call: which entries it touched is not
\* its own doing.
LEMMA DeletingKept ==
    ASSUME Inv, NEW c \in Callers, pc[c] = "delete", pc'[c] \in {"delete", "done"},
           call' = call, listed' = listed, before' = before, touched'[c] = touched[c],
           pc'[c] = "done" => Len(results'[c]) = Len(listed[c]),
           (Reports(c) /\ Counted(c) /\ Gone(c))'
    PROVE  CallerInv(c)'
<1>1. CallerInv(c)
  BY DEF Inv
<1>2. call[c].op = "deleteAll"
  BY <1>1 DEF CallerInv, Phases
<1>3. Phases(c)'
  BY <1>1, <1>2 DEF CallerInv, Phases
<1>4. Covered(c)' /\ Exact(c)'
  BY <1>1, <1>2 DEF CallerInv, Covered, Exact, Deleting
<1>5. Intact(c)' /\ Scanning(c)' /\ Paging(c)' /\ Dropping(c)'
  BY <1>2 DEF Intact, Scanning, Paging, Dropping
<1> QED
  BY <1>3, <1>4, <1>5 DEF CallerInv

LEMMA DelOneKeeps ==
    ASSUME Inv, ConstantsAssumption, NEW c \in Callers, DelOne(c)
    PROVE  Inv'
<1> DEFINE r == Len(results[c])  a == Len(acks[c])
           m == Len(listed[c])   n == Len(Batch(c))
           d == Batch(c)[a + 1]
           st == IF hashes[d] # "absent" THEN "success" ELSE "error"
<1>1. /\ pc[c] = "delete" /\ a < n
      /\ acks' = [acks EXCEPT ![c] = Append(@, st)]
      /\ removed' = IF hashes[d] # "absent" THEN [removed EXCEPT ![c][d] = @ + 1] ELSE removed
      /\ Del({d}, c)
      /\ UNCHANGED <<writes, pc, call, listVars, scanVars, results, before>>
  BY DEF DelOne
<1>2. /\ writes' = writes /\ pc' = pc /\ call' = call /\ offset' = offset /\ listed' = listed
      /\ unscanned' = unscanned /\ keys' = keys /\ scanned' = scanned
      /\ results' = results /\ before' = before
  BY <1>1 DEF listVars, scanVars
<1>3. TypeOK /\ IndexInv /\ CallerInv(c) /\ Store
  BY DEF Inv, Store, TypeOK
<1>4. /\ Batch(c) \in Seq(Ids) /\ n \in Nat /\ n <= BatchLimit /\ r + n <= m
      /\ \A i \in 1..n : Batch(c)[i] = listed[c][r + i]
      /\ BatchLimit \in Nat
  BY <1>3, BatchIs DEF ConstantsAssumption
<1>5. /\ r \in Nat /\ a \in Nat /\ m \in Nat
      /\ listed[c] \in Seq(Ids) /\ acks[c] \in Seq(Statuses) /\ removed[c] \in [Ids -> Nat]
  BY <1>3, CallerTypes
<1> HIDE DEF n, r, a, m
<1>0. PICK k \in Nat : k = r + a + 1
  BY <1>5
<1>6. d \in Ids /\ k \in 1..m /\ listed[c][k] = d
  <2>1. a + 1 \in 1..n /\ r + (a + 1) = k /\ k \in 1..m
    <3>1. /\ a < n /\ n \in Nat /\ r + n <= m /\ r \in Nat /\ a \in Nat /\ m \in Nat
          /\ k = r + a + 1
      BY <1>0, <1>1, <1>4, <1>5, Zenon
    <3> QED
      BY <3>1
  <2>2. Batch(c)[a + 1] \in Ids
    BY <1>4, <2>1, ElementOfSeq DEF n
  <2>3. Batch(c)[a + 1] = listed[c][r + (a + 1)]
    BY <1>4, <2>1
  <2> QED
    BY <2>1, <2>2, <2>3
<1>7. st \in Statuses /\ (st = "success" <=> hashes[d] # "absent")
  BY DEF Statuses
<1>8. /\ Store' /\ \A b \in Callers \ {c} : Leaves(b)
      /\ touched'[c] = touched[c]
      /\ hashes' = [e \in Ids |-> IF e \in {d} THEN "absent" ELSE hashes[e]]
  <2>1. {d} \in SUBSET Ids
    BY <1>6
  <2> HIDE DEF d
  <2>2. /\ Store' /\ \A b \in Callers \ {c} : Leaves(b)
        /\ \A b \in Callers : b = c => touched'[b] = touched[b]
    BY <1>1, <1>3, <2>1, DelKeeps
  <2> QED
    BY <1>1, <2>2 DEF Del
<1> HIDE DEF d, st
<1>9. /\ acks' \in [Callers -> Seq(Statuses)] /\ acks'[c] = Append(acks[c], st)
      /\ \A b \in Callers \ {c} : acks'[b] = acks[b]
  <2>1. acks \in [Callers -> Seq(Statuses)] /\ Append(acks[c], st) \in Seq(Statuses)
    BY <1>3, <1>5, <1>7 DEF TypeOK
  <2> QED
    BY <1>1, <2>1
<1>10. /\ Len(acks'[c]) = a + 1 /\ acks'[c][a + 1] = st
       /\ \A i \in 1..a : acks'[c][i] = acks[c][i]
       /\ Len(results'[c]) = r /\ Len(listed'[c]) = m
  BY <1>2, <1>5, <1>7, <1>9, AppendProperties DEF a, r, m
<1>11. /\ removed' \in [Callers -> [Ids -> Nat]]
       /\ removed'[c] = IF st = "success" THEN [removed[c] EXCEPT ![d] = @ + 1] ELSE removed[c]
       /\ \A b \in Callers \ {c} : removed'[b] = removed[b]
  <2>1. removed \in [Callers -> [Ids -> Nat]] /\ removed[c][d] + 1 \in Nat
    BY <1>3, <1>5, <1>6 DEF TypeOK
  <2>2. CASE st = "success"
    <3>1. removed' = [removed EXCEPT ![c] = [removed[c] EXCEPT ![d] = @ + 1]]
      BY <1>1, <1>7, <2>2
    <3>2. [removed[c] EXCEPT ![d] = @ + 1] \in [Ids -> Nat]
      BY <1>5, <2>1
    <3> QED
      BY <2>1, <2>2, <3>1, <3>2
  <2>3. CASE st # "success"
    BY <1>1, <1>7, <2>1, <2>3
  <2> QED
    BY <2>2, <2>3
<1>12. TypeOK'
  <2>1. \A b \in Callers : /\ Len(acks'[b]) <= BatchLimit
                           /\ Len(results'[b]) + Len(acks'[b]) <= Len(listed'[b])
    <3>1. /\ Len(acks'[c]) <= BatchLimit
          /\ Len(results'[c]) + Len(acks'[c]) <= Len(listed'[c])
      <4>1. a + 1 <= BatchLimit /\ r + (a + 1) <= m
        <5>1. /\ a < n /\ n \in Nat /\ n <= BatchLimit /\ BatchLimit \in Nat /\ r + n <= m
              /\ r \in Nat /\ a \in Nat /\ m \in Nat
          BY <1>1, <1>4, <1>5, Zenon
        <5> QED
          BY <5>1
      <4> QED
        BY <1>10, <4>1
    <3>2. ASSUME NEW b \in Callers \ {c}
          PROVE  /\ Len(acks'[b]) <= BatchLimit
                 /\ Len(results'[b]) + Len(acks'[b]) <= Len(listed'[b])
      BY <1>2, <1>3, <1>9, CallerTypes
    <3> QED
      BY <3>1, <3>2
  <2>2. acks' \in [Callers -> Seq(Statuses)] /\ removed' \in [Callers -> [Ids -> Nat]]
    BY <1>9, <1>11
  <2> QED
    BY ZenonT(60), <1>2, <1>3, <1>8, <2>1, <2>2 DEF TypeOK, Store
<1>13. Run(c) = 1..r + a /\ k \notin Run(c) /\ Run(c)' = Run(c) \cup {k}
  <2>1. Run(c) = 1..r + a
    BY DEF Run, r, a
  <2>2. Run(c)' = 1..r + (a + 1)
    BY <1>10 DEF Run
  <2>3. k \notin 1..r + a /\ 1..r + (a + 1) = (1..r + a) \cup {k}
    BY <1>0, <1>5
  <2> QED
    BY <2>1, <2>2, <2>3
<1>14. Status(c, k)' = st /\ \A i \in Run(c) : Status(c, i)' = Status(c, i)
  <2>1. \A i : Status(c, i)' = IF i <= r THEN results[c][i].status ELSE acks'[c][i - r]
    BY <1>2, <1>10 DEF Status
  <2>2. \A i : Status(c, i) = IF i <= r THEN results[c][i].status ELSE acks[c][i - r]
    BY DEF Status, r
  <2>3. ~ (k <= r) /\ k - r = a + 1
    BY <1>0, <1>5
  <2>4. ASSUME NEW i \in Run(c) PROVE i <= r \/ i - r \in 1..a
    BY <1>5, <1>13
  <2>5. Status(c, k)' = st
    BY <1>10, <2>1, <2>3
  <2>6. ASSUME NEW i \in Run(c) PROVE Status(c, i)' = Status(c, i)
    <3>1. CASE i <= r
      BY <2>1, <2>2, <3>1
    <3>2. CASE ~ (i <= r)
      BY <1>10, <2>1, <2>2, <2>4, <3>2
    <3> QED
      BY <3>1, <3>2
  <2> QED
    BY <2>5, <2>6
<1>15. Reports(c)'
  <2>1. Deleting(c) /\ Deleting(c)'
    BY <1>1, <1>2, <1>3 DEF CallerInv, Phases, Deleting
  <2> QED
    BY <1>2, <1>3, <2>1 DEF CallerInv, Reports
<1>16. ASSUME NEW e \in Ids
       PROVE  /\ Cardinality(Removals(c, e)') <= removed'[c][e]
              /\ removed'[c][e] <= Cardinality(Attempts(c, e)')
  <2>1. /\ Cardinality(Removals(c, e)) <= removed[c][e]
        /\ removed[c][e] <= Cardinality(Attempts(c, e))
    BY <1>3 DEF CallerInv, Counted
  <2>2. /\ IsFiniteSet(Attempts(c, e)) /\ Cardinality(Attempts(c, e)) \in Nat
        /\ IsFiniteSet(Removals(c, e)) /\ Cardinality(Removals(c, e)) \in Nat
        /\ k \notin Attempts(c, e) /\ k \notin Removals(c, e)
    BY <1>3, <1>13, CountsFinite DEF Attempts, Removals
  <2>3. Attempts(c, e)' = IF e = d THEN Attempts(c, e) \cup {k} ELSE Attempts(c, e)
    BY <1>2, <1>6, <1>13 DEF Attempts
  <2>4. Removals(c, e)' = IF e = d /\ st = "success" THEN Removals(c, e) \cup {k}
                          ELSE Removals(c, e)
    <3>1. \A i \in Attempts(c, e) : Status(c, i)' = Status(c, i)
      BY <1>14 DEF Attempts
    <3>2. Removals(c, e)' = {i \in Attempts(c, e)' : Status(c, i)' = "success"}
      BY DEF Removals
    <3>3. Removals(c, e) = {i \in Attempts(c, e) : Status(c, i)' = "success"}
      BY <3>1 DEF Removals
    <3>4. CASE e = d
      <4>1. Attempts(c, e)' = Attempts(c, e) \cup {k}
        BY <2>3, <3>4
      <4>2. Status(c, k)' = st
        BY <1>14
      <4>3. CASE st = "success"
        BY <3>2, <3>3, <3>4, <4>1, <4>2, <4>3
      <4>4. CASE st # "success"
        BY <3>2, <3>3, <3>4, <4>1, <4>2, <4>4
      <4> QED
        BY <4>3, <4>4
    <3>5. CASE e # d
      BY <2>3, <3>2, <3>3, <3>5
    <3> QED
      BY <3>4, <3>5
  <2>5. removed'[c][e] = IF e = d /\ st = "success" THEN removed[c][e] + 1 ELSE removed[c][e]
    BY <1>5, <1>6, <1>11
  <2>6. /\ Cardinality(Attempts(c, e) \cup {k}) = Cardinality(Attempts(c, e)) + 1
        /\ Cardinality(Removals(c, e) \cup {k}) = Cardinality(Removals(c, e)) + 1
    BY <2>2, FS_AddElement
  <2>7. removed[c][e] \in Nat
    BY <1>5
  <2> QED
    BY <2>1, <2>2, <2>3, <2>4, <2>5, <2>6, <2>7
<1>17. Counted(c)'
  BY <1>16 DEF Counted
<1>18. Gone(c)'
  <2> SUFFICES ASSUME NEW i \in Run(c) \cup {k}, Status(c, i)' = "success",
                      listed[c][i] \notin touched[c]
               PROVE  hashes'[listed[c][i]] = "absent"
    BY <1>2, <1>8, <1>13 DEF Gone
  <2>1. CASE i = k
    BY <1>6, <1>8, <2>1
  <2>2. CASE i \in Run(c)
    <3>1. hashes[listed[c][i]] = "absent"
      BY <1>3, <1>14, <2>2 DEF CallerInv, Gone
    <3>2. listed[c][i] \in Ids
      <4>1. i \in 1..Len(listed[c])
        BY <1>3, <2>2, RunIs
      <4> QED
        BY <1>5, <4>1, ElementOfSeq
    <3> QED
      BY <1>8, <3>1, <3>2
  <2> QED
    BY <2>1, <2>2
<1>19. CallerInv(c)'
  <2>1. pc'[c] = "delete"
    BY <1>1, <1>2
  <2> QED
    BY <1>1, <1>2, <1>8, <1>15, <1>17, <1>18, <2>1, DeletingKept
<1>20. \A b \in Callers \ {c} : Same(b) /\ Leaves(b)
  BY <1>2, <1>8, <1>9, <1>11 DEF Same
<1> QED
  BY <1>8, <1>12, <1>19, <1>20, InvKept DEF Store

LEMMA Concatenated ==
    ASSUME NEW T, NEW s \in Seq(T), NEW t \in Seq(T), NEW m, m = Len(s), NEW n, n = Len(t)
    PROVE  /\ s \o t \in Seq(T) /\ Len(s \o t) = m + n
           /\ \A i \in 1..m + n : (s \o t)[i] = IF i <= m THEN s[i] ELSE t[i - m]
BY ConcatProperties

\* The report of a pipeline: as successes it takes acknowledged deletes only.
LEMMA ReportKeeps ==
    ASSUME Inv, ConstantsAssumption, NEW c \in Callers, NEW statuses \in Seq(Statuses),
           pc[c] = "delete", Len(statuses) = Len(Batch(c)),
           \A i \in 1..Len(statuses) : statuses[i] = "success" =>
               i <= Len(acks[c]) /\ acks[c][i] = "success",
           Report(c, statuses),
           UNCHANGED <<redisVars, writes, call, listVars, scanVars, removed, before, touched>>
    PROVE  Inv'
<1> DEFINE R == [id: Ids, status: Statuses]
           r == Len(results[c])  a == Len(acks[c])  m == Len(listed[c])
<1>1. /\ hashes' = hashes /\ index' = index /\ hasIndex' = hasIndex /\ writes' = writes
      /\ call' = call /\ offset' = offset /\ listed' = listed
      /\ unscanned' = unscanned /\ keys' = keys /\ scanned' = scanned
      /\ removed' = removed /\ before' = before /\ touched' = touched
  BY DEF redisVars, listVars, scanVars
<1>2. TypeOK /\ IndexInv /\ CallerInv(c) /\ Store
  BY DEF Inv, Store, TypeOK
<1>3. PICK n \in Nat : n = Len(statuses)
  OBVIOUS
<1>4. /\ Batch(c) \in Seq(Ids) /\ Len(Batch(c)) = n /\ a <= n /\ r + n <= m
      /\ \A i \in 1..n : Batch(c)[i] = listed[c][r + i]
  BY <1>2, <1>3, BatchIs
<1>5. /\ r \in Nat /\ a \in Nat /\ m \in Nat /\ listed[c] \in Seq(Ids)
      /\ results[c] \in Seq(R) /\ acks[c] \in Seq(Statuses) /\ removed[c] \in [Ids -> Nat]
  BY <1>2, CallerTypes
<1>6. /\ results \in [Callers -> Seq(R)] /\ acks \in [Callers -> Seq(Statuses)]
      /\ pc \in [Callers -> {"new", "list", "scan", "fetch", "delete", "drop",
                              "dropScan", "dropKeys", "done", "failed"}]
  BY <1>2 DEF TypeOK
<1> DEFINE added == [i \in 1..n |-> [id |-> Batch(c)[i], status |-> statuses[i]]]
<1>7. /\ results' = [results EXCEPT ![c] = @ \o added]
      /\ acks' = [acks EXCEPT ![c] = <<>>]
      /\ pc' = [pc EXCEPT ![c] = IF Len(results'[c]) = Len(listed[c]) THEN "done" ELSE "delete"]
  BY <1>3 DEF Report
<1>8. /\ added \in [1..n -> R]
      /\ \A i \in 1..n : added[i].id = listed[c][r + i] /\ added[i].status = statuses[i]
  <2>1. \A i \in 1..n : Batch(c)[i] \in Ids /\ statuses[i] \in Statuses
    BY <1>3, <1>4, ElementOfSeq
  <2>2. \A i \in 1..n : added[i] = [id |-> Batch(c)[i], status |-> statuses[i]]
    OBVIOUS
  <2>3. \A i \in 1..n : /\ added[i] \in R
                        /\ added[i].id = Batch(c)[i] /\ added[i].status = statuses[i]
    BY <2>1, <2>2
  <2> QED
    BY <1>4, <2>3
<1> HIDE DEF added, R, r, a, m
<1>9. added \in Seq(R) /\ Len(added) = n
  BY <1>3, <1>8
<1>10. /\ results[c] \o added \in Seq(R) /\ Len(results[c] \o added) = r + n
       /\ \A i \in 1..r + n : (results[c] \o added)[i]
                              = IF i <= r THEN results[c][i] ELSE added[i - r]
  <2>1. r = Len(results[c]) /\ n = Len(added)
    BY <1>9 DEF r
  <2>2. results[c] \in Seq(R) /\ added \in Seq(R)
    BY <1>5, <1>9
  <2>3. results[c] \o added \in Seq(R) /\ Len(results[c] \o added) = r + n
    BY <2>1, <2>2, Concatenated
  <2>4. ASSUME NEW i \in 1..r + n, i <= r PROVE (results[c] \o added)[i] = results[c][i]
    BY <2>1, <2>2, <2>4, Concatenated
  <2>5. ASSUME NEW i \in 1..r + n, ~ (i <= r) PROVE (results[c] \o added)[i] = added[i - r]
    BY <2>1, <2>2, <2>5, Concatenated
  <2> QED
    BY <2>3, <2>4, <2>5
<1>11. /\ results' \in [Callers -> Seq(R)] /\ results'[c] = results[c] \o added
       /\ acks' \in [Callers -> Seq(Statuses)] /\ acks'[c] = <<>>
       /\ \A b \in Callers \ {c} : results'[b] = results[b] /\ acks'[b] = acks[b]
  BY <1>6, <1>7, <1>10
<1>12. /\ Len(results'[c]) = r + n
       /\ \A i \in 1..r + n : results'[c][i] = IF i <= r THEN results[c][i] ELSE added[i - r]
  BY <1>10, <1>11
<1>13. /\ pc' \in [Callers -> {"new", "list", "scan", "fetch", "delete", "drop",
                                "dropScan", "dropKeys", "done", "failed"}]
       /\ pc'[c] \in {"delete", "done"} /\ (pc'[c] = "done" => Len(results'[c]) = Len(listed[c]))
       /\ \A b \in Callers \ {c} : pc'[b] = pc[b]
  BY <1>6, <1>7
<1>14. TypeOK'
  <2>1. \A b \in Callers : /\ Len(acks'[b]) <= BatchLimit
                           /\ Len(results'[b]) + Len(acks'[b]) <= Len(listed'[b])
    <3>1. /\ Len(acks'[c]) <= BatchLimit
          /\ Len(results'[c]) + Len(acks'[c]) <= Len(listed'[c])
      <4>1. 0 <= BatchLimit /\ (r + n) + 0 <= m
        BY <1>4, <1>5 DEF ConstantsAssumption
      <4>2. Len(acks'[c]) = 0 /\ Len(listed'[c]) = m
        BY <1>1, <1>11 DEF m
      <4> QED
        BY <1>12, <4>1, <4>2
    <3>2. ASSUME NEW b \in Callers \ {c}
          PROVE  /\ Len(acks'[b]) <= BatchLimit
                 /\ Len(results'[b]) + Len(acks'[b]) <= Len(listed'[b])
      BY <1>1, <1>2, <1>11, CallerTypes
    <3> QED
      BY <3>1, <3>2
  <2>2. results' \in [Callers -> Seq([id: Ids, status: Statuses])]
    BY <1>11 DEF R
  <2>3. acks' \in [Callers -> Seq(Statuses)]
    BY <1>11
  <2>4. pc' \in [Callers -> {"new", "list", "scan", "fetch", "delete", "drop",
                             "dropScan", "dropKeys", "done", "failed"}]
    BY <1>13
  <2> QED
    BY ZenonT(60), <1>1, <1>2, <2>1, <2>2, <2>3, <2>4 DEF TypeOK
<1>15. Run(c) = 1..r + a /\ Run(c)' = 1..r + n /\ Run(c) \subseteq Run(c)'
  <2>1. Run(c) = 1..r + a
    BY DEF Run, r, a
  <2>2. Run(c)' = 1..(r + n) + 0
    BY <1>11, <1>12 DEF Run
  <2>3. 1..(r + n) + 0 = 1..r + n /\ 1..r + a \subseteq 1..r + n
    BY <1>4, <1>5
  <2> QED
    BY <2>1, <2>2, <2>3
<1>16. ASSUME NEW i \in 1..r + n, Status(c, i)' = "success"
       PROVE  i \in Run(c) /\ Status(c, i) = "success"
  <2>1. i <= r + n /\ i \in Nat /\ i >= 1
    BY <1>5
  <2>2. Status(c, i)' = results'[c][i].status
    BY <1>12, <2>1 DEF Status
  <2>3. CASE i <= r
    <3>1. results'[c][i] = results[c][i]
      BY <1>12, <2>3
    <3>2. Status(c, i) = results[c][i].status
      BY <2>3 DEF Status, r
    <3> QED
      BY <1>5, <1>15, <1>16, <2>1, <2>2, <2>3, <3>1, <3>2
  <2>4. CASE ~ (i <= r)
    <3>1. results'[c][i] = added[i - r] /\ i - r \in 1..n
      <4>1. i - r \in 1..n
        BY <1>5, <2>1, <2>4
      <4>2. results'[c][i] = added[i - r]
        BY <1>12, <2>4
      <4> QED
        BY <4>1, <4>2
    <3>2. statuses[i - r] = "success"
      BY <1>8, <1>16, <2>2, <3>1
    <3>3. i - r <= a /\ acks[c][i - r] = "success"
      BY <1>3, <3>1, <3>2 DEF a
    <3>4. Status(c, i) = acks[c][i - r]
      BY <2>4 DEF Status, r
    <3> QED
      BY <1>5, <1>15, <2>1, <3>3, <3>4
  <2> QED
    BY <2>3, <2>4
<1>17. Reports(c)'
  <2>1. call[c].op = "deleteAll" /\ \A i \in 1..r : results[c][i].id = listed[c][i]
    BY <1>2 DEF CallerInv, Phases, Reports, r
  <2>2. ASSUME NEW i \in 1..r + n PROVE results'[c][i].id = listed[c][i]
    <3>1. CASE i <= r
      <4>1. results'[c][i] = results[c][i] /\ i \in 1..r
        BY <1>5, <1>12, <3>1
      <4> QED
        BY <2>1, <4>1
    <3>2. CASE ~ (i <= r)
      <4>1. results'[c][i] = added[i - r] /\ i - r \in 1..n /\ r + (i - r) = i
        BY <1>5, <1>12, <3>2
      <4> QED
        BY <1>8, <4>1
    <3> QED
      BY <3>1, <3>2
  <2>3. Deleting(c)'
    BY <1>1, <1>13, <2>1 DEF Deleting
  <2> QED
    BY <1>1, <1>12, <2>2, <2>3 DEF Reports
<1>18. Counted(c)'
  <2> SUFFICES ASSUME NEW e \in Ids
               PROVE  /\ Cardinality(Removals(c, e)') <= removed'[c][e]
                      /\ removed'[c][e] <= Cardinality(Attempts(c, e)')
    BY DEF Counted
  <2>1. /\ Cardinality(Removals(c, e)) <= removed[c][e]
        /\ removed[c][e] <= Cardinality(Attempts(c, e))
    BY <1>2 DEF CallerInv, Counted
  <2>2. /\ IsFiniteSet(Attempts(c, e)) /\ Cardinality(Attempts(c, e)) \in Nat
        /\ IsFiniteSet(Removals(c, e)) /\ Cardinality(Removals(c, e)) \in Nat
    BY <1>2, CountsFinite
  <2>3. /\ IsFiniteSet(Attempts(c, e)') /\ Cardinality(Attempts(c, e)') \in Nat
        /\ Cardinality(Removals(c, e)') \in Nat
    <3>1. Attempts(c, e)' \subseteq 1..r + n /\ Removals(c, e)' \subseteq 1..r + n
      BY <1>15 DEF Attempts, Removals
    <3>2. IsFiniteSet(1..r + n)
      <4>1. 1 \in Int /\ r + n \in Int
        BY <1>5
      <4> QED
        BY <4>1, FS_Interval
    <3> QED
      BY <3>1, <3>2, FS_Subset, FS_CardinalityType
  <2>4. Attempts(c, e)' = {i \in Run(c)' : listed[c][i] = e}
    BY <1>1 DEF Attempts
  <2>5. Attempts(c, e) \subseteq Attempts(c, e)'
    BY <1>15, <2>4 DEF Attempts
  <2>6. Removals(c, e)' \subseteq Removals(c, e)
    <3> SUFFICES ASSUME NEW i \in Attempts(c, e)', Status(c, i)' = "success"
                 PROVE  i \in Removals(c, e)
      BY DEF Removals
    <3>1. i \in 1..r + n /\ listed[c][i] = e
      BY <1>15, <2>4
    <3>2. i \in Run(c) /\ Status(c, i) = "success"
      BY <1>16, <3>1
    <3> QED
      BY <3>1, <3>2 DEF Removals, Attempts
  <2>7. /\ Cardinality(Removals(c, e)') <= Cardinality(Removals(c, e))
        /\ Cardinality(Attempts(c, e)) <= Cardinality(Attempts(c, e)')
    BY <2>2, <2>3, <2>5, <2>6, FS_Subset
  <2>8. removed'[c][e] = removed[c][e] /\ removed[c][e] \in Nat
    BY <1>1, <1>5
  <2> QED
    BY <2>1, <2>2, <2>3, <2>7, <2>8
<1>19. Gone(c)'
  <2> SUFFICES ASSUME NEW i \in 1..r + n, Status(c, i)' = "success",
                      listed[c][i] \notin touched[c]
               PROVE  hashes[listed[c][i]] = "absent"
    BY <1>1, <1>15 DEF Gone
  <2> QED
    BY <1>2, <1>16 DEF CallerInv, Gone
<1>20. CallerInv(c)'
  <2>1. touched'[c] = touched[c]
    BY <1>1
  <2> QED
    BY <1>1, <1>13, <1>17, <1>18, <1>19, <2>1, DeletingKept
<1>21. /\ IndexInv' /\ \A b \in Callers \ {c} : Leaves(b)
  BY <1>2, QuietStep DEF Store
<1>22. \A b \in Callers \ {c} : Same(b)
  BY <1>1, <1>11, <1>13 DEF Same
<1> QED
  BY <1>14, <1>20, <1>21, <1>22, InvKept

LEMMA PipelineRepliesKeeps ==
    ASSUME Inv, ConstantsAssumption, NEW c \in Callers, PipelineReplies(c)
    PROVE  Inv'
<1>1. TypeOK
  BY DEF Inv
<1>2. PICK statuses \in Seq(Statuses) : statuses = acks[c]
  BY <1>1, CallerTypes
<1>3. /\ pc[c] = "delete" /\ Len(statuses) = Len(Batch(c)) /\ Report(c, statuses)
      /\ UNCHANGED <<redisVars, writes, call, listVars, scanVars, removed, before, touched>>
  BY <1>2 DEF PipelineReplies
<1>4. \A i \in 1..Len(statuses) : statuses[i] = "success" =>
          i <= Len(acks[c]) /\ acks[c][i] = "success"
  BY <1>2
<1> QED
  BY <1>3, <1>4, ReportKeeps

LEMMA PipelineFailsKeeps ==
    ASSUME Inv, ConstantsAssumption, NEW c \in Callers, PipelineFails(c)
    PROVE  Inv'
<1>1. TypeOK
  BY DEF Inv
<1>2. PICK n \in Nat : n = Len(Batch(c))
  BY <1>1, BatchIs
<1> DEFINE statuses == [i \in 1..n |-> "error"]
<1>3. statuses \in Seq(Statuses) /\ Len(statuses) = n
  BY DEF Statuses
<1>4. \A i \in 1..Len(statuses) : statuses[i] # "success"
  BY <1>3
<1>5. /\ pc[c] = "delete" /\ Report(c, statuses)
      /\ UNCHANGED <<redisVars, writes, call, listVars, scanVars, removed, before, touched>>
  BY <1>2 DEF PipelineFails
<1> HIDE DEF statuses
<1> QED
  BY <1>2, <1>3, <1>4, <1>5, ReportKeeps

-------------------------------------------------------------------------------
(* Namespaces, and the writes of others.                                       *)

LEMMA DeleteNamespaceKeeps ==
    ASSUME Inv, NEW c \in Callers, DeleteNamespace(c)
    PROVE  Inv'
<1>1. /\ pc[c] = "drop"
      /\ UNCHANGED <<writes, call, listVars, keys, scanned, delVars, before>>
  BY DEF DeleteNamespace
<1>2. /\ writes' = writes /\ call' = call /\ offset' = offset /\ listed' = listed
      /\ keys' = keys /\ scanned' = scanned
      /\ acks' = acks /\ results' = results /\ removed' = removed /\ before' = before
  BY <1>1 DEF listVars, delVars
<1>3. TypeOK /\ IndexInv /\ CallerInv(c) /\ Store
  BY DEF Inv, Store, TypeOK
<1>4. /\ pc \in [Callers -> {"new", "list", "scan", "fetch", "delete", "drop",
                              "dropScan", "dropKeys", "done", "failed"}]
      /\ unscanned \in [Callers -> SUBSET Ids] /\ touched \in [Callers -> SUBSET Ids]
      /\ hashes \in [Ids -> Contents] /\ index \in Seq(Ids)
  BY <1>3 DEF TypeOK
<1>5. Unreported(c)
  BY <1>1, NotYet
<1>6. Unreported(c)'
  BY <1>2, <1>5 DEF Unreported
<1>7. (Reports(c) /\ Counted(c) /\ Gone(c))'
  BY <1>6, UnreportedCounts, PTL
<1>8. call[c].op = "deleteNamespace"
  BY <1>1, <1>3 DEF CallerInv, Phases
<1>9. CASE hasIndex
  <2>1. /\ hashes' = [d \in Ids |-> IF d \in ToSet(index) THEN "absent" ELSE hashes[d]]
        /\ index' = <<>> /\ hasIndex' = FALSE
        /\ touched' = [b \in Callers |-> IF b = c THEN touched[b]
                                         ELSE touched[b] \cup ToSet(index)]
        /\ pc' = [pc EXCEPT ![c] = "done"] /\ unscanned' = unscanned
    BY <1>9 DEF DeleteNamespace, Touch
  <2>2. ToSet(index) = Present /\ ToSet(index) \subseteq Ids
    BY <1>3, <1>9 DEF IndexInv, Present
  <2>3. \A d \in Ids : hashes'[d] = "absent"
    BY <2>1, <2>2 DEF Present
  <2>4. IndexInv'
    <3>1. IsInjective(<<>>)
      BY DEF IsInjective
    <3> QED
      BY <2>1, <3>1 DEF IndexInv
  <2>5. TypeOK'
    <3>1. hashes' \in [Ids -> Contents] /\ hasIndex' \in BOOLEAN /\ index' \in Seq(Ids)
      <4>1. hashes' \in [Ids -> Contents]
        <5>1. \A d \in Ids : hashes[d] \in Contents /\ "absent" \in Contents
          BY <1>4 DEF Contents
        <5> QED
          BY <2>1, <5>1
      <4>2. hasIndex' \in BOOLEAN
        BY <2>1
      <4>3. index' \in Seq(Ids)
        BY <2>1
      <4> QED
        BY <4>1, <4>2, <4>3
    <3>2. touched' \in [Callers -> SUBSET Ids]
      BY <1>4, <2>1, <2>2
    <3>3. pc' \in [Callers -> {"new", "list", "scan", "fetch", "delete", "drop",
                               "dropScan", "dropKeys", "done", "failed"}]
      BY <1>4, <2>1
    <3>4. unscanned' = unscanned
      BY <2>1
    <3> QED
      BY ZenonT(60), <1>2, <1>3, <3>1, <3>2, <3>3, <3>4 DEF TypeOK
  <2>6. CallerInv(c)'
    <3>1. pc'[c] = "done"
      BY <1>4, <2>1
    <3>2. Phases(c)'
      BY <1>2, <1>3, <1>8, <3>1 DEF CallerInv, Phases
    <3>3. Covered(c)' /\ Intact(c)' /\ Scanning(c)' /\ Paging(c)' /\ Exact(c)'
      BY <1>2, <1>8, <3>1 DEF Covered, Deleting, Intact, Scanning, Paging, Exact
    <3>4. Dropping(c)'
      BY <2>3 DEF Dropping
    <3> QED
      BY <1>7, <3>2, <3>3, <3>4 DEF CallerInv
  <2>7. ASSUME NEW b \in Callers \ {c} PROVE Same(b) /\ Leaves(b)
    <3>1. touched'[b] = touched[b] \cup ToSet(index)
      BY <2>1
    <3>2. touched'[b] = {} => index = <<>>
      <4>1. index # <<>> => index[1] \in ToSet(index)
        BY <1>4 DEF ToSet
      <4> QED
        BY <3>1, <4>1
    <3>3. \A d \in Ids \ touched'[b] : hashes'[d] = hashes[d]
      BY <2>1, <3>1
    <3>4. Same(b)
      BY <1>2, <1>4, <2>1 DEF Same
    <3> QED
      BY <3>1, <3>2, <3>3, <3>4 DEF Leaves
  <2> QED
    BY <2>4, <2>5, <2>6, <2>7, InvKept
<1>10. CASE ~ hasIndex
  <2>1. /\ unscanned' = [unscanned EXCEPT ![c] = Ids]
        /\ pc' = [pc EXCEPT ![c] = "dropScan"]
        /\ UNCHANGED redisVars /\ UNCHANGED touched
    BY <1>10 DEF DeleteNamespace
  <2>2. /\ pc' \in [Callers -> {"new", "list", "scan", "fetch", "delete", "drop",
                                "dropScan", "dropKeys", "done", "failed"}]
        /\ unscanned' \in [Callers -> SUBSET Ids]
        /\ pc'[c] = "dropScan" /\ unscanned'[c] = Ids
    BY <1>4, <2>1
  <2>3. TypeOK'
    <3>1. hashes' = hashes /\ index' = index /\ hasIndex' = hasIndex /\ touched' = touched
      BY <2>1 DEF redisVars
    <3> QED
      BY ZenonT(60), <1>2, <1>3, <2>2, <3>1 DEF TypeOK
  <2>4. Phases(c)'
    BY <1>2, <1>3, <1>8, <2>2 DEF CallerInv, Phases
  <2>5. Covered(c)' /\ Intact(c)' /\ Scanning(c)' /\ Paging(c)' /\ Exact(c)'
    BY <2>2 DEF Covered, Deleting, Intact, Scanning, Paging, Exact
  <2>6. Dropping(c)'
    BY <2>2 DEF Dropping
  <2>7. \A b \in Callers \ {c} : Same(b)
    BY <1>2, <1>4, <2>1 DEF Same
  <2> QED
    BY <1>1, <1>5, <2>1, <2>3, <2>4, <2>5, <2>6, <2>7, ListingKept
<1> QED
  BY <1>9, <1>10

LEMMA DropKeysKeeps ==
    ASSUME Inv, NEW c \in Callers, DropKeys(c)
    PROVE  Inv'
<1>1. /\ pc[c] = "dropKeys" /\ Del(keys[c], c)
      /\ pc' = [pc EXCEPT ![c] = IF unscanned[c] = {} THEN "done" ELSE "dropScan"]
      /\ keys' = [keys EXCEPT ![c] = {}]
      /\ UNCHANGED <<writes, call, listVars, unscanned, scanned, delVars, before>>
  BY DEF DropKeys
<1>2. /\ writes' = writes /\ call' = call /\ offset' = offset /\ listed' = listed
      /\ unscanned' = unscanned /\ scanned' = scanned
      /\ acks' = acks /\ results' = results /\ removed' = removed /\ before' = before
  BY <1>1 DEF listVars, delVars
<1>3. TypeOK /\ IndexInv /\ CallerInv(c) /\ Store
  BY DEF Inv, Store, TypeOK
<1>4. /\ pc \in [Callers -> {"new", "list", "scan", "fetch", "delete", "drop",
                              "dropScan", "dropKeys", "done", "failed"}]
      /\ keys \in [Callers -> SUBSET Ids]
  BY <1>3 DEF TypeOK
<1>5. PICK ds \in SUBSET Ids : ds = keys[c]
  BY <1>4
<1>6. /\ Store' /\ \A b \in Callers \ {c} : Leaves(b)
      /\ touched'[c] = touched[c]
      /\ hashes' = [d \in Ids |-> IF d \in ds THEN "absent" ELSE hashes[d]]
  <2>1. Del(ds, c)
    BY <1>1, <1>5
  <2>2. /\ Store' /\ \A b \in Callers \ {c} : Leaves(b)
        /\ \A b \in Callers : b = c => touched'[b] = touched[b]
    BY <1>3, <2>1, DelKeeps
  <2> QED
    BY <2>1, <2>2 DEF Del
<1>7. /\ pc' \in [Callers -> {"new", "list", "scan", "fetch", "delete", "drop",
                               "dropScan", "dropKeys", "done", "failed"}]
      /\ keys' \in [Callers -> SUBSET Ids]
      /\ \/ pc'[c] = "done" /\ unscanned[c] = {}
         \/ pc'[c] = "dropScan"
  BY <1>1, <1>4
<1>8. TypeOK'
  BY <1>2, <1>3, <1>6, <1>7 DEF TypeOK, Store
<1>9. Unreported(c)'
  BY <1>1, <1>2, NotYet DEF Unreported
<1>10. (Reports(c) /\ Counted(c) /\ Gone(c))'
  BY <1>9, UnreportedCounts, PTL
<1>11. call[c].op = "deleteNamespace"
  BY <1>1, <1>3 DEF CallerInv, Phases
<1>12. Phases(c)'
  BY <1>2, <1>3, <1>7, <1>11 DEF CallerInv, Phases
<1>13. Covered(c)' /\ Intact(c)' /\ Scanning(c)' /\ Paging(c)' /\ Exact(c)'
  BY <1>2, <1>7, <1>11 DEF Covered, Deleting, Intact, Scanning, Paging, Exact
<1>14. Dropping(c)'
  <2> SUFFICES ASSUME NEW d \in Ids \ touched[c], hashes'[d] # "absent"
               PROVE  pc'[c] = "dropScan" /\ d \in unscanned[c]
    BY <1>2, <1>6, <1>7 DEF Dropping
  <2>1. hashes[d] # "absent" /\ d \notin keys[c]
    BY <1>5, <1>6
  <2>2. d \in unscanned[c]
    BY <1>1, <1>3, <1>11, <2>1 DEF CallerInv, Dropping
  <2> QED
    BY <1>7, <2>2
<1>15. CallerInv(c)'
  BY <1>10, <1>12, <1>13, <1>14 DEF CallerInv
<1>16. \A b \in Callers \ {c} : Same(b) /\ Leaves(b)
  BY <1>1, <1>2, <1>4, <1>6 DEF Same
<1> QED
  BY <1>6, <1>8, <1>15, <1>16, InvKept DEF Store

LEMMA WriteKeeps ==
    ASSUME Inv, ConstantsAssumption, Write
    PROVE  Inv'
<1>1. /\ writes < MaxWrites /\ writes' = writes + 1
      /\ UNCHANGED <<pc, call, listVars, scanVars, delVars, before>>
  BY DEF Write
<1>2. PICK d \in Ids : \/ \E content \in {"match", "other"} : HSet(d, content)
                       \/ hashes[d] # "absent" /\ Del({d}, "other")
  BY DEF Write
<1>3. TypeOK /\ Store
  BY DEF Inv, Store, TypeOK
<1>4. "other" \notin Callers
  BY DEF ConstantsAssumption
<1>5. Store' /\ \A b \in Callers : Leaves(b)
  <2>1. CASE \E content \in {"match", "other"} : HSet(d, content)
    BY <1>3, <2>1, HSetKeeps
  <2>2. CASE Del({d}, "other")
    <3>1. {d} \in SUBSET Ids
      OBVIOUS
    <3>2. Store' /\ \A b \in Callers \ {"other"} : Leaves(b)
      BY <1>3, <2>2, <3>1, DelKeeps
    <3> QED
      BY <1>4, <3>2
  <2> QED
    BY <1>2, <2>1, <2>2
<1>6. writes' \in 0..MaxWrites
  BY <1>1, <1>3 DEF TypeOK, ConstantsAssumption
<1>7. /\ pc' = pc /\ call' = call /\ offset' = offset /\ listed' = listed
      /\ unscanned' = unscanned /\ keys' = keys /\ scanned' = scanned
      /\ acks' = acks /\ results' = results /\ removed' = removed /\ before' = before
  BY <1>1 DEF listVars, scanVars, delVars
<1>8. TypeOK'
  BY ZenonT(60), <1>3, <1>5, <1>6, <1>7 DEF TypeOK, Store
<1>9. \A b \in Callers : Same(b)
  BY <1>7 DEF Same
<1> QED
  BY <1>4, <1>5, <1>8, <1>9, InvKept DEF Store

LEMMA CreateNamespaceKeeps ==
    ASSUME Inv, ConstantsAssumption, CreateNamespace
    PROVE  Inv'
<1>1. /\ ~ hasIndex /\ hasIndex' = TRUE /\ index' = InOrder(Present)
      /\ UNCHANGED <<hashes, writes, pc, call, listVars, scanVars, delVars, before, touched>>
  BY DEF CreateNamespace
<1>2. /\ hashes' = hashes /\ writes' = writes /\ touched' = touched
      /\ pc' = pc /\ call' = call /\ offset' = offset /\ listed' = listed
      /\ unscanned' = unscanned /\ keys' = keys /\ scanned' = scanned
      /\ acks' = acks /\ results' = results /\ removed' = removed /\ before' = before
  BY <1>1 DEF listVars, scanVars, delVars
<1>3. TypeOK /\ IndexInv
  BY DEF Inv
<1>4. /\ InOrder(Present) \in Seq(Ids) /\ ToSet(InOrder(Present)) = Present
      /\ IsInjective(InOrder(Present))
  <2>1. Present \in SUBSET Ids /\ Present \in SUBSET Int /\ IsFiniteSet(Present)
    <3>1. Present \subseteq Ids /\ Ids \in SUBSET Int /\ IsFiniteSet(Ids)
      BY IdsAreNumbers DEF Present
    <3> QED
      BY <3>1, FS_Subset
  <2>2. /\ InOrder(Present) \in Seq(Present) /\ ToSet(InOrder(Present)) = Present
        /\ IsInjective(InOrder(Present))
    BY <2>1, InOrderElements
  <2> QED
    BY <2>1, <2>2, SeqMonotonic
<1>5. Present' = Present
  BY <1>2 DEF Present
<1>6. IndexInv'
  BY <1>1, <1>4, <1>5 DEF IndexInv
<1>7. TypeOK'
  BY ZenonT(60), <1>1, <1>2, <1>3, <1>4 DEF TypeOK
<1>8. index = <<>>
  BY <1>1, <1>3 DEF IndexInv
<1>9. \A b \in Callers : Same(b) /\ Leaves(b)
  BY <1>2, <1>8 DEF Same, Leaves
<1>10. "other" \notin Callers
  BY DEF ConstantsAssumption
<1> QED
  BY <1>6, <1>7, <1>9, <1>10, InvKept

-------------------------------------------------------------------------------
(* The invariant holds, and with it the properties.                            *)

LEMMA IndexInit ==
    ASSUME ConstantsAssumption, Init
    PROVE  IndexInv /\ index \in Seq(Ids)
<1>1. /\ hasIndex \in BOOLEAN
      /\ hasIndex => index \in SetToSeqs(Present)
      /\ ~ hasIndex => index = <<>>
  BY DEF Init
<1>2. Present \in SUBSET Ids /\ IsFiniteSet(Present)
  <2>1. Present \subseteq Ids /\ IsFiniteSet(Ids)
    BY IdsAreNumbers DEF Present
  <2> QED
    BY <2>1, FS_Subset
<1>3. CASE hasIndex
  <2> DEFINE n == Cardinality(Present)
  <2>1. n \in Nat
    BY <1>2, FS_CardinalityType
  <2>2. index \in [1..n -> Present] /\ IsInjective(index)
    BY <1>1, <1>3 DEF SetToSeqs, IsInjective
  <2>3. IsFiniteSet(1..n) /\ Cardinality(1..n) = n
    <3>1. /\ IsFiniteSet(1..n)
          /\ Cardinality(1..n) = IF 1 > n THEN 0 ELSE n - 1 + 1
      BY SMTT(30), <2>1, FS_Interval
    <3> QED
      BY <2>1, <3>1
  <2>4. index \in Surjection(1..n, Present)
    <3>1. index \in Injection(1..n, Present)
      BY <2>2 DEF Injection
    <3> QED
      BY <1>2, <2>3, <3>1, FS_Injection
  <2> HIDE DEF n
  <2>5. ToSet(index) = Present
    BY <2>2, <2>4 DEF Surjection, ToSet
  <2>6. index \in Seq(Ids)
    <3>1. index \in [1..n -> Ids]
      BY <1>2, <2>2
    <3> QED
      BY <2>1, <3>1
  <2> QED
    BY <1>3, <2>2, <2>5, <2>6 DEF IndexInv
<1>4. CASE ~ hasIndex
  <2>1. index = <<>> /\ IsInjective(<<>>)
    BY <1>1, <1>4 DEF IsInjective
  <2> QED
    BY <1>4, <2>1 DEF IndexInv
<1> QED
  BY <1>3, <1>4

LEMMA InitInv ==
    ASSUME ConstantsAssumption, Init
    PROVE  Inv
<1>1. IndexInv /\ index \in Seq(Ids)
  BY IndexInit
<1>2. /\ hashes \in [Ids -> Contents] /\ hasIndex \in BOOLEAN /\ writes = 0
      /\ pc = [c \in Callers |-> "new"] /\ call = [c \in Callers |-> NoCall]
      /\ offset = [c \in Callers |-> 0] /\ listed = [c \in Callers |-> <<>>]
      /\ unscanned = [c \in Callers |-> {}] /\ keys = [c \in Callers |-> {}]
      /\ scanned = [c \in Callers |-> <<>>] /\ acks = [c \in Callers |-> <<>>]
      /\ results = [c \in Callers |-> <<>>] /\ before = [c \in Callers |-> {}]
      /\ touched = [c \in Callers |-> {}]
      /\ removed = [c \in Callers |-> [d \in Ids |-> 0]]
  BY DEF Init
<1>3. NoCall \in [op: Operations \cup {"none"}, size: Nat \ {0}, full: Nat \ {0},
                  rejected: BOOLEAN, disabled: BOOLEAN]
  <2> DEFINE none == [op |-> "none", size |-> 1, full |-> 1, rejected |-> FALSE, disabled |-> FALSE]
  <2>1. none \in [op: Operations \cup {"none"}, size: Nat \ {0}, full: Nat \ {0},
                  rejected: BOOLEAN, disabled: BOOLEAN]
    OBVIOUS
  <2> QED
    BY <2>1 DEF NoCall
<1>4. NoCall.op = "none" /\ NoCall.size = NoCall.full
  BY DEF NoCall
<1>5. TypeOK
  <2>1. writes \in 0..MaxWrites /\ BatchLimit \in Nat
    BY <1>2 DEF ConstantsAssumption
  <2>2. /\ pc \in [Callers -> {"new", "list", "scan", "fetch", "delete", "drop",
                               "dropScan", "dropKeys", "done", "failed"}]
        /\ offset \in [Callers -> Nat]
        /\ unscanned \in [Callers -> SUBSET Ids] /\ keys \in [Callers -> SUBSET Ids]
        /\ before \in [Callers -> SUBSET Ids] /\ touched \in [Callers -> SUBSET Ids]
        /\ removed \in [Callers -> [Ids -> Nat]]
    BY <1>2
  <2>3. call \in [Callers -> [op: Operations \cup {"none"}, size: Nat \ {0}, full: Nat \ {0},
                              rejected: BOOLEAN, disabled: BOOLEAN]]
    BY <1>2, <1>3, Zenon
  <2>4. \A T : <<>> \in Seq(T)
    OBVIOUS
  <2>5. /\ listed \in [Callers -> Seq(Ids)] /\ scanned \in [Callers -> Seq(Ids)]
        /\ acks \in [Callers -> Seq(Statuses)]
        /\ results \in [Callers -> Seq([id: Ids, status: Statuses])]
    BY <1>2, <2>4, Zenon
  <2>6. \A c \in Callers : /\ Len(acks[c]) <= BatchLimit
                           /\ Len(results[c]) + Len(acks[c]) <= Len(listed[c])
    BY <1>2, <2>1
  <2> QED
    BY <1>1, <1>2, <2>1, <2>2, <2>3, <2>5, <2>6 DEF TypeOK
<1>6. ASSUME NEW c \in Callers PROVE CallerInv(c)
  <2>1. /\ pc[c] = "new" /\ call[c] = NoCall /\ listed[c] = <<>> /\ offset[c] = 0
        /\ Unreported(c)
    BY <1>2 DEF Unreported
  <2>2. Reports(c) /\ Counted(c) /\ Gone(c)
    BY <2>1, UnreportedCounts
  <2>3. Phases(c)
    BY <1>4, <2>1 DEF Phases
  <2>4. /\ Covered(c) /\ Intact(c) /\ Scanning(c) /\ Paging(c) /\ Exact(c) /\ Dropping(c)
    BY <1>4, <2>1 DEF Covered, Deleting, Intact, Scanning, Paging, Exact, Dropping
  <2> QED
    BY <2>2, <2>3, <2>4 DEF CallerInv
<1> QED
  BY <1>1, <1>5, <1>6 DEF Inv

LEMMA StutterKeeps ==
    ASSUME Inv, UNCHANGED vars
    PROVE  Inv'
<1>1. /\ hashes' = hashes /\ index' = index /\ hasIndex' = hasIndex /\ writes' = writes
      /\ pc' = pc /\ call' = call /\ offset' = offset /\ listed' = listed
      /\ unscanned' = unscanned /\ keys' = keys /\ scanned' = scanned
      /\ acks' = acks /\ results' = results /\ removed' = removed
      /\ before' = before /\ touched' = touched
  BY DEF vars, redisVars, scanVars, listVars, delVars
<1>2. TypeOK /\ Store
  BY DEF Inv, Store, TypeOK
<1>3. Store' /\ \A b \in Callers : Leaves(b)
  BY <1>1, <1>2, QuietStep DEF redisVars
<1>4. TypeOK'
  BY <1>1, <1>2 DEF TypeOK
<1>5. \A b \in Callers : Same(b)
  BY <1>1 DEF Same
<1>6. \A b \in Callers : CallerInv(b)'
  BY <1>3, <1>5, OthersKept
<1> QED
  BY <1>3, <1>4, <1>6 DEF Inv, Store

LEMMA NextKeeps ==
    ASSUME ConstantsAssumption, Inv, [Next]_vars
    PROVE  Inv'
<1>1. CASE Write
  BY <1>1, WriteKeeps
<1>2. CASE CreateNamespace
  BY <1>2, CreateNamespaceKeeps
<1>3. ASSUME NEW c \in Callers, Call(c) PROVE Inv'
  BY <1>3, CallKeeps
<1>4. ASSUME NEW c \in Callers, Proceed(c) PROVE Inv'
  <2>1. CASE SearchPage(c)
    BY <2>1, SearchPageKeeps
  <2>2. CASE SearchRefused(c)
    BY <2>2, FailKeeps DEF SearchRefused
  <2>3. CASE ScanFallback(c)
    BY <2>3, ScanFallbackKeeps
  <2>4. CASE Scan(c)
    BY <2>4, ScanReplyKeeps DEF Scan
  <2>5. CASE Fetch(c)
    BY <2>5, FetchKeeps
  <2>6. CASE DelOne(c)
    BY <2>6, DelOneKeeps
  <2>7. CASE PipelineReplies(c)
    BY <2>7, PipelineRepliesKeeps
  <2>8. CASE DeleteNamespace(c)
    BY <2>8, DeleteNamespaceKeeps
  <2>9. CASE DropScan(c)
    BY <2>9, ScanReplyKeeps DEF DropScan
  <2>10. CASE DropKeys(c)
    BY <2>10, DropKeysKeeps
  <2> QED
    BY <1>4, <2>1, <2>2, <2>3, <2>4, <2>5, <2>6, <2>7, <2>8, <2>9, <2>10 DEF Proceed
<1>5. ASSUME NEW c \in Callers, CommandFails(c) PROVE Inv'
  BY <1>5, FailKeeps DEF CommandFails
<1>6. ASSUME NEW c \in Callers, PipelineFails(c) PROVE Inv'
  BY <1>6, PipelineFailsKeeps
<1>7. CASE UNCHANGED vars
  BY <1>7, StutterKeeps
<1> QED
  BY <1>1, <1>2, <1>3, <1>4, <1>5, <1>6, <1>7 DEF Next

LEMMA Invariance == Spec => []Inv
<1>1. Init => Inv
  BY ConstantsAssumption, InitInv
<1>2. Inv /\ [Next]_vars => Inv'
  BY ConstantsAssumption, NextKeeps
<1> QED
  BY <1>1, <1>2, PTL DEF Spec

\* TypeOK always holds, the bounds with it: a pipeline never holds more than
\* BatchLimit commands, and a call never reports on more than it listed
\* (deleteAllBySnapshot).
THEOREM TypeCorrect == Spec => []TypeOK
<1>1. Inv => TypeOK
  BY DEF Inv
<1> QED
  BY Invariance, <1>1, PTL

\* ListingExact always holds: whatever the page size, the pages of a listing by
\* index search that nobody disturbed hold every matching entry once (GetAll,
\* getAllMatchingIDs).
THEOREM ListingExactHolds == Spec => []ListingExact
<1>1. Inv => ListingExact
  BY DEF Inv, CallerInv, Exact, ListingExact
<1> QED
  BY Invariance, <1>1, PTL

\* NamespaceCleared always holds: after DeleteNamespace nothing is left that
\* others have not written since (deleteNamespaceKeysSingle, FT.DROPINDEX DD).
THEOREM NamespaceClearedHolds == Spec => []NamespaceCleared
<1>1. Inv => NamespaceCleared
  BY DEF Inv, CallerInv, Dropping, NamespaceCleared
<1> QED
  BY Invariance, <1>1, PTL

\* ReportHonest always holds: DeleteAll reports no success for an entry that it
\* did not delete, and something on every one that it did, whichever pipelines
\* fail and however often an entry is listed (deleteAllBySnapshot).
THEOREM ReportHonestHolds == Spec => []ReportHonest
<1>1. Inv => ReportHonest
  <2> SUFFICES ASSUME Inv, NEW c \in Callers, NEW d \in Ids
               PROVE  /\ ReportedAs(c, d, {"success"}) <= removed[c][d]
                      /\ pc[c] = "done" => removed[c][d] <= ReportedAs(c, d, Statuses)
    BY DEF ReportHonest
  <2> DEFINE r == Len(results[c])
             Told(statuses) ==
                {i \in DOMAIN results[c] : results[c][i].id = d /\ results[c][i].status \in statuses}
  <2>1. TypeOK /\ CallerInv(c)
    BY DEF Inv
  <2>2. /\ r \in Nat /\ results[c] \in Seq([id: Ids, status: Statuses])
        /\ DOMAIN results[c] = 1..r /\ Len(acks[c]) \in Nat /\ Len(listed[c]) \in Nat
        /\ r + Len(acks[c]) <= Len(listed[c]) /\ removed[c] \in [Ids -> Nat]
    <3>1. results[c] \in Seq([id: Ids, status: Statuses])
      BY <2>1, CallerTypes
    <3>2. DOMAIN results[c] = 1..r
      <4> DEFINE R == [id: Ids, status: Statuses]
      <4>1. results[c] \in Seq(R)
        BY <3>1
      <4> HIDE DEF R
      <4> QED
        BY <4>1
    <3> QED
      BY <2>1, <3>1, <3>2, CallerTypes
  <2>3. \A i \in 1..r : results[c][i].id = listed[c][i] /\ Status(c, i) = results[c][i].status
    BY <2>1, <2>2 DEF CallerInv, Reports, Status
  <2>4. 1..r \subseteq Run(c)
    <3>1. \A m, n \in Nat : 1..m \subseteq 1..m + n
      OBVIOUS
    <3> QED
      BY <2>2, <3>1 DEF Run
  <2>5. /\ IsFiniteSet(Removals(c, d)) /\ Cardinality(Removals(c, d)) \in Nat
        /\ Cardinality(Attempts(c, d)) \in Nat
        /\ Cardinality(Removals(c, d)) <= removed[c][d]
        /\ removed[c][d] <= Cardinality(Attempts(c, d))
    BY <2>1, CountsFinite DEF CallerInv, Counted
  <2>6. ReportedAs(c, d, {"success"}) <= removed[c][d]
    <3>1. Told({"success"}) \subseteq Removals(c, d)
      BY <2>2, <2>3, <2>4 DEF Removals, Attempts
    <3> HIDE DEF Told
    <3>2. /\ IsFiniteSet(Told({"success"}))
          /\ Cardinality(Told({"success"})) <= Cardinality(Removals(c, d))
      BY <2>5, <3>1, FS_Subset
    <3>3. Cardinality(Told({"success"})) \in Nat /\ removed[c][d] \in Nat
      BY <2>2, <3>2, FS_CardinalityType
    <3>4. ReportedAs(c, d, {"success"}) = Cardinality(Told({"success"}))
      BY DEF ReportedAs, Told
    <3> QED
      BY <2>5, <3>2, <3>3, <3>4
  <2>7. ASSUME pc[c] = "done" PROVE removed[c][d] <= ReportedAs(c, d, Statuses)
    <3>1. CASE call[c].op = "deleteAll"
      <4>1. r = Len(listed[c])
        BY <2>1, <2>7, <3>1 DEF CallerInv, Phases
      <4>2. Run(c) = 1..r
        <5>1. \A m, n \in Nat : m + n <= m => 1..m + n = 1..m
          OBVIOUS
        <5> QED
          BY <2>2, <4>1, <5>1 DEF Run
      <4>3. \A i \in 1..r : results[c][i].status \in Statuses
        <5> DEFINE R == [id: Ids, status: Statuses]
        <5>1. results[c] \in Seq(R)
          BY <2>2
        <5>2. \A x \in R : x.status \in Statuses
          OBVIOUS
        <5> HIDE DEF R
        <5>3. \A i \in 1..r : results[c][i] \in R
          BY <2>2, <5>1, ElementOfSeq
        <5> QED
          BY <5>2, <5>3
      <4>4. Attempts(c, d) = Told(Statuses)
        BY <2>2, <2>3, <4>2, <4>3 DEF Attempts
      <4> QED
        BY <2>5, <4>4 DEF ReportedAs
    <3>2. CASE call[c].op # "deleteAll"
      <4>1. removed[c] = [e \in Ids |-> 0]
        BY <2>1, <3>2 DEF CallerInv, Reports, Deleting
      <4>2. Told(Statuses) \subseteq 1..r /\ IsFiniteSet(1..r)
        <5>1. Told(Statuses) \subseteq 1..r
          BY <2>2
        <5>2. 1 \in Int /\ r \in Int
          BY <2>2
        <5> QED
          BY <5>1, <5>2, FS_Interval
      <4> HIDE DEF Told
      <4>3. Cardinality(Told(Statuses)) \in Nat
        BY <4>2, FS_Subset, FS_CardinalityType
      <4>4. ReportedAs(c, d, Statuses) = Cardinality(Told(Statuses))
        BY DEF ReportedAs, Told
      <4> QED
        BY <4>1, <4>3, <4>4
    <3> QED
      BY <3>1, <3>2
  <2> QED
    BY <2>6, <2>7
<1> QED
  BY Invariance, <1>1, PTL

\* DeleteAllDeletes always holds: what matched when DeleteAll began and nobody
\* else has touched is gone when it returns with successes only, under every
\* order of pages, scans, pipelines and writes of others (getAllMatchingIDs,
\* deleteAllBySnapshot).
THEOREM DeleteAllDeletesHolds == Spec => []DeleteAllDeletes
<1>1. Inv => DeleteAllDeletes
  <2> SUFFICES ASSUME Inv, NEW c \in Callers, call[c].op = "deleteAll", pc[c] = "done",
                      \A i \in DOMAIN results[c] : results[c][i].status = "success",
                      call[c].rejected \/ touched[c] = {},
                      NEW d \in before[c] \ touched[c]
               PROVE  hashes[d] = "absent"
    BY DEF DeleteAllDeletes
  <2>1. TypeOK /\ CallerInv(c)
    BY DEF Inv
  <2>2. /\ listed[c] \in Seq(Ids) /\ Len(results[c]) = Len(listed[c])
        /\ Len(listed[c]) \in Nat /\ Len(acks[c]) \in Nat
        /\ results[c] \in Seq([id: Ids, status: Statuses])
    BY <2>1, CallerTypes DEF CallerInv, Phases
  <2>3. d \in ToSet(listed[c])
    BY <2>1 DEF CallerInv, Covered, Deleting
  <2>4. PICK i \in 1..Len(listed[c]) : listed[c][i] = d
    BY <2>2, <2>3 DEF ToSet
  <2>5. i \in DOMAIN results[c]
    <3> DEFINE R == [id: Ids, status: Statuses]
    <3>1. results[c] \in Seq(R)
      BY <2>2
    <3> HIDE DEF R
    <3> QED
      BY <2>2, <3>1
  <2>6. i \in Run(c)
    <3>1. \A m, n \in Nat : 1..m \subseteq 1..m + n
      OBVIOUS
    <3> QED
      BY <2>2, <3>1 DEF Run
  <2>7. Status(c, i) = "success"
    BY <2>2, <2>5 DEF Status
  <2> QED
    BY <2>1, <2>4, <2>6, <2>7 DEF CallerInv, Gone
<1> QED
  BY Invariance, <1>1, PTL
===============================================================================
