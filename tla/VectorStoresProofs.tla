--------------------------- MODULE VectorStoresProofs --------------------------
(* Proofs about the process that calls Qdrant, Weaviate or Pinecone: the      *)
(* namespace is changed only as the VectorStore interface promises, a walk    *)
(* with cursors misses nothing, and what calls report is so, for any number   *)
(* of callers, entries, calls and any page sizes.                             *)
EXTENDS VectorStores, PineconeConnectionsProofs, OrdersProofs

-------------------------------------------------------------------------------
(* Updates that wait on the server.                                           *)

\* The points after each of the updates us, starting from ps.
Chain(h, ps, us) ==
    h = [n \in 0..Len(us) |-> IF n = 0 THEN ps ELSE Updated(h[n - 1], us[n])]

\* There is one: the shortest prefix without would be its predecessor's with
\* one more update.
LEMMA ChainExists ==
    ASSUME NEW ps, NEW us, Len(us) \in Nat
    PROVE  \E h : Chain(h, ps, us)
<1> DEFINE G(h, m) == h = [n \in 0..m |-> IF n = 0 THEN ps ELSE Updated(h[n - 1], us[n])]
           T == {m \in Nat : ~ \E h : G(h, m)}
<1>1. T = {}
  <2> SUFFICES ASSUME T # {} PROVE FALSE
    OBVIOUS
  <2>1. PICK m \in T : \A n \in T : m <= n
    <3>1. T \in SUBSET Nat
      OBVIOUS
    <3> HIDE DEF T
    <3> QED
      BY <3>1, LeastNat
  <2>2. G([n \in {0} |-> ps], 0)
    OBVIOUS
  <2>3. m \in Nat /\ m # 0 /\ m - 1 \in Nat
    <3>1. m \in Nat /\ ~ \E h : G(h, m)
      OBVIOUS
    <3>2. \E h : G(h, 0)
      BY <2>2
    <3> HIDE DEF G
    <3>3. m # 0
      BY <3>1, <3>2
    <3> QED
      BY <3>1, <3>3
  <2>4. m - 1 \notin T
    BY <2>1, <2>3
  <2>5. PICK h : G(h, m - 1)
    BY <2>3, <2>4
  <2> DEFINE g == [n \in 0..m |-> IF n = m THEN Updated(h[m - 1], us[m]) ELSE h[n]]
  <2>6. ASSUME NEW n \in 0..m
        PROVE  g[n] = IF n = 0 THEN ps ELSE Updated(g[n - 1], us[n])
    <3>1. CASE n = m
      <4>1. g[n - 1] = h[n - 1]
        BY <2>3, <3>1
      <4> QED
        BY <2>3, <3>1, <4>1
    <3>2. CASE n # m
      <4>1. n \in 0..m - 1 /\ g[n] = h[n]
        BY <2>3, <3>2
      <4>2. h[n] = IF n = 0 THEN ps ELSE Updated(h[n - 1], us[n])
        BY <2>5, <4>1
      <4>3. CASE n = 0
        BY <4>1, <4>2, <4>3
      <4>4. CASE n # 0
        <5>1. g[n - 1] = h[n - 1]
          BY <2>3, <3>2, <4>4
        <5> QED
          BY <4>1, <4>2, <4>4, <5>1
      <4> QED
        BY <4>3, <4>4
    <3> QED
      BY <3>1, <3>2
  <2>7. G(g, m)
    <3> DEFINE k == [n \in 0..m |-> IF n = 0 THEN ps ELSE Updated(g[n - 1], us[n])]
    <3>1. \A n \in 0..m : g[n] = k[n]
      BY <2>6
    <3>2. g = k
      <4> HIDE DEF k
      <4>1. DOMAIN k = 0..m /\ k = [n \in 0..m |-> k[n]]
        BY DEF k
      <4>2. DOMAIN g = 0..m /\ g = [n \in 0..m |-> g[n]]
        OBVIOUS
      <4> HIDE DEF g
      <4> QED
        BY <3>1, <4>1, <4>2
    <3> QED
      BY <3>2
  <2> QED
    BY <2>1, <2>7
<1>2. \E h : G(h, Len(us))
  BY <1>1
<1> QED
  BY <1>2 DEF Chain

\* h starts where g is after off updates, and takes the same N steps from there.
InStep(g, h, us, vs, off, N) ==
    /\ h[0] = g[off]
    /\ \A n \in 1..N : /\ g[off + n] = Updated(g[off + n - 1], us[off + n])
                       /\ h[n] = Updated(h[n - 1], vs[n])
                       /\ vs[n] = us[off + n]

Agree(g, h, off, N) == \A n \in 0..N : h[n] = g[off + n]

\* Then the two agree.
LEMMA ChainsAgree ==
    ASSUME NEW g, NEW h, NEW us, NEW vs, NEW off \in Nat, NEW N \in Nat,
           InStep(g, h, us, vs, off, N)
    PROVE  Agree(g, h, off, N)
<1> DEFINE T == {n \in 0..N : h[n] # g[off + n]}
<1>1. T = {}
  <2> SUFFICES ASSUME T # {} PROVE FALSE
    OBVIOUS
  <2>1. PICK m \in T : \A n \in T : m <= n
    <3>1. T \in SUBSET Nat
      OBVIOUS
    <3> HIDE DEF T
    <3> QED
      BY <3>1, LeastNat
  <2>2. m \in 1..N /\ m - 1 \in 0..N
    BY <2>1 DEF InStep
  <2>3. m - 1 \notin T
    BY <2>1, <2>2
  <2>4. h[m - 1] = g[off + (m - 1)] /\ off + (m - 1) = off + m - 1
    BY <2>2, <2>3
  <2>5. h[m] = g[off + m]
    BY <2>2, <2>4 DEF InStep
  <2> QED
    BY <2>1, <2>5
<1> QED
  BY <1>1 DEF Agree

\* Applied is such a chain.
AppliedIsChain ==
    Len(updates) \in Nat =>
        /\ Applied[0] = points
        /\ \A n \in 1..Len(updates) : Applied[n] = Updated(Applied[n - 1], updates[n])

LEMMA AppliedChain == AppliedIsChain
<1> SUFFICES ASSUME Len(updates) \in Nat
             PROVE  /\ Applied[0] = points
                    /\ \A n \in 1..Len(updates) : Applied[n] = Updated(Applied[n - 1], updates[n])
  BY DEF AppliedIsChain
<1>1. \E h : h = [n \in 0..Len(updates) |->
                     IF n = 0 THEN points ELSE Updated(h[n - 1], updates[n])]
  <2>1. \E h : Chain(h, points, updates)
    BY ChainExists
  <2> QED
    BY <2>1, Zenon DEF Chain
<1>2. Applied = [n \in 0..Len(updates) |->
                    IF n = 0 THEN points ELSE Updated(Applied[n - 1], updates[n])]
  BY <1>1, Zenon DEF Applied
<1> HIDE DEF Applied
<1>3. Applied[0] = points
  BY <1>2
<1>4. ASSUME NEW n \in 1..Len(updates)
      PROVE  Applied[n] = Updated(Applied[n - 1], updates[n])
  <2>1. n \in 0..Len(updates) /\ n # 0
    OBVIOUS
  <2> QED
    BY <1>2, <2>1
<1> QED
  BY <1>3, <1>4

LEMMA AppliedChainNext == AppliedIsChain'
BY AppliedChain, PTL

\* With no update waiting, the points are what they are.
LEMMA NoneWaiting == updates = <<>> => Accepted = points
BY AppliedChain DEF Accepted, AppliedIsChain

\* One more update leaves what the earlier ones will do.
LEMMA AcceptAppends ==
    ASSUME updates \in Seq(Updates), NEW u \in Updates,
           updates' = Append(updates, u), points' = points
    PROVE  /\ \A n \in 0..Len(updates) : Applied'[n] = Applied[n]
           /\ Applied'[Len(updates')] = Updated(Accepted, u) /\ Accepted' = Updated(Accepted, u)
<1>1. /\ Len(updates) \in Nat /\ Len(updates') = Len(updates) + 1
      /\ \A n \in 1..Len(updates) : updates'[n] = updates[n]
      /\ updates'[Len(updates')] = u
  OBVIOUS
<1>2. /\ Applied[0] = points /\ Applied'[0] = points
      /\ \A n \in 1..Len(updates) : Applied[n] = Updated(Applied[n - 1], updates[n])
      /\ \A n \in 1..Len(updates') : Applied'[n] = Updated(Applied'[n - 1], updates'[n])
  BY <1>1, AppliedChain, AppliedChainNext DEF AppliedIsChain
<1> HIDE DEF Applied
<1>3. \A n \in 0..Len(updates) : Applied'[n] = Applied[n]
  <2> DEFINE g == Applied  h == Applied'  us == updates  vs == updates'
  <2>1. InStep(g, h, us, vs, 0, Len(us))
    <3>1. \A n \in 1..Len(us) : 0 + n = n /\ n \in 1..Len(vs)
      BY <1>1
    <3> QED
      BY <1>1, <1>2, <3>1 DEF InStep
  <2>2. Agree(g, h, 0, Len(us))
    <3> HIDE DEF g, h, us, vs
    <3>1. 0 \in Nat /\ Len(us) \in Nat
      BY <1>1 DEF us
    <3> QED
      BY <3>1, <2>1, ChainsAgree
  <2>3. \A n \in 0..Len(us) : 0 + n = n
    BY <1>1
  <2> QED
    BY <2>2, <2>3 DEF Agree
<1>4. Applied'[Len(updates')] = Updated(Accepted, u)
  <2>1. Applied'[Len(updates')] = Updated(Applied'[Len(updates)], u)
    BY <1>1, <1>2
  <2> QED
    BY <1>1, <1>3, <2>1 DEF Accepted
<1> QED
  BY <1>3, <1>4 DEF Accepted

\* What the server applies it takes from the front.
LEMMA ApplyShifts ==
    ASSUME updates \in Seq(Updates), updates # <<>>,
           updates' = Tail(updates), points' = Updated(points, Head(updates))
    PROVE  /\ \A n \in 0..Len(updates') : Applied'[n] = Applied[n + 1]
           /\ Accepted' = Accepted /\ points' = Applied[1]
<1>1. /\ Len(updates) \in Nat /\ Len(updates') \in Nat /\ Len(updates) = Len(updates') + 1
      /\ \A n \in 1..Len(updates') : updates'[n] = updates[n + 1]
      /\ Head(updates) = updates[1]
  OBVIOUS
<1>2. /\ Applied[0] = points /\ Applied'[0] = points'
      /\ \A n \in 1..Len(updates) : Applied[n] = Updated(Applied[n - 1], updates[n])
      /\ \A n \in 1..Len(updates') : Applied'[n] = Updated(Applied'[n - 1], updates'[n])
  BY <1>1, AppliedChain, AppliedChainNext DEF AppliedIsChain
<1> HIDE DEF Applied
<1>3. Applied'[0] = Applied[1] /\ points' = Applied[1]
  BY <1>1, <1>2
<1>4. \A n \in 0..Len(updates') : Applied'[n] = Applied[n + 1]
  <2> DEFINE g == Applied  h == Applied'  us == updates  vs == updates'
  <2>1. InStep(g, h, us, vs, 1, Len(vs))
    <3>1. \A n \in 1..Len(vs) : 1 + n \in 1..Len(us) /\ 1 + n = n + 1
      BY <1>1
    <3> QED
      BY <1>1, <1>2, <1>3, <3>1 DEF InStep
  <2>2. Agree(g, h, 1, Len(vs))
    <3> HIDE DEF g, h, us, vs
    <3>1. 1 \in Nat /\ Len(vs) \in Nat
      BY <1>1 DEF vs
    <3> QED
      BY <3>1, <2>1, ChainsAgree
  <2>3. \A n \in 0..Len(vs) : 1 + n = n + 1
    BY <1>1
  <2> QED
    BY <2>2, <2>3 DEF Agree
<1>5. Accepted' = Accepted
  BY <1>1, <1>4 DEF Accepted
<1> QED
  BY <1>3, <1>4, <1>5

\* The points stay points.
LEMMA AcceptedType == TypeOK => Accepted \in [Ids -> Contents]
<1> SUFFICES ASSUME TypeOK PROVE Accepted \in [Ids -> Contents]
  OBVIOUS
<1> DEFINE T == {n \in 0..Len(updates) : Applied[n] \notin [Ids -> Contents]}
<1>1. /\ Len(updates) \in Nat /\ points \in [Ids -> Contents]
      /\ \A n \in 1..Len(updates) : updates[n].content \in Contents
  <2>1. updates \in Seq(Updates)
    BY DEF TypeOK
  <2>2. \A n \in 1..Len(updates) : updates[n] \in Updates
    BY <2>1, ElementOfSeq
  <2>3. \A u \in Updates : u.content \in Contents
    BY DEF Updates
  <2>4. Len(updates) \in Nat
    BY <2>1
  <2> QED
    BY <2>2, <2>3, <2>4 DEF TypeOK
<1>2. /\ Applied[0] = points
      /\ \A n \in 1..Len(updates) : Applied[n] = Updated(Applied[n - 1], updates[n])
  BY <1>1, AppliedChain DEF AppliedIsChain
<1> HIDE DEF Applied
<1>3. T = {}
  <2> SUFFICES ASSUME T # {} PROVE FALSE
    OBVIOUS
  <2>1. PICK m \in T : \A n \in T : m <= n
    <3>1. T \in SUBSET Nat
      OBVIOUS
    <3> HIDE DEF T
    <3> QED
      BY <3>1, LeastNat
  <2>2. m \in 1..Len(updates) /\ m - 1 \in 0..Len(updates)
    BY <1>1, <1>2, <2>1
  <2>3. m - 1 \notin T
    BY <2>1, <2>2
  <2>4. Applied[m - 1] \in [Ids -> Contents]
    BY <2>2, <2>3
  <2>5. Applied[m] \in [Ids -> Contents]
    <3>1. \A u : u.content \in Contents =>
             \A ps \in [Ids -> Contents] : Updated(ps, u) \in [Ids -> Contents]
      BY DEF Updated
    <3> QED
      BY <1>1, <1>2, <2>2, <2>4, <3>1
  <2> QED
    BY <2>1, <2>5
<1> QED
  BY <1>1, <1>3 DEF Accepted

-------------------------------------------------------------------------------
(* The inductive invariant: the types and the connections, what the backend   *)
(* decides for all callers, and what holds of each caller by itself.          *)

Global ==
    /\ backend = None => updates = <<>> /\ \A c \in Callers : pc[c] = "idle"
    /\ backend # "qdrant" => updates = <<>>
    /\ backend = "pinecone" => name \in Names

\* Which calls get where, and with which arguments.
GetsThere(c) ==
    /\ pc[c] = "delete" => call[c].op = "deleteAll"
    /\ pc[c] = "applying" => call[c].op = "add" /\ backend = "qdrant"
    /\ call[c].op = "add" /\ pc[c] \in {"applying", "done"} => call[c].id # None
    /\ call[c].op \in {"add", "delete"} /\ pc[c] = "command" /\ backend = "pinecone"
          => call[c].id # None
    /\ call[c].op = "getAll" /\ InProgress(c) /\ backend = "weaviate" => call[c].limit > 0
    /\ backend = "pinecone" /\ pc[c] = "delete" => call[c].sent = "none"
    /\ call[c].op = "deleteAll" /\ InProgress(c) => results[c] = <<>>

\* An entry that nobody has touched since a walk began is still there, and no
\* update that waits on the server will touch it.
StaysThere(c) ==
    call[c].op = "getAll" /\ InProgress(c) =>
        \A d \in before[c] \ touched[c] :
            /\ Selects(c, points[d])
            /\ \A i \in DOMAIN updates : d \notin AffectedIn(points, updates[i])

\* The cursor is the last ID given, whole pages have been given, and every
\* such entry up to the cursor has.
UpToCursor(c) ==
    call[c].op = "getAll" /\ InProgress(c) =>
        /\ cursor[c] = None => listed[c] = <<>>
        /\ cursor[c] # None =>
              /\ backend # "pinecone"
              /\ listed[c] # <<>> /\ cursor[c] = listed[c][Len(listed[c])]
              /\ \A d \in before[c] \ touched[c] : d <= cursor[c] =>
                    \E i \in 1..Len(listed[c]) : listed[c][i] = d
        /\ backend = "qdrant" => \E q \in Nat : Len(listed[c]) = Limit(c) * q

\* IDs are given in order.
InSequence(c) ==
    call[c].op = "getAll" /\ (InProgress(c) \/ pc[c] = "done") =>
        \A i, j \in 1..Len(listed[c]) : i < j =>
            /\ listed[c][i] <= listed[c][j]
            /\ listed[c][i] = listed[c][j] =>
                  backend = "qdrant" /\ (Limit(c) = 1 \/ (j = i + 1 /\ i % Limit(c) = 0))

AllGiven(c) ==
    Walked(c) => \/ before[c] \ touched[c] \subseteq ToSet(listed[c])
                 \/ backend = "pinecone" /\ Len(listed[c]) = Limit(c)

\* From its upsert on, if nobody else touches it, an added entry is there
\* whichever of the accepted updates have been applied.
LastUpsert(c, k) ==
    /\ updates[k].by = c /\ updates[k].kind = "upsert"
    /\ \A i \in k + 1..Len(updates) : updates[i].by = c => updates[i].kind # "upsert"

AddHeld(c) ==
    call[c].op = "add" /\ call[c].id \notin touched[c] =>
        /\ pc[c] = "done" => \A n \in 0..Len(updates) : Applied[n][call[c].id] = call[c].content
        /\ pc[c] = "applying" =>
              \A k \in 1..Len(updates) : LastUpsert(c, k) =>
                  \A n \in k..Len(updates) : Applied[n][call[c].id] = call[c].content

ReportsTrue(c) ==
    call[c].op = "deleteAll" /\ pc[c] = "done" =>
        \A i \in DOMAIN results[c] :
            LET d == results[c][i].id
            IN results[c][i].status = "success" /\ d \notin touched[c] =>
                  Accepted[d] # "match" /\ (call[c].sent # "all" => Accepted[d] = "absent")

FitsCollection(c) ==
    (/\ backend = "qdrant" /\ call[c].op = "createNamespace" /\ pc[c] = "done"
     /\ ~ (Ids \subseteq touched[c]))
    => collection = call[c].dim

CallerInv(c) ==
    /\ GetsThere(c) /\ StaysThere(c) /\ UpToCursor(c) /\ InSequence(c) /\ AllGiven(c)
    /\ AddHeld(c) /\ ReportsTrue(c) /\ FitsCollection(c)

Inv == TypeOK /\ ConnInv /\ Global /\ \A c \in Callers : CallerInv(c)

-------------------------------------------------------------------------------
(* What a step of one caller leaves to the others.                            *)

Places == Rest \cup {"connect", "command", "applying", "delete",
                     "inspect", "create", "drop", "stats"}
Reports == Seq([id: Ids, status: {"success", "error"}])

\* A step of b in the middle of its call: it moves only b's entries, ...
OwnEntries(b) ==
    /\ UNCHANGED <<backend, name, calls, call, before>>
    /\ pc' \in [Callers -> Places] /\ cursor' \in [Callers -> Ids \cup {None}]
    /\ listed' \in [Callers -> Seq(Ids)] /\ results' \in [Callers -> Reports]
    /\ \A c \in Callers \ {b} :
          pc'[c] = pc[c] /\ cursor'[c] = cursor[c] /\ listed'[c] = listed[c]
          /\ results'[c] = results[c]

\* ... and changes the server in one of four ways, or not at all.
Still == UNCHANGED <<points, updates, touched>>

Directly(b) ==
    /\ updates = <<>> /\ updates' = <<>> /\ points' \in [Ids -> Contents]
    /\ Touch(b, {d \in Ids : points'[d] # points[d]})

Accepts(b) ==
    \E u \in Updates :
        /\ u.by = b /\ updates' = Append(updates, u) /\ points' = points
        /\ Touch(b, AffectedIn(points, u) \cup AffectedIn(Accepted, u))

Drops(b) == points' = Without(Ids) /\ updates' = <<>> /\ Touch(b, Ids)

Serves(b) == Still \/ Directly(b) \/ Accepts(b) \/ Drops(b)

\* What that means for another caller c and an entry d that is still untouched
\* for c: it stays as it is, now and once the updates are applied.
Unharmed(c, d) ==
    /\ points'[d] = points[d] /\ Accepted'[d] = Accepted[d]
    /\ (\A i \in DOMAIN updates : d \notin AffectedIn(points, updates[i]))
          => \A i \in DOMAIN updates' : d \notin AffectedIn(points', updates'[i])
    /\ \A v \in Contents :
          (\A n \in 0..Len(updates) : Applied[n][d] = v)
             => \A n \in 0..Len(updates') : Applied'[n][d] = v
    /\ \A v \in Contents, k \in 1..Len(updates') : LastUpsert(c, k)' =>
          /\ k \in 1..Len(updates) /\ LastUpsert(c, k)
          /\ (\A n \in k..Len(updates) : Applied[n][d] = v)
                => \A n \in k..Len(updates') : Applied'[n][d] = v

LEMMA StillApplied ==
    ASSUME UNCHANGED <<points, updates>>
    PROVE  Applied' = Applied /\ Accepted' = Accepted
<1>1. Applied' = Applied
  BY Zenon DEF Applied
<1> QED
  BY <1>1 DEF Accepted

LEMMA StillUnharmed ==
    ASSUME Still, NEW c \in Callers, NEW d \in Ids
    PROVE  Unharmed(c, d)
<1>1. points' = points /\ updates' = updates
  BY DEF Still
<1>2. Applied' = Applied /\ Accepted' = Accepted
  BY <1>1, StillApplied
<1>3. \A k \in 1..Len(updates') : LastUpsert(c, k)' => LastUpsert(c, k)
  BY <1>1 DEF LastUpsert
<1> HIDE DEF Applied
<1> QED
  BY <1>1, <1>2, <1>3 DEF Unharmed

LEMMA DirectUnharmed ==
    ASSUME TypeOK, NEW b \in Callers, Directly(b), NEW c \in Callers \ {b},
           NEW d \in Ids \ touched'[c]
    PROVE  Unharmed(c, d)
<1>1. updates = <<>> /\ updates' = <<>> /\ Len(updates) = 0 /\ Len(updates') = 0
  BY DEF Directly
<1>2. points'[d] = points[d]
  BY DEF Directly, Touch, TypeOK
<1>3. Applied[0] = points /\ Applied'[0] = points'
  BY <1>1, AppliedChain, AppliedChainNext DEF AppliedIsChain
<1>4. Accepted' = points' /\ Accepted = points
  BY <1>1, <1>3 DEF Accepted
<1> HIDE DEF Applied
<1> QED
  BY <1>1, <1>2, <1>3, <1>4 DEF Unharmed

LEMMA AcceptUnharmed ==
    ASSUME TypeOK, NEW b \in Callers, Accepts(b), NEW c \in Callers \ {b},
           NEW d \in Ids \ touched'[c]
    PROVE  Unharmed(c, d)
<1>1. PICK u \in Updates :
        /\ u.by = b /\ updates' = Append(updates, u) /\ points' = points
        /\ Touch(b, AffectedIn(points, u) \cup AffectedIn(Accepted, u))
  BY DEF Accepts
<1>2. /\ updates \in Seq(Updates) /\ Len(updates) \in Nat /\ Len(updates') = Len(updates) + 1
      /\ \A i \in 1..Len(updates) : updates'[i] = updates[i]
      /\ updates'[Len(updates) + 1] = u
      /\ DOMAIN updates = 1..Len(updates) /\ DOMAIN updates' = 1..Len(updates) + 1
  BY <1>1 DEF TypeOK
<1>3. d \notin AffectedIn(points, u) /\ d \notin AffectedIn(Accepted, u)
  BY <1>1 DEF Touch, TypeOK
<1>4. /\ \A n \in 0..Len(updates) : Applied'[n] = Applied[n]
      /\ Applied'[Len(updates) + 1] = Updated(Accepted, u)
      /\ Accepted' = Updated(Accepted, u)
  BY <1>1, <1>2, AcceptAppends
<1>5. Updated(Accepted, u)[d] = Accepted[d] /\ Accepted = Applied[Len(updates)]
  BY <1>3 DEF Updated, Accepted
<1> HIDE DEF Applied
<1>6. points'[d] = points[d] /\ Accepted'[d] = Accepted[d]
  BY <1>1, <1>4, <1>5
<1>7. ASSUME \A i \in DOMAIN updates : d \notin AffectedIn(points, updates[i])
      PROVE  \A i \in DOMAIN updates' : d \notin AffectedIn(points', updates'[i])
  BY <1>1, <1>2, <1>3, <1>7
<1> DEFINE From(k, v) == \A n \in k..Len(updates) : Applied[n][d] = v
           FromNext(k, v) == \A n \in k..Len(updates') : Applied'[n][d] = v
<1>8. ASSUME NEW k \in 0..Len(updates), NEW v, From(k, v)
      PROVE  FromNext(k, v)
  <2> SUFFICES ASSUME NEW n \in k..Len(updates') PROVE Applied'[n][d] = v
    OBVIOUS
  <2>1. CASE n \in k..Len(updates)
    BY <1>2, <1>4, <1>8, <2>1
  <2>2. CASE n = Len(updates) + 1
    BY <1>2, <1>4, <1>5, <1>8, <2>2
  <2> QED
    BY <1>2, <2>1, <2>2
<1>9. ASSUME NEW k \in 1..Len(updates'), LastUpsert(c, k)'
      PROVE  k \in 1..Len(updates) /\ LastUpsert(c, k)
  <2>1. k # Len(updates) + 1
    BY <1>1, <1>2, <1>9 DEF LastUpsert
  <2>2. k \in 1..Len(updates)
    BY <1>2, <2>1
  <2>3. \A i \in k + 1..Len(updates) : i \in k + 1..Len(updates') /\ updates'[i] = updates[i]
    BY <1>2, <2>2
  <2> QED
    BY <1>2, <1>9, <2>2, <2>3 DEF LastUpsert
<1>10. ASSUME NEW v \in Contents, \A n \in 0..Len(updates) : Applied[n][d] = v
       PROVE  \A n \in 0..Len(updates') : Applied'[n][d] = v
  <2>1. From(0, v) /\ 0 \in 0..Len(updates)
    BY <1>2, <1>10
  <2>2. FromNext(0, v)
    <3> HIDE DEF From, FromNext
    <3> QED
      BY <2>1, <1>8
  <2> QED
    BY <2>2
<1>11. ASSUME NEW v \in Contents, NEW k \in 1..Len(updates'), LastUpsert(c, k)'
       PROVE  /\ k \in 1..Len(updates) /\ LastUpsert(c, k)
              /\ (\A n \in k..Len(updates) : Applied[n][d] = v)
                    => \A n \in k..Len(updates') : Applied'[n][d] = v
  <2>1. k \in 1..Len(updates) /\ LastUpsert(c, k) /\ k \in 0..Len(updates)
    BY <1>2, <1>9, <1>11
  <2>2. From(k, v) => FromNext(k, v)
    <3> HIDE DEF From, FromNext
    <3> QED
      BY <2>1, <1>8
  <2> QED
    BY <2>1, <2>2
<1> HIDE DEF LastUpsert, AffectedIn
<1> QED
  BY <1>6, <1>7, <1>10, <1>11 DEF Unharmed

\* Nothing that another caller does harms what is untouched for c.
LEMMA OthersUnharmed ==
    ASSUME TypeOK, NEW b \in Callers, Serves(b), NEW c \in Callers \ {b}
    PROVE  touched[c] \subseteq touched'[c] /\ \A d \in Ids \ touched'[c] : Unharmed(c, d)
<1>1. touched[c] \subseteq touched'[c]
  BY DEF Serves, Still, Directly, Accepts, Drops, Touch, TypeOK
<1>2. ASSUME NEW d \in Ids \ touched'[c] PROVE Unharmed(c, d)
  <2>1. ~ Drops(b)
    BY DEF Drops, Touch, TypeOK
  <2> QED
    BY <2>1, StillUnharmed, DirectUnharmed, AcceptUnharmed DEF Serves
<1> QED
  BY <1>1, <1>2

\* What the collection is changed to, and by whom: on Qdrant it is created when
\* there is none, and dropped with all its points.
Collects(b) ==
    /\ collection' \in Collections
    /\ \/ collection' = collection \/ collection = None \/ backend # "qdrant"
       \/ Touch(b, Ids)

\* So what holds of a caller by itself survives the steps of the others.
LEMMA OthersKept ==
    ASSUME Inv, NEW b \in Callers, OwnEntries(b), Serves(b), Collects(b),
           NEW c \in Callers \ {b}
    PROVE  CallerInv(c)'
<1>1. /\ pc'[c] = pc[c] /\ cursor'[c] = cursor[c] /\ listed'[c] = listed[c]
      /\ results'[c] = results[c] /\ call' = call /\ before' = before /\ backend' = backend
  BY DEF OwnEntries
<1>2. TypeOK /\ CallerInv(c)
  BY DEF Inv
<1>3. touched[c] \subseteq touched'[c] /\ \A d \in Ids \ touched'[c] : Unharmed(c, d)
  BY <1>2, OthersUnharmed
<1>4. before[c] \subseteq Ids /\ call[c] \in Requests /\ None \notin Dimensions
  BY <1>2, CallsAssumption DEF TypeOK
<1>5. GetsThere(c)'
  BY <1>1, <1>2 DEF CallerInv, GetsThere, InProgress
<1>6. StaysThere(c)'
  <2> SUFFICES ASSUME call[c].op = "getAll", InProgress(c),
                      NEW d \in before[c] \ touched'[c]
               PROVE  /\ Selects(c, points'[d])
                      /\ \A i \in DOMAIN updates' : d \notin AffectedIn(points', updates'[i])
    BY <1>1 DEF StaysThere, InProgress, Selects
  <2>1. Selects(c, points[d]) /\ \A i \in DOMAIN updates : d \notin AffectedIn(points, updates[i])
    BY <1>2, <1>3 DEF CallerInv, StaysThere
  <2>2. Unharmed(c, d)
    BY <1>3, <1>4
  <2> QED
    BY <2>1, <2>2 DEF Unharmed
<1>7. UpToCursor(c)'
  BY <1>1, <1>2, <1>3 DEF CallerInv, UpToCursor, InProgress, Limit
<1>8. InSequence(c)'
  BY <1>1, <1>2 DEF CallerInv, InSequence, InProgress, Limit
<1>9. AllGiven(c)'
  BY <1>1, <1>2, <1>3 DEF CallerInv, AllGiven, Walked, Limit
<1>10. AddHeld(c)'
  <2> SUFFICES ASSUME call[c].op = "add", call[c].id \notin touched'[c],
                      pc[c] \in {"applying", "done"}
               PROVE  /\ pc[c] = "done" =>
                            \A n \in 0..Len(updates') : Applied'[n][call[c].id] = call[c].content
                      /\ pc[c] = "applying" =>
                            \A k \in 1..Len(updates') : LastUpsert(c, k)' =>
                               \A n \in k..Len(updates') : Applied'[n][call[c].id] = call[c].content
    BY <1>1 DEF AddHeld
  <2>1. call[c].id \in Ids /\ call[c].content \in Contents
    BY <1>2, <1>4 DEF CallerInv, GetsThere, Requests, Contents
  <2>2. Unharmed(c, call[c].id) /\ call[c].id \notin touched[c]
    BY <1>3, <2>1
  <2>3. AddHeld(c) /\ Unharmed(c, call[c].id)
    BY <1>2, <2>2 DEF CallerInv
  <2> QED
    BY <2>1, <2>2, <2>3 DEF AddHeld, Unharmed
<1>11. ReportsTrue(c)'
  <2> SUFFICES ASSUME call[c].op = "deleteAll", pc[c] = "done", NEW i \in DOMAIN results[c],
                      results[c][i].status = "success", results[c][i].id \notin touched'[c]
               PROVE  LET d == results[c][i].id
                      IN  Accepted'[d] # "match" /\ (call[c].sent # "all" => Accepted'[d] = "absent")
    BY <1>1 DEF ReportsTrue
  <2>1. results[c][i].id \in Ids
    <3>1. results[c] \in Reports
      BY <1>2 DEF TypeOK, Reports
    <3>2. results[c][i] \in [id: Ids, status: {"success", "error"}]
      <4>1. i \in 1..Len(results[c])
        BY <3>1 DEF Reports
      <4> QED
        BY <3>1, <4>1, ElementOfSeq DEF Reports
    <3> QED
      BY <3>2
  <2>2. Unharmed(c, results[c][i].id)
    BY <1>3, <2>1
  <2> QED
    BY <1>2, <1>3, <2>2 DEF CallerInv, ReportsTrue, Unharmed
<1>12. FitsCollection(c)'
  <2> SUFFICES ASSUME backend = "qdrant", call[c].op = "createNamespace", pc[c] = "done",
                      ~ (Ids \subseteq touched'[c])
               PROVE  collection' = call[c].dim
    BY <1>1 DEF FitsCollection
  <2>1. collection = call[c].dim
    BY <1>2, <1>3 DEF CallerInv, FitsCollection
  <2>2. call[c].dim # None
    BY <1>4 DEF Requests
  <2>3. ~ Touch(b, Ids)
    BY <1>2 DEF Touch, TypeOK
  <2> QED
    BY <2>1, <2>2, <2>3 DEF Collects
<1> QED
  BY <1>5, <1>6, <1>7, <1>8, <1>9, <1>10, <1>11, <1>12 DEF CallerInv

-------------------------------------------------------------------------------
(* The contract.                                                              *)

\* What the refinement says a caller is doing.
Business(c) ==
    IF InProgress(c) THEN [op |-> "call", of |-> call[c], due |-> pc[c] # "applying"]
    ELSE [op |-> "none"]

\* A step of b that leaves the dictionary alone, or has the effect of its call.
Effective(b) ==
    /\ InProgress(b)
    /\ \/ /\ Accepted' = Accepted
          /\ pc'[b] \in Rest \/ (pc[b] # "applying" /\ pc'[b] # "applying")
       \/ /\ Accepted' \in Contract!Effects(call[b])
          /\ pc[b] # "applying" /\ pc'[b] \in Rest \cup {"applying"}

LEMMA NoLongerDue ==
    ASSUME NEW R, NEW f \in [op: {"call"}, of: R, due: BOOLEAN],
           NEW g \in [op: {"call"}, of: R, due: BOOLEAN], f.of = g.of, g.due = FALSE
    PROVE  g = [f EXCEPT !.due = FALSE]
<1> DEFINE h == [f EXCEPT !.due = FALSE]
<1>1. h \in [op: {"call"}, of: R, due: BOOLEAN] /\ h.due = FALSE /\ h.of = f.of
  OBVIOUS
<1> HIDE DEF h
<1>2. g = h
  BY <1>1
<1> QED
  BY <1>2 DEF h

LEMMA ContractStep ==
    ASSUME NEW b \in Callers, call' = call, \A c \in Callers \ {b} : pc'[c] = pc[c],
           Effective(b)
    PROVE  [Contract!ContractNext]_(Contract!contractVars)
<1> DEFINE D == [c \in Callers |->
                   IF InProgress(c)
                   THEN [op |-> "call", of |-> call[c], due |-> pc[c] # "applying"]
                   ELSE [op |-> "none"]]
<1>1. D = [c \in Callers |-> Business(c)]
  BY DEF Business
<1>2. D[b] = [op |-> "call", of |-> call[b], due |-> pc[b] # "applying"]
  BY DEF Effective
<1>3. D[b] # [op |-> "none"]
  BY <1>2
<1>4. \A c \in Callers \ {b} : D'[c] = D[c]
  BY DEF InProgress
<1>5. /\ D = [c \in Callers |-> D[c]] /\ D' = [c \in Callers |-> D'[c]]
      /\ DOMAIN D = Callers /\ DOMAIN D' = Callers
  OBVIOUS
<1>6. ASSUME pc'[b] \in Rest PROVE D' = [D EXCEPT ![b] = [op |-> "none"]]
  <2>1. D'[b] = [op |-> "none"]
    BY <1>6 DEF InProgress
  <2> HIDE DEF D
  <2> QED
    BY <1>4, <1>5, <2>1
<1>7. ASSUME pc[b] # "applying", pc'[b] = "applying" PROVE D' = [D EXCEPT ![b].due = FALSE]
  <2>1. D'[b] = [op |-> "call", of |-> call[b], due |-> FALSE]
    BY <1>7 DEF InProgress, Rest
  <2> HIDE DEF D
  <2>2. D'[b] = [D[b] EXCEPT !.due = FALSE]
    <3>1. /\ D[b] \in [op: {"call"}, of: {call[b]}, due: BOOLEAN]
          /\ D[b].of = call[b]
      <4>1. (pc[b] # "applying") \in BOOLEAN
        OBVIOUS
      <4> QED
        BY <1>2, <4>1
    <3>2. /\ D'[b] \in [op: {"call"}, of: {call[b]}, due: BOOLEAN]
          /\ D'[b].of = call[b] /\ D'[b].due = FALSE
      BY <2>1
    <3> QED
      <4> DEFINE f == D[b]  g == D'[b]  R == {call[b]}
      <4>1. f \in [op: {"call"}, of: R, due: BOOLEAN] /\ g \in [op: {"call"}, of: R, due: BOOLEAN]
        BY <3>1, <3>2
      <4>2. f.of = g.of /\ g.due = FALSE
        BY <3>1, <3>2
      <4> HIDE DEF f, g, R
      <4>3. g = [f EXCEPT !.due = FALSE]
        BY <4>1, <4>2, NoLongerDue
      <4> QED
        BY <4>3 DEF f, g
  <2> QED
    BY <1>4, <1>5, <2>2
<1>8. ASSUME pc[b] # "applying", pc'[b] # "applying", pc'[b] \notin Rest PROVE D' = D
  <2>1. D'[b] = D[b]
    BY <1>2, <1>8 DEF InProgress
  <2> HIDE DEF D
  <2> QED
    BY <1>4, <1>5, <2>1
<1>9. CASE Accepted' = Accepted /\ pc'[b] \in Rest
  <2>1. D' = [D EXCEPT ![b] = [op |-> "none"]]
    BY <1>6, <1>9
  <2>2. Contract!Returns(b)
    BY <1>3, <1>9, <2>1 DEF Contract!Returns, Contract!Idle
  <2> QED
    BY <2>2 DEF Contract!ContractNext
<1>10. CASE /\ Accepted' = Accepted /\ pc[b] # "applying" /\ pc'[b] # "applying"
            /\ pc'[b] \notin Rest
  <2>1. D' = D
    BY <1>8, <1>10
  <2> QED
    BY <1>10, <2>1 DEF Contract!contractVars
<1>11. CASE /\ Accepted' \in Contract!Effects(call[b])
            /\ pc[b] # "applying" /\ pc'[b] \in Rest \cup {"applying"}
  <2>1. D[b].due /\ D[b].of = call[b]
    BY <1>2, <1>11
  <2>2. D' \in {[D EXCEPT ![b].due = FALSE], [D EXCEPT ![b] = [op |-> "none"]]}
    BY <1>6, <1>7, <1>11
  <2>3. Contract!Acts(b)
    BY <1>3, <1>11, <2>1, <2>2 DEF Contract!Acts, Contract!Idle
  <2> QED
    BY <2>3 DEF Contract!ContractNext
<1> QED
  BY <1>9, <1>10, <1>11 DEF Effective

-------------------------------------------------------------------------------
(* A step of a call.                                                          *)

\* All that the proof asks of a step of b in the middle of a call.
Moves(b) ==
    /\ OwnEntries(b) /\ Serves(b) /\ Collects(b) /\ Effective(b)
    /\ updates' # <<>> => backend = "qdrant"
    /\ [ConnNext]_connVars /\ clientOpen' \in BOOLEAN
    /\ CallerInv(b)'

LEMMA ServedTypes ==
    ASSUME TypeOK, NEW b \in Callers, Serves(b)
    PROVE  /\ points' \in [Ids -> Contents] /\ updates' \in Seq(Updates)
           /\ touched' \in [Callers -> SUBSET Ids]
<1>1. CASE Still
  BY <1>1 DEF Still, TypeOK
<1>2. CASE Directly(b)
  <2>1. /\ points' \in [Ids -> Contents] /\ updates' = <<>>
        /\ touched' \in [Callers -> SUBSET Ids]
    BY <1>2 DEF Directly, Touch, TypeOK
  <2> QED
    BY <2>1
<1>3. CASE Accepts(b)
  <2>1. PICK u \in Updates :
          /\ updates' = Append(updates, u) /\ points' = points
          /\ Touch(b, AffectedIn(points, u) \cup AffectedIn(Accepted, u))
    BY <1>3 DEF Accepts
  <2>2. \A ps : AffectedIn(ps, u) \subseteq Ids
    BY DEF AffectedIn, Updates
  <2>3. touched' \in [Callers -> SUBSET Ids]
    BY <2>1, <2>2 DEF Touch, TypeOK
  <2>4. updates' \in Seq(Updates)
    BY <2>1 DEF TypeOK
  <2> QED
    BY <2>1, <2>3, <2>4 DEF TypeOK
<1>4. CASE Drops(b)
  <2>1. points' \in [Ids -> Contents] /\ updates' = <<>>
    BY <1>4 DEF Drops, Without, Contents
  <2>2. touched' \in [Callers -> SUBSET Ids]
    BY <1>4 DEF Drops, Touch, TypeOK
  <2> QED
    BY <2>1, <2>2
<1> QED
  BY <1>1, <1>2, <1>3, <1>4 DEF Serves

LEMMA MovesKeep ==
    ASSUME Inv, NEW b \in Callers, Moves(b)
    PROVE  Inv' /\ [Contract!ContractNext]_(Contract!contractVars)
<1>1. TypeOK /\ ConnInv /\ Global
  BY DEF Inv
<1>2. ConnInv'
  BY <1>1, ConnNextInv DEF Moves
<1>3. TypeOK'
  <2>1. ConnTypeOK'
    BY <1>2 DEF ConnInv
  <2>2. /\ points' \in [Ids -> Contents] /\ updates' \in Seq(Updates)
        /\ touched' \in [Callers -> SUBSET Ids]
    BY <1>1, ServedTypes DEF Moves
  <2> QED
    BY <1>1, <2>1, <2>2 DEF TypeOK, Moves, OwnEntries, Collects, Places, Reports
<1>4. Global'
  <2>1. backend # None
    BY <1>1 DEF Global, Moves, Effective, InProgress, Rest
  <2> QED
    BY <1>1, <2>1 DEF Global, Moves, OwnEntries
<1>5. \A c \in Callers : CallerInv(c)'
  BY OthersKept DEF Moves
<1>6. [Contract!ContractNext]_(Contract!contractVars)
  BY ContractStep DEF Moves, OwnEntries
<1> QED
  BY <1>2, <1>3, <1>4, <1>5, <1>6 DEF Inv

\* What a step needs about connections and the client.
Connected == [ConnNext]_connVars /\ clientOpen' \in BOOLEAN

\* A step that changes nothing on the server.
LEMMA StillMoves ==
    ASSUME Inv, NEW b \in Callers, InProgress(b), Connected, Still,
           OwnEntries(b), collection' = collection, CallerInv(b)',
           pc'[b] \in Rest \/ (pc[b] # "applying" /\ pc'[b] # "applying")
    PROVE  Moves(b)
<1>1. TypeOK /\ Global
  BY DEF Inv
<1>2. Accepted' = Accepted
  BY StillApplied DEF Still
<1>3. Effective(b)
  BY <1>2 DEF Effective
<1>4. Serves(b) /\ Collects(b)
  BY <1>1 DEF Serves, Collects, TypeOK
<1>5. updates' # <<>> => backend = "qdrant"
  BY <1>1 DEF Still, Global
<1> QED
  BY <1>3, <1>4, <1>5 DEF Moves, Connected

LEMMA GotoOwn ==
    ASSUME TypeOK, NEW b \in Callers, NEW p \in Places, Goto(b, p)
    PROVE  OwnEntries(b) /\ Still /\ pc'[b] = p /\ collection' = collection
<1>1. pc' = [pc EXCEPT ![b] = p]
  BY DEF Goto
<1>2. pc' \in [Callers -> Places] /\ pc'[b] = p /\ \A c \in Callers \ {b} : pc'[c] = pc[c]
  BY <1>1 DEF TypeOK, Places
<1>3. UNCHANGED <<backend, name, serverVars, calls, call, walkVars, results, historyVars>>
  BY DEF Goto
<1>4. /\ UNCHANGED <<backend, name, calls, call, before, cursor, listed, results>>
      /\ UNCHANGED <<collection, points, updates, touched>>
  BY <1>3 DEF serverVars, walkVars, historyVars
<1>5. OwnEntries(b)
  BY <1>2, <1>4 DEF OwnEntries, TypeOK, Reports
<1> QED
  BY <1>2, <1>4, <1>5 DEF Still

\* A call that returns an error, or panics.
LEMMA GivesUp ==
    ASSUME Inv, NEW b \in Callers, InProgress(b), Connected,
           NEW p \in {"failed", "unverified", "panicked"}, Goto(b, p)
    PROVE  Moves(b)
<1>1. TypeOK /\ p \in Places /\ p \in Rest
  BY DEF Inv, Places, Rest
<1>2. OwnEntries(b) /\ Still /\ pc'[b] = p /\ collection' = collection
  BY <1>1, GotoOwn
<1>3. CallerInv(b)'
  BY <1>1, <1>2 DEF CallerInv, GetsThere, StaysThere, UpToCursor, InSequence, AllGiven, Walked,
     AddHeld, ReportsTrue, FitsCollection, InProgress
<1> QED
  BY <1>1, <1>2, <1>3, StillMoves

\* A call that goes on to its next command.
LEMMA GoesOn ==
    ASSUME Inv, NEW b \in Callers, InProgress(b), pc[b] # "applying", Connected,
           NEW p \in Places \ (Rest \cup {"applying"}), Goto(b, p), GetsThere(b)'
    PROVE  Moves(b)
<1>1. TypeOK /\ CallerInv(b)
  BY DEF Inv
<1>2. OwnEntries(b) /\ Still /\ pc'[b] = p /\ collection' = collection
  BY <1>1, GotoOwn
<1>3. /\ UNCHANGED <<points, updates, touched, backend, call, before, cursor, listed>>
  BY DEF Goto, serverVars, walkVars, historyVars
<1>4. p # "done" /\ InProgress(b)' /\ p # "applying"
  BY <1>2 DEF InProgress, Rest
<1>5. StaysThere(b)' /\ UpToCursor(b)' /\ InSequence(b)'
  BY <1>1, <1>3 DEF CallerInv, StaysThere, UpToCursor, InSequence, Selects, Limit
<1>6. AllGiven(b)' /\ AddHeld(b)' /\ ReportsTrue(b)' /\ FitsCollection(b)'
  BY <1>2, <1>4 DEF AllGiven, Walked, AddHeld, ReportsTrue, FitsCollection
<1>7. CallerInv(b)'
  BY <1>5, <1>6 DEF CallerInv
<1> QED
  BY <1>1, <1>2, <1>4, <1>7, StillMoves

\* A call that returns with nothing to report.
LEMMA GetsDone ==
    ASSUME Inv, NEW b \in Callers, InProgress(b), Connected, Goto(b, "done"),
           call[b].op \notin {"add", "getAll"}, FitsCollection(b)'
    PROVE  Moves(b)
<1>1. TypeOK /\ CallerInv(b) /\ "done" \in Places /\ "done" \in Rest
  BY DEF Inv, Places, Rest
<1>2. OwnEntries(b) /\ Still /\ pc'[b] = "done" /\ collection' = collection
  BY <1>1, GotoOwn
<1>3. UNCHANGED <<call, results>>
  BY DEF Goto
<1>4. call[b].op = "deleteAll" => results'[b] = <<>>
  BY <1>1, <1>3 DEF CallerInv, GetsThere
<1>5. ReportsTrue(b)'
  BY <1>3, <1>4 DEF ReportsTrue
<1>6. CallerInv(b)'
  BY <1>1, <1>2, <1>3, <1>5 DEF CallerInv, GetsThere, StaysThere, UpToCursor, InSequence,
     AllGiven, Walked, AddHeld, InProgress
<1> QED
  BY <1>1, <1>2, <1>6, StillMoves

\* Weaviate and Pinecone carry a command out at once.
LEMMA AtOnce ==
    ASSUME Inv, backend \in {"weaviate", "pinecone"}
    PROVE  updates = <<>> /\ Accepted = points
<1>1. updates = <<>>
  BY DEF Inv, Global
<1> QED
  BY <1>1, NoneWaiting

\* A command that has the effect of its call.
LEMMA CommandMoves ==
    ASSUME Inv, NEW b \in Callers, backend \in {"weaviate", "pinecone"}, InProgress(b), Connected,
           NEW after \in [Ids -> Contents], NEW outcome \in {"done", "failed"},
           Command(b, after, outcome),
           results' \in [Callers -> Reports], \A c \in Callers \ {b} : results'[c] = results[c],
           collection' \in Collections,
           after \in Contract!Effects(call[b]), call[b].op # "getAll",
           call[b].op = "add" => call[b].id \in Ids /\ after[call[b].id] = call[b].content,
           ReportsTrue(b)'
    PROVE  Moves(b)
<1>1. TypeOK /\ CallerInv(b) /\ updates = <<>>
  BY AtOnce DEF Inv
<1>2. /\ points' = after /\ updates' = <<>>
      /\ Touch(b, {d \in Ids : after[d] # points[d]})
      /\ pc' = [pc EXCEPT ![b] = outcome]
      /\ UNCHANGED <<backend, name, calls, call, before, cursor, listed>>
  BY <1>1 DEF Command, walkVars
<1>3. pc' \in [Callers -> Places] /\ pc'[b] = outcome /\ \A c \in Callers \ {b} : pc'[c] = pc[c]
  BY <1>1, <1>2 DEF TypeOK, Places, Rest
<1>4. OwnEntries(b)
  BY <1>1, <1>2, <1>3 DEF OwnEntries, TypeOK
<1>5. Directly(b)
  BY <1>1, <1>2 DEF Directly
<1>6. Accepted' = after /\ Applied'[0] = after /\ Len(updates') = 0
  BY <1>2, AppliedChainNext DEF Accepted, AppliedIsChain
<1>7. pc[b] # "applying"
  BY <1>1 DEF CallerInv, GetsThere
<1>8. Effective(b)
  BY <1>3, <1>6, <1>7 DEF Effective, Rest
<1>9. AddHeld(b)'
  BY <1>2, <1>3, <1>6 DEF AddHeld
<1>10. GetsThere(b)'
  BY <1>2, <1>3, CallsAssumption DEF GetsThere, InProgress, Rest
<1>11. CallerInv(b)'
  BY <1>2, <1>3, <1>9, <1>10 DEF CallerInv, StaysThere, UpToCursor, InSequence, AllGiven,
     Walked, FitsCollection
<1> QED
  BY <1>1, <1>2, <1>4, <1>5, <1>8, <1>11 DEF Moves, Serves, Collects, Connected

\* A command that changes no entry.
LEMMA SameMoves ==
    ASSUME Inv, NEW b \in Callers, Connected, call[b].op = "createNamespace",
           InProgress(b), NEW p \in {"done", "stats"}, Command(b, points, p), UNCHANGED results,
           collection' \in Collections, collection = None \/ backend # "qdrant",
           FitsCollection(b)'
    PROVE  Moves(b)
<1>1. TypeOK /\ CallerInv(b) /\ Global
  BY DEF Inv
<1>2. /\ points' = points /\ updates' = updates
      /\ Touch(b, {d \in Ids : points[d] # points[d]})
      /\ pc' = [pc EXCEPT ![b] = p]
      /\ UNCHANGED <<backend, name, calls, call, before, cursor, listed>>
  BY DEF Command, walkVars
<1>3. pc' \in [Callers -> Places] /\ pc'[b] = p /\ \A c \in Callers \ {b} : pc'[c] = pc[c]
  BY <1>1, <1>2 DEF TypeOK, Places, Rest
<1>4. OwnEntries(b)
  BY <1>1, <1>2, <1>3 DEF OwnEntries, TypeOK, Reports
<1>5. touched' = touched
  <2>1. {d \in Ids : points[d] # points[d]} = {}
    OBVIOUS
  <2> DEFINE t == [c \in Callers |-> IF c = b THEN touched[c] ELSE touched[c] \cup {}]
  <2>2. touched' = t
    BY <1>2, <2>1 DEF Touch
  <2>3. \A c \in Callers : t[c] = touched[c]
    OBVIOUS
  <2>4. t = touched
    BY <1>1, <2>3 DEF TypeOK
  <2> QED
    BY <2>2, <2>4
<1>6. Still /\ Accepted' = Accepted
  BY <1>2, <1>5, StillApplied DEF Still
<1>7. pc[b] # "applying"
  BY <1>1 DEF CallerInv, GetsThere
<1>8. Effective(b)
  BY <1>3, <1>6, <1>7 DEF Effective
<1>9. CallerInv(b)'
  BY <1>2, <1>3 DEF CallerInv, GetsThere, StaysThere, UpToCursor, InSequence, AllGiven,
     Walked, AddHeld, ReportsTrue
<1> QED
  BY <1>1, <1>2, <1>4, <1>6, <1>8, <1>9 DEF Moves, Serves, Collects, Connected, Global

\* An update that the server accepts.
LEMMA AcceptMoves ==
    ASSUME Inv, NEW b \in Callers, backend = "qdrant", InProgress(b), pc[b] # "applying", Connected,
           NEW u \in Updates, u.by = b, NEW outcome \in {"done", "failed", "applying"},
           Accept(b, u, outcome),
           results' \in [Callers -> Reports], \A c \in Callers \ {b} : results'[c] = results[c],
           Updated(Accepted, u) \in Contract!Effects(call[b]), call[b].op \in {"add", "delete", "deleteAll"},
           call[b].op = "add" =>
              /\ outcome \in {"failed", "applying"} /\ call[b].id \in Ids
              /\ u.kind = "upsert" /\ u.ids = {call[b].id} /\ u.content = call[b].content,
           call[b].op # "add" => outcome # "applying",
           ReportsTrue(b)'
    PROVE  Moves(b)
<1>1. TypeOK /\ CallerInv(b)
  BY DEF Inv
<1>2. /\ points' = points /\ updates' = Append(updates, u)
      /\ Touch(b, AffectedIn(points, u) \cup AffectedIn(Accepted, u))
      /\ pc' = [pc EXCEPT ![b] = outcome]
      /\ UNCHANGED <<backend, name, collection, calls, call, before, cursor, listed>>
  BY DEF Accept, walkVars
<1>3. pc' \in [Callers -> Places] /\ pc'[b] = outcome /\ \A c \in Callers \ {b} : pc'[c] = pc[c]
  BY <1>1, <1>2 DEF TypeOK, Places, Rest
<1>4. OwnEntries(b)
  BY <1>1, <1>2, <1>3 DEF OwnEntries, TypeOK
<1>5. Accepts(b)
  BY <1>2 DEF Accepts
<1>6. Accepted' = Updated(Accepted, u) /\ Applied'[Len(updates')] = Updated(Accepted, u)
  BY <1>1, <1>2, AcceptAppends DEF TypeOK
<1>7. Effective(b)
  BY <1>3, <1>6 DEF Effective, Rest
<1>8. AddHeld(b)'
  <2> SUFFICES ASSUME call[b].op = "add", outcome = "applying",
                      NEW k \in 1..Len(updates'), LastUpsert(b, k)', NEW n \in k..Len(updates')
               PROVE  Applied'[n][call[b].id] = call[b].content
    BY <1>2, <1>3 DEF AddHeld
  <2>1. /\ Len(updates) \in Nat /\ Len(updates') = Len(updates) + 1
        /\ updates'[Len(updates) + 1] = u
    BY <1>1, <1>2 DEF TypeOK
  <2>2. k = Len(updates) + 1
    BY <2>1 DEF LastUpsert
  <2>3. n = Len(updates')
    BY <2>1, <2>2
  <2>4. Updated(Accepted, u)[call[b].id] = call[b].content
    BY DEF Updated, AffectedIn
  <2> HIDE DEF Applied
  <2> QED
    BY <1>6, <2>3, <2>4
<1>9. GetsThere(b)'
  BY <1>2, <1>3, CallsAssumption DEF GetsThere, InProgress, Rest
<1>10. CallerInv(b)'
  BY <1>2, <1>3, <1>8, <1>9 DEF CallerInv, StaysThere, UpToCursor, InSequence, AllGiven,
     Walked, FitsCollection
<1>11. collection' \in Collections
  BY <1>1, <1>2 DEF TypeOK
<1> QED
  BY <1>1, <1>2, <1>4, <1>5, <1>7, <1>10, <1>11 DEF Moves, Serves, Collects, Connected

-------------------------------------------------------------------------------
(* Walks.                                                                     *)

LEMMA Multiple == ASSUME NEW m \in Nat \ {0}, NEW q \in Nat PROVE (m * q) % m = 0
OBVIOUS

LEMMA MultiplesApart ==
    ASSUME NEW m \in Nat \ {0, 1}, NEW a \in Nat, a % m = 0, (a + 1) % m = 0 PROVE FALSE
OBVIOUS

LEMMA LimitType ==
    ASSUME Inv, NEW b \in Callers
    PROVE  Limit(b) \in Nat \ {0}
BY CallsAssumption DEF Inv, TypeOK, Requests, Limit

\* A page that a caller is given.
LEMMA PageMoves ==
    ASSUME Inv, NEW b \in Callers, Connected, Doing(b, "getAll", "command"),
           NEW page \in Seq(Ids), NEW next \in Ids \cup {None}, Page(b, page, next),
           UpToCursor(b)', InSequence(b)', AllGiven(b)'
    PROVE  Moves(b)
<1>1. TypeOK /\ CallerInv(b) /\ pc[b] = "command" /\ call[b].op = "getAll"
  BY DEF Inv, Doing
<1>2. /\ listed' = [listed EXCEPT ![b] = listed[b] \o page]
      /\ cursor' = [cursor EXCEPT ![b] = next]
      /\ pc' = [pc EXCEPT ![b] = IF next = None THEN "done" ELSE "command"]
      /\ UNCHANGED <<backend, name, collection, points, updates, calls, call, results>>
      /\ UNCHANGED <<before, touched>>
  BY DEF Page, serverVars, historyVars
<1>3. listed[b] \o page \in Seq(Ids)
  BY <1>1 DEF TypeOK
<1>4. /\ pc' \in [Callers -> Places] /\ pc'[b] \in {"done", "command"}
      /\ pc'[b] = "done" => next = None
      /\ \A c \in Callers \ {b} : pc'[c] = pc[c]
  BY <1>1, <1>2 DEF TypeOK, Places, Rest
<1>5. OwnEntries(b) /\ Still
  BY <1>1, <1>2, <1>3, <1>4 DEF OwnEntries, TypeOK, Reports, Still
<1>6. InProgress(b)
  BY <1>1 DEF InProgress, Rest
<1>7. StaysThere(b)'
  BY <1>1, <1>2, <1>6 DEF CallerInv, StaysThere, Selects
<1>8. GetsThere(b)'
  BY <1>1, <1>2, <1>4, <1>6 DEF CallerInv, GetsThere
<1>9. CallerInv(b)'
  BY <1>1, <1>2, <1>7, <1>8 DEF CallerInv, AddHeld, ReportsTrue, FitsCollection
<1> QED
  BY <1>1, <1>2, <1>4, <1>5, <1>6, <1>9, StillMoves DEF Rest

\* A page of a walk with a cursor: in order, from the cursor on (on Weaviate,
\* after it), complete up to the next cursor, and on Qdrant full but for the last.
CursorPage(b, page, next) ==
    /\ next # None => page # <<>> /\ next = page[Len(page)]
    /\ \A d \in Matching(b) :
          (cursor[b] # None => ~ (d <= cursor[b])) /\ (next = None \/ d <= next)
             => \E i \in 1..Len(page) : page[i] = d
    /\ \A i, j \in 1..Len(page) : i < j => page[i] < page[j]
    /\ \A i \in 1..Len(page) : cursor[b] # None =>
          cursor[b] <= page[i] /\ (backend = "weaviate" => cursor[b] < page[i])
    /\ backend = "qdrant" /\ next # None => Len(page) = Limit(b)

\* It misses nothing up to the next cursor.
LEMMA NothingMissed ==
    ASSUME Inv, NEW b \in Callers, Doing(b, "getAll", "command"),
           NEW page \in Seq(Ids), NEW next \in Ids \cup {None}, CursorPage(b, page, next),
           NEW d \in before[b] \ touched[b], next = None \/ d <= next
    PROVE  \E i \in 1..Len(listed[b] \o page) : (listed[b] \o page)[i] = d
<1>1. /\ TypeOK /\ StaysThere(b) /\ UpToCursor(b) /\ InProgress(b) /\ call[b].op = "getAll"
  BY DEF Inv, CallerInv, Doing, InProgress, Rest
<1>2. d \in Ids /\ d \in Matching(b)
  BY <1>1 DEF TypeOK, StaysThere, Matching
<1>3. listed[b] \in Seq(Ids)
  BY <1>1 DEF TypeOK
<1>4. /\ Len(listed[b] \o page) = Len(listed[b]) + Len(page)
      /\ Len(listed[b]) \in Nat /\ Len(page) \in Nat
      /\ \A i \in 1..Len(listed[b]) : (listed[b] \o page)[i] = listed[b][i]
      /\ \A i \in 1..Len(page) : (listed[b] \o page)[Len(listed[b]) + i] = page[i]
  BY <1>3
<1>5. CASE cursor[b] # None /\ d <= cursor[b]
  <2>1. PICK i \in 1..Len(listed[b]) : listed[b][i] = d
    BY <1>1, <1>5 DEF UpToCursor
  <2> QED
    BY <1>4, <2>1
<1>6. CASE ~ (cursor[b] # None /\ d <= cursor[b])
  <2>1. PICK i \in 1..Len(page) : page[i] = d
    BY <1>2, <1>6 DEF CursorPage
  <2>2. Len(listed[b]) + i \in 1..Len(listed[b] \o page)
    BY <1>4
  <2> QED
    BY <1>4, <2>1, <2>2
<1> QED
  BY <1>5, <1>6

\* What the IDs of a walk keep: they are in order, and only on Qdrant does one
\* repeat, from the end of a page to the beginning of the next.
Sequential(b, s) ==
    \A i, j \in 1..Len(s) : i < j =>
        /\ s[i] <= s[j]
        /\ s[i] = s[j] =>
              backend = "qdrant" /\ (Limit(b) = 1 \/ (j = i + 1 /\ i % Limit(b) = 0))

LEMMA StaysSequential ==
    ASSUME Inv, NEW b \in Callers, backend \in {"qdrant", "weaviate"},
           Doing(b, "getAll", "command"),
           NEW page \in Seq(Ids), NEW next \in Ids \cup {None}, CursorPage(b, page, next)
    PROVE  Sequential(b, listed[b] \o page)
<1> DEFINE old == listed[b]
           all == old \o page
<1>1. /\ TypeOK /\ UpToCursor(b) /\ InSequence(b) /\ InProgress(b) /\ call[b].op = "getAll"
  BY DEF Inv, CallerInv, Doing, InProgress, Rest
<1>2. old \in Seq(Ids) /\ Limit(b) \in Nat \ {0} /\ Ids \subseteq Nat
  BY <1>1, LimitType, CallsAssumption DEF TypeOK
<1>3. /\ Len(all) = Len(old) + Len(page)
      /\ Len(old) \in Nat /\ Len(page) \in Nat
      /\ \A i \in 1..Len(old) : all[i] = old[i] /\ old[i] \in Nat
      /\ \A i \in 1..Len(page) : all[Len(old) + i] = page[i] /\ page[i] \in Nat
  <2>1. Len(old) \in Nat /\ Len(page) \in Nat
    BY <1>2
  <2>2. /\ \A i \in 1..Len(old) : old[i] \in Ids
        /\ \A i \in 1..Len(page) : page[i] \in Ids
    BY <1>2, ElementOfSeq
  <2> HIDE DEF old
  <2>3. /\ Len(old \o page) = Len(old) + Len(page)
        /\ \A i \in 1..Len(old) + Len(page) :
              (old \o page)[i] = IF i <= Len(old) THEN old[i] ELSE page[i - Len(old)]
    BY <1>2, ConcatProperties
  <2>4. \A i \in 1..Len(old) : all[i] = old[i]
    BY <2>1, <2>3
  <2>5. \A i \in 1..Len(page) : all[Len(old) + i] = page[i]
    <3> SUFFICES ASSUME NEW i \in 1..Len(page) PROVE all[Len(old) + i] = page[i]
      OBVIOUS
    <3>1. Len(old) + i \in 1..Len(old) + Len(page) /\ ~ (Len(old) + i <= Len(old))
          /\ Len(old) + i - Len(old) = i
      BY <2>1
    <3> QED
      BY <2>3, <3>1
  <2> QED
    BY <1>2, <2>1, <2>2, <2>3, <2>4, <2>5
<1>4. Sequential(b, old)
  BY <1>1 DEF InSequence, Sequential
<1>5. old # <<>> => /\ cursor[b] \in Nat /\ cursor[b] # None /\ cursor[b] = old[Len(old)]
                    /\ Len(old) \in 1..Len(old)
  BY <1>1, <1>2, <1>3 DEF UpToCursor
<1> HIDE DEF old
<1> SUFFICES ASSUME NEW i \in 1..Len(all), NEW j \in 1..Len(all), i < j
             PROVE  /\ all[i] <= all[j]
                    /\ all[i] = all[j] =>
                          backend = "qdrant" /\ (Limit(b) = 1 \/ (j = i + 1 /\ i % Limit(b) = 0))
  BY DEF Sequential, old
<1> HIDE DEF all
<1>6. CASE j \in 1..Len(old)
  <2>1. i \in 1..Len(old)
    BY <1>3, <1>6
  <2> QED
    BY <1>3, <1>4, <1>6, <2>1 DEF Sequential
<1>7. CASE i \notin 1..Len(old)
  <2> DEFINE x == i - Len(old)  y == j - Len(old)
  <2>1. /\ x \in 1..Len(page) /\ y \in 1..Len(page) /\ x < y
        /\ Len(old) + x = i /\ Len(old) + y = j
    BY <1>3, <1>7
  <2>2. page[x] < page[y]
    BY <2>1 DEF CursorPage
  <2>3. all[i] = page[x] /\ all[j] = page[y] /\ page[x] \in Nat /\ page[y] \in Nat
    BY <1>3, <2>1
  <2> HIDE DEF x, y
  <2> QED
    BY <2>2, <2>3
<1>8. CASE i \in 1..Len(old) /\ j \notin 1..Len(old)
  <2> DEFINE y == j - Len(old)
  <2>1. y \in 1..Len(page) /\ Len(old) + y = j
    BY <1>3, <1>8
  <2>2. all[i] = old[i] /\ all[j] = page[y] /\ page[y] \in Nat /\ old[i] \in Nat
    BY <1>3, <1>8, <2>1
  <2>3. old # <<>>
    BY <1>8
  <2>4. cursor[b] <= page[y] /\ (backend = "weaviate" => cursor[b] < page[y])
    BY <1>5, <2>1, <2>3 DEF CursorPage
  <2>5. old[i] <= cursor[b]
    <3>1. CASE i = Len(old)
      BY <1>5, <2>2, <2>3, <3>1
    <3>2. CASE i < Len(old)
      BY <1>4, <1>5, <1>8, <2>3, <3>2 DEF Sequential
    <3> QED
      BY <1>3, <1>8, <3>1, <3>2
  <2> HIDE DEF y
  <2>6. all[i] <= all[j]
    BY <1>5, <2>2, <2>3, <2>4, <2>5
  <2>7. ASSUME all[i] = all[j] PROVE backend = "qdrant"
    BY <1>5, <2>2, <2>3, <2>4, <2>5, <2>7
  <2>8. ASSUME all[i] = all[j], Limit(b) # 1
        PROVE  backend = "qdrant" /\ j = i + 1 /\ i % Limit(b) = 0
    <3>1. old[i] = cursor[b] /\ page[y] = cursor[b] /\ backend = "qdrant"
      BY <1>5, <2>2, <2>3, <2>4, <2>5, <2>8
    <3>2. y = 1
      <4>1. CASE y > 1
        <5>1. 1 \in 1..Len(page) /\ page[1] \in Nat
          BY <1>3, <2>1
        <5>2. page[1] < page[y] /\ cursor[b] <= page[1]
          BY <1>5, <2>1, <2>3, <4>1, <5>1 DEF CursorPage
        <5> QED
          BY <1>5, <2>2, <2>3, <3>1, <5>1, <5>2
      <4> QED
        BY <2>1, <4>1
    <3>3. PICK q \in Nat : Len(old) = Limit(b) * q
      BY <1>1, <3>1 DEF UpToCursor, old
    <3>4. Len(old) % Limit(b) = 0
      BY <1>2, <3>3, Multiple
    <3>5. i = Len(old)
      <4>1. CASE i < Len(old)
        <5>1. old[i] = old[Len(old)]
          BY <1>5, <2>3, <3>1
        <5>2. Len(old) = i + 1 /\ i % Limit(b) = 0
          BY <1>4, <1>5, <1>8, <2>3, <2>8, <4>1, <5>1 DEF Sequential
        <5> QED
          BY <1>2, <1>8, <2>8, <3>4, <5>2, MultiplesApart
      <4> QED
        BY <1>3, <1>8, <4>1
    <3> QED
      BY <2>1, <3>1, <3>2, <3>4, <3>5
  <2> QED
    <3>1. all[i] = all[j] /\ Limit(b) # 1 => /\ backend = "qdrant" /\ j = i + 1
                                            /\ i % Limit(b) = 0
      BY <2>8
    <3>2. all[i] = all[j] => backend = "qdrant"
      BY <2>7
    <3> QED
      BY <2>6, <3>1, <3>2, Zenon
<1> QED
  BY <1>6, <1>7, <1>8

\* So such a page keeps the invariant.
LEMMA WalkMoves ==
    ASSUME Inv, NEW b \in Callers, backend \in {"qdrant", "weaviate"}, Connected,
           Doing(b, "getAll", "command"),
           NEW page \in Seq(Ids), NEW next \in Ids \cup {None}, CursorPage(b, page, next),
           Page(b, page, next)
    PROVE  Moves(b)
<1>1. /\ TypeOK /\ CallerInv(b) /\ InProgress(b) /\ call[b].op = "getAll"
  BY DEF Inv, Doing, InProgress, Rest
<1>2. /\ listed'[b] = listed[b] \o page /\ cursor'[b] = next
      /\ pc'[b] = IF next = None THEN "done" ELSE "command"
      /\ UNCHANGED <<backend, call, before, touched>>
  BY <1>1 DEF Page, historyVars, TypeOK
<1>3. \A d \in before[b] \ touched[b] : (next = None \/ d <= next) =>
         \E i \in 1..Len(listed[b] \o page) : (listed[b] \o page)[i] = d
  BY NothingMissed
<1>4. Sequential(b, listed[b] \o page)
  BY StaysSequential
<1>5. listed[b] \in Seq(Ids) /\ Limit(b) \in Nat \ {0}
  BY <1>1, LimitType DEF TypeOK
<1>6. InSequence(b)'
  BY <1>2, <1>4 DEF InSequence, Sequential, Limit
<1>7. AllGiven(b)'
  <2> SUFFICES ASSUME pc'[b] = "done", NEW d \in before[b] \ touched[b]
               PROVE  d \in ToSet(listed'[b])
    BY <1>2 DEF AllGiven, Walked
  <2>1. next = None
    BY <1>2
  <2>2. PICK i \in 1..Len(listed'[b]) : listed'[b][i] = d
    BY <1>2, <1>3, <2>1
  <2>3. listed'[b] \in Seq(Ids)
    BY <1>2, <1>5
  <2>4. i \in DOMAIN listed'[b]
    BY <2>3
  <2> QED
    BY <2>2, <2>4 DEF ToSet
<1>8. ASSUME next # None
      PROVE  /\ listed'[b] # <<>> /\ next = listed'[b][Len(listed'[b])]
             /\ backend = "qdrant" => \E q \in Nat : Len(listed'[b]) = Limit(b) * q
  <2>1. page # <<>> /\ next = page[Len(page)] /\ (backend = "qdrant" => Len(page) = Limit(b))
    BY <1>8 DEF CursorPage
  <2>2. /\ Len(listed[b] \o page) = Len(listed[b]) + Len(page) /\ Len(page) \in Nat \ {0}
        /\ Len(listed[b]) \in Nat
        /\ (listed[b] \o page)[Len(listed[b]) + Len(page)] = page[Len(page)]
    BY <1>5, <2>1
  <2>3. listed[b] \o page # <<>>
    BY <1>5, <2>1
  <2>4. ASSUME backend = "qdrant" PROVE \E q \in Nat : Len(listed'[b]) = Limit(b) * q
    <3>1. PICK q \in Nat : Len(listed[b]) = Limit(b) * q
      BY <1>1, <2>4 DEF CallerInv, UpToCursor
    <3>2. Len(listed'[b]) = Limit(b) * (q + 1)
      BY <1>2, <1>5, <2>1, <2>2, <2>4, <3>1
    <3> QED
      BY <3>2
  <2> QED
    BY <1>2, <2>1, <2>2, <2>3, <2>4
<1>9. UpToCursor(b)'
  <2>1. InProgress(b)' => next # None
    BY <1>2 DEF InProgress, Rest
  <2> QED
    BY <1>2, <1>3, <1>8, <2>1 DEF UpToCursor, Limit
<1> QED
  BY <1>6, <1>7, <1>9, PageMoves

-------------------------------------------------------------------------------
(* Qdrant.                                                                    *)

\* What a listing of entries is made of.
LEMMA ListedPage ==
    ASSUME NEW S \in SUBSET Ids, NEW n \in Nat \ {0}
    PROVE  /\ IsPage(FirstOf(n, S), n, S) /\ FirstOf(n, S) \in Seq(Ids)
           /\ \A i \in 1..Len(FirstOf(n, S)) : FirstOf(n, S)[i] \in S
           /\ IsFiniteSet(S)
<1>1. S \in SUBSET Int /\ IsFiniteSet(S)
  <2>1. Ids \subseteq Nat /\ IsFiniteSet(Ids)
    BY CallsAssumption
  <2>2. IsFiniteSet(S)
    BY <2>1, FS_Subset
  <2> QED
    BY <2>1, <2>2
<1>2. IsPage(FirstOf(n, S), n, S)
  BY <1>1, FirstOfPages
<1> DEFINE page == FirstOf(n, S)
<1> HIDE DEF page
<1>3. page \in Seq(S)
  BY <1>2 DEF IsPage, page
<1>4. page \in Seq(Ids)
  BY <1>3
<1>5. \A i \in 1..Len(page) : page[i] \in S
  BY <1>3, ElementOfSeq
<1> QED
  BY <1>1, <1>2, <1>4, <1>5 DEF page

LEMMA QdrantGetAllMoves ==
    ASSUME Inv, NEW b \in Callers, backend = "qdrant", Connected, QdrantGetAll(b)
    PROVE  Moves(b)
<1> DEFINE S == {d \in Matching(b) : cursor[b] # None => d >= cursor[b]}
           n == Limit(b)
           page == FirstOf(n, S)
           next == IF Len(page) >= n THEN Last(page) ELSE None
<1>1. Doing(b, "getAll", "command") /\ Page(b, page, next)
  BY DEF QdrantGetAll
<1>2. n \in Nat \ {0} /\ S \in SUBSET Ids /\ TypeOK /\ Ids \subseteq Nat
  BY LimitType, CallsAssumption DEF Inv, Matching
<1>3. /\ IsPage(page, n, S) /\ page \in Seq(Ids)
      /\ \A i \in 1..Len(page) : page[i] \in S
  BY <1>2, ListedPage
<1>4. cursor[b] \in Ids \cup {None} /\ None \notin Ids
  BY <1>2, CallsAssumption DEF TypeOK
<1>5. \A d \in Matching(b) : (cursor[b] # None => ~ (d <= cursor[b])) => d \in S
  <2> SUFFICES ASSUME NEW d \in Matching(b), cursor[b] # None, ~ (d <= cursor[b])
               PROVE  d >= cursor[b]
    OBVIOUS
  <2>1. d \in Nat /\ cursor[b] \in Nat
    BY <1>2, <1>4 DEF Matching
  <2> QED
    BY <2>1
<1>6. \A d \in S : cursor[b] # None => cursor[b] <= d
  BY <1>2, <1>4
<1> HIDE DEF S, n, page
<1>7. next = None \/ (page # <<>> /\ Len(page) = n /\ next = page[Len(page)] /\ next \in Ids)
  <2>1. CASE Len(page) >= n
    <3>1. page # <<>> /\ Len(page) = n /\ Len(page) \in 1..Len(page)
      BY <1>2, <1>3, <2>1 DEF IsPage
    <3>2. page[Len(page)] \in Ids
      BY <1>3, <3>1, ElementOfSeq
    <3> QED
      BY <2>1, <3>1, <3>2 DEF Last
  <2>2. CASE ~ (Len(page) >= n)
    BY <2>2
  <2> QED
    BY <2>1, <2>2
<1>8. next = None => Len(page) < n
  <2> SUFFICES ASSUME Len(page) >= n PROVE next # None
    BY <1>2, <1>3
  <2>1. page # <<>> /\ Len(page) \in 1..Len(page)
    BY <1>2, <1>3
  <2>2. page[Len(page)] \in Ids
    BY <1>3, <2>1, ElementOfSeq
  <2> QED
    BY <1>4, <2>2 DEF Last
<1> HIDE DEF next
<1>9. ASSUME NEW d \in S, next = None \/ d <= next
      PROVE  \E i \in 1..Len(page) : page[i] = d
  BY <1>3, <1>7, <1>8, <1>9 DEF IsPage
<1>10. CursorPage(b, page, next)
  <2>1. next # None => page # <<>> /\ next = page[Len(page)] /\ Len(page) = Limit(b)
    BY <1>7 DEF n
  <2>2. \A i, j \in 1..Len(page) : i < j => page[i] < page[j]
    BY <1>3 DEF IsPage
  <2>3. \A i \in 1..Len(page) : cursor[b] # None => cursor[b] <= page[i]
    BY <1>3, <1>6
  <2> QED
    BY <1>5, <1>9, <2>1, <2>2, <2>3 DEF CursorPage
<1> QED
  BY <1>1, <1>3, <1>7, <1>10, WalkMoves

\* The page that DeleteAll scrolls, and what it then knows.
LEMMA QdrantScrollMoves ==
    ASSUME Inv, NEW b \in Callers, backend = "qdrant", Connected, QdrantScroll(b)
    PROVE  Moves(b)
<1> DEFINE page == FirstOf(ServerPage, Matching(b))
<1>1. TypeOK /\ CallerInv(b) /\ pc[b] = "command" /\ call[b].op = "deleteAll" /\ InProgress(b)
  BY DEF Inv, QdrantScroll, Doing, InProgress, Rest
<1>2. page \in Seq(Ids)
  BY ListedPage, CallsAssumption DEF Matching
<1>3. /\ listed' = [listed EXCEPT ![b] = page]
      /\ pc' = [pc EXCEPT ![b] = IF page = <<>> THEN "done" ELSE "delete"]
      /\ UNCHANGED <<backend, name, collection, points, updates, calls, call, cursor, results>>
      /\ UNCHANGED <<before, touched>>
  BY DEF QdrantScroll, serverVars, historyVars
<1> HIDE DEF page
<1>4. /\ pc' \in [Callers -> Places] /\ pc'[b] \in {"done", "delete"}
      /\ \A c \in Callers \ {b} : pc'[c] = pc[c]
  BY <1>1, <1>3 DEF TypeOK, Places, Rest
<1>5. OwnEntries(b) /\ Still
  BY <1>1, <1>2, <1>3, <1>4 DEF OwnEntries, TypeOK, Reports, Still
<1>6. results[b] = <<>>
  BY <1>1 DEF CallerInv, GetsThere
<1>7. CallerInv(b)'
  BY <1>1, <1>3, <1>4, <1>6 DEF CallerInv, GetsThere, StaysThere, UpToCursor, InSequence,
     AllGiven, Walked, AddHeld, ReportsTrue, FitsCollection
<1> QED
  BY <1>1, <1>3, <1>4, <1>5, <1>7, StillMoves DEF Rest

\* What the contract allows each operation.
LEMMA AddEffect ==
    ASSUME NEW r, r.op = "add"
    PROVE  [d \in Ids |-> IF d = r.id THEN r.content ELSE Accepted[d]] \in Contract!Effects(r)
BY DEF Contract!Effects

LEMMA DeleteEffect ==
    ASSUME NEW r, r.op = "delete"
    PROVE  [d \in Ids |-> IF d = r.id THEN "absent" ELSE Accepted[d]] \in Contract!Effects(r)
BY DEF Contract!Effects

LEMMA DeleteAllEffect ==
    ASSUME NEW r, r.op = "deleteAll",
           NEW S \in SUBSET {d \in Ids : Contract!Selected(r, Accepted[d])}
    PROVE  [d \in Ids |-> IF d \in S THEN "absent" ELSE Accepted[d]] \in Contract!Effects(r)
BY DEF Contract!Effects

LEMMA DeleteNamespaceEffect ==
    ASSUME NEW r, r.op = "deleteNamespace"
    PROVE  [d \in Ids |-> "absent"] \in Contract!Effects(r)
BY DEF Contract!Effects

LEMMA QdrantAddMoves ==
    ASSUME Inv, NEW b \in Callers, backend = "qdrant", Connected, QdrantAdd(b)
    PROVE  Moves(b)
<1> DEFINE u == [by |-> b, kind |-> "upsert", ids |-> {call[b].id}, content |-> call[b].content]
<1>1. /\ TypeOK /\ pc[b] = "command" /\ call[b].op = "add" /\ call[b].id # None
      /\ Accept(b, u, "applying") /\ results' = results
  BY DEF Inv, QdrantAdd, Doing
<1>2. call[b].id \in Ids /\ call[b].content \in Contents
  BY <1>1 DEF TypeOK, Requests, Contents
<1>3. u \in Updates
  BY <1>2 DEF Updates
<1>4. /\ u.by = b /\ u.kind = "upsert" /\ u.ids = {call[b].id} /\ u.content = call[b].content
  OBVIOUS
<1> HIDE DEF u
<1>5. Updated(Accepted, u) = [d \in Ids |-> IF d = call[b].id THEN call[b].content ELSE Accepted[d]]
  BY <1>4 DEF Updated, AffectedIn
<1>6. Updated(Accepted, u) \in Contract!Effects(call[b])
  BY <1>1, <1>5, AddEffect
<1>7. InProgress(b) /\ call' = call
  BY <1>1 DEF InProgress, Rest, Accept
<1>8. ReportsTrue(b)'
  BY <1>1, <1>7 DEF ReportsTrue
<1>9. results' \in [Callers -> Reports]
  BY <1>1 DEF TypeOK, Reports
<1> QED
  BY <1>1, <1>2, <1>3, <1>4, <1>6, <1>7, <1>8, <1>9, AcceptMoves

LEMMA QdrantDeleteMoves ==
    ASSUME Inv, NEW b \in Callers, backend = "qdrant", Connected, QdrantDelete(b)
    PROVE  Moves(b)
<1> DEFINE u == [by |-> b, kind |-> "ids", ids |-> {call[b].id}, content |-> "absent"]
<1>1. /\ TypeOK /\ pc[b] = "command" /\ call[b].op = "delete" /\ call[b].id # None
      /\ results' = results
  BY DEF Inv, QdrantDelete, Doing
<1>2. PICK outcome \in {"done", "failed"} : Accept(b, u, outcome)
  BY DEF QdrantDelete, Outcome
<1>3. call[b].id \in Ids
  BY <1>1 DEF TypeOK, Requests
<1>4. u \in Updates
  BY <1>3 DEF Updates, Contents
<1>5. u.by = b /\ u.kind = "ids" /\ u.ids = {call[b].id} /\ u.content = "absent"
  OBVIOUS
<1> HIDE DEF u
<1>6. Updated(Accepted, u) = [d \in Ids |-> IF d = call[b].id THEN "absent" ELSE Accepted[d]]
  BY <1>5 DEF Updated, AffectedIn
<1>7. Updated(Accepted, u) \in Contract!Effects(call[b])
  BY <1>1, <1>6, DeleteEffect
<1>8. InProgress(b) /\ call' = call
  BY <1>1, <1>2 DEF InProgress, Rest, Accept
<1>9. ReportsTrue(b)'
  BY <1>1, <1>8 DEF ReportsTrue
<1>10. results' \in [Callers -> Reports]
  BY <1>1 DEF TypeOK, Reports
<1> QED
  BY <1>1, <1>2, <1>4, <1>5, <1>7, <1>8, <1>9, <1>10, AcceptMoves

\* The reports on a list of entries.
LEMMA AllReports ==
    ASSUME NEW ids \in Seq(Ids), NEW status \in {"success", "error"}
    PROVE  /\ All(status, ids) \in Reports /\ DOMAIN All(status, ids) = 1..Len(ids)
           /\ \A i \in 1..Len(ids) : All(status, ids)[i].id = ids[i]
                                    /\ All(status, ids)[i].status = status
<1>1. DOMAIN ids = 1..Len(ids) /\ Len(ids) \in Nat /\ \A i \in 1..Len(ids) : ids[i] \in Ids
  BY ElementOfSeq
<1>2. All(status, ids) = [i \in 1..Len(ids) |-> [id |-> ids[i], status |-> status]]
  BY <1>1 DEF All
<1> QED
  BY <1>1, <1>2 DEF Reports

\* A DeleteAll whose delete fails reports every entry as kept.
LEMMA ReportsErrors ==
    ASSUME Inv, NEW b \in Callers, Connected, call[b].op = "deleteAll",
           pc[b] = "delete", pc' = [pc EXCEPT ![b] = "done"],
           results' = [results EXCEPT ![b] = All("error", listed[b])],
           UNCHANGED <<backend, name, serverVars, calls, call, walkVars, historyVars>>
    PROVE  Moves(b)
<1>1. TypeOK /\ listed[b] \in Seq(Ids)
  BY DEF Inv, TypeOK
<1>2. /\ UNCHANGED <<backend, name, collection, points, updates, calls, call, cursor, listed>>
      /\ UNCHANGED <<before, touched>>
  BY DEF serverVars, walkVars, historyVars
<1>3. /\ All("error", listed[b]) \in Reports
      /\ DOMAIN All("error", listed[b]) = 1..Len(listed[b])
      /\ \A i \in 1..Len(listed[b]) : All("error", listed[b])[i].status = "error"
  BY <1>1, AllReports
<1>4. /\ results' \in [Callers -> Reports] /\ results'[b] = All("error", listed[b])
      /\ \A c \in Callers \ {b} : results'[c] = results[c]
  BY <1>1, <1>3 DEF TypeOK, Reports
<1>5. /\ pc' \in [Callers -> Places] /\ pc'[b] = "done" /\ \A c \in Callers \ {b} : pc'[c] = pc[c]
  BY <1>1 DEF TypeOK, Places, Rest
<1>6. OwnEntries(b) /\ Still
  BY <1>1, <1>2, <1>4, <1>5 DEF OwnEntries, TypeOK, Still
<1>7. ReportsTrue(b)'
  <2>1. \A i \in DOMAIN results'[b] : results'[b][i].status # "success"
    BY <1>3, <1>4
  <2> QED
    BY <2>1 DEF ReportsTrue
<1>8. CallerInv(b)'
  BY <1>2, <1>5, <1>7 DEF CallerInv, GetsThere, StaysThere, UpToCursor, InSequence,
     AllGiven, Walked, AddHeld, FitsCollection, InProgress, Rest
<1>9. InProgress(b)
  BY DEF InProgress, Rest
<1> QED
  BY <1>2, <1>5, <1>6, <1>8, <1>9, StillMoves DEF Rest

LEMMA QdrantDeleteSelectedMoves ==
    ASSUME Inv, NEW b \in Callers, backend = "qdrant", Connected, QdrantDeleteSelected(b)
    PROVE  Moves(b)
<1> DEFINE kind == CASE call[b].sent = "all" -> "filter"
                     [] call[b].sent = "some" -> "weaker filter"
                     [] call[b].sent = "none" -> "ids"
           u == [by |-> b, kind |-> kind,
                 ids |-> IF call[b].sent = "none" THEN ToSet(listed[b]) ELSE {},
                 content |-> "absent"]
<1>0. call[b].sent \in {"all", "some", "none"}
  BY DEF Inv, TypeOK, Requests
<1>1. /\ TypeOK /\ pc[b] = "delete" /\ call[b].op = "deleteAll" /\ listed[b] \in Seq(Ids)
      /\ Accept(b, u, "done") /\ Accepted \in [Ids -> Contents]
  BY AcceptedType DEF Inv, TypeOK, QdrantDeleteSelected, Doing
<1>2. PICK status \in {"success", "error"} : results' = [results EXCEPT ![b] = All(status, listed[b])]
  BY DEF QdrantDeleteSelected
<1>3. DOMAIN listed[b] = 1..Len(listed[b]) /\ \A i \in 1..Len(listed[b]) : listed[b][i] \in Ids
  <2> HIDE DEF u
  <2>1. listed[b] \in Seq(Ids)
    BY <1>1
  <2> QED
    BY <2>1, ElementOfSeq
<1>4. ToSet(listed[b]) \subseteq Ids /\ \A i \in 1..Len(listed[b]) : listed[b][i] \in ToSet(listed[b])
  BY <1>3 DEF ToSet
<1>5. u \in Updates
  BY <1>0, <1>4 DEF Updates, Contents
<1>6. /\ u.by = b /\ u.content = "absent"
      /\ call[b].sent = "all" => u.kind = "filter" /\ u.ids = {}
      /\ call[b].sent = "some" => u.kind = "weaker filter" /\ u.ids = {}
      /\ call[b].sent = "none" => u.kind = "ids" /\ u.ids = ToSet(listed[b])
      /\ u.kind \in {"ids", "filter", "weaker filter"}
  BY <1>0
<1> HIDE DEF u
<1> DEFINE S == {d \in AffectedIn(Accepted, u) : Accepted[d] # "absent"}
<1>7. \A d \in AffectedIn(Accepted, u) : d \in Ids /\ (call[b].sent = "all" => Accepted[d] = "match")
  BY <1>0, <1>4, <1>6 DEF AffectedIn
<1>8. S \in SUBSET {d \in Ids : Contract!Selected(call[b], Accepted[d])}
  BY <1>1, <1>7 DEF Contract!Selected, Contents
<1>9. Updated(Accepted, u) = [d \in Ids |-> IF d \in S THEN "absent" ELSE Accepted[d]]
  BY <1>6 DEF Updated
<1>10. Updated(Accepted, u) \in Contract!Effects(call[b])
  <2> HIDE DEF S
  <2> QED
    BY <1>1, <1>8, <1>9, DeleteAllEffect
<1>11. /\ InProgress(b) /\ call' = call /\ pc[b] # "applying"
       /\ Accepted' = Updated(Accepted, u)
  <2>1. updates' = Append(updates, u) /\ points' = points /\ call' = call
    BY <1>1 DEF Accept
  <2>2. Accepted' = Updated(Accepted, u)
    BY <1>1, <1>5, <2>1, AcceptAppends DEF TypeOK
  <2> QED
    BY <1>1, <2>1, <2>2 DEF InProgress, Rest
<1>12. /\ All(status, listed[b]) \in Reports
       /\ DOMAIN All(status, listed[b]) = 1..Len(listed[b])
       /\ \A i \in 1..Len(listed[b]) : All(status, listed[b])[i].id = listed[b][i]
  BY <1>1, AllReports
<1>13. /\ results' \in [Callers -> Reports] /\ results'[b] = All(status, listed[b])
       /\ \A c \in Callers \ {b} : results'[c] = results[c]
  BY <1>1, <1>2, <1>12 DEF TypeOK, Reports
<1>14. ASSUME NEW i \in 1..Len(listed[b])
       PROVE  /\ Accepted'[listed[b][i]] # "match"
              /\ call[b].sent # "all" => Accepted'[listed[b][i]] = "absent"
  <2>1. listed[b][i] \in Ids /\ listed[b][i] \in ToSet(listed[b])
    BY <1>3, <1>4
  <2>2. CASE call[b].sent = "all"
    BY <1>6, <1>11, <2>1, <2>2 DEF Updated, AffectedIn
  <2>3. CASE call[b].sent = "some"
    BY <1>1, <1>6, <1>11, <2>1, <2>3 DEF Updated, AffectedIn
  <2>4. CASE call[b].sent = "none"
    BY <1>6, <1>11, <2>1, <2>4 DEF Updated, AffectedIn
  <2> QED
    BY <1>0, <2>2, <2>3, <2>4
<1>15. ReportsTrue(b)'
  BY <1>11, <1>12, <1>13, <1>14 DEF ReportsTrue
<1> QED
  BY <1>1, <1>5, <1>6, <1>10, <1>11, <1>13, <1>15, AcceptMoves

\* The collection is dropped with everything in it and waiting for it.
LEMMA QdrantDropMoves ==
    ASSUME Inv, NEW b \in Callers, backend = "qdrant", Connected,
           Doing(b, "deleteNamespace", "drop"), QdrantDeleteNamespace(b)
    PROVE  Moves(b)
<1>1. TypeOK /\ pc[b] = "drop" /\ call[b].op = "deleteNamespace"
  BY DEF Inv, Doing
<1>2. /\ collection' = None /\ points' = Without(Ids) /\ updates' = <<>> /\ Touch(b, Ids)
      /\ \E outcome \in {"done", "failed"} : pc' = [pc EXCEPT ![b] = outcome]
      /\ UNCHANGED <<backend, name, calls, call, cursor, listed, results, before>>
  BY <1>1 DEF QdrantDeleteNamespace, Doing, Outcome, walkVars
<1>3. /\ pc' \in [Callers -> Places] /\ pc'[b] \in {"done", "failed"}
      /\ \A c \in Callers \ {b} : pc'[c] = pc[c]
  BY <1>1, <1>2 DEF TypeOK, Places, Rest
<1>4. OwnEntries(b) /\ Drops(b)
  BY <1>1, <1>2, <1>3 DEF OwnEntries, TypeOK, Reports, Drops
<1>5. Accepted' = points' /\ points' = [d \in Ids |-> "absent"]
  BY <1>2, AppliedChainNext DEF Accepted, AppliedIsChain, Without
<1>6. Effective(b)
  BY <1>1, <1>3, <1>5, DeleteNamespaceEffect DEF Effective, InProgress, Rest
<1>7. CallerInv(b)'
  BY <1>1, <1>2, <1>3 DEF CallerInv, GetsThere, StaysThere, UpToCursor, InSequence, AllGiven,
     Walked, AddHeld, ReportsTrue, FitsCollection, InProgress, Rest
<1> QED
  BY <1>2, <1>4, <1>6, <1>7 DEF Moves, Serves, Collects, Connected, Collections

LEMMA QdrantStepMoves ==
    ASSUME Inv, NEW b \in Callers, backend = "qdrant", QdrantStep(b), UNCHANGED connVars
    PROVE  Moves(b)
<1>1. TypeOK /\ CallerInv(b)
  BY DEF Inv
<1>2. Connected
  BY <1>1 DEF Connected, TypeOK, QdrantStep, QdrantClose
<1> DEFINE Busy == {"command", "applying", "delete", "inspect", "create", "drop"}
<1>3. \A p \in Busy : pc[b] = p => InProgress(b)
  BY DEF InProgress, Rest
<1>4. ASSUME NEW p \in {"failed", "unverified"}, InProgress(b), Goto(b, p) PROVE Moves(b)
  BY <1>2, <1>4, GivesUp
<1>5. ASSUME NEW p \in {"create", "inspect", "drop"}, Goto(b, p),
             Doing(b, "createNamespace", "command") \/ Doing(b, "deleteNamespace", "command")
      PROVE  Moves(b)
  <2>1. InProgress(b) /\ pc[b] # "applying"
    BY <1>3, <1>5 DEF Doing
  <2>2. p \in Places \ (Rest \cup {"applying"})
    BY DEF Places, Rest
  <2>3. pc'[b] = p /\ call' = call
    BY <1>1, <2>2, <1>5, GotoOwn DEF Goto
  <2>4. GetsThere(b)'
    BY <1>5, <2>3 DEF GetsThere, Doing
  <2> QED
    BY <1>2, <1>5, <2>1, <2>2, <2>4, GoesOn
<1>6. ASSUME Goto(b, "done"), InProgress(b), call[b].op \notin {"add", "getAll"}, FitsCollection(b)'
      PROVE  Moves(b)
  BY <1>2, <1>6, GetsDone
<1>7. CASE QdrantClose(b)
  <2>1. Goto(b, "done") /\ call[b].op = "close" /\ InProgress(b) /\ call' = call
    BY <1>3, <1>7 DEF QdrantClose, Doing, Goto
  <2>2. FitsCollection(b)'
    BY <2>1 DEF FitsCollection
  <2> QED
    BY <1>6, <2>1, <2>2
<1>8. CASE InvalidId(b, "command") \/ UpsertLost(b)
  <2>1. Goto(b, "failed") /\ InProgress(b)
    BY <1>3, <1>8 DEF InvalidId, UpsertLost, Doing
  <2> QED
    BY <1>4, <2>1
<1>9. CASE QdrantRefuses(b)
  <2>1. CASE pc[b] = "delete"
    <3>1. QdrantDeleteReported(b)
      BY <1>9, <2>1 DEF QdrantRefuses
    <3>2. call[b].op = "deleteAll"
      BY <1>1, <2>1 DEF CallerInv, GetsThere
    <3> QED
      BY <1>2, <2>1, <3>1, <3>2, ReportsErrors DEF QdrantDeleteReported
  <2>2. CASE pc[b] # "delete"
    <3>1. Goto(b, "failed") /\ InProgress(b)
      BY <1>3, <1>9, <2>2 DEF QdrantRefuses, Doing
    <3> QED
      BY <1>4, <3>1
  <2> QED
    BY <2>1, <2>2
<1>10. CASE QdrantAdd(b)
  BY <1>2, <1>10, QdrantAddMoves
<1>11. CASE QdrantDelete(b)
  BY <1>2, <1>11, QdrantDeleteMoves
<1>12. CASE QdrantGetAll(b)
  BY <1>2, <1>12, QdrantGetAllMoves
<1>13. CASE QdrantScroll(b)
  BY <1>2, <1>13, QdrantScrollMoves
<1>14. CASE QdrantDeleteSelected(b)
  BY <1>2, <1>14, QdrantDeleteSelectedMoves
<1>15. CASE CollectionExists(b)
  BY <1>5, <1>15 DEF CollectionExists
<1>16. CASE GetCollectionInfo(b)
  <2>1. call[b].op = "createNamespace" /\ InProgress(b)
    BY <1>3, <1>16 DEF GetCollectionInfo, Doing
  <2>2. CASE Goto(b, "failed") \/ Goto(b, "unverified")
    BY <1>4, <2>1, <2>2
  <2>3. CASE Goto(b, "done") /\ collection = call[b].dim
    <3>1. FitsCollection(b)'
      BY <2>3 DEF FitsCollection, Goto, serverVars
    <3> QED
      BY <1>6, <2>1, <2>3, <3>1
  <2> QED
    BY <1>16, <2>2, <2>3 DEF GetCollectionInfo
<1>17. CASE CreateCollection(b)
  <2>1. call[b].op = "createNamespace" /\ InProgress(b)
    BY <1>3, <1>17 DEF CreateCollection, Doing
  <2>2. CASE collection = None
    <3>1. collection' = call[b].dim /\ Command(b, points, "done") /\ UNCHANGED results
      BY <1>17, <2>2 DEF CreateCollection
    <3>2. call' = call /\ call[b].dim \in Dimensions
      BY <1>1, <3>1 DEF Command, TypeOK, Requests
    <3>3. FitsCollection(b)'
      BY <3>1, <3>2 DEF FitsCollection
    <3> QED
      BY <1>2, <2>1, <2>2, <3>1, <3>2, <3>3, SameMoves DEF Collections
  <2>3. CASE collection # None
    BY <1>4, <1>17, <2>1, <2>3 DEF CreateCollection
  <2> QED
    BY <2>2, <2>3
<1>18. CASE QdrantDeleteNamespace(b)
  <2>1. CASE Doing(b, "deleteNamespace", "drop")
    BY <1>2, <1>18, <2>1, QdrantDropMoves
  <2>2. CASE Doing(b, "deleteNamespace", "command") /\ Goto(b, "done")
    <3>1. call[b].op = "deleteNamespace" /\ InProgress(b) /\ call' = call
      BY <1>3, <2>2 DEF Doing, Goto
    <3>2. FitsCollection(b)'
      BY <3>1 DEF FitsCollection
    <3> QED
      BY <1>6, <2>2, <3>1, <3>2
  <2>3. CASE Doing(b, "deleteNamespace", "command") /\ Goto(b, "drop")
    BY <1>5, <2>3
  <2> QED
    BY <1>18, <2>1, <2>2, <2>3 DEF QdrantDeleteNamespace
<1> QED
  BY <1>7, <1>8, <1>9, <1>10, <1>11, <1>12, <1>13, <1>14, <1>15, <1>16, <1>17, <1>18 DEF QdrantStep

\* A command that fails is a call that gives up.
LEMMA FailMoves ==
    ASSUME Inv, NEW b \in Callers, NEW phases, phases \cap Rest = {}, CommandFails(b, phases), Connected
    PROVE  Moves(b)
<1>1. Goto(b, "failed") /\ InProgress(b)
  BY DEF CommandFails, Goto, InProgress
<1> QED
  BY <1>1, GivesUp

LEMMA QdrantFailsMoves ==
    ASSUME Inv, NEW b \in Callers, backend = "qdrant", QdrantFails(b),
           UNCHANGED connVars, UNCHANGED clientOpen
    PROVE  Moves(b)
<1>1. Connected
  BY DEF Connected, Inv, TypeOK
<1>2. CASE CommandFails(b, {"command", "create", "drop", "applying"})
  BY <1>1, <1>2, FailMoves DEF Rest
<1>3. CASE QdrantDeleteFails(b)
  BY <1>1, <1>3, ReportsErrors DEF QdrantDeleteFails, QdrantDeleteReported, Doing
<1> QED
  BY <1>2, <1>3 DEF QdrantFails

-------------------------------------------------------------------------------
(* Weaviate.                                                                  *)

\* A server that carries a command out at once has nothing waiting after it.
LEMMA DoneAtOnce ==
    ASSUME Inv, backend \in {"weaviate", "pinecone"}, NEW b \in Callers,
           NEW after, NEW outcome, Command(b, after, outcome)
    PROVE  Accepted' = after /\ call' = call /\ touched' \in [Callers -> SUBSET Ids]
<1>1. updates' = <<>> /\ points' = after /\ call' = call
  BY AtOnce DEF Command
<1>2. touched' \in [Callers -> SUBSET Ids]
  BY DEF Command, Touch, Inv, TypeOK
<1> QED
  BY <1>1, <1>2, AppliedChainNext DEF Accepted, AppliedIsChain

\* What lists some entries.
LEMMA InOrderListed ==
    ASSUME NEW S \in SUBSET Ids
    PROVE  /\ InOrder(S) \in Seq(Ids) /\ IsFiniteSet(S)
           /\ Len(InOrder(S)) = Cardinality(S) /\ Cardinality(S) \in Nat
           /\ \A i \in 1..Len(InOrder(S)) : InOrder(S)[i] \in S
           /\ \A d \in S : \E i \in 1..Len(InOrder(S)) : InOrder(S)[i] = d
           /\ \A i, j \in 1..Len(InOrder(S)) : i < j => InOrder(S)[i] < InOrder(S)[j]
<1>1. S \in SUBSET Int /\ IsFiniteSet(S)
  <2>1. Ids \subseteq Nat /\ IsFiniteSet(Ids)
    BY CallsAssumption
  <2>2. IsFiniteSet(S)
    BY <2>1, FS_Subset
  <2> QED
    BY <2>1, <2>2
<1> DEFINE s == InOrder(S)
<1>2. /\ s \in Seq(S) /\ Len(s) = Cardinality(S) /\ Cardinality(S) \in Nat
      /\ \A d \in S : \E i \in 1..Len(s) : s[i] = d
      /\ \A i, j \in 1..Len(s) : i < j => s[i] < s[j]
  BY <1>1, InOrderSorts
<1> HIDE DEF s
<1>3. s \in Seq(Ids)
  BY <1>2
<1>4. \A i \in 1..Len(s) : s[i] \in S
  BY <1>2, ElementOfSeq
<1> QED
  BY <1>1, <1>2, <1>3, <1>4 DEF s

LEMMA WeaviateGetAllMoves ==
    ASSUME Inv, NEW b \in Callers, backend = "weaviate", Connected, WeaviateGetAll(b),
           ~ Goto(b, "unverified")
    PROVE  Moves(b)
<1> DEFINE S == {d \in Matching(b) : cursor[b] # None => d > cursor[b]}
           n == call[b].limit
           page == FirstOf(n, S)
           next == IF page = <<>> THEN None ELSE Last(page)
<1>1. Doing(b, "getAll", "command") /\ Page(b, page, next)
  BY DEF WeaviateGetAll
<1>2. /\ n \in Nat \ {0} /\ S \in SUBSET Ids /\ TypeOK /\ Ids \subseteq Nat
      /\ cursor[b] \in Ids \cup {None} /\ None \notin Ids
  <2>1. TypeOK /\ GetsThere(b) /\ InProgress(b)
    BY <1>1 DEF Inv, CallerInv, Doing, InProgress, Rest
  <2>2. n \in Nat /\ n > 0
    BY <1>1, <2>1, CallsAssumption DEF TypeOK, Requests, GetsThere, Doing
  <2>3. S \in SUBSET Ids
    BY DEF Matching
  <2>4. cursor[b] \in Ids \cup {None} /\ None \notin Ids /\ Ids \subseteq Nat
    BY <2>1, CallsAssumption DEF TypeOK
  <2> HIDE DEF S, n
  <2>5. n \in Nat \ {0}
    BY <2>2
  <2> QED
    BY <2>1, <2>3, <2>4, <2>5
<1>3. /\ IsPage(page, n, S) /\ page \in Seq(Ids)
      /\ \A i \in 1..Len(page) : page[i] \in S
  BY <1>2, ListedPage
<1>4. \A d \in Matching(b) : (cursor[b] # None => ~ (d <= cursor[b])) => d \in S
  <2> SUFFICES ASSUME NEW d \in Matching(b), cursor[b] # None, ~ (d <= cursor[b])
               PROVE  d > cursor[b]
    OBVIOUS
  <2>1. d \in Nat /\ cursor[b] \in Nat
    BY <1>2 DEF Matching
  <2> QED
    BY <2>1
<1>5. \A d \in S : cursor[b] # None => cursor[b] < d /\ cursor[b] <= d
  <2> SUFFICES ASSUME NEW d \in Matching(b), cursor[b] # None, d > cursor[b]
               PROVE  cursor[b] < d /\ cursor[b] <= d
    OBVIOUS
  <2>1. d \in Nat /\ cursor[b] \in Nat
    BY <1>2 DEF Matching
  <2> QED
    BY <2>1
<1> HIDE DEF S, n, page
<1>6. \/ next = None /\ page = <<>>
      \/ page # <<>> /\ next = page[Len(page)] /\ next \in Ids /\ next # None
  <2>1. CASE page # <<>>
    <3>1. Len(page) \in 1..Len(page)
      BY <1>3, <2>1
    <3>2. page[Len(page)] \in Ids
      BY <1>3, <3>1, ElementOfSeq
    <3> QED
      BY <1>2, <2>1, <3>2 DEF Last
  <2>2. CASE page = <<>>
    BY <2>2
  <2> QED
    BY <2>1, <2>2
<1> HIDE DEF next
<1>7. ASSUME NEW d \in S, next = None \/ d <= next
      PROVE  \E i \in 1..Len(page) : page[i] = d
  BY <1>3, <1>6, <1>7 DEF IsPage
<1>8. CursorPage(b, page, next)
  <2>1. next # None => page # <<>> /\ next = page[Len(page)]
    BY <1>6
  <2>2. \A i, j \in 1..Len(page) : i < j => page[i] < page[j]
    BY <1>3 DEF IsPage
  <2>3. \A i \in 1..Len(page) : cursor[b] # None => cursor[b] <= page[i] /\ cursor[b] < page[i]
    BY <1>3, <1>5
  <2> QED
    BY <1>4, <1>7, <2>1, <2>2, <2>3 DEF CursorPage
<1> QED
  BY <1>1, <1>3, <1>6, <1>8, WalkMoves

LEMMA WeaviateAddMoves ==
    ASSUME Inv, NEW b \in Callers, backend = "weaviate", Connected, WeaviateAdd(b)
    PROVE  Moves(b)
<1> DEFINE r == call[b]
<1>1. /\ TypeOK /\ pc[b] = "command" /\ r.op = "add" /\ r.id # None /\ InProgress(b)
      /\ r.id \in Ids /\ r.content \in Contents
  BY DEF Inv, TypeOK, WeaviateAdd, Doing, InProgress, Rest, Requests, Contents
<1>2. CASE points[r.id] = "absent"
  <2> DEFINE after == [points EXCEPT ![r.id] = r.content]
  <2>1. PICK outcome \in {"done", "failed"} : Command(b, after, outcome)
    BY <1>2 DEF WeaviateAdd, Outcome
  <2>2. results' = results /\ collection' = collection
    BY <1>2 DEF WeaviateAdd
  <2>3. after = [d \in Ids |-> IF d = r.id THEN r.content ELSE Accepted[d]]
    BY <1>1, AtOnce DEF TypeOK
  <2>4. after \in [Ids -> Contents] /\ after[r.id] = r.content
    BY <1>1 DEF TypeOK
  <2>5. after \in Contract!Effects(r)
    BY <1>1, <2>3, AddEffect
  <2>6. ReportsTrue(b)'
    <3>1. call' = call
      BY <2>1 DEF Command
    <3> QED
      BY <1>1, <3>1 DEF ReportsTrue
  <2>7. results' \in [Callers -> Reports] /\ collection' \in Collections
    BY <1>1, <2>2 DEF TypeOK, Reports
  <2> HIDE DEF after
  <2> QED
    BY <1>1, <2>1, <2>2, <2>4, <2>5, <2>6, <2>7, CommandMoves
<1>3. CASE points[r.id] # "absent"
  BY <1>1, <1>3, GivesUp DEF WeaviateAdd
<1> QED
  BY <1>2, <1>3

\* A command that takes entries away, with nothing to report.
LEMMA RemovesMoves ==
    ASSUME Inv, NEW b \in Callers, backend \in {"weaviate", "pinecone"}, InProgress(b), Connected,
           NEW S \in SUBSET Ids, NEW outcome \in {"done", "failed"},
           Command(b, Without(S), outcome), UNCHANGED results,
           collection' \in Collections,
           [d \in Ids |-> IF d \in S THEN "absent" ELSE Accepted[d]] \in Contract!Effects(call[b]),
           call[b].op \in {"delete", "deleteAll", "deleteNamespace"}
    PROVE  Moves(b)
<1>1. TypeOK /\ GetsThere(b)
  BY DEF Inv, CallerInv
<1>2. Without(S) = [d \in Ids |-> IF d \in S THEN "absent" ELSE Accepted[d]]
  BY AtOnce DEF Without
<1>3. Without(S) \in [Ids -> Contents]
  BY <1>1 DEF Without, TypeOK, Contents
<1>4. ReportsTrue(b)'
  <2>1. call' = call
    BY DEF Command
  <2>2. call[b].op = "deleteAll" => results'[b] = <<>>
    BY <1>1 DEF GetsThere
  <2> QED
    BY <2>1, <2>2 DEF ReportsTrue
<1>5. results' \in [Callers -> Reports]
  BY <1>1 DEF TypeOK, Reports
<1> QED
  BY <1>2, <1>3, <1>4, <1>5, CommandMoves

\* The delete of one entry.
LEMMA DeletesOne ==
    ASSUME Inv, NEW b \in Callers, backend \in {"weaviate", "pinecone"}, InProgress(b), Connected,
           call[b].op = "delete", call[b].id # None, NEW outcome \in {"done", "failed"},
           Command(b, Without({call[b].id}), outcome), UNCHANGED <<collection, results>>
    PROVE  Moves(b)
<1> DEFINE S == {call[b].id}
<1>1. TypeOK /\ S \in SUBSET Ids
  BY DEF Inv, TypeOK, Requests
<1>2. [d \in Ids |-> IF d \in S THEN "absent" ELSE Accepted[d]] \in Contract!Effects(call[b])
  <2>1. [d \in Ids |-> IF d \in S THEN "absent" ELSE Accepted[d]]
           = [d \in Ids |-> IF d = call[b].id THEN "absent" ELSE Accepted[d]]
    OBVIOUS
  <2> QED
    BY <2>1, DeleteEffect
<1>3. collection' \in Collections
  BY <1>1 DEF TypeOK
<1>4. Command(b, Without(S), outcome)
  OBVIOUS
<1> HIDE DEF S
<1> QED
  BY <1>1, <1>2, <1>3, <1>4, RemovesMoves

\* The delete of all of them.
LEMMA DeletesNamespace ==
    ASSUME Inv, NEW b \in Callers, backend \in {"weaviate", "pinecone"}, InProgress(b), Connected,
           call[b].op = "deleteNamespace", NEW outcome \in {"done", "failed"},
           Command(b, Without(Ids), outcome), UNCHANGED results,
           collection' \in Collections
    PROVE  Moves(b)
<1>1. [d \in Ids |-> IF d \in Ids THEN "absent" ELSE Accepted[d]] \in Contract!Effects(call[b])
  <2>1. [d \in Ids |-> IF d \in Ids THEN "absent" ELSE Accepted[d]] = [d \in Ids |-> "absent"]
    OBVIOUS
  <2> QED
    BY <2>1, DeleteNamespaceEffect
<1>2. Ids \in SUBSET Ids
  OBVIOUS
<1> QED
  BY <1>1, <1>2, RemovesMoves

\* What a DeleteAll takes away is of entries that match.
LEMMA MatchingEffect ==
    ASSUME Inv, backend \in {"weaviate", "pinecone"}, NEW b \in Callers,
           call[b].op = "deleteAll", NEW S \in SUBSET Ids,
           \A d \in S : d \in Matching(b) \/ points[d] = "absent"
    PROVE  [d \in Ids |-> IF d \in S THEN "absent" ELSE Accepted[d]] \in Contract!Effects(call[b])
<1> DEFINE T == {d \in S : d \in Matching(b)}
<1>1. Accepted = points
  BY AtOnce
<1>2. T \in SUBSET {d \in Ids : Contract!Selected(call[b], Accepted[d])}
  BY <1>1 DEF Contract!Selected, Matching, Selects
<1>3. [d \in Ids |-> IF d \in S THEN "absent" ELSE Accepted[d]]
         = [d \in Ids |-> IF d \in T THEN "absent" ELSE Accepted[d]]
  BY <1>1
<1> HIDE DEF T
<1> QED
  BY <1>2, <1>3, DeleteAllEffect

\* The batch delete reports on what it has deleted and what it has kept.
LEMMA BatchReports ==
    ASSUME NEW gone \in SUBSET Ids, NEW kept \in SUBSET Ids
    PROVE  LET r == All("success", InOrder(gone)) \o All("error", InOrder(kept))
           IN  /\ r \in Reports
               /\ \A i \in DOMAIN r : r[i].status = "success" => r[i].id \in gone
<1> DEFINE a == All("success", InOrder(gone))
           e == All("error", InOrder(kept))
           r == a \o e
<1>1. /\ a \in Reports /\ DOMAIN a = 1..Len(InOrder(gone))
      /\ \A i \in 1..Len(InOrder(gone)) : a[i].id = InOrder(gone)[i]
      /\ \A i \in 1..Len(InOrder(gone)) : InOrder(gone)[i] \in gone
  BY InOrderListed, AllReports
<1>2. /\ e \in Reports /\ DOMAIN e = 1..Len(InOrder(kept))
      /\ \A i \in 1..Len(InOrder(kept)) : e[i].status = "error"
  BY InOrderListed, AllReports
<1> HIDE DEF a, e
<1>3. DOMAIN a = 1..Len(a) /\ DOMAIN e = 1..Len(e) /\ Len(a) \in Nat /\ Len(e) \in Nat
  BY <1>1, <1>2 DEF Reports
<1>4. /\ r \in Reports /\ DOMAIN r = 1..Len(a) + Len(e)
      /\ \A i \in 1..Len(a) : r[i] = a[i]
      /\ \A i \in 1..Len(e) : r[Len(a) + i] = e[i]
  BY <1>1, <1>2 DEF Reports
<1> HIDE DEF r
<1>5. ASSUME NEW i \in DOMAIN r, r[i].status = "success" PROVE r[i].id \in gone
  <2>1. CASE i \in 1..Len(a)
    BY <1>1, <1>3, <1>4, <2>1
  <2>2. CASE i \notin 1..Len(a)
    <3> DEFINE j == i - Len(a)
    <3>1. j \in 1..Len(e) /\ Len(a) + j = i
      BY <1>3, <1>4, <2>2
    <3>2. r[i] = e[j]
      BY <1>4, <3>1
    <3> QED
      BY <1>2, <1>3, <1>5, <3>1, <3>2
  <2> QED
    BY <2>1, <2>2
<1> QED
  BY <1>4, <1>5 DEF r, a, e

LEMMA BatchDeleteMoves ==
    ASSUME Inv, NEW b \in Callers, backend = "weaviate", Connected, BatchDelete(b)
    PROVE  Moves(b)
<1>1. /\ TypeOK /\ call[b].op = "deleteAll" /\ InProgress(b) /\ collection' = collection
  BY DEF Inv, BatchDelete, Doing, InProgress, Rest
<1>2. PICK kept \in SUBSET Matching(b), outcome \in {"done", "failed"} :
        /\ Command(b, Without(Matching(b) \ kept), outcome)
        /\ results' = [results EXCEPT ![b] =
              IF outcome = "failed" THEN <<>>
              ELSE All("success", InOrder(Matching(b) \ kept)) \o All("error", InOrder(kept))]
  <2>1. \A k \in (IF Faults THEN SUBSET Matching(b) ELSE {{}}) : k \in SUBSET Matching(b)
    OBVIOUS
  <2>2. Outcome \subseteq {"done", "failed"}
    BY DEF Outcome
  <2> QED
    BY <2>1, <2>2 DEF BatchDelete
<1> DEFINE gone == Matching(b) \ kept
           reported == All("success", InOrder(gone)) \o All("error", InOrder(kept))
           after == Without(gone)
<1>3. gone \in SUBSET Ids /\ kept \in SUBSET Ids
  BY <1>2 DEF Matching
<1>4. /\ reported \in Reports
      /\ \A i \in DOMAIN reported : reported[i].status = "success" => reported[i].id \in gone
  BY <1>3, BatchReports
<1>5. [d \in Ids |-> IF d \in gone THEN "absent" ELSE Accepted[d]] \in Contract!Effects(call[b])
  BY <1>1, <1>3, MatchingEffect
<1>6. after = [d \in Ids |-> IF d \in gone THEN "absent" ELSE Accepted[d]]
  BY AtOnce DEF Without
<1>7. after \in [Ids -> Contents] /\ \A d \in gone : after[d] = "absent"
  BY <1>1, <1>3 DEF Without, TypeOK, Contents
<1>8. Accepted' = after /\ call' = call
  BY <1>2, DoneAtOnce
<1>9. /\ Command(b, after, outcome)
      /\ results' = [results EXCEPT ![b] = IF outcome = "failed" THEN <<>> ELSE reported]
  BY <1>2
<1> HIDE DEF gone, reported, after
<1>10. /\ results' \in [Callers -> Reports]
       /\ results'[b] = IF outcome = "failed" THEN <<>> ELSE reported
       /\ \A c \in Callers \ {b} : results'[c] = results[c]
  <2>1. <<>> \in Reports
    BY DEF Reports
  <2>2. results \in [Callers -> Reports]
    BY <1>1 DEF TypeOK, Reports
  <2> QED
    BY <1>4, <1>9, <2>1, <2>2
<1>11. ReportsTrue(b)'
  <2> SUFFICES ASSUME NEW i \in DOMAIN results'[b], results'[b][i].status = "success"
               PROVE  Accepted'[results'[b][i].id] = "absent"
    BY DEF ReportsTrue
  <2>1. results'[b] = reported
    BY <1>10
  <2> QED
    BY <1>4, <1>7, <1>8, <2>1
<1>12. collection' \in Collections
  BY <1>1 DEF TypeOK
<1> QED
  BY <1>1, <1>5, <1>6, <1>7, <1>9, <1>10, <1>11, <1>12, CommandMoves

LEMMA WeaviateStepMoves ==
    ASSUME Inv, NEW b \in Callers, backend = "weaviate", WeaviateStep(b),
           UNCHANGED <<clientOpen, connVars>>
    PROVE  Moves(b)
<1>1. TypeOK /\ CallerInv(b)
  BY DEF Inv
<1>2. Connected
  BY <1>1 DEF Connected, TypeOK
<1>3. \A p \in {"command", "delete", "create", "drop"} : pc[b] = p => InProgress(b) /\ pc[b] # "applying"
  BY DEF InProgress, Rest
<1>4. ASSUME InProgress(b), Goto(b, "failed") PROVE Moves(b)
  BY <1>2, <1>4, GivesUp
<1>5. ASSUME NEW p \in {"create", "delete", "drop"}, Goto(b, p), InProgress(b), pc[b] # "applying",
             call[b].op \in {"createNamespace", "deleteNamespace", "deleteAll"},
             p = "delete" => call[b].op = "deleteAll"
      PROVE  Moves(b)
  <2>1. p \in Places \ (Rest \cup {"applying"})
    BY DEF Places, Rest
  <2>2. pc'[b] = p /\ UNCHANGED <<call, backend, results>>
    BY <1>1, <2>1, <1>5, GotoOwn DEF Goto
  <2>3. GetsThere(b)'
    BY <1>1, <1>5, <2>2 DEF CallerInv, GetsThere
  <2> QED
    BY <1>2, <1>5, <2>1, <2>3, GoesOn
<1>6. ASSUME Goto(b, "done"), InProgress(b), call[b].op \notin {"add", "getAll"} PROVE Moves(b)
  <2>1. FitsCollection(b)'
    BY <1>6 DEF FitsCollection, Goto
  <2> QED
    BY <1>2, <1>6, <2>1, GetsDone
<1>7. CASE InvalidId(b, "command") \/ WeaviateRefuses(b)
  BY <1>3, <1>4, <1>7 DEF InvalidId, WeaviateRefuses, Doing
<1>8. CASE WeaviateAdd(b) \/ WeaviateGetAll(b) \/ BatchDelete(b)
  <2>1. CASE WeaviateGetAll(b) /\ Goto(b, "unverified")
    <3>1. InProgress(b)
      BY <1>3, <2>1 DEF WeaviateGetAll, Doing
    <3> QED
      BY <1>2, <2>1, <3>1, GivesUp
  <2> QED
    BY <1>2, <1>8, <2>1, WeaviateAddMoves, WeaviateGetAllMoves, BatchDeleteMoves
<1>9. CASE WeaviateDelete(b)
  <2>1. PICK outcome \in {"done", "failed"} : Command(b, Without({call[b].id}), outcome)
    BY <1>9 DEF WeaviateDelete, Outcome
  <2> QED
    BY <1>2, <1>3, <1>9, <2>1, DeletesOne DEF WeaviateDelete, Doing
<1>10. CASE ClassExists(b)
  BY <1>3, <1>5, <1>6, <1>10 DEF ClassExists, Doing
<1>11. CASE WeaviateCreateNamespace(b)
  <2>1. CASE Doing(b, "createNamespace", "command")
    BY <1>3, <1>5, <1>6, <1>11, <2>1 DEF WeaviateCreateNamespace, Doing
  <2>2. CASE Doing(b, "createNamespace", "create") /\ collection = None
    <3>1. /\ collection' = call[b].dim /\ Command(b, points, "done") /\ UNCHANGED results
          /\ call[b].op = "createNamespace" /\ InProgress(b)
      BY <1>3, <1>11, <2>2 DEF WeaviateCreateNamespace, Doing
    <3>2. call[b].dim \in Dimensions
      BY <1>1 DEF TypeOK, Requests
    <3>3. FitsCollection(b)'
      BY <3>1 DEF FitsCollection, Command
    <3> QED
      BY <1>2, <2>2, <3>1, <3>2, <3>3, SameMoves DEF Collections
  <2>3. CASE Doing(b, "createNamespace", "create") /\ collection # None
    BY <1>3, <1>4, <1>11, <2>3 DEF WeaviateCreateNamespace, Doing
  <2> QED
    BY <1>11, <2>1, <2>2, <2>3 DEF WeaviateCreateNamespace
<1>12. CASE WeaviateDeleteNamespace(b)
  <2>1. CASE Doing(b, "deleteNamespace", "command")
    BY <1>3, <1>5, <1>6, <1>12, <2>1 DEF WeaviateDeleteNamespace, Doing
  <2>2. CASE Doing(b, "deleteNamespace", "drop")
    <3>1. collection' = None /\ UNCHANGED results /\ call[b].op = "deleteNamespace" /\ InProgress(b)
      BY <1>3, <1>12, <2>2 DEF WeaviateDeleteNamespace, Doing
    <3>2. PICK outcome \in {"done", "failed"} : Command(b, Without(Ids), outcome)
      BY <1>12, <2>2 DEF WeaviateDeleteNamespace, Doing, Outcome
    <3> QED
      BY <1>2, <3>1, <3>2, DeletesNamespace DEF Collections
  <2> QED
    BY <1>12, <2>1, <2>2 DEF WeaviateDeleteNamespace
<1>13. CASE WeaviateClose(b)
  BY <1>3, <1>6, <1>13 DEF WeaviateClose, Doing
<1> QED
  BY <1>7, <1>8, <1>9, <1>10, <1>11, <1>12, <1>13 DEF WeaviateStep

LEMMA WeaviateFailsMoves ==
    ASSUME Inv, NEW b \in Callers, WeaviateFails(b), UNCHANGED connVars, UNCHANGED clientOpen
    PROVE  Moves(b)
<1>1. Connected
  BY DEF Connected, Inv, TypeOK
<1> QED
  BY <1>1, FailMoves DEF WeaviateFails, Rest

-------------------------------------------------------------------------------
(* Pinecone.                                                                  *)

LEMMA PineconeAddMoves ==
    ASSUME Inv, NEW b \in Callers, backend = "pinecone", Connected, PineconeAdd(b)
    PROVE  Moves(b)
<1> DEFINE r == call[b]
           after == [points EXCEPT ![r.id] = r.content]
<1>1. /\ TypeOK /\ pc[b] = "command" /\ r.op = "add" /\ InProgress(b) /\ r.id # None
      /\ results' = results /\ collection' = collection
  BY DEF Inv, CallerInv, GetsThere, PineconeAdd, PineconeCommand, Doing, InProgress, Rest
<1>2. r.id \in Ids /\ r.content \in Contents
  BY <1>1 DEF TypeOK, Requests, Contents
<1>3. PICK outcome \in {"done", "failed"} : Command(b, after, outcome)
  BY DEF PineconeAdd, Outcome
<1>4. after = [d \in Ids |-> IF d = r.id THEN r.content ELSE Accepted[d]]
  BY <1>1, <1>2, AtOnce DEF TypeOK
<1>5. after \in [Ids -> Contents] /\ after[r.id] = r.content
  BY <1>1, <1>2 DEF TypeOK
<1>6. after \in Contract!Effects(r)
  BY <1>1, <1>4, AddEffect
<1>7. ReportsTrue(b)'
  BY <1>1, <1>3 DEF ReportsTrue, Command
<1>8. results' \in [Callers -> Reports] /\ collection' \in Collections
  BY <1>1 DEF TypeOK, Reports
<1> HIDE DEF after
<1> QED
  BY <1>1, <1>2, <1>3, <1>5, <1>6, <1>7, <1>8, CommandMoves

\* A topK that is met is a full answer, and one that is not leaves nothing out.
LEMMA TopK ==
    ASSUME NEW M \in SUBSET Ids, NEW S \in SUBSET M, NEW k \in Nat,
           Cardinality(S) = Min({k, Cardinality(M)})
    PROVE  S = M \/ Cardinality(S) = k
<1>1. IsFiniteSet(M) /\ Cardinality(M) \in Nat
  BY InOrderListed
<1>2. Min({k, Cardinality(M)}) \in {k, Cardinality(M)}
  <2>1. \E x \in {k, Cardinality(M)} : \A y \in {k, Cardinality(M)} : x <= y
    BY <1>1
  <2> QED
    BY <2>1 DEF Min
<1>3. CASE Cardinality(S) = Cardinality(M)
  BY <1>1, <1>3, FS_Subset
<1> QED
  BY <1>2, <1>3

LEMMA PineconeGetAllMoves ==
    ASSUME Inv, NEW b \in Callers, backend = "pinecone", Connected, PineconeGetAll(b)
    PROVE  Moves(b)
<1>1. /\ TypeOK /\ CallerInv(b) /\ Doing(b, "getAll", "command")
      /\ pc[b] = "command" /\ call[b].op = "getAll" /\ InProgress(b)
  BY DEF Inv, PineconeGetAll, PineconeCommand, Doing, InProgress, Rest
<1>2. CASE collection = None
  BY <1>1, <1>2, GivesUp DEF PineconeGetAll
<1>3. CASE collection # None
  <2>1. PICK S \in SUBSET Matching(b) :
          /\ Cardinality(S) = Min({Limit(b), Cardinality(Matching(b))})
          /\ Page(b, InOrder(S), None)
    BY <1>3 DEF PineconeGetAll
  <2> DEFINE page == InOrder(S)
  <2>2. S \in SUBSET Ids /\ Matching(b) \in SUBSET Ids /\ Limit(b) \in Nat
    BY LimitType DEF Matching
  <2>3. /\ page \in Seq(Ids) /\ Len(page) = Cardinality(S) /\ Len(page) \in Nat
        /\ \A d \in S : \E i \in 1..Len(page) : page[i] = d
        /\ \A i, j \in 1..Len(page) : i < j => page[i] < page[j]
    BY <2>2, InOrderListed
  <2>4. S = Matching(b) \/ Len(page) = Limit(b)
    BY <2>1, <2>2, <2>3, TopK
  <2>5. Page(b, page, None)
    BY <2>1
  <2> HIDE DEF page
  <2>6. listed[b] = <<>>
    BY <1>1 DEF CallerInv, UpToCursor
  <2>7. /\ listed'[b] = page /\ cursor'[b] = None /\ pc'[b] = "done"
        /\ UNCHANGED <<backend, call, before, touched>>
    BY <1>1, <2>3, <2>5, <2>6 DEF Page, historyVars, TypeOK
  <2>8. UpToCursor(b)'
    BY <2>7 DEF UpToCursor, InProgress, Rest
  <2>9. InSequence(b)'
    <3> SUFFICES ASSUME NEW i \in 1..Len(page), NEW j \in 1..Len(page), i < j
                 PROVE  page[i] <= page[j] /\ page[i] # page[j]
      BY <2>7 DEF InSequence
    <3>1. page[i] < page[j] /\ page[i] \in Nat /\ page[j] \in Nat
      BY <2>3, ElementOfSeq, CallsAssumption
    <3> QED
      BY <3>1
  <2>10. AllGiven(b)'
    <3>1. CASE S = Matching(b)
      <4> SUFFICES ASSUME NEW d \in before[b] \ touched[b] PROVE d \in ToSet(page)
        BY <2>7 DEF AllGiven
      <4>1. d \in S
        BY <1>1, <3>1 DEF CallerInv, StaysThere, Matching, TypeOK
      <4>2. PICK i \in 1..Len(page) : page[i] = d
        BY <2>3, <4>1
      <4>3. i \in DOMAIN page
        BY <2>3
      <4> QED
        BY <4>2, <4>3 DEF ToSet
    <3>2. CASE Len(page) = Limit(b)
      BY <2>7, <3>2 DEF AllGiven, Limit
    <3> QED
      BY <2>4, <3>1, <3>2
  <2> QED
    BY <1>1, <2>3, <2>5, <2>8, <2>9, <2>10, PageMoves
<1> QED
  BY <1>2, <1>3

LEMMA ListVectorsMoves ==
    ASSUME Inv, NEW b \in Callers, backend = "pinecone", Connected, ListVectors(b)
    PROVE  Moves(b)
<1> DEFINE page == FirstOf(ServerPage, Matching(b))
<1>1. /\ TypeOK /\ CallerInv(b) /\ pc[b] = "command" /\ call[b].op = "deleteAll" /\ InProgress(b)
      /\ call[b].sent = "none"
  BY DEF Inv, ListVectors, PineconeCommand, Doing, InProgress, Rest
<1>2. page \in Seq(Ids)
  BY ListedPage, CallsAssumption DEF Matching
<1>3. /\ listed' = [listed EXCEPT ![b] = page]
      /\ pc' = [pc EXCEPT ![b] = IF page = <<>> THEN "done" ELSE "delete"]
      /\ UNCHANGED <<backend, name, collection, points, updates, calls, call, cursor, results>>
      /\ UNCHANGED <<before, touched>>
  BY DEF ListVectors, serverVars, historyVars
<1> HIDE DEF page
<1>4. /\ pc' \in [Callers -> Places] /\ pc'[b] \in {"done", "delete"}
      /\ \A c \in Callers \ {b} : pc'[c] = pc[c]
  BY <1>1, <1>3 DEF TypeOK, Places, Rest
<1>5. OwnEntries(b) /\ Still
  BY <1>1, <1>2, <1>3, <1>4 DEF OwnEntries, TypeOK, Reports, Still
<1>6. results[b] = <<>>
  BY <1>1 DEF CallerInv, GetsThere
<1>7. CallerInv(b)'
  BY <1>1, <1>3, <1>4, <1>6 DEF CallerInv, GetsThere, StaysThere, UpToCursor, InSequence,
     AllGiven, Walked, AddHeld, ReportsTrue, FitsCollection
<1> QED
  BY <1>1, <1>3, <1>4, <1>5, <1>7, StillMoves DEF Rest

\* The listed entries are gone, those that were there.
LEMMA DeleteListedMoves ==
    ASSUME Inv, NEW b \in Callers, backend = "pinecone", Connected, DeleteListed(b)
    PROVE  Moves(b)
<1> DEFINE S == ToSet(listed[b])
           after == Without(S)
<1>1. /\ TypeOK /\ call[b].op = "deleteAll" /\ InProgress(b) /\ collection' = collection
      /\ call[b].sent = "none" /\ listed[b] \in Seq(Ids)
  BY DEF Inv, CallerInv, GetsThere, TypeOK, DeleteListed, PineconeCommand, Doing, InProgress, Rest
<1>2. PICK status \in {"success", "error"} : results' = [results EXCEPT ![b] = All(status, listed[b])]
  BY DEF DeleteListed
<1>3. Command(b, after, "done")
  BY DEF DeleteListed, Outcome
<1>4. /\ S \in SUBSET Ids
      /\ \A i \in 1..Len(listed[b]) : listed[b][i] \in S
  <2>1. DOMAIN listed[b] = 1..Len(listed[b]) /\ \A i \in 1..Len(listed[b]) : listed[b][i] \in Ids
    BY <1>1, ElementOfSeq
  <2> QED
    BY <2>1 DEF ToSet
<1>5. [d \in Ids |-> IF d \in S THEN "absent" ELSE Accepted[d]] \in Contract!Effects(call[b])
  <2>1. \A d \in S : d \in Matching(b) \/ points[d] = "absent"
    BY <1>1, <1>4 DEF Matching, Selects, TypeOK, Contents
  <2> HIDE DEF S
  <2> QED
    BY <1>1, <1>4, <2>1, MatchingEffect
<1>6. after = [d \in Ids |-> IF d \in S THEN "absent" ELSE Accepted[d]]
  BY AtOnce DEF Without
<1>7. after \in [Ids -> Contents] /\ \A d \in S : after[d] = "absent"
  BY <1>1, <1>4 DEF Without, TypeOK, Contents
<1>8. Accepted' = after /\ call' = call
  BY <1>3, DoneAtOnce
<1>9. /\ All(status, listed[b]) \in Reports
      /\ DOMAIN All(status, listed[b]) = 1..Len(listed[b])
      /\ \A i \in 1..Len(listed[b]) : All(status, listed[b])[i].id = listed[b][i]
  BY <1>1, AllReports
<1> HIDE DEF after, S
<1>10. /\ results' \in [Callers -> Reports] /\ results'[b] = All(status, listed[b])
       /\ \A c \in Callers \ {b} : results'[c] = results[c]
  BY <1>1, <1>2, <1>9 DEF TypeOK, Reports
<1>11. ReportsTrue(b)'
  <2> SUFFICES ASSUME NEW i \in DOMAIN results'[b]
               PROVE  Accepted'[results'[b][i].id] = "absent"
    BY DEF ReportsTrue
  <2> QED
    BY <1>4, <1>7, <1>8, <1>9, <1>10
<1>12. collection' \in Collections
  BY <1>1 DEF TypeOK
<1> QED
  BY <1>1, <1>3, <1>5, <1>6, <1>7, <1>10, <1>11, <1>12, CommandMoves

\* A connection is taken, given back, or closed.
LEMMA TakesConnection ==
    ASSUME Inv, NEW b \in Callers, backend = "pinecone", UNCHANGED clientOpen,
           \/ LookupConnection(b, name) \/ CreateConnection(b) \/ ConnectionFails(b) \/ Release(b)
           \/ CloseConnections(call[b].scope) \/ UNCHANGED connVars
    PROVE  Connected
<1>1. name \in Names /\ call[b].scope \in Names /\ clientOpen' \in BOOLEAN
  BY DEF Inv, Global, TypeOK, Requests
<1> QED
  BY <1>1 DEF Connected, ConnNext

LEMMA PineconeStepMoves ==
    ASSUME Inv, NEW b \in Callers, backend = "pinecone", PineconeStep(b), UNCHANGED clientOpen
    PROVE  Moves(b)
<1>1. TypeOK /\ CallerInv(b)
  BY DEF Inv
<1>2. ASSUME \/ LookupConnection(b, name) \/ CreateConnection(b) \/ ConnectionFails(b) \/ Release(b)
             \/ CloseConnections(call[b].scope) \/ UNCHANGED connVars
      PROVE  Connected
  BY <1>2, TakesConnection
<1>3. \A p \in {"connect", "command", "delete", "stats"} : pc[b] = p => InProgress(b) /\ pc[b] # "applying"
  BY DEF InProgress, Rest
<1>4. CASE Connect(b)
  <2> DEFINE p == IF phase'[b] = "holding" THEN "command" ELSE "connect"
  <2>1. /\ Goto(b, p) /\ InProgress(b) /\ pc[b] # "applying" /\ Connected
        /\ call[b].op \in {"add", "delete"} => call[b].id # None
    BY <1>2, <1>3, <1>4 DEF Connect
  <2>2. p \in Places \ (Rest \cup {"applying"}) /\ p \notin {"delete", "applying", "done"}
    BY DEF Places, Rest
  <2> HIDE DEF p
  <2>3. pc'[b] = p /\ UNCHANGED <<call, backend, results>>
    BY <1>1, <2>1, <2>2, GotoOwn DEF Goto
  <2>4. GetsThere(b)'
    BY <1>1, <2>1, <2>2, <2>3 DEF CallerInv, GetsThere
  <2> QED
    BY <2>1, <2>2, <2>4, GoesOn
<1>5. CASE InvalidId(b, "connect") /\ UNCHANGED connVars
  BY <1>2, <1>3, <1>5, GivesUp DEF InvalidId, Doing
<1>6. CASE Unusable(b)
  <2>1. Connected
    BY <1>2, <1>6 DEF Unusable
  <2>2. CASE pc[b] = "delete"
    <3>1. call[b].op = "deleteAll"
      BY <1>1, <2>2 DEF CallerInv, GetsThere
    <3> QED
      BY <1>6, <2>1, <2>2, <3>1, ReportsErrors DEF Unusable
  <2>3. CASE pc[b] # "delete"
    <3>1. Goto(b, IF held[b] = 0 THEN "panicked" ELSE "failed") /\ InProgress(b)
      BY <1>3, <1>6, <2>3 DEF Unusable
    <3>2. Goto(b, "panicked") \/ Goto(b, "failed")
      BY <3>1
    <3> QED
      BY <2>1, <3>1, <3>2, GivesUp
  <2> QED
    BY <2>2, <2>3
<1>7. CASE PineconeAdd(b) \/ PineconeGetAll(b)
  BY <1>2, <1>7, PineconeAddMoves, PineconeGetAllMoves DEF PineconeAdd, PineconeGetAll
<1>8. CASE PineconeDelete(b)
  <2>1. PICK outcome \in {"done", "failed"} : Command(b, Without({call[b].id}), outcome)
    BY <1>8 DEF PineconeDelete, Outcome
  <2>2. /\ call[b].op = "delete" /\ call[b].id # None /\ InProgress(b) /\ Connected
        /\ UNCHANGED <<collection, results>>
    BY <1>1, <1>2, <1>3, <1>8 DEF PineconeDelete, PineconeCommand, Doing, CallerInv, GetsThere
  <2> QED
    BY <2>1, <2>2, DeletesOne
<1>9. CASE DeleteByFilter(b)
  <2>1. PICK outcome \in {"done", "failed"} : Command(b, Without(Matching(b)), outcome)
    BY <1>9 DEF DeleteByFilter, Outcome
  <2>2. /\ call[b].op = "deleteAll" /\ InProgress(b) /\ Connected /\ UNCHANGED results
        /\ collection' \in Collections
    BY <1>1, <1>2, <1>3, <1>9 DEF DeleteByFilter, PineconeCommand, Doing, TypeOK
  <2> DEFINE S == Matching(b)
  <2>3. S \in SUBSET Ids /\ \A d \in S : d \in Matching(b) \/ points[d] = "absent"
    BY DEF Matching
  <2>4. [d \in Ids |-> IF d \in S THEN "absent" ELSE Accepted[d]] \in Contract!Effects(call[b])
    <3> HIDE DEF S
    <3> QED
      BY <2>2, <2>3, MatchingEffect
  <2>5. Command(b, Without(S), outcome)
    BY <2>1
  <2> HIDE DEF S
  <2> QED
    BY <2>2, <2>3, <2>4, <2>5, RemovesMoves
<1>10. CASE ListVectors(b)
  <2>1. Release(b) \/ UNCHANGED connVars
    BY <1>10 DEF ListVectors
  <2> QED
    BY <1>2, <1>10, <2>1, ListVectorsMoves
<1>11. CASE DeleteListed(b)
  BY <1>2, <1>11, DeleteListedMoves DEF DeleteListed
<1>12. CASE PineconeDeleteNamespace(b)
  <2>1. PICK outcome \in {"done", "failed"} : Command(b, Without(Ids), outcome)
    BY <1>12 DEF PineconeDeleteNamespace, Outcome
  <2>2. /\ call[b].op = "deleteNamespace" /\ InProgress(b) /\ Connected /\ UNCHANGED results
        /\ collection' \in Collections
    BY <1>1, <1>2, <1>3, <1>12 DEF PineconeDeleteNamespace, PineconeCommand, Doing, TypeOK
  <2> QED
    BY <2>1, <2>2, DeletesNamespace
<1>13. CASE PineconeClose(b)
  <2>1. Goto(b, "done") /\ call[b].op = "close" /\ InProgress(b) /\ Connected
    BY <1>2, <1>3, <1>13 DEF PineconeClose, Doing
  <2>2. FitsCollection(b)'
    BY <2>1 DEF FitsCollection, Goto
  <2> QED
    BY <2>1, <2>2, GetsDone
<1>14. CASE SetDimension(b)
  <2>1. /\ collection' = call[b].dim /\ Command(b, points, "stats") /\ UNCHANGED results
        /\ call[b].op = "createNamespace" /\ InProgress(b) /\ Connected
    BY <1>2, <1>3, <1>14 DEF SetDimension, Doing
  <2>2. call[b].dim \in Dimensions
    BY <1>1 DEF TypeOK, Requests
  <2>3. FitsCollection(b)'
    BY <2>1 DEF FitsCollection, Command
  <2> QED
    BY <2>1, <2>2, <2>3, SameMoves DEF Collections
<1>15. CASE DescribeIndexStats(b)
  <2>1. /\ Goto(b, "panicked") \/ Goto(b, "done")
        /\ call[b].op = "createNamespace" /\ InProgress(b) /\ Connected
    BY <1>2, <1>3, <1>15 DEF DescribeIndexStats, Doing
  <2>2. FitsCollection(b)'
    BY <2>1 DEF FitsCollection, Goto
  <2> QED
    BY <2>1, <2>2, GivesUp, GetsDone
<1> QED
  BY <1>4, <1>5, <1>6, <1>7, <1>8, <1>9, <1>10, <1>11, <1>12, <1>13, <1>14, <1>15 DEF PineconeStep

LEMMA PineconeFailsMoves ==
    ASSUME Inv, NEW b \in Callers, backend = "pinecone", PineconeFails(b), UNCHANGED clientOpen
    PROVE  Moves(b)
<1>1. CASE ConnectFails(b)
  <2>1. Connected /\ Goto(b, "failed") /\ InProgress(b)
    BY <1>1, TakesConnection DEF ConnectFails, InProgress, Rest
  <2> QED
    BY <2>1, GivesUp
<1>2. CASE ListedKept(b)
  <2>1. Connected
    BY <1>2, TakesConnection DEF ListedKept
  <2> QED
    BY <1>2, <2>1, ReportsErrors DEF ListedKept, PineconeCommand, Doing
<1>3. CASE CommandFails(b, {"command"}) /\ Release(b)
  BY <1>3, TakesConnection, FailMoves DEF Rest
<1>4. CASE CommandFails(b, {"stats"}) /\ UNCHANGED connVars
  BY <1>4, TakesConnection, FailMoves DEF Rest
<1> QED
  BY <1>1, <1>2, <1>3, <1>4 DEF PineconeFails

-------------------------------------------------------------------------------
(* The other steps.                                                           *)

\* What holds of a caller whose call has just begun, and of one that is idle.
LEMMA BegunInv ==
    ASSUME Inv, NEW b \in Callers, NEW first \in {"command", "connect"}, Call(b, first),
           first = "connect" <=> backend = "pinecone"
    PROVE  CallerInv(b)'
<1>1. TypeOK
  BY DEF Inv
<1>2. PICK r \in Requests :
        /\ Sensible(r) /\ call' = [call EXCEPT ![b] = r]
        /\ before' = [before EXCEPT ![b] =
              {d \in Ids : /\ points[d] = "match" \/ (points[d] = "other" /\ r.sent # "all")
                           /\ \A i \in DOMAIN updates : d \notin AffectedIn(points, updates[i])}]
  BY DEF Call, CanonicalRequests
<1>3. /\ call'[b] = r /\ pc'[b] = first /\ cursor'[b] = None /\ listed'[b] = <<>>
      /\ results'[b] = <<>> /\ touched'[b] = {}
      /\ before'[b] = {d \in Ids : /\ points[d] = "match" \/ (points[d] = "other" /\ r.sent # "all")
                                   /\ \A i \in DOMAIN updates : d \notin AffectedIn(points, updates[i])}
      /\ UNCHANGED <<backend, name, collection, points, updates>>
  BY <1>1, <1>2 DEF TypeOK, Call, serverVars
<1>4. GetsThere(b)'
  BY <1>2, <1>3 DEF GetsThere, Sensible, InProgress
<1>5. StaysThere(b)'
  BY <1>3 DEF StaysThere, Selects
<1>6. UpToCursor(b)'
  <2>1. Limit(b)' \in Nat
    BY <1>3, CallsAssumption DEF Limit, Requests
  <2>2. Len(listed'[b]) = Limit(b)' * 0
    BY <1>3, <2>1
  <2> QED
    BY <1>3, <2>2 DEF UpToCursor
<1>7. InSequence(b)' /\ AllGiven(b)' /\ AddHeld(b)' /\ ReportsTrue(b)' /\ FitsCollection(b)'
  BY <1>3 DEF InSequence, AllGiven, Walked, AddHeld, ReportsTrue, FitsCollection
<1> QED
  BY <1>4, <1>5, <1>6, <1>7 DEF CallerInv

LEMMA IdleInv ==
    ASSUME NEW c \in Callers, pc[c] = "idle"
    PROVE  CallerInv(c)
BY DEF CallerInv, GetsThere, StaysThere, UpToCursor, InSequence, AllGiven, Walked, AddHeld,
   ReportsTrue, FitsCollection, InProgress, Rest

\* A caller that is left alone by a step that leaves the server alone.
LEMMA UntouchedInv ==
    ASSUME Inv, NEW c \in Callers, UNCHANGED <<backend, collection, points, updates>>,
           pc'[c] = pc[c], call'[c] = call[c], cursor'[c] = cursor[c], listed'[c] = listed[c],
           results'[c] = results[c], before'[c] = before[c], touched'[c] = touched[c]
    PROVE  CallerInv(c)'
<1>1. CallerInv(c)
  BY DEF Inv
<1>2. Applied' = Applied /\ Accepted' = Accepted
  BY StillApplied
<1>3. \A k \in 1..Len(updates') : LastUpsert(c, k)' => LastUpsert(c, k)
  BY DEF LastUpsert
<1> HIDE DEF Applied
<1>4. AddHeld(c)'
  BY <1>1, <1>2, <1>3 DEF CallerInv, AddHeld
<1>5. ReportsTrue(c)'
  BY <1>1, <1>2 DEF CallerInv, ReportsTrue
<1> QED
  BY <1>1, <1>4, <1>5 DEF CallerInv, GetsThere, StaysThere, UpToCursor, InSequence, AllGiven,
     Walked, FitsCollection, InProgress, Selects, Limit

\* A call begins.
LEMMA BeginKeeps ==
    ASSUME Inv, NEW b \in Callers, Begin(b)
    PROVE  Inv' /\ [Contract!ContractNext]_(Contract!contractVars)
<1>1. PICK first \in {"command", "connect"} :
        Call(b, first) /\ (first = "connect" <=> backend = "pinecone")
  BY DEF Begin, QdrantCall, WeaviateCall, PineconeCall
<1>2. UNCHANGED <<clientOpen, connVars>>
  BY DEF Begin, PineconeCall
<1>3. TypeOK /\ ConnInv /\ Global
  BY DEF Inv
<1>4. /\ ~ InProgress(b) /\ backend # None
      /\ calls' = calls + 1 /\ calls < MaxCalls
      /\ pc' = [pc EXCEPT ![b] = first] /\ cursor' = [cursor EXCEPT ![b] = None]
      /\ listed' = [listed EXCEPT ![b] = <<>>] /\ results' = [results EXCEPT ![b] = <<>>]
      /\ touched' = [touched EXCEPT ![b] = {}]
      /\ UNCHANGED <<backend, name, collection, points, updates>>
  BY <1>1 DEF Call, serverVars
<1>5. PICK r \in Requests, S \in SUBSET Ids :
        call' = [call EXCEPT ![b] = r] /\ before' = [before EXCEPT ![b] = S]
  <2>1. PICK r \in CanonicalRequests :
          /\ call' = [call EXCEPT ![b] = r]
          /\ before' = [before EXCEPT ![b] =
                {d \in Ids : /\ points[d] = "match" \/ (points[d] = "other" /\ r.sent # "all")
                             /\ \A i \in DOMAIN updates : d \notin AffectedIn(points, updates[i])}]
    BY <1>1 DEF Call
  <2>2. r \in Requests
    BY DEF CanonicalRequests
  <2> QED
    BY <2>1, <2>2
<1>6. ConnInv'
  BY <1>2, <1>3, ConnNextInv
<1>7. TypeOK'
  <2>1. calls' \in 0..MaxCalls
    BY <1>3, <1>4, CallsAssumption DEF TypeOK
  <2>2. pc' \in [Callers -> Places] /\ first \in Places
    BY <1>3, <1>4 DEF TypeOK, Places
  <2>3. /\ call' \in [Callers -> Requests] /\ before' \in [Callers -> SUBSET Ids]
        /\ touched' \in [Callers -> SUBSET Ids] /\ cursor' \in [Callers -> Ids \cup {None}]
    BY <1>3, <1>4, <1>5 DEF TypeOK
  <2>4. /\ listed' \in [Callers -> Seq(Ids)] /\ results' \in [Callers -> Reports]
    <3>1. <<>> \in Seq(Ids) /\ <<>> \in Reports
      BY DEF Reports
    <3> QED
      BY <1>3, <1>4, <3>1 DEF TypeOK, Reports
  <2> QED
    BY <1>2, <1>3, <1>4, <1>6, <2>1, <2>2, <2>3, <2>4 DEF TypeOK, ConnInv, Places, Reports
<1>8. Global'
  BY <1>3, <1>4 DEF Global
<1>9. ASSUME NEW c \in Callers PROVE CallerInv(c)'
  <2>1. CASE c = b
    BY <1>1, <2>1, BegunInv
  <2>2. CASE c # b
    <3>1. /\ pc'[c] = pc[c] /\ call'[c] = call[c] /\ cursor'[c] = cursor[c]
          /\ listed'[c] = listed[c] /\ results'[c] = results[c] /\ before'[c] = before[c]
          /\ touched'[c] = touched[c]
      BY <1>3, <1>4, <1>5, <2>2 DEF TypeOK
    <3> QED
      BY <1>4, <3>1, UntouchedInv
  <2> QED
    BY <2>1, <2>2
<1>10. Contract!Begins(b)
  <2> DEFINE D == [c \in Callers |->
                     IF InProgress(c)
                     THEN [op |-> "call", of |-> call[c], due |-> pc[c] # "applying"]
                     ELSE [op |-> "none"]]
  <2>1. D[b] = [op |-> "none"]
    BY <1>4
  <2>2. D'[b] = [op |-> "call", of |-> r, due |-> TRUE]
    BY <1>3, <1>4, <1>5 DEF InProgress, Rest, TypeOK
  <2>3. D' = [D EXCEPT ![b] = D'[b]]
    <3>1. \A c \in Callers \ {b} : D'[c] = D[c]
      BY <1>3, <1>4, <1>5 DEF InProgress, TypeOK
    <3>2. /\ D = [c \in Callers |-> D[c]] /\ D' = [c \in Callers |-> D'[c]]
          /\ DOMAIN D = Callers /\ DOMAIN D' = Callers
      OBVIOUS
    <3> HIDE DEF D
    <3> QED
      BY <3>1, <3>2
  <2>4. Accepted' = Accepted
    BY <1>4, StillApplied
  <2>5. D'[b] \in [op: {"call"}, of: Requests, due: {TRUE}]
    BY <2>2
  <2> QED
    BY <2>1, <2>3, <2>4, <2>5 DEF Contract!Begins, Contract!Idle
<1> QED
  BY <1>3, <1>6, <1>7, <1>8, <1>9, <1>10 DEF Inv, Contract!ContractNext

\* A step that changes no entry and no call.
LEMMA ContractStutters ==
    ASSUME Accepted' = Accepted, UNCHANGED <<pc, call>>
    PROVE  UNCHANGED Contract!contractVars
BY DEF Contract!contractVars, InProgress

\* The store is made.
LEMMA NewVectorStoreKeeps ==
    ASSUME Inv, NewVectorStore
    PROVE  Inv' /\ [Contract!ContractNext]_(Contract!contractVars)
<1>1. TypeOK /\ ConnInv /\ Global
  BY DEF Inv
<1>2. /\ backend = None /\ backend' \in {"qdrant", "weaviate", "pinecone"}
      /\ name' \in Names \cup {None} /\ collection' \in Collections
      /\ backend' = "pinecone" => name' \in Names
      /\ UNCHANGED <<points, updates, calls, pc, call, cursor, listed, results, before, touched,
                     clientOpen, connVars>>
  BY <1>1 DEF NewVectorStore, Configs, TypeOK, Collections, walkVars, historyVars
<1>3. ConnInv'
  BY <1>1, <1>2, ConnNextInv
<1>4. TypeOK'
  BY <1>1, <1>2, <1>3 DEF TypeOK, ConnInv
<1>5. updates' = <<>> /\ \A c \in Callers : pc'[c] = "idle"
  BY <1>1, <1>2 DEF Global
<1>6. Global'
  BY <1>2, <1>5 DEF Global
<1>7. \A c \in Callers : CallerInv(c)'
  BY <1>5 DEF CallerInv, GetsThere, StaysThere, UpToCursor, InSequence, AllGiven, Walked,
     AddHeld, ReportsTrue, FitsCollection, InProgress, Rest
<1>8. UNCHANGED Contract!contractVars
  BY <1>2, StillApplied, ContractStutters
<1> QED
  BY <1>3, <1>4, <1>6, <1>7, <1>8 DEF Inv

\* What an update that is applied leaves of each caller's invariant.
LEMMA AppliedInv ==
    ASSUME Inv, backend = "qdrant", ApplyUpdate, NEW c \in Callers
    PROVE  CallerInv(c)'
<1> DEFINE u == Head(updates)
<1>1. /\ TypeOK /\ CallerInv(c) /\ updates \in Seq(Updates) /\ updates # <<>>
      /\ updates' = Tail(updates) /\ points' = Updated(points, u)
      /\ UNCHANGED <<backend, name, collection, calls, call, cursor, listed, results, before, touched>>
  BY DEF Inv, TypeOK, ApplyUpdate, walkVars, historyVars
<1>2. /\ Len(updates) \in Nat /\ Len(updates') \in Nat /\ Len(updates) = Len(updates') + 1
      /\ \A i \in 1..Len(updates') : updates'[i] = updates[i + 1] /\ i + 1 \in 1..Len(updates)
      /\ DOMAIN updates = 1..Len(updates) /\ DOMAIN updates' = 1..Len(updates')
      /\ u = updates[1] /\ 1 \in 1..Len(updates) /\ u \in Updates
  BY <1>1
<1>3. /\ \A n \in 0..Len(updates') : Applied'[n] = Applied[n + 1] /\ n + 1 \in 1..Len(updates)
      /\ Accepted' = Accepted
  BY <1>1, <1>2, ApplyShifts
<1> HIDE DEF Applied
\* The upsert that c waits for is the one that is applied, and its last.
<1>4. \/ pc'[c] = pc[c]
      \/ pc[c] = "applying" /\ pc'[c] = "done" /\ call[c].op = "add" /\ LastUpsert(c, 1)
  <2> DEFINE waits == \A i \in DOMAIN Tail(updates) :
                         Tail(updates)[i].by = u.by => Tail(updates)[i].kind # "upsert"
  <2>1. pc' = IF u.kind = "upsert" /\ pc[u.by] = "applying" /\ waits
              THEN [pc EXCEPT ![u.by] = "done"] ELSE pc
    BY DEF ApplyUpdate
  <2>2. CASE u.kind = "upsert" /\ pc[u.by] = "applying" /\ waits /\ c = u.by
    <3>1. pc'[c] = "done" /\ call[c].op = "add"
      BY <1>1, <2>1, <2>2 DEF TypeOK, CallerInv, GetsThere
    <3>2. \A i \in 2..Len(updates) : updates[i].by = c => updates[i].kind # "upsert"
      <4> SUFFICES ASSUME NEW i \in 2..Len(updates), updates[i].by = c
                   PROVE  updates[i].kind # "upsert"
        OBVIOUS
      <4> DEFINE j == i - 1
      <4>1. j \in 1..Len(updates') /\ j + 1 = i
        BY <1>2
      <4>2. updates'[j] = updates[i]
        BY <1>2, <4>1
      <4> HIDE DEF j
      <4> QED
        BY <1>1, <1>2, <2>2, <4>1, <4>2
    <3> QED
      BY <1>2, <2>2, <3>1, <3>2 DEF LastUpsert
  <2>3. CASE ~ (u.kind = "upsert" /\ pc[u.by] = "applying" /\ waits /\ c = u.by)
    <3>1. u.by \in Callers
      BY <1>2 DEF Updates
    <3> HIDE DEF waits, u
    <3> QED
      BY <1>1, <2>1, <2>3, <3>1 DEF TypeOK
  <2> QED
    BY <2>2, <2>3
<1> HIDE DEF u
<1>5. /\ InProgress(c)' => InProgress(c)
      /\ call[c].op # "add" => pc'[c] = pc[c]
  BY <1>4 DEF InProgress, Rest
<1>6. GetsThere(c)'
  BY <1>1, <1>4, <1>5 DEF CallerInv, GetsThere
<1>7. StaysThere(c)'
  <2> SUFFICES ASSUME call[c].op = "getAll", InProgress(c), NEW d \in before[c] \ touched[c]
               PROVE  /\ Selects(c, points'[d])
                      /\ \A i \in DOMAIN updates' : d \notin AffectedIn(points', updates'[i])
    BY <1>1, <1>5 DEF StaysThere, Selects
  <2>1. /\ Selects(c, points[d]) /\ d \in Ids
        /\ \A i \in DOMAIN updates : d \notin AffectedIn(points, updates[i])
    BY <1>1 DEF CallerInv, StaysThere, TypeOK
  <2>2. points'[d] = points[d]
    BY <1>1, <1>2, <2>1 DEF Updated
  <2>3. ASSUME NEW i \in DOMAIN updates' PROVE d \notin AffectedIn(points', updates'[i])
    <3>1. d \notin AffectedIn(points, updates'[i])
      BY <1>2, <2>1
    <3> QED
      BY <2>2, <3>1 DEF AffectedIn
  <2> QED
    BY <2>1, <2>2, <2>3
<1>8. UpToCursor(c)' /\ InSequence(c)' /\ AllGiven(c)'
  BY <1>1, <1>5 DEF CallerInv, UpToCursor, InSequence, AllGiven, Walked, InProgress, Limit
<1>9. AddHeld(c)'
  <2> SUFFICES ASSUME call[c].op = "add", call[c].id \notin touched[c]
               PROVE  /\ pc'[c] = "done" =>
                            \A n \in 0..Len(updates') : Applied'[n][call[c].id] = call[c].content
                      /\ pc'[c] = "applying" =>
                            \A k \in 1..Len(updates') : LastUpsert(c, k)' =>
                               \A n \in k..Len(updates') : Applied'[n][call[c].id] = call[c].content
    BY <1>1 DEF AddHeld
  <2>1. CASE pc[c] = "done" /\ pc'[c] = "done"
    <3>1. \A n \in 0..Len(updates) : Applied[n][call[c].id] = call[c].content
      BY <1>1, <2>1 DEF CallerInv, AddHeld
    <3>2. \A n \in 0..Len(updates') : n + 1 \in 0..Len(updates)
      BY <1>2
    <3> QED
      BY <1>3, <2>1, <3>1, <3>2
  <2>2. CASE pc[c] = "applying" /\ pc'[c] = "done"
    <3>1. LastUpsert(c, 1)
      BY <1>4, <2>2
    <3>2. \A n \in 1..Len(updates) : Applied[n][call[c].id] = call[c].content
      BY <1>1, <1>2, <2>2, <3>1 DEF CallerInv, AddHeld
    <3> QED
      BY <1>3, <2>2, <3>2
  <2>3. CASE pc[c] = "applying" /\ pc'[c] = "applying"
    <3> SUFFICES ASSUME NEW k \in 1..Len(updates'), LastUpsert(c, k)', NEW n \in k..Len(updates')
                 PROVE  Applied'[n][call[c].id] = call[c].content
      BY <2>3
    <3>1. k + 1 \in 1..Len(updates) /\ n \in 0..Len(updates') /\ n + 1 \in k + 1..Len(updates)
      BY <1>2
    <3>2. LastUpsert(c, k + 1)
      <4>1. updates[k + 1].by = c /\ updates[k + 1].kind = "upsert"
        BY <1>2 DEF LastUpsert
      <4>2. ASSUME NEW i \in k + 2..Len(updates), updates[i].by = c
            PROVE  updates[i].kind # "upsert"
        <5> DEFINE j == i - 1
        <5>1. j \in 1..Len(updates') /\ j \in k + 1..Len(updates') /\ j + 1 = i
          BY <1>2
        <5>2. updates'[j] = updates[i]
          BY <1>2, <5>1
        <5> HIDE DEF j
        <5> QED
          BY <4>2, <5>1, <5>2 DEF LastUpsert
      <4>3. \A i \in (k + 1) + 1..Len(updates) : i \in k + 2..Len(updates)
        BY <1>2
      <4> QED
        BY <4>1, <4>2, <4>3 DEF LastUpsert
    <3>3. Applied[n + 1][call[c].id] = call[c].content
      BY <1>1, <2>3, <3>1, <3>2 DEF CallerInv, AddHeld
    <3> QED
      BY <1>3, <3>1, <3>3
  <2>4. CASE pc'[c] \notin {"done", "applying"}
    BY <2>4
  <2> QED
    BY <1>4, <2>1, <2>2, <2>3, <2>4
<1>10. ReportsTrue(c)' /\ FitsCollection(c)'
  BY <1>1, <1>3, <1>5 DEF CallerInv, ReportsTrue, FitsCollection
<1> QED
  BY <1>6, <1>7, <1>8, <1>9, <1>10 DEF CallerInv

LEMMA ApplyKeeps ==
    ASSUME Inv, Apply
    PROVE  Inv' /\ [Contract!ContractNext]_(Contract!contractVars)
<1> DEFINE u == Head(updates)
           waits == \A i \in DOMAIN Tail(updates) :
                       Tail(updates)[i].by = u.by => Tail(updates)[i].kind # "upsert"
<1>1. TypeOK /\ ConnInv /\ Global
  BY DEF Inv
<1>2. /\ backend = "qdrant" /\ ApplyUpdate
      /\ updates # <<>> /\ points' = Updated(points, u) /\ updates' = Tail(updates)
      /\ pc' = IF u.kind = "upsert" /\ pc[u.by] = "applying" /\ waits
               THEN [pc EXCEPT ![u.by] = "done"] ELSE pc
      /\ UNCHANGED <<backend, name, collection, calls, call, cursor, listed, results, before, touched,
                     clientOpen, connVars>>
  BY DEF Apply, ApplyUpdate, walkVars, historyVars
<1> HIDE DEF waits
<1>3. u \in Updates /\ u.by \in Callers /\ u.content \in Contents /\ updates' \in Seq(Updates)
  <2>1. u \in Updates /\ updates' \in Seq(Updates)
    BY <1>1, <1>2 DEF TypeOK
  <2> QED
    BY <2>1 DEF Updates
<1> HIDE DEF u
<1>4. ConnInv'
  BY <1>1, <1>2, ConnNextInv
<1>5. TypeOK'
  <2>1. points' \in [Ids -> Contents]
    BY <1>1, <1>2, <1>3 DEF TypeOK, Updated
  <2>2. pc' \in [Callers -> Places]
    BY <1>1, <1>2 DEF TypeOK, Places, Rest
  <2> QED
    BY <1>1, <1>2, <1>3, <1>4, <2>1, <2>2 DEF TypeOK, ConnInv, Places
<1>6. Global'
  BY <1>1, <1>2 DEF Global
<1>7. \A c \in Callers : CallerInv(c)'
  BY <1>2, AppliedInv
<1>8. Accepted' = Accepted
  BY <1>1, <1>2, ApplyShifts DEF TypeOK, u
<1>9. [Contract!ContractNext]_(Contract!contractVars)
  <2>1. CASE pc' = pc
    BY <1>2, <1>8, <2>1, ContractStutters
  <2>2. CASE pc' = [pc EXCEPT ![u.by] = "done"] /\ pc[u.by] = "applying"
    <3>1. /\ pc'[u.by] = "done" /\ InProgress(u.by)
          /\ \A c \in Callers \ {u.by} : pc'[c] = pc[c]
      BY <1>1, <1>3, <2>2 DEF TypeOK, InProgress, Rest
    <3>2. Effective(u.by)
      BY <1>8, <3>1 DEF Effective, Rest
    <3> QED
      BY <1>2, <1>3, <3>1, <3>2, ContractStep
  <2> QED
    BY <1>2, <2>1, <2>2
<1> QED
  BY <1>4, <1>5, <1>6, <1>7, <1>9 DEF Inv

\* The invariant holds at first, where the contract starts ...
LEMMA InitInv == Init => Inv /\ Contract!ContractInit
<1> SUFFICES ASSUME Init PROVE Inv /\ Contract!ContractInit
  OBVIOUS
<1>1. ConnInv
  BY ConnInitInv DEF Init
<1>2. Requests # {}
  <2>1. PICK o \in Operations, l \in Limits, m \in Dimensions : TRUE
    BY CallsAssumption
  <2>2. [op |-> o, id |-> None, content |-> "match", sent |-> "all", limit |-> l, dim |-> m,
         scope |-> Default] \in Requests
    BY ClientsAssumption DEF Requests
  <2> QED
    BY <2>2
<1>3. call \in [Callers -> Requests]
  <2>1. (CHOOSE r \in Requests : TRUE) \in Requests
    BY <1>2
  <2> QED
    BY <2>1 DEF Init, CallsInit
<1>4. points \in [Ids -> Contents]
  BY DEF Init, CallsInit, Contents
<1>5. /\ updates = <<>> /\ backend = None /\ name = None /\ collection \in Collections
      /\ calls = 0 /\ clientOpen = TRUE
      /\ pc = [c \in Callers |-> "idle"] /\ cursor = [c \in Callers |-> None]
      /\ listed = [c \in Callers |-> <<>>] /\ results = [c \in Callers |-> <<>>]
      /\ before = [c \in Callers |-> {}] /\ touched = [c \in Callers |-> {}]
  BY DEF Init, CallsInit
<1>6. TypeOK
  <2>1. calls \in 0..MaxCalls
    BY <1>5, CallsAssumption
  <2>2. /\ listed \in [Callers -> Seq(Ids)] /\ results \in [Callers -> Reports]
        /\ updates \in Seq(Updates)
    <3>1. <<>> \in Seq(Ids) /\ <<>> \in Reports /\ <<>> \in Seq(Updates)
      BY DEF Reports
    <3> QED
      BY <1>5, <3>1
  <2>3. pc \in [Callers -> Places]
    BY <1>5 DEF Places, Rest
  <2> QED
    BY <1>1, <1>3, <1>4, <1>5, <2>1, <2>2, <2>3 DEF TypeOK, ConnInv, Places, Reports
<1>7. Global /\ \A c \in Callers : pc[c] = "idle"
  BY <1>5, CallsAssumption DEF Global
<1>8. \A c \in Callers : CallerInv(c)
  BY <1>7, IdleInv
<1>9. Contract!ContractInit
  BY <1>4, <1>5, NoneWaiting DEF Contract!ContractInit, Contract!Idle, InProgress, Rest
<1> QED
  BY <1>1, <1>6, <1>7, <1>8, <1>9 DEF Inv

\* ... and every step keeps it, and is one of the contract or none.
LEMMA NextInv ==
    Inv /\ [Next]_vars => Inv' /\ [Contract!ContractNext]_(Contract!contractVars)
<1> SUFFICES ASSUME Inv, [Next]_vars
             PROVE  Inv' /\ [Contract!ContractNext]_(Contract!contractVars)
  OBVIOUS
<1>1. CASE NewVectorStore
  BY <1>1, NewVectorStoreKeeps
<1>2. ASSUME NEW b \in Callers, Begin(b)
      PROVE  Inv' /\ [Contract!ContractNext]_(Contract!contractVars)
  BY <1>2, BeginKeeps
<1>3. ASSUME NEW b \in Callers, Step(b) \/ Fail(b)
      PROVE  Inv' /\ [Contract!ContractNext]_(Contract!contractVars)
  <2>1. Moves(b)
    BY <1>3, QdrantStepMoves, QdrantFailsMoves, WeaviateStepMoves, WeaviateFailsMoves,
       PineconeStepMoves, PineconeFailsMoves DEF Step, Fail
  <2> QED
    BY <2>1, MovesKeep
<1>4. CASE Apply
  BY <1>4, ApplyKeeps
<1>5. CASE UNCHANGED vars
  <2>1. /\ UNCHANGED <<backend, name, collection, points, updates, calls, pc, call, cursor, listed>>
        /\ UNCHANGED <<results, before, touched, clientOpen, connVars>>
    BY <1>5 DEF vars, callsVars, serverVars, walkVars, historyVars
  <2>2. ConnInv'
    BY <2>1, ConnNextInv DEF Inv
  <2>3. TypeOK' /\ Global'
    BY <2>1, <2>2 DEF Inv, TypeOK, Global, ConnInv
  <2>4. \A c \in Callers : CallerInv(c)'
    BY <2>1, UntouchedInv
  <2>5. UNCHANGED Contract!contractVars
    BY <2>1, StillApplied, ContractStutters
  <2> QED
    BY <2>2, <2>3, <2>4, <2>5 DEF Inv
<1> QED
  BY <1>1, <1>2, <1>3, <1>4, <1>5 DEF Next

LEMMA InvHolds == Spec => []Inv
<1>1. Init => Inv
  BY InitInv
<1>2. Inv /\ [Next]_vars => Inv'
  BY NextInv
<1> QED
  BY <1>1, <1>2, PTL DEF Spec

-------------------------------------------------------------------------------
(* Theorems.                                                                  *)

\* The variables keep their types, whichever backend NewVectorStore made.
THEOREM StoreTypesHold == Spec => []TypeOK
<1>1. Inv => TypeOK
  BY DEF Inv
<1> QED
  BY <1>1, InvHolds, PTL

\* The connections of a Pinecone store do not leak, in the calls that use them
\* too (getNamespaceConnection, Close).
THEOREM StoreLeaksNone == Spec => [](NoneLeaked /\ HeldIsOpen)
<1>1. Inv => NoneLeaked /\ HeldIsOpen
  BY DEF Inv, ConnInv
<1> QED
  BY <1>1, InvHolds, PTL

\* A walk over GetAll meets every matching entry that nobody else touches.
THEOREM WalkCompleteHolds == Spec => []WalkComplete
<1>1. Inv => WalkComplete
  BY DEF Inv, CallerInv, AllGiven, WalkComplete
<1> QED
  BY <1>1, InvHolds, PTL

\* It meets none twice, but for Qdrant's cursor, which starts a page again.
THEOREM WalkRepeatsHolds == Spec => []WalkRepeats
<1>1. Inv => WalkRepeats
  <2> SUFFICES ASSUME Inv, NEW c \in Callers, Walked(c)
               PROVE  \A i, j \in DOMAIN listed[c] :
                         i < j /\ listed[c][i] = listed[c][j] =>
                            backend = "qdrant" /\ (Limit(c) = 1 \/ (j = i + 1 /\ i % Limit(c) = 0))
    BY DEF WalkRepeats
  <2>1. InSequence(c) /\ listed[c] \in Seq(Ids)
    BY DEF Inv, CallerInv, TypeOK
  <2>2. DOMAIN listed[c] = 1..Len(listed[c])
    BY <2>1
  <2> QED
    BY <2>1, <2>2, Zenon DEF InSequence, Walked
<1> QED
  BY <1>1, InvHolds, PTL

\* When Add has returned, the entry can be read (Upsert with Wait).
THEOREM AddVisibleHolds == Spec => []AddVisible
<1>1. Inv => AddVisible
  <2> SUFFICES ASSUME Inv, NEW c \in Callers, call[c].op = "add", pc[c] = "done",
                      call[c].id \notin touched[c]
               PROVE  points[call[c].id] = call[c].content
    BY DEF AddVisible
  <2>1. Len(updates) \in Nat /\ AddHeld(c)
    BY DEF Inv, TypeOK, CallerInv
  <2>2. Applied[0] = points /\ 0 \in 0..Len(updates)
    BY <2>1, AppliedChain DEF AppliedIsChain
  <2> HIDE DEF Applied
  <2> QED
    BY <2>1, <2>2 DEF AddHeld
<1> QED
  BY <1>1, InvHolds, PTL

\* What DeleteAll reports as deleted is gone.
THEOREM ReportedDeletedHolds == Spec => []ReportedDeleted
<1>1. Inv => ReportedDeleted
  BY DEF Inv, CallerInv, ReportsTrue, ReportedDeleted
<1> QED
  BY <1>1, InvHolds, PTL

\* A Qdrant namespace that CreateNamespace has created, or whose dimension it has
\* compared, has the configured dimension when it returns.
THEOREM CollectionFitsHolds == Spec => []CollectionFits
<1>1. Inv => CollectionFits
  BY DEF Inv, CallerInv, FitsCollection, CollectionFits
<1> QED
  BY <1>1, InvHolds, PTL

\* Qdrant, Weaviate and Pinecone implement the VectorStore interface: their
\* calls change the namespace in one indivisible step each, as it promises for
\* the conditions they send.
THEOREM ContractKept == Spec => KeepsContract
<1>1. Init => Contract!ContractInit
  BY InitInv
<1>2. Inv /\ [Next]_vars => [Contract!ContractNext]_(Contract!contractVars)
  BY NextInv
<1> QED
  BY <1>1, <1>2, InvHolds, PTL DEF Spec, KeepsContract, Contract!ContractSpec
===============================================================================
