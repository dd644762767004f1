----------------------- MODULE PineconeConnectionsProofs -----------------------
(* Proofs that the connections of PineconeConnections do not leak, for any    *)
(* number of callers, namespaces and connections.                             *)
EXTENDS PineconeConnections, SequenceTheorems, TLAPS

\* The number in the map or in indexConn is that of an open connection of the
\* same namespace, and only a named namespace is looked up under Lock.
EntriesOpen ==
    /\ \A n \in Named : namespaces[n] # 0 =>
          conns[namespaces[n]].open /\ conns[namespaces[n]].ns = n
    /\ indexConn # 0 => conns[indexConn].open /\ conns[indexConn].ns = Default
    /\ \A c \in Callers : phase[c] = "unlocked" => wanted[c] \in Named

ConnInv == ConnTypeOK /\ EntriesOpen /\ NoneLeaked /\ HeldIsOpen

-------------------------------------------------------------------------------
\* newPineconeStore leaves one open connection, that of the index.
LEMMA ConnInitInv == ConnInit => ConnInv
  <1> SUFFICES ASSUME ConnInit PROVE ConnInv
    OBVIOUS
  <1>1. Len(conns) = 1 /\ DOMAIN conns = {1} /\ conns[1] = [ns |-> Default, open |-> TRUE]
    BY DEF ConnInit
  <1>2. ConnTypeOK
    BY <1>1, ClientsAssumption DEF ConnInit, ConnTypeOK
  <1>3. EntriesOpen
    BY <1>1 DEF ConnInit, EntriesOpen
  <1>4. NoneLeaked
    BY <1>1 DEF ConnInit, NoneLeaked
  <1>5. HeldIsOpen
    BY DEF ConnInit, HeldIsOpen
  <1> QED
    BY <1>2, <1>3, <1>4, <1>5 DEF ConnInv

\* A lookup takes what the map or indexConn holds, or goes on to Lock.
LEMMA LookupStep ==
  ASSUME ConnInv, NEW c \in Callers, NEW ns \in Names, LookupConnection(c, ns)
  PROVE  ConnInv'
  <1> USE DEF ConnInv
  <1> DEFINE conn == IF ns = Default THEN indexConn ELSE namespaces[ns]
  <1>1. conn \in 0..Len(conns)
    BY DEF ConnTypeOK, Named
  <1>2. ConnTypeOK'
    BY <1>1 DEF ConnTypeOK, LookupConnection
  <1>3. EntriesOpen'
    BY DEF ConnTypeOK, EntriesOpen, LookupConnection, Named
  <1>4. NoneLeaked'
    BY DEF NoneLeaked, LookupConnection
  <1>5. HeldIsOpen'
    <2> SUFFICES ASSUME NEW b \in Callers, phase'[b] = "holding", ~ closedSince'[b]
                 PROVE  \/ held'[b] # 0 /\ conns'[held'[b]].open /\ conns'[held'[b]].ns = wanted'[b]
                        \/ wanted'[b] = Default /\ indexConn' = 0
      BY DEF HeldIsOpen
    <2>1. CASE b = c
      BY <2>1, <1>1 DEF ConnTypeOK, EntriesOpen, LookupConnection, Named
    <2>2. CASE b # c
      BY <2>2 DEF ConnTypeOK, HeldIsOpen, LookupConnection
    <2> QED
      BY <2>1, <2>2
  <1> QED
    BY <1>2, <1>3, <1>4, <1>5

\* What holds of a connection that is in the map still holds when another one
\* has been made, and the new one is the only open one of its namespace, since
\* the map was looked at again under Lock.
LEMMA MakeStep ==
  ASSUME ConnInv, NEW c \in Callers, phase[c] = "unlocked",
         namespaces[wanted[c]] = 0, MakeConnection(c)
  PROVE  ConnInv'
  <1> USE DEF ConnInv
  <1> DEFINE w == wanted[c]
             k == Len(conns) + 1
  <1>1. w \in Named /\ w # Default
    BY DEF EntriesOpen, Named
  <1>2. /\ conns \in Seq([ns: Names, open: BOOLEAN])
        /\ conns' = Append(conns, [ns |-> w, open |-> TRUE])
    BY DEF ConnTypeOK, MakeConnection
  <1>3. /\ conns' \in Seq([ns: Names, open: BOOLEAN])
        /\ Len(conns) \in Nat /\ Len(conns') = k
        /\ \A i \in 1..Len(conns) : conns'[i] = conns[i]
        /\ conns'[k] = [ns |-> w, open |-> TRUE]
    BY <1>1, <1>2 DEF Named
  <1>4. /\ namespaces' = [namespaces EXCEPT ![w] = k]
        /\ held' = [held EXCEPT ![c] = k]
        /\ phase' = [phase EXCEPT ![c] = "holding"]
        /\ UNCHANGED <<indexConn, wanted, closedSince>>
    BY DEF MakeConnection, Hold
  <1>5. ConnTypeOK'
    <2>1. k \in 0..Len(conns') /\ 0..Len(conns) \subseteq 0..Len(conns')
      BY <1>3
    <2>2. namespaces' \in [Named -> 0..Len(conns')] /\ held' \in [Callers -> 0..Len(conns')]
      BY <2>1, <1>4 DEF ConnTypeOK
    <2>3. indexConn' \in 0..Len(conns')
      BY <2>1, <1>4 DEF ConnTypeOK
    <2>4. /\ phase' \in [Callers -> {"idle", "unlocked", "holding"}]
          /\ wanted' \in [Callers -> Names] /\ closedSince' \in [Callers -> BOOLEAN]
      BY <1>4 DEF ConnTypeOK
    <2> QED
      BY <1>3, <2>2, <2>3, <2>4 DEF ConnTypeOK
  <1>6. EntriesOpen'
    <2>1. ASSUME NEW n \in Named, namespaces'[n] # 0
          PROVE  conns'[namespaces'[n]].open /\ conns'[namespaces'[n]].ns = n
      <3>1. CASE n = w
        BY <3>1, <1>3, <1>4 DEF ConnTypeOK
      <3>2. CASE n # w
        BY <2>1, <3>2, <1>3, <1>4 DEF ConnTypeOK, EntriesOpen
      <3> QED
        BY <3>1, <3>2
    <2>2. indexConn' # 0 => conns'[indexConn'].open /\ conns'[indexConn'].ns = Default
      BY <1>3, <1>4 DEF ConnTypeOK, EntriesOpen
    <2>3. \A b \in Callers : phase'[b] = "unlocked" => wanted'[b] \in Named
      BY <1>4 DEF ConnTypeOK, EntriesOpen
    <2> QED
      BY <2>1, <2>2, <2>3 DEF EntriesOpen, Named
  <1>7. NoneLeaked'
    <2> SUFFICES ASSUME NEW i \in DOMAIN conns', conns'[i].open
                 PROVE  IF conns'[i].ns = Default THEN i = indexConn'
                        ELSE i = namespaces'[conns'[i].ns]
      BY DEF NoneLeaked
    <2>1. i \in 1..k
      BY <1>3
    <2>2. CASE i = k
      BY <2>2, <1>1, <1>3, <1>4 DEF ConnTypeOK
    <2>3. CASE i # k
      <3>1. i \in 1..Len(conns) /\ conns'[i] = conns[i] /\ conns[i].ns \in Names
        <4>1. i \in 1..Len(conns)
          BY <2>1, <2>3, <1>3
        <4>2. conns[i] \in [ns: Names, open: BOOLEAN]
          BY <4>1, <1>2, ElementOfSeq
        <4> QED
          BY <4>1, <4>2, <1>3
      <3>2. IF conns[i].ns = Default THEN i = indexConn ELSE i = namespaces[conns[i].ns]
        BY <3>1, <1>2 DEF NoneLeaked
      <3>3. conns[i].ns # w
        BY <3>1, <3>2, <1>1
      <3> QED
        BY <3>1, <3>2, <3>3, <1>4 DEF ConnTypeOK, Named
    <2> QED
      BY <2>2, <2>3
  <1>8. HeldIsOpen'
    <2> SUFFICES ASSUME NEW b \in Callers, phase'[b] = "holding", ~ closedSince'[b]
                 PROVE  \/ held'[b] # 0 /\ conns'[held'[b]].open /\ conns'[held'[b]].ns = wanted'[b]
                        \/ wanted'[b] = Default /\ indexConn' = 0
      BY DEF HeldIsOpen
    <2>1. CASE b = c
      BY <2>1, <1>3, <1>4 DEF ConnTypeOK
    <2>2. CASE b # c
      BY SMTT(30), <2>2, <1>3, <1>4 DEF ConnTypeOK, HeldIsOpen
    <2> QED
      BY <2>1, <2>2
  <1> QED
    BY <1>5, <1>6, <1>7, <1>8

\* Under Lock, the entry another goroutine has made meanwhile is taken.
LEMMA CreateStep ==
  ASSUME ConnInv, NEW c \in Callers, CreateConnection(c)
  PROVE  ConnInv'
  <1> USE DEF ConnInv
  <1>1. CASE namespaces[wanted[c]] # 0
    <2>1. wanted[c] \in Named /\ phase[c] = "unlocked"
      BY DEF CreateConnection, EntriesOpen
    <2>2. /\ held' = [held EXCEPT ![c] = namespaces[wanted[c]]]
          /\ phase' = [phase EXCEPT ![c] = "holding"]
          /\ UNCHANGED <<indexConn, wanted, closedSince, conns, namespaces>>
      BY <1>1 DEF CreateConnection, Hold
    <2>3. ConnTypeOK'
      BY <2>1, <2>2 DEF ConnTypeOK
    <2>4. EntriesOpen'
      BY <2>2 DEF ConnTypeOK, EntriesOpen
    <2>5. NoneLeaked'
      BY <2>2 DEF NoneLeaked
    <2>6. HeldIsOpen'
      BY <1>1, <2>1, <2>2 DEF ConnTypeOK, EntriesOpen, HeldIsOpen
    <2> QED
      BY <2>3, <2>4, <2>5, <2>6
  <1>2. CASE namespaces[wanted[c]] = 0
    BY <1>2, MakeStep DEF CreateConnection
  <1> QED
    BY <1>1, <1>2

\* A call that gives up or returns touches no connection.
LEMMA LeaveStep ==
  ASSUME ConnInv, NEW c \in Callers, ConnectionFails(c) \/ Release(c)
  PROVE  ConnInv'
  <1> USE DEF ConnInv
  <1>1. ConnTypeOK'
    <2>1. /\ phase' = [phase EXCEPT ![c] = "idle"]
          /\ held' = held \/ held' = [held EXCEPT ![c] = 0]
          /\ UNCHANGED <<conns, namespaces, indexConn, wanted, closedSince>>
      BY DEF ConnectionFails, Release
    <2>2. 0 \in 0..Len(conns)
      BY DEF ConnTypeOK
    <2>3. held' \in [Callers -> 0..Len(conns)]
      BY <2>1, <2>2 DEF ConnTypeOK
    <2>4. phase' \in [Callers -> {"idle", "unlocked", "holding"}]
      BY <2>1 DEF ConnTypeOK
    <2> QED
      BY <2>1, <2>3, <2>4 DEF ConnTypeOK
  <1>2. EntriesOpen'
    BY DEF ConnTypeOK, EntriesOpen, ConnectionFails, Release
  <1>3. NoneLeaked'
    BY DEF NoneLeaked, ConnectionFails, Release
  <1>4. HeldIsOpen'
    BY DEF ConnTypeOK, HeldIsOpen, ConnectionFails, Release
  <1> QED
    BY <1>1, <1>2, <1>3, <1>4

\* Close closes exactly what it takes out of the map and of indexConn.
LEMMA CloseStep ==
  ASSUME ConnInv, NEW ns \in Names, CloseConnections(ns)
  PROVE  ConnInv'
  <1> USE DEF ConnInv
  <1> DEFINE gone == IF ns = Default
                     THEN {indexConn} \cup {namespaces[n] : n \in Named}
                     ELSE {namespaces[ns]}
  <1>1. /\ conns' = [i \in DOMAIN conns |-> [conns[i] EXCEPT !.open = @ /\ i \notin gone]]
        /\ namespaces' = [n \in Named |-> IF ns \in {n, Default} THEN 0 ELSE namespaces[n]]
        /\ indexConn' = IF ns = Default THEN 0 ELSE indexConn
        /\ closedSince' = [b \in Callers |-> TRUE]
        /\ UNCHANGED <<phase, wanted, held>>
    BY DEF CloseConnections
  <1>2. /\ conns \in Seq([ns: Names, open: BOOLEAN])
        /\ DOMAIN conns = 1..Len(conns) /\ Len(conns) \in Nat
        /\ \A i \in DOMAIN conns : conns[i] \in [ns: Names, open: BOOLEAN]
    <2>1. conns \in Seq([ns: Names, open: BOOLEAN])
      BY DEF ConnTypeOK
    <2>2. DOMAIN conns = 1..Len(conns) /\ Len(conns) \in Nat
      BY <2>1
    <2> QED
      BY <2>1, <2>2, ElementOfSeq
  <1>3. /\ conns' \in Seq([ns: Names, open: BOOLEAN])
        /\ Len(conns') = Len(conns) /\ DOMAIN conns' = DOMAIN conns
        /\ \A i \in DOMAIN conns : /\ conns'[i].ns = conns[i].ns
                                   /\ conns'[i].open <=> (conns[i].open /\ i \notin gone)
    <2>1. \A i \in 1..Len(conns) :
            [conns[i] EXCEPT !.open = @ /\ i \notin gone] \in [ns: Names, open: BOOLEAN]
      BY <1>2
    <2>2. conns' \in Seq([ns: Names, open: BOOLEAN])
      BY <1>1, <1>2, <2>1
    <2> QED
      BY <1>1, <1>2, <2>2
  <1>4. ConnTypeOK'
    BY <1>1, <1>3 DEF ConnTypeOK
  <1>5. EntriesOpen'
    <2>1. ASSUME NEW n \in Named, namespaces'[n] # 0
          PROVE  conns'[namespaces'[n]].open /\ conns'[namespaces'[n]].ns = n
      <3>1. namespaces'[n] = namespaces[n] /\ ns # n /\ ns # Default
        BY <1>1, <2>1
      <3>2. namespaces[n] \in DOMAIN conns /\ conns[namespaces[n]].open
            /\ conns[namespaces[n]].ns = n
        BY <1>2, <2>1, <3>1 DEF ConnTypeOK, EntriesOpen
      <3>3. ns \in Named
        BY <3>1 DEF Named
      <3>4. namespaces[ns] # namespaces[n]
        BY <3>1, <3>2, <3>3 DEF ConnTypeOK, EntriesOpen
      <3> QED
        BY <1>3, <3>1, <3>2, <3>4
    <2>2. ASSUME indexConn' # 0
          PROVE  conns'[indexConn'].open /\ conns'[indexConn'].ns = Default
      <3>1. indexConn' = indexConn /\ ns \in Named
        BY <1>1, <2>2 DEF Named
      <3>2. indexConn \in DOMAIN conns /\ conns[indexConn].open
            /\ conns[indexConn].ns = Default
        BY <1>2, <2>2, <3>1 DEF ConnTypeOK, EntriesOpen
      <3>3. namespaces[ns] # indexConn
        BY <2>2, <3>1, <3>2 DEF EntriesOpen, Named
      <3> QED
        BY <1>3, <3>1, <3>2, <3>3 DEF Named
    <2>3. \A b \in Callers : phase'[b] = "unlocked" => wanted'[b] \in Named
      BY <1>1 DEF EntriesOpen
    <2> QED
      BY <2>1, <2>2, <2>3 DEF EntriesOpen, Named
  <1>6. NoneLeaked'
    <2> SUFFICES ASSUME NEW i \in DOMAIN conns', conns'[i].open
                 PROVE  IF conns'[i].ns = Default THEN i = indexConn'
                        ELSE i = namespaces'[conns'[i].ns]
      BY DEF NoneLeaked
    <2>1. /\ i \in DOMAIN conns /\ conns[i].open /\ i \notin gone
          /\ conns'[i].ns = conns[i].ns /\ conns[i].ns \in Names
      BY <1>2, <1>3
    <2>2. IF conns[i].ns = Default THEN i = indexConn ELSE i = namespaces[conns[i].ns]
      BY <2>1 DEF NoneLeaked
    <2>3. ns # Default /\ conns[i].ns # ns
      BY <2>1, <2>2 DEF Named
    <2> QED
      BY <1>1, <2>1, <2>2, <2>3 DEF Named
  <1>7. HeldIsOpen'
    BY <1>1 DEF HeldIsOpen
  <1> QED
    BY <1>4, <1>5, <1>6, <1>7

\* Every step keeps the invariant.
LEMMA ConnNextInv == ConnInv /\ [ConnNext]_connVars => ConnInv'
  <1> SUFFICES ASSUME ConnInv, [ConnNext]_connVars PROVE ConnInv'
    OBVIOUS
  <1>1. ASSUME NEW c \in Callers, NEW ns \in Names, LookupConnection(c, ns) PROVE ConnInv'
    BY <1>1, LookupStep
  <1>2. ASSUME NEW c \in Callers, CreateConnection(c) PROVE ConnInv'
    BY <1>2, CreateStep
  <1>3. ASSUME NEW c \in Callers, ConnectionFails(c) \/ Release(c) PROVE ConnInv'
    BY <1>3, LeaveStep
  <1>4. ASSUME NEW ns \in Names, CloseConnections(ns) PROVE ConnInv'
    BY <1>4, CloseStep
  <1>5. CASE UNCHANGED connVars
    BY <1>5 DEF connVars, ConnInv, ConnTypeOK, EntriesOpen, NoneLeaked, HeldIsOpen
  <1> QED
    BY <1>1, <1>2, <1>3, <1>4, <1>5 DEF ConnNext

\* The variables keep their types (PineconeStore, getNamespaceConnection).
THEOREM ConnTypesHold == ConnSpec => []ConnTypeOK
  <1>1. ConnInv => ConnTypeOK
    BY DEF ConnInv
  <1> QED
    BY <1>1, ConnInitInv, ConnNextInv, PTL DEF ConnSpec

\* No connection leaks, whatever the race between calls that connect and calls
\* that close: the double-checked locking of getNamespaceConnection is right.
THEOREM NoneLeakedHolds == ConnSpec => []NoneLeaked
  <1>1. ConnInv => NoneLeaked
    BY DEF ConnInv
  <1> QED
    BY <1>1, ConnInitInv, ConnNextInv, PTL DEF ConnSpec

\* A call works on an open connection to its own namespace unless a Close
\* came between.
THEOREM HeldIsOpenHolds == ConnSpec => []HeldIsOpen
  <1>1. ConnInv => HeldIsOpen
    BY DEF ConnInv
  <1> QED
    BY <1>1, ConnInitInv, ConnNextInv, PTL DEF ConnSpec
===============================================================================
