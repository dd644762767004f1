-------------------------- MODULE PineconeConnections --------------------------
(* The connections of a PineconeStore: one per namespace, made on first use   *)
(* under double-checked locking, dropped by Close while calls may be using    *)
(* them.  What is done under mu is one step, as every other access to the map *)
(* waits for mu; the step between the check under RLock and the one under     *)
(* Lock is where other goroutines come in.                                    *)
EXTENDS StoreClients, Naturals, Sequences

CONSTANT MaxConns  \* bound on the connections made

ASSUME ConnectionsAssumption == MaxConns \in Nat \ {0}

VARIABLES
    conns,       \* every connection made: its namespace, and if it is open
    namespaces,  \* s.namespaces: the number of a connection, 0 for no entry
    indexConn,   \* s.indexConn, 0 for nil
    phase,       \* progress of each caller
    wanted,      \* the namespace it wants a connection of
    held,        \* the connection getNamespaceConnection gave it, 0 for nil
    closedSince  \* history: Close has run since it asked

connVars == <<conns, namespaces, indexConn, phase, wanted, held, closedSince>>

Named == Names \ {Default}

\* getNamespaceConnection up to RUnlock.  The index's connection is read
\* without the lock.
LookupConnection(c, ns) ==
    /\ phase[c] = "idle"
    /\ wanted' = [wanted EXCEPT ![c] = ns]
    /\ closedSince' = [closedSince EXCEPT ![c] = FALSE]
    /\ LET conn == IF ns = Default THEN indexConn ELSE namespaces[ns]
       IN IF ns = Default \/ conn # 0
          THEN /\ held' = [held EXCEPT ![c] = conn]
               /\ phase' = [phase EXCEPT ![c] = "holding"]
          ELSE /\ phase' = [phase EXCEPT ![c] = "unlocked"]
               /\ UNCHANGED held
    /\ UNCHANGED <<conns, namespaces, indexConn>>

Hold(c, conn) ==
    /\ held' = [held EXCEPT ![c] = conn]
    /\ phase' = [phase EXCEPT ![c] = "holding"]
    /\ UNCHANGED <<indexConn, wanted, closedSince>>

\* client.Index and the entry in the map.
MakeConnection(c) ==
    /\ Len(conns) < MaxConns
    /\ conns' = Append(conns, [ns |-> wanted[c], open |-> TRUE])
    /\ namespaces' = [namespaces EXCEPT ![wanted[c]] = Len(conns) + 1]
    /\ Hold(c, Len(conns) + 1)

\* Plausible bug: the map is not looked at again under Lock.
CreateConnection_NoRecheck(c) ==
    /\ phase[c] = "unlocked"
    /\ MakeConnection(c)

\* getNamespaceConnection from Lock on.
CreateConnection(c) ==
    /\ phase[c] = "unlocked"
    /\ IF namespaces[wanted[c]] # 0
       THEN Hold(c, namespaces[wanted[c]]) /\ UNCHANGED <<conns, namespaces>>
       ELSE MakeConnection(c)

\* client.Index fails.
ConnectionFails(c) ==
    /\ phase[c] = "unlocked" /\ namespaces[wanted[c]] = 0
    /\ phase' = [phase EXCEPT ![c] = "idle"]
    /\ UNCHANGED <<conns, namespaces, indexConn, wanted, held, closedSince>>

\* The call that used the connection returns.
Release(c) ==
    /\ phase[c] = "holding"
    /\ phase' = [phase EXCEPT ![c] = "idle"]
    /\ held' = [held EXCEPT ![c] = 0]
    /\ UNCHANGED <<conns, namespaces, indexConn, wanted, closedSince>>

\* Plausible bug: indexConn is closed and not set to nil.
CloseConnections_KeepsIndex(ns) ==
    LET gone == IF ns = Default
                THEN {indexConn} \cup {namespaces[n] : n \in Named}
                ELSE {namespaces[ns]}
    IN /\ conns' = [i \in DOMAIN conns |->
                       [conns[i] EXCEPT !.open = @ /\ i \notin gone]]
       /\ namespaces' = [n \in Named |-> IF ns \in {n, Default} THEN 0 ELSE namespaces[n]]
       /\ closedSince' = [b \in Callers |-> TRUE]
       /\ UNCHANGED <<indexConn, phase, wanted, held>>

\* Close: of one namespace, or with the empty name of everything.
CloseConnections(ns) ==
    LET gone == IF ns = Default
                THEN {indexConn} \cup {namespaces[n] : n \in Named}
                ELSE {namespaces[ns]}
    IN /\ conns' = [i \in DOMAIN conns |->
                       [conns[i] EXCEPT !.open = @ /\ i \notin gone]]
       /\ namespaces' = [n \in Named |-> IF ns \in {n, Default} THEN 0 ELSE namespaces[n]]
       /\ indexConn' = IF ns = Default THEN 0 ELSE indexConn
       /\ closedSince' = [b \in Callers |-> TRUE]
       /\ UNCHANGED <<phase, wanted, held>>

\* newPineconeStore has connected the index.
ConnInit ==
    /\ conns = << [ns |-> Default, open |-> TRUE] >>
    /\ namespaces = [n \in Named |-> 0]
    /\ indexConn = 1
    /\ phase = [c \in Callers |-> "idle"]
    /\ wanted = [c \in Callers |-> Default]
    /\ held = [c \in Callers |-> 0]
    /\ closedSince = [c \in Callers |-> FALSE]

ConnNext ==
    \/ \E c \in Callers :
          \/ \E ns \in Names : LookupConnection(c, ns)
          \/ CreateConnection(c) \/ ConnectionFails(c) \/ Release(c)
    \/ \E ns \in Names : CloseConnections(ns)

ConnSpec == ConnInit /\ [][ConnNext]_connVars

-------------------------------------------------------------------------------
(* Properties                                                                 *)

ConnTypeOK ==
    /\ conns \in Seq([ns: Names, open: BOOLEAN])
    /\ namespaces \in [Named -> 0..Len(conns)]
    /\ indexConn \in 0..Len(conns)
    /\ phase \in [Callers -> {"idle", "unlocked", "holding"}]
    /\ wanted \in [Callers -> Names]
    /\ held \in [Callers -> 0..Len(conns)]
    /\ closedSince \in [Callers -> BOOLEAN]

\* However many calls race to connect and close, at most one connection per
\* namespace is open (getNamespaceConnection, Close), and it is the one the map
\* (or indexConn) holds, so that a later Close can still close it: none leaks.
NoneLeaked ==
    \A i \in DOMAIN conns : conns[i].open =>
        IF conns[i].ns = Default THEN i = indexConn ELSE i = namespaces[conns[i].ns]

\* A call works on an open connection to its own namespace, unless a Close has
\* run since it asked for one or the store has been closed (Close with the
\* empty name) before it asked for the index's own.
HeldIsOpen ==
    \A c \in Callers : phase[c] = "holding" /\ ~ closedSince[c] =>
        \/ held[c] # 0 /\ conns[held[c]].open /\ conns[held[c]].ns = wanted[c]
        \/ wanted[c] = Default /\ indexConn = 0
===============================================================================
