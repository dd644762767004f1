----------------------------- MODULE StoreClients ------------------------------
(* Who calls a vector store, and under which namespace names.                 *)
CONSTANTS
    Callers,  \* goroutines that call the store
    Names,    \* namespace names they use
    Default   \* the empty name, for the index's own connection

ASSUME ClientsAssumption == Default \in Names
===============================================================================
