----------------------------- MODULE CachePromise -----------------------------
(* What the cache promises a caller of Lookup, whatever store, goroutines and *)
(* clock lie between a Store and a later hit: an answer comes back only       *)
(*   - if some caller handed it to MissHandle.Store earlier (never invented), *)
(*   - for a request in the same cache key and parameter bucket (isolation),  *)
(*   - on the direct path for the very same request, on the semantic path for *)
(*     one the store may rank as similar,                                     *)
(*   - and never once its expires_at has passed.                              *)
(* A miss is always allowed: the promise says nothing about hits that must    *)
(* happen.                                                                    *)
EXTENDS Integers

CONSTANTS Calls,     \* Lookup calls
          Queries,   \* requests, up to the equality the direct hash decides
          KeyOf,     \* the cache key each request is made under
          BucketOf,  \* its params_hash / provider / model bucket
          Similar,   \* pairs <<asked, stored>> the index may rank as similar
          TTLs,      \* lifetimes a caller may ask for
          MaxStores, \* bound on the Store calls of one handle
          None

VARIABLES clock,   \* wall clock
          given,   \* the answers handed to Store so far
          served   \* what each call was answered, or None

promiseVars == <<clock, given, served>>

Forms == {"response", "chunks"}

\* An answer: the request it was given for, the call and the number of the
\* Store call that gave it, its expires_at and its form.
AnswerUntil(exps) ==
    [q: Queries, by: Calls, n: 1..MaxStores, exp: exps, form: Forms]

SameScope(p, q) == KeyOf[p] = KeyOf[q] /\ BucketOf[p] = BucketOf[q]

Admissible(kind, q, a) ==
    /\ SameScope(q, a.q)
    /\ CASE kind = "direct"   -> a.q = q
         [] kind = "semantic" -> <<q, a.q>> \in Similar

PromiseInit ==
    /\ clock = 0
    /\ given = {}
    /\ served = [c \in Calls |-> None]

Pass == clock' = clock + 1 /\ UNCHANGED <<given, served>>

Give ==
    /\ \E a \in AnswerUntil({clock + ttl : ttl \in TTLs}) : given' = given \cup {a}
    /\ UNCHANGED <<clock, served>>

Serve(c) ==
    /\ served[c] = None
    /\ \E kind \in {"direct", "semantic"}, q \in Queries, a \in given :
          /\ Admissible(kind, q, a)
          /\ a.exp >= clock
          /\ served' = [served EXCEPT ![c] = [kind |-> kind, q |-> q, answer |-> a]]
    /\ UNCHANGED <<clock, given>>

PromiseNext == Pass \/ Give \/ (\E c \in Calls : Serve(c))

PromiseSpec == PromiseInit /\ [][PromiseNext]_promiseVars
===============================================================================
