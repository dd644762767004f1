------------------------------ MODULE VectorStore ------------------------------
(* What the VectorStore interface promises a client about the entries of one  *)
(* namespace, whatever backend lies behind it: the namespace is a dictionary, *)
(* and a call changes it at most once, in one indivisible step between its    *)
(* beginning and its return, and only as its name says.                       *)
(*   - Add leaves the given entry under the given ID, never a mixture.        *)
(*   - Delete removes that ID and no other.                                   *)
(*   - DeleteAll removes only entries that match at that very moment; which   *)
(*     of them is left open, as page limits and failures decide it.  To match *)
(*     is to fulfil the conditions that the backend sends: nothing is         *)
(*     promised for those that it cannot express and leaves out.              *)
(*   - DeleteNamespace empties the namespace.                                 *)
(*   - Every other operation leaves it alone, a call that has returned has    *)
(*     no further effect, and a call that fails may have had its effect.      *)
CONSTANTS Callers, Ids, Requests, Contents

VARIABLES dict,  \* Ids -> "absent", "match" or "other" (than the filter)
          doing  \* the call each caller has in progress, and if it may still act

contractVars == <<dict, doing>>

Idle == [op |-> "none"]

Selected(r, content) == content = "match" \/ (content = "other" /\ r.sent # "all")

Effects(r) ==
    CASE r.op = "add" -> {[d \in Ids |-> IF d = r.id THEN r.content ELSE dict[d]]}
      [] r.op = "delete" -> {[d \in Ids |-> IF d = r.id THEN "absent" ELSE dict[d]]}
      [] r.op = "deleteAll" ->
            {[d \in Ids |-> IF d \in S THEN "absent" ELSE dict[d]] :
                S \in SUBSET {d \in Ids : Selected(r, dict[d])}}
      [] r.op = "deleteNamespace" -> {[d \in Ids |-> "absent"]}
      [] OTHER -> {}

ContractInit ==
    /\ dict \in [Ids -> Contents]
    /\ doing = [c \in Callers |-> Idle]

Begins(c) ==
    /\ doing[c] = Idle
    /\ doing'[c] \in [op: {"call"}, of: Requests, due: {TRUE}]
    /\ doing' = [doing EXCEPT ![c] = doing'[c]]
    /\ UNCHANGED dict

\* The effect, with which the call may also return.
Acts(c) ==
    /\ doing[c] # Idle /\ doing[c].due
    /\ dict' \in Effects(doing[c].of)
    /\ doing' \in {[doing EXCEPT ![c].due = FALSE], [doing EXCEPT ![c] = Idle]}

Returns(c) ==
    /\ doing[c] # Idle
    /\ doing' = [doing EXCEPT ![c] = Idle]
    /\ UNCHANGED dict

ContractNext == \E c \in Callers : Begins(c) \/ Acts(c) \/ Returns(c)

ContractSpec == ContractInit /\ [][ContractNext]_contractVars
===============================================================================
