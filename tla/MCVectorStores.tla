---------------------------- MODULE MCVectorStores -----------------------------
(* Small instances of VectorStores.                                           *)
EXTENDS VectorStores, TLC

CallerSymmetry == Permutations(Callers)
===============================================================================
