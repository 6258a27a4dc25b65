----------------------------- MODULE MCObjectStore -----------------------------
(* Instances of ObjectStore for TLC. *)
EXTENDS ObjectStore, TLC

CONSTANTS w1, w2

Workers == Permutations({w1, w2})
================================================================================
