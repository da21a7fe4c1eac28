------------------------- MODULE MC_ObjectLifecycle -------------------------
(* Model-checking instance of ObjectLifecycle: the backend, the classes     *)
(* and the host's discipline come from the .cfg files.                      *)
EXTENDS ObjectLifecycle, TLC

(* Proxy identities are interchangeable.                                    *)
ObjectSymmetry == Permutations(Objects)
=============================================================================
