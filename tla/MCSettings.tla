----------------------------- MODULE MCSettings -----------------------------
(* Settings on small instances.                                            *)
EXTENDS Settings, TLC

Interchangeable == Permutations(Editors) \cup Permutations(URLs)
=============================================================================
