--------------------------- MODULE MCKeyCache ---------------------------
(* Instances of KeyCache for TLC. *)
EXTENDS KeyCache, TLC

Symmetric == Permutations(Requests) \cup Permutations(Kids)
=============================================================================
