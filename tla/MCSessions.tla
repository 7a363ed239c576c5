--------------------------- MODULE MCSessions ---------------------------
(* Instances of Sessions for TLC. *)
EXTENDS Sessions, TLC

Symmetric == Permutations(Tabs) \cup Permutations(Slots)
=============================================================================
