-------------------------- MODULE MCReadMarkers --------------------------
(* Instances of ReadMarkers for TLC. *)
EXTENDS ReadMarkers
=============================================================================
