------------------------- MODULE MCMessagePipeline -------------------------
(* A small instance of MessagePipeline for TLC.                            *)
EXTENDS MessagePipeline
CONSTANTS m1, r1, r2
OneMessage == {m1}
TwoRequests == {r1, r2}
============================================================================
