------------------------- MODULE MCStreamConsumer -------------------------
(* Instances of StreamConsumer for TLC. *)
EXTENDS StreamConsumer, TLC

CONSTANTS c1, c2

TwoConsumers == {c1, c2}

JobAndUnknown == <<"job", "unknown-type">>
============================================================================
