--------------------------- MODULE MCChannels ---------------------------
(* Instances of Channels for TLC. *)
EXTENDS Channels, TLC

Every == {"create", "rename", "archive", "add", "set", "remove", "open", "send"}

Symmetric == Permutations(Requests) \cup Permutations(People) \cup Permutations(Names)
=============================================================================
