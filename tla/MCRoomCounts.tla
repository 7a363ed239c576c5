--------------------------- MODULE MCRoomCounts ---------------------------
(* Instances of RoomCounts for TLC. *)
EXTENDS RoomCounts, TLC

CONSTANTS ada, bob, p1, p2, h1, h2

TwoUsers == {ada, bob}
TwoReplies == {p1, p2}
TwoHandlers == {h1, h2}
Symmetric == Permutations(Handlers) \cup Permutations(Replies)
============================================================================
