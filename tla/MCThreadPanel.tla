--------------------------- MODULE MCThreadPanel ---------------------------
(* A small instance of ThreadPanel for TLC: a reply of one's own in the    *)
(* panel, and somebody else's message in the channel's history.            *)
EXTENDS ThreadPanel

OwnSends == {"reply"}
OthersPost == {"their message"}
InThread == {"reply"}
============================================================================
