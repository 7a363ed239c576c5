-------------------------- MODULE MCHistoryCache --------------------------
(* Small instances of HistoryCache for TLC. *)
EXTENDS HistoryCache

OldestIsOlder == {1}
============================================================================
