----------------------------- MODULE MCWatchPage -----------------------------
(* Model values for WatchPage. *)
EXTENDS WatchPage

CONSTANTS c1, c2

TwoConn == {c1, c2}
==============================================================================
