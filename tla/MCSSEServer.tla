----------------------------- MODULE MCSSEServer -----------------------------
(* Model values for SSEServer. *)
EXTENDS SSEServer

CONSTANTS c1, c2

TwoConn == {c1, c2}
==============================================================================
