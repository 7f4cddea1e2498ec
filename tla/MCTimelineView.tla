---------------------------- MODULE MCTimelineView ----------------------------
(* Values for TimelineView. *)
EXTENDS TimelineView

CONSTANT g1

OneGroup == {g1}
==============================================================================
