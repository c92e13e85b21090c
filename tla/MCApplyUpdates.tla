---------------------------- MODULE MCApplyUpdates ----------------------------
(* Model checking instance of ApplyUpdates: the bounds are in the .cfg file. *)
EXTENDS ApplyUpdates

CONSTANTS p1, p2

\* A flushed segment: without deletes, and with global ones and its own
\* (ApplyAllDeletes makes the tickets that have global deletes only).
AllShapes == {{"seg"}, {"seg", "global", "private"}}
=============================================================================
