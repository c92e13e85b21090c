--------------------------- MODULE MCUpdatesStream ---------------------------
(* Model checking instance of UpdatesStream: the bounds are in the .cfg file. *)
EXTENDS UpdatesStream

CONSTANTS p1, p2, p3
=============================================================================
