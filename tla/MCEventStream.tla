--------------------------- MODULE MCEventStream ---------------------------
(* The instance of EventStream for its runs: the configuration gives the    *)
(* bounds.                                                                 *)
EXTENDS EventStream, TLC
=============================================================================
