--------------------------- MODULE MCAtomicRelease ---------------------------
(* Two releases of the same Hub to different builds.  One manager process   *)
(* suffices: another is known to it only by the lease, which it may lose.   *)
EXTENDS AtomicRelease

CONSTANTS o1, o2

MCBuild == {"A", "B", "C"}
MCFrom(o) == "A"
MCTo(o) == IF o = o1 THEN "B" ELSE "C"
=============================================================================
