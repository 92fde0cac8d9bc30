----------------------------- MODULE MCReviews -----------------------------
\* Constants for the runs of Reviews: one task, an author that may be replaced
\* once and a reviewer.  Scope: several revisions and todo items under one
\* author, or one revision across a replacement.
EXTENDS Reviews, TLC

CONSTANTS s1, s2, s3, L1, a1, a2

MCAgentOf == [s \in Session |-> IF s = s3 THEN a2 ELSE a1]
MCWorkerOf == [l \in Lineage |-> a1]

Scope ==
  \/ ~(Registered(s1) /\ Registered(s2))
  \/ \A t \in Task : Len(review[t]) <= 1 /\ task[t].todos = 0

Symmetry == Permutations({s1, s2})
=============================================================================
