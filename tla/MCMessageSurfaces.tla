------------------------- MODULE MCMessageSurfaces -------------------------
\* Instance of MessageSurfaces for TLC: four session ids over two logical
\* workers, one of them identified by an external thread.  Before the message
\* is posted, three launcher runs: a lineage sees an unfenced head, a
\* reservation superseded before use, a stale registration and two successors
\* racing from one observed head.  With the message, one run: three successive
\* replacements of a worker while a permit is active, doubtful or confirmed, or
\* two workers racing for an agent-wide message with one replacement each.
EXTENDS MessageSurfaces, TLC

CONSTANTS r1, r2, r3

Succession == \A m \in Message : ~recipient[m].posted
Delivery == \A r \in Run \ {r1} : reservation[r] = NoReservation

Scope == Succession \/ Delivery

Symmetry == Permutations(Session)
=============================================================================
