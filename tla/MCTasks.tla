------------------------------ MODULE MCTasks ------------------------------
\* Constants for the run of Tasks.  Two tasks are needed for dependencies, and
\* two agents, a launcher and silence for the claims of one task; Scope takes
\* the two together no further than each needs.
EXTENDS Tasks, TLC

CONSTANTS s1, s2, s3, L1, L2, a1, a2, t1, t2

MCAgentOf == [s \in Session |-> IF s = s3 THEN a2 ELSE a1]
MCWorkerOf == [l \in Lineage |-> IF l = L2 THEN a2 ELSE a1]

\* Three sessions of two agents, silence, todo items: one task.
OneTask ==
  /\ \E t \in Task : \A u \in Task \ {t} : ~Created(u)
  /\ \A r \in Run : reservation[r] = NoReservation

\* A task and its dependency: one agent, with or without a launcher.
TwoTasks ==
  /\ ~Registered(s3)
  /\ \A t \in Task : task[t].todos = 0
  /\ \A s \in Session : presence[s] = Heard

Scope == OneTask \/ TwoTasks

Symmetry == Permutations({s1, s2}) \cup Permutations(Task)
=============================================================================
