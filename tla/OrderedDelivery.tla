-------------------------- MODULE OrderedDelivery --------------------------
(***************************************************************************)
(* What an adapter is promised of a project's events: they are handled one  *)
(* at a time in the order of the log, each at least once, and every one     *)
(* eventually.  A restart may go through them again.                        *)
(***************************************************************************)
EXTENDS Naturals

VARIABLES
  log,      \* length of the project's event log
  handled,  \* the events whose handler has run
  cursor    \* the events the adapter has done with: 1 .. cursor

vars == <<log, handled, cursor>>

Init == log = 0 /\ handled = {} /\ cursor = 0

\* A mutation commits, with all its events.
Append ==
  /\ log' \in Nat /\ log' > log
  /\ UNCHANGED <<handled, cursor>>

Handle ==
  /\ cursor < log
  /\ handled' = handled \cup {cursor + 1}
  /\ UNCHANGED <<log, cursor>>

Advance ==
  /\ cursor + 1 \in handled
  /\ cursor' = cursor + 1
  /\ UNCHANGED <<log, handled>>

Restart ==
  /\ cursor' = 0
  /\ UNCHANGED <<log, handled>>

Next == Append \/ Handle \/ Advance \/ Restart

\* What may happen, and with it what must.
SafeSpec == Init /\ [][Next]_vars

Spec == SafeSpec /\ WF_vars(Handle) /\ WF_vars(Advance)
=============================================================================
