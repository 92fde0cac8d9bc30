-------------------------- MODULE SessionLineages --------------------------
(***************************************************************************)
(* The succession of adapter sessions in the Hub store.                    *)
(*                                                                         *)
(* A logical worker (one project, agent, client, delivery mode and         *)
(* external thread or session id) is a row of session_lineages.  Every     *)
(* process that speaks for it registers a fresh session, which becomes the *)
(* lineage's head and supersedes the previous one.  A launcher that starts *)
(* such a process first takes a launch reservation; from then on only the  *)
(* newest reservation of the lineage may advance its head.                 *)
(*                                                                         *)
(* Source: apps/hub/src/services/store/sessions.ts.  Each store call is    *)
(* one SQLite transaction, so it is one action here.  "OPEN" stands for    *)
(* every connection state but CLOSED (ONLINE, STALE and OFFLINE do not     *)
(* matter to succession).  The version columns are compared with a value read in the same *)
(* transaction and are left out.                                           *)
(***************************************************************************)
EXTENDS Naturals

CONSTANTS
  Session,     \* ids that createId("ses") can hand out
  Lineage,     \* logical identities
  Run,         \* launcher run ids
  None,        \* SQL NULL
  Unspecified  \* an optional request field that was left out

ASSUME ConstantsDisjoint ==
  /\ None \notin Session \cup Lineage \cup Run
  /\ Unspecified \notin Session \cup {None}

VARIABLES
  session,      \* agent_sessions, by id
  lineage,      \* session_lineages, by identity
  reservation   \* session_launch_reservations, by run id

lineageVars == <<session, lineage, reservation>>

----------------------------------------------------------------------------

NoSession == [connection |-> "ABSENT", lineage |-> None, incarnation |-> 0,
              predecessor |-> None, supersededBy |-> None, run |-> None]

\* A row createLineage has not inserted yet behaves like one without a head.
NewLineage == [head |-> None, headIncarnation |-> 0, fenceRequired |-> FALSE,
               generation |-> 0, active |-> None,
               headRun |-> None, headGeneration |-> 0]

NoReservation == [state |-> "ABSENT", lineage |-> None, generation |-> 0,
                  expectedHead |-> None, consumedBy |-> None]

SessionRow ==
  [connection : {"ABSENT", "OPEN", "CLOSED"}, lineage : Lineage \cup {None},
   incarnation : Nat, predecessor : Session \cup {None},
   supersededBy : Session \cup {None}, run : Run \cup {None}]

LineageRow ==
  [head : Session \cup {None}, headIncarnation : Nat, fenceRequired : BOOLEAN,
   generation : Nat, active : Run \cup {None},
   headRun : Run \cup {None}, headGeneration : Nat]

ReservationRow ==
  [state : {"ABSENT", "ISSUED", "SUPERSEDED", "CONSUMED"},
   lineage : Lineage \cup {None}, generation : Nat,
   expectedHead : Session \cup {None}, consumedBy : Session \cup {None}]

Registered(s) == session[s].connection # "ABSENT"
IsOpen(s)     == session[s].connection = "OPEN"

\* getCurrentSurfaceSession: an open session that no successor has replaced.
IsCurrent(s) ==
  /\ IsOpen(s)
  /\ session[s].lineage # None => lineage[session[s].lineage].head = s

LineageInit ==
  /\ session = [s \in Session |-> NoSession]
  /\ lineage = [l \in Lineage |-> NewLineage]
  /\ reservation = [r \in Run |-> NoReservation]

----------------------------------------------------------------------------
(* reserveSessionLaunch for a run id not seen before.  (A known run id only *)
(* reads its row back, or is refused when it was superseded.)              *)
ReserveLaunch(r, l) ==
  /\ reservation[r].state = "ABSENT"
  /\ reservation' =
       [q \in Run |->
          IF q = r
          THEN [state |-> "ISSUED", lineage |-> l,
                generation |-> lineage[l].generation + 1,
                expectedHead |-> lineage[l].head, consumedBy |-> None]
          ELSE IF reservation[q].lineage = l /\ reservation[q].state = "ISSUED"
               THEN [reservation[q] EXCEPT !.state = "SUPERSEDED"]
               ELSE reservation[q]]
  /\ lineage' = [lineage EXCEPT ![l] =
       [@ EXCEPT !.fenceRequired = TRUE, !.generation = lineage[l].generation + 1, !.active = r]]
  /\ UNCHANGED session

\* Mutant: any launch of the lineage that was not consumed is admitted.
ReservationOfLineage(l, r, expected) ==
  /\ reservation[r].state \in {"ISSUED", "SUPERSEDED"}
  /\ reservation[r].lineage = l

(* The admission test of registerSession for an identified primary: with a *)
(* launcher run the exact live reservation, without one an unfenced lineage *)
(* whose head is the one the caller observed, if it names one.             *)
ReservationMatches(l, r, expected) ==
  /\ reservation[r].state = "ISSUED"
  /\ reservation[r].lineage = l
  /\ lineage[l].active = r
  /\ lineage[l].generation = reservation[r].generation
  /\ lineage[l].head = reservation[r].expectedHead
  /\ expected = reservation[r].expectedHead

HeadMatches(l, expected) ==
  /\ ~lineage[l].fenceRequired
  /\ expected \in {Unspecified, lineage[l].head}

Admits(l, r, expected) ==
  IF r = None THEN HeadMatches(l, expected) ELSE ReservationMatches(l, r, expected)

(* The head moves to the new session and a consumed reservation is cleared. *)
AdvanceHead(s, l, r) ==
  /\ lineage' = [lineage EXCEPT ![l] =
       IF r = None
       THEN [@ EXCEPT !.head = s, !.headIncarnation = lineage[l].headIncarnation + 1]
       ELSE [@ EXCEPT !.head = s, !.headIncarnation = lineage[l].headIncarnation + 1,
                      !.active = None,
                      !.headRun = r, !.headGeneration = reservation[r].generation]]
  /\ reservation' =
       IF r = None THEN reservation
       ELSE [reservation EXCEPT ![r] = [@ EXCEPT !.state = "CONSUMED", !.consumedBy = s]]

\* Mutant: the predecessor is recorded but left open.
OpenBesidePredecessor(s, l, r) ==
  LET p == lineage[l].head IN
  session' = [q \in Session |->
    IF q = s
    THEN [connection |-> "OPEN", lineage |-> l,
          incarnation |-> lineage[l].headIncarnation + 1,
          predecessor |-> p, supersededBy |-> None, run |-> r]
    ELSE IF q = p THEN [session[q] EXCEPT !.supersededBy = s]
         ELSE session[q]]

(* The new row is inserted and the predecessor, closed or not, is closed as *)
(* superseded.                                                             *)
OpenSuccessor(s, l, r) ==
  LET p == lineage[l].head IN
  session' = [q \in Session |->
    IF q = s
    THEN [connection |-> "OPEN", lineage |-> l,
          incarnation |-> lineage[l].headIncarnation + 1,
          predecessor |-> p, supersededBy |-> None, run |-> r]
    ELSE IF q = p
         THEN [session[q] EXCEPT !.connection = "CLOSED", !.supersededBy = s]
         ELSE session[q]]

(* registerSession of an identified primary session. *)
RegisterIncarnation(s, l, r, expected) ==
  /\ ~Registered(s)
  /\ Admits(l, r, expected)
  /\ OpenSuccessor(s, l, r)
  /\ AdvanceHead(s, l, r)

(* registerSession without a logical identity: such workers coexist. *)
RegisterGeneric(s) ==
  /\ ~Registered(s)
  /\ session' = [session EXCEPT ![s] = [NoSession EXCEPT !.connection = "OPEN"]]
  /\ UNCHANGED <<lineage, reservation>>

(* closeSession: the row is closed; the lineage keeps it as its head. *)
CloseSession(s) ==
  /\ IsOpen(s)
  /\ session' = [session EXCEPT ![s] = [@ EXCEPT !.connection = "CLOSED"]]
  /\ UNCHANGED <<lineage, reservation>>

LineageNext ==
  \/ \E r \in Run, l \in Lineage : ReserveLaunch(r, l)
  \/ \E s \in Session, l \in Lineage, r \in Run \cup {None},
        expected \in Session \cup {None, Unspecified} :
       RegisterIncarnation(s, l, r, expected)
  \/ \E s \in Session : RegisterGeneric(s)
  \/ \E s \in Session : CloseSession(s)

LineageSpec == LineageInit /\ [][LineageNext]_lineageVars

----------------------------------------------------------------------------
(***************************************************************************)
(* Properties                                                              *)
(***************************************************************************)

LineageTypeOK ==
  /\ session \in [Session -> SessionRow]
  /\ lineage \in [Lineage -> LineageRow]
  /\ reservation \in [Run -> ReservationRow]

\* Two processes of one logical worker are never both open: registration
\* closes the exact predecessor in the transaction that moves the head, and a
\* closed head is never reopened.
OnlyHeadIsOpen ==
  \A s \in Session :
    IsOpen(s) /\ session[s].lineage # None => lineage[session[s].lineage].head = s

\* The incarnations of a lineage are 1 .. headIncarnation without gap or
\* duplicate, each the successor of the one before, ending in the head.
ChainIsContiguous ==
  /\ \A s \in Session : session[s].lineage # None =>
       LET p == session[s].predecessor
           l == session[s].lineage
       IN /\ session[s].incarnation \in 1 .. lineage[l].headIncarnation
          /\ session[s].incarnation = lineage[l].headIncarnation => lineage[l].head = s
          /\ IF p = None THEN session[s].incarnation = 1
             ELSE /\ session[p].lineage = l
                  /\ session[p].incarnation = session[s].incarnation - 1
                  /\ session[p].supersededBy = s
  /\ \A l \in Lineage : lineage[l].head # None =>
       /\ session[lineage[l].head].lineage = l
       /\ session[lineage[l].head].incarnation = lineage[l].headIncarnation
       /\ session[lineage[l].head].supersededBy = None

\* A launcher that holds the newest reservation is never refused because of
\* what older launchers or adapters did meanwhile: the reservation is the
\* lineage's only issued one and the head it expects is still the head.
ActiveReservationIsUsable ==
  \A l \in Lineage :
    /\ lineage[l].active # None =>
         ReservationMatches(l, lineage[l].active, lineage[l].head)
    /\ \A r \in Run : reservation[r].state = "ISSUED" /\ reservation[r].lineage = l =>
         lineage[l].active = r

\* Reverse succession is impossible: the head moves only from a session to its
\* direct successor, and on a fenced lineage only to the newest reserved run.
HeadMovesForward ==
  [][\A l \in Lineage : lineage'[l].head # lineage[l].head =>
       LET h == lineage'[l].head IN
       /\ h # None
       /\ ~Registered(h)
       /\ session'[h].predecessor = lineage[l].head
       /\ lineage[l].fenceRequired =>
            /\ lineage'[l].headGeneration = lineage[l].generation
            /\ lineage'[l].headGeneration > lineage[l].headGeneration]_lineageVars

\* A closed session is immutable history: no registration, replay or close
\* brings it back, and its successor is recorded once.
ClosedIsFinal ==
  [][\A s \in Session : session[s].connection = "CLOSED" =>
       /\ session'[s].connection = "CLOSED"
       /\ session[s].supersededBy # None => session'[s] = session[s]]_lineageVars
=============================================================================
