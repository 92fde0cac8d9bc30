----------------------- MODULE SessionLineages_proofs -----------------------
(***************************************************************************)
(* Proofs about SessionLineages, for any number of sessions, lineages and  *)
(* launcher runs.                                                          *)
(***************************************************************************)
EXTENDS SessionLineages, TLAPS

\* What the safety properties lack to be inductive: a row that was never
\* inserted is blank, a lineage without a head has no incarnation, and a
\* reservation in force stands behind the fence and above every generation
\* that reached the head.
BlankUntilInserted ==
  /\ \A s \in Session : ~Registered(s) => session[s] = NoSession
  /\ \A r \in Run : reservation[r].state = "ABSENT" => reservation[r] = NoReservation

HeadlessIsNew ==
  \A l \in Lineage : lineage[l].head = None => lineage[l].headIncarnation = 0

ReservationIsAhead ==
  \A l \in Lineage :
    /\ lineage[l].headGeneration <= lineage[l].generation
    /\ lineage[l].active # None =>
         /\ lineage[l].fenceRequired
         /\ lineage[l].headGeneration < lineage[l].generation

LineageInv ==
  /\ LineageTypeOK
  /\ OnlyHeadIsOpen
  /\ ChainIsContiguous
  /\ ActiveReservationIsUsable
  /\ BlankUntilInserted
  /\ HeadlessIsNew
  /\ ReservationIsAhead

----------------------------------------------------------------------------

LEMMA LineageInitInv == LineageInit => LineageInv
<1> SUFFICES ASSUME LineageInit PROVE LineageInv
  OBVIOUS
<1> USE ConstantsDisjoint DEF LineageInit
<1>1. LineageTypeOK
  BY DEF LineageTypeOK, NoSession, NewLineage, NoReservation, SessionRow, LineageRow,
         ReservationRow
<1>2. OnlyHeadIsOpen
  BY DEF OnlyHeadIsOpen, IsOpen, NoSession
<1>3. ChainIsContiguous
  BY DEF ChainIsContiguous, NoSession, NewLineage
<1>4. ActiveReservationIsUsable
  BY DEF ActiveReservationIsUsable, NewLineage, NoReservation
<1>5. BlankUntilInserted /\ HeadlessIsNew /\ ReservationIsAhead
  BY DEF BlankUntilInserted, HeadlessIsNew, ReservationIsAhead, NewLineage, NoReservation
<1>6. QED
  BY <1>1, <1>2, <1>3, <1>4, <1>5 DEF LineageInv

LEMMA ReserveLaunchInv ==
  ASSUME LineageInv, NEW r \in Run, NEW l \in Lineage, ReserveLaunch(r, l)
  PROVE  LineageInv'
<1> USE ConstantsDisjoint
<1>0. LineageTypeOK
  BY DEF LineageInv
<1>1. LineageTypeOK'
  <2>1. lineage' \in [Lineage -> LineageRow]
    <3>1. lineage[l] \in LineageRow
      BY <1>0 DEF LineageTypeOK
    <3>2. lineage[l].generation + 1 \in Nat
      BY <3>1 DEF LineageRow
    <3>3. [lineage[l] EXCEPT !.fenceRequired = TRUE, !.generation = lineage[l].generation + 1,
                             !.active = r] \in LineageRow
      BY <3>1, <3>2 DEF LineageRow
    <3>4. QED
      BY <1>0, <3>3 DEF LineageTypeOK, ReserveLaunch
  <2>2. ASSUME NEW q \in Run PROVE reservation'[q] \in ReservationRow
    <3>0. /\ reservation[q] \in ReservationRow
          /\ lineage[l].generation + 1 \in Nat
          /\ lineage[l].head \in Session \cup {None}
      BY <1>0 DEF LineageTypeOK, LineageRow
    <3>1. [state |-> "ISSUED", lineage |-> l, generation |-> lineage[l].generation + 1,
           expectedHead |-> lineage[l].head, consumedBy |-> None] \in ReservationRow
      BY <3>0 DEF ReservationRow
    <3>2. [reservation[q] EXCEPT !.state = "SUPERSEDED"] \in ReservationRow
      BY <3>0 DEF ReservationRow
    <3>3. QED
      BY <3>0, <3>1, <3>2 DEF ReserveLaunch
  <2>3. reservation' \in [Run -> ReservationRow]
    BY <2>2 DEF ReserveLaunch
  <2>4. QED
    BY <1>0, <2>1, <2>3 DEF LineageTypeOK, ReserveLaunch
<1>2. \A k \in Lineage : lineage'[k].head = lineage[k].head
                         /\ lineage'[k].headIncarnation = lineage[k].headIncarnation
  BY <1>0 DEF LineageTypeOK, LineageRow, ReserveLaunch
<1>3. OnlyHeadIsOpen'
  BY <1>0, <1>2 DEF LineageInv, OnlyHeadIsOpen, IsOpen, ReserveLaunch, LineageTypeOK, SessionRow
<1>4. ChainIsContiguous'
  BY <1>0, <1>2 DEF LineageInv, ChainIsContiguous, ReserveLaunch, LineageTypeOK, SessionRow
<1>5. ActiveReservationIsUsable'
  <2> SUFFICES ASSUME NEW k \in Lineage
               PROVE  /\ lineage'[k].active # None =>
                           ReservationMatches(k, lineage[k].active, lineage[k].head)'
                      /\ \A q \in Run :
                           reservation'[q].state = "ISSUED" /\ reservation'[q].lineage = k =>
                             lineage'[k].active = q
    BY DEF ActiveReservationIsUsable
  <2>1. CASE k = l
    BY <1>0, <2>1 DEF ReserveLaunch, ReservationMatches, LineageTypeOK, LineageRow, ReservationRow
  <2>2. CASE k # l
    <3>1. lineage'[k] = lineage[k]
      BY <1>0, <2>2 DEF ReserveLaunch, LineageTypeOK
    <3>2. \A q \in Run : reservation[q].lineage = k => q # r /\ reservation'[q] = reservation[q]
      BY <1>0, <2>2 DEF LineageInv, BlankUntilInserted, NoReservation, ReserveLaunch,
                        LineageTypeOK, ReservationRow
    <3>3. QED
      BY <1>0, <2>2, <3>1, <3>2 DEF LineageInv, ActiveReservationIsUsable, ReserveLaunch,
         ReservationMatches, LineageTypeOK, LineageRow, ReservationRow
  <2>3. QED
    BY <2>1, <2>2
<1>6. BlankUntilInserted' /\ HeadlessIsNew'
  BY <1>0, <1>2 DEF LineageInv, BlankUntilInserted, HeadlessIsNew, Registered, ReserveLaunch,
                    LineageTypeOK, ReservationRow
<1>7. ReservationIsAhead'
  BY <1>0 DEF LineageInv, ReservationIsAhead, ReserveLaunch, LineageTypeOK, LineageRow
<1>8. QED
  BY <1>1, <1>3, <1>4, <1>5, <1>6, <1>7 DEF LineageInv

\* What registering an identified session writes, row by row.
WritesSessions(s, l) ==
  /\ session' \in [Session -> SessionRow]
  /\ session'[s].connection = "OPEN"
  /\ session'[s].lineage = l
  /\ session'[s].incarnation = lineage[l].headIncarnation + 1
  /\ session'[s].predecessor = lineage[l].head
  /\ session'[s].supersededBy = None
  /\ \A q \in Session \ {s} :
       /\ session'[q].lineage = session[q].lineage
       /\ session'[q].incarnation = session[q].incarnation
       /\ session'[q].predecessor = session[q].predecessor
       /\ q # lineage[l].head => session'[q] = session[q]
       /\ q = lineage[l].head => /\ session'[q].connection = "CLOSED"
                                /\ session'[q].supersededBy = s

WritesLineages(s, l, r) ==
  /\ lineage' \in [Lineage -> LineageRow]
  /\ \A k \in Lineage \ {l} : lineage'[k] = lineage[k]
  /\ lineage'[l].head = s
  /\ lineage'[l].headIncarnation = lineage[l].headIncarnation + 1
  /\ lineage'[l].fenceRequired = lineage[l].fenceRequired
  /\ lineage'[l].generation = lineage[l].generation
  /\ r = None => /\ lineage'[l].active = lineage[l].active
                 /\ lineage'[l].headGeneration = lineage[l].headGeneration
                 /\ reservation' = reservation
  /\ r # None => /\ lineage'[l].active = None
                 /\ lineage'[l].headGeneration = reservation[r].generation
                 /\ reservation'[r] = [reservation[r] EXCEPT !.state = "CONSUMED",
                                                             !.consumedBy = s]
                 /\ \A q \in Run \ {r} : reservation'[q] = reservation[q]
  /\ reservation' \in [Run -> ReservationRow]

LEMMA SessionEffect ==
  ASSUME LineageTypeOK, NEW s \in Session, NEW l \in Lineage, NEW r \in Run \cup {None},
         OpenSuccessor(s, l, r)
  PROVE  WritesSessions(s, l)
<1> DEFINE fresh == [connection |-> "OPEN", lineage |-> l,
                     incarnation |-> lineage[l].headIncarnation + 1,
                     predecessor |-> lineage[l].head, supersededBy |-> None, run |-> r]
           replaced(q) == [session[q] EXCEPT !.connection = "CLOSED", !.supersededBy = s]
<1>0. /\ lineage[l].headIncarnation + 1 \in Nat
      /\ lineage[l].head \in Session \cup {None}
  BY DEF LineageTypeOK, LineageRow
<1>1. /\ session'[s] = fresh
      /\ \A q \in Session \ {s} :
           /\ q # lineage[l].head => session'[q] = session[q]
           /\ q = lineage[l].head => session'[q] = replaced(q)
  BY DEF OpenSuccessor
<1>2. fresh \in SessionRow
  BY <1>0 DEF SessionRow
<1>3. ASSUME NEW q \in Session \ {s}
      PROVE  /\ session'[q] \in SessionRow
             /\ session'[q].lineage = session[q].lineage
             /\ session'[q].incarnation = session[q].incarnation
             /\ session'[q].predecessor = session[q].predecessor
             /\ q = lineage[l].head => /\ session'[q].connection = "CLOSED"
                                      /\ session'[q].supersededBy = s
  <2>1. session[q] \in SessionRow
    BY DEF LineageTypeOK
  <2>2. /\ replaced(q) \in SessionRow
        /\ replaced(q).lineage = session[q].lineage
        /\ replaced(q).incarnation = session[q].incarnation
        /\ replaced(q).predecessor = session[q].predecessor
        /\ replaced(q).connection = "CLOSED"
        /\ replaced(q).supersededBy = s
    BY <2>1 DEF SessionRow
  <2>3. QED
    BY <1>1, <2>1, <2>2
<1>4. session' \in [Session -> SessionRow]
  <2>1. \A q \in Session : session'[q] \in SessionRow
    BY <1>1, <1>2, <1>3
  <2>2. QED
    BY <2>1 DEF OpenSuccessor
<1>5. /\ session'[s].connection = "OPEN" /\ session'[s].lineage = l
      /\ session'[s].incarnation = lineage[l].headIncarnation + 1
      /\ session'[s].predecessor = lineage[l].head /\ session'[s].supersededBy = None
  <2>1. session'[s] = fresh
    BY <1>1
  <2>2. QED
    BY <2>1
<1>6. QED
  BY <1>1, <1>3, <1>4, <1>5 DEF WritesSessions

LEMMA HeadEffect ==
  ASSUME LineageTypeOK, NEW s \in Session, NEW l \in Lineage, NEW r \in Run \cup {None},
         AdvanceHead(s, l, r)
  PROVE  WritesLineages(s, l, r)
<1> USE ConstantsDisjoint
<1>0. lineage[l] \in LineageRow /\ lineage[l].headIncarnation + 1 \in Nat
  BY DEF LineageTypeOK, LineageRow
<1>3. CASE r = None
  <2>1. [lineage[l] EXCEPT !.head = s, !.headIncarnation = lineage[l].headIncarnation + 1]
          \in LineageRow
    BY <1>0 DEF LineageRow
  <2>2. lineage' = [lineage EXCEPT ![l] =
          [lineage[l] EXCEPT !.head = s, !.headIncarnation = lineage[l].headIncarnation + 1]]
    BY <1>3 DEF AdvanceHead
  <2>3. lineage' \in [Lineage -> LineageRow] /\ \A k \in Lineage \ {l} : lineage'[k] = lineage[k]
    BY <2>1, <2>2 DEF LineageTypeOK
  <2>4. lineage'[l] =
          [lineage[l] EXCEPT !.head = s, !.headIncarnation = lineage[l].headIncarnation + 1]
    BY <2>2 DEF LineageTypeOK
  <2>5. /\ lineage'[l].head = s
        /\ lineage'[l].headIncarnation = lineage[l].headIncarnation + 1
        /\ lineage'[l].fenceRequired = lineage[l].fenceRequired
        /\ lineage'[l].generation = lineage[l].generation
        /\ lineage'[l].active = lineage[l].active
        /\ lineage'[l].headGeneration = lineage[l].headGeneration
    BY <2>4, <1>0 DEF LineageRow
  <2>6. reservation' = reservation
    BY <1>3 DEF AdvanceHead
  <2>7. QED
    BY <1>3, <2>3, <2>5, <2>6 DEF LineageTypeOK, WritesLineages
<1>4. CASE r # None
  <2>0. r \in Run /\ reservation[r] \in ReservationRow
    BY <1>4 DEF LineageTypeOK
  <2>1. [lineage[l] EXCEPT !.head = s, !.headIncarnation = lineage[l].headIncarnation + 1,
           !.active = None, !.headRun = r, !.headGeneration = reservation[r].generation]
          \in LineageRow
    BY <1>0, <2>0 DEF LineageRow, ReservationRow
  <2>2. lineage' = [lineage EXCEPT ![l] =
          [lineage[l] EXCEPT !.head = s, !.headIncarnation = lineage[l].headIncarnation + 1,
             !.active = None, !.headRun = r, !.headGeneration = reservation[r].generation]]
    BY <1>4 DEF AdvanceHead
  <2>3. lineage' \in [Lineage -> LineageRow] /\ \A k \in Lineage \ {l} : lineage'[k] = lineage[k]
    BY <2>1, <2>2 DEF LineageTypeOK
  <2>4. lineage'[l] =
          [lineage[l] EXCEPT !.head = s, !.headIncarnation = lineage[l].headIncarnation + 1,
             !.active = None, !.headRun = r, !.headGeneration = reservation[r].generation]
    BY <2>2 DEF LineageTypeOK
  <2>5. /\ lineage'[l].head = s
        /\ lineage'[l].headIncarnation = lineage[l].headIncarnation + 1
        /\ lineage'[l].fenceRequired = lineage[l].fenceRequired
        /\ lineage'[l].generation = lineage[l].generation
        /\ lineage'[l].active = None
        /\ lineage'[l].headGeneration = reservation[r].generation
    BY <2>4, <1>0 DEF LineageRow
  <2>6. reservation' = [reservation EXCEPT ![r] =
          [reservation[r] EXCEPT !.state = "CONSUMED", !.consumedBy = s]]
    BY <1>4 DEF AdvanceHead
  <2>7. /\ reservation'[r] = [reservation[r] EXCEPT !.state = "CONSUMED", !.consumedBy = s]
        /\ \A q \in Run \ {r} : reservation'[q] = reservation[q]
    BY <2>0, <2>6 DEF LineageTypeOK
  <2>8. [reservation[r] EXCEPT !.state = "CONSUMED", !.consumedBy = s] \in ReservationRow
    BY <2>0 DEF ReservationRow
  <2>9. reservation' \in [Run -> ReservationRow]
    BY <2>0, <2>6, <2>8 DEF LineageTypeOK
  <2>10. QED
    BY <1>4, <2>3, <2>5, <2>7, <2>9 DEF WritesLineages
<1>5. QED
  BY <1>3, <1>4

LEMMA RegisterInv ==
  ASSUME LineageInv, NEW s \in Session, NEW l \in Lineage, NEW r \in Run \cup {None},
         NEW expected, RegisterIncarnation(s, l, r, expected)
  PROVE  LineageInv'
<1> USE ConstantsDisjoint
<1> DEFINE p == lineage[l].head
<1>0. /\ LineageTypeOK /\ OnlyHeadIsOpen /\ ChainIsContiguous /\ ActiveReservationIsUsable
      /\ BlankUntilInserted /\ HeadlessIsNew /\ ReservationIsAhead
  BY DEF LineageInv
<1>1. WritesSessions(s, l) /\ WritesLineages(s, l, r)
  BY <1>0, SessionEffect, HeadEffect DEF RegisterIncarnation
<1>2. session[s] = NoSession
  BY <1>0 DEF RegisterIncarnation, BlankUntilInserted
<1>3. LineageTypeOK'
  BY <1>0, <1>1 DEF LineageTypeOK, WritesSessions, WritesLineages
<1>4. OnlyHeadIsOpen'
  <2> SUFFICES ASSUME NEW q \in Session, IsOpen(q)', session'[q].lineage # None
               PROVE  lineage'[session'[q].lineage].head = q
    BY DEF OnlyHeadIsOpen
  <2>1. CASE q = s
    BY <1>0, <1>1, <2>1 DEF WritesSessions, WritesLineages
  <2>2. CASE q # s
    <3>1. session'[q] = session[q] /\ q # p
      BY <1>0, <1>1, <2>2 DEF IsOpen, LineageTypeOK, SessionRow, WritesSessions, WritesLineages
    <3>2. session[q].lineage \in Lineage \ {l}
      BY <1>0, <3>1 DEF OnlyHeadIsOpen, IsOpen, LineageTypeOK, SessionRow
    <3>3. QED
      BY <1>0, <1>1, <3>1, <3>2 DEF OnlyHeadIsOpen, IsOpen, WritesSessions, WritesLineages
  <2>3. QED
    BY <2>1, <2>2
<1>5. HeadlessIsNew'
  BY <1>0, <1>1 DEF HeadlessIsNew, WritesSessions, WritesLineages
<1>6. BlankUntilInserted'
  <2>1. ASSUME NEW q \in Session, ~Registered(q)' PROVE session'[q] = NoSession
    BY <1>0, <1>1, <2>1 DEF BlankUntilInserted, Registered, LineageTypeOK, SessionRow, WritesSessions, WritesLineages
  <2>2. ASSUME NEW q \in Run, reservation'[q].state = "ABSENT"
        PROVE  reservation'[q] = NoReservation
    <3>1. r # None => reservation'[r].state = "CONSUMED"
      BY <1>0, <1>1 DEF WritesLineages, LineageTypeOK, ReservationRow
    <3>2. reservation'[q] = reservation[q]
      BY <1>1, <2>2, <3>1 DEF WritesLineages
    <3>3. QED
      BY <1>0, <2>2, <3>2 DEF BlankUntilInserted
  <2>3. QED
    BY <2>1, <2>2 DEF BlankUntilInserted
<1>7. r = None => ~lineage[l].fenceRequired /\ lineage[l].active = None
  BY <1>0 DEF RegisterIncarnation, Admits, HeadMatches, ReservationIsAhead
<1>8. r # None => /\ r \in Run /\ reservation[r].state = "ISSUED" /\ reservation[r].lineage = l
                 /\ lineage[l].active = r /\ lineage[l].generation = reservation[r].generation
  BY DEF RegisterIncarnation, Admits, ReservationMatches
<1>9. ReservationIsAhead'
  <2>1. ASSUME NEW k \in Lineage \ {l}
        PROVE  /\ lineage'[k].headGeneration <= lineage'[k].generation
               /\ lineage'[k].active # None =>
                    /\ lineage'[k].fenceRequired
                    /\ lineage'[k].headGeneration < lineage'[k].generation
    BY <1>0, <1>1 DEF ReservationIsAhead, WritesSessions, WritesLineages
  <2>2. lineage'[l].headGeneration <= lineage'[l].generation /\ lineage'[l].active = None
    BY <1>0, <1>1, <1>7, <1>8 DEF ReservationIsAhead, LineageTypeOK, LineageRow, WritesSessions, WritesLineages
  <2>3. QED
    BY <2>1, <2>2 DEF ReservationIsAhead
<1>10. ActiveReservationIsUsable'
  <2>1. ASSUME NEW k \in Lineage, lineage'[k].active # None
        PROVE  ReservationMatches(k, lineage[k].active, lineage[k].head)'
    <3>1. k # l /\ lineage'[k] = lineage[k]
      BY <1>0, <1>1, <1>7, <2>1 DEF WritesSessions, WritesLineages
    <3>2. lineage[k].active \in Run /\ ReservationMatches(k, lineage[k].active, lineage[k].head)
      BY <1>0, <2>1, <3>1 DEF ActiveReservationIsUsable, LineageTypeOK, LineageRow
    <3>3. lineage[k].active # r
      BY <1>8, <3>1, <3>2 DEF ReservationMatches
    <3>4. reservation'[lineage[k].active] = reservation[lineage[k].active]
      BY <1>0, <1>1, <3>2, <3>3 DEF WritesSessions, WritesLineages
    <3>5. QED
      BY <3>1, <3>2, <3>4 DEF ReservationMatches
  <2>2. ASSUME NEW k \in Lineage, NEW q \in Run,
               reservation'[q].state = "ISSUED", reservation'[q].lineage = k
        PROVE  lineage'[k].active = q
    <3>0. r # None => reservation'[r].state = "CONSUMED"
      BY <1>0, <1>1 DEF WritesLineages, LineageTypeOK, ReservationRow
    <3>1. q # r /\ reservation'[q] = reservation[q]
      <4>1. q # r
        BY <2>2, <3>0, ConstantsDisjoint
      <4>2. QED
        BY <1>1, <4>1 DEF WritesLineages
    <3>2. lineage[k].active = q
      BY <1>0, <2>2, <3>1 DEF ActiveReservationIsUsable
    <3>3. k # l
      BY <1>7, <1>8, <3>1, <3>2
    <3>4. QED
      BY <1>0, <1>1, <3>2, <3>3 DEF WritesSessions, WritesLineages
  <2>3. QED
    BY <2>1, <2>2 DEF ActiveReservationIsUsable
<1>11. ChainIsContiguous'
  <2>1. p # None => /\ p \in Session /\ p # s
                   /\ session[p].lineage = l
                   /\ session[p].incarnation = lineage[l].headIncarnation
                   /\ session[p].supersededBy = None
    BY <1>0, <1>2 DEF ChainIsContiguous, NoSession, LineageTypeOK, LineageRow
  <2>2. ASSUME NEW q \in Session, session'[q].lineage # None
        PROVE  LET pq == session'[q].predecessor
                   k == session'[q].lineage
               IN /\ session'[q].incarnation \in 1 .. lineage'[k].headIncarnation
                  /\ session'[q].incarnation = lineage'[k].headIncarnation => lineage'[k].head = q
                  /\ IF pq = None THEN session'[q].incarnation = 1
                     ELSE /\ session'[pq].lineage = k
                          /\ session'[pq].incarnation = session'[q].incarnation - 1
                          /\ session'[pq].supersededBy = q
    <3>0. lineage[l].headIncarnation \in Nat
      BY <1>0 DEF LineageTypeOK, LineageRow
    <3>1. CASE q = s
      <4>1. /\ session'[s].lineage = l /\ session'[s].predecessor = p
            /\ session'[s].incarnation = lineage[l].headIncarnation + 1
            /\ lineage'[l].headIncarnation = lineage[l].headIncarnation + 1
            /\ lineage'[l].head = s
        BY <1>0, <1>1 DEF WritesSessions, WritesLineages
      <4>2. p = None => lineage[l].headIncarnation = 0
        BY <1>0 DEF HeadlessIsNew
      <4>3. p # None => /\ session'[p].lineage = l
                       /\ session'[p].incarnation = lineage[l].headIncarnation
                       /\ session'[p].supersededBy = s
        BY <1>1, <2>1 DEF WritesSessions
      <4>4. QED
        BY <3>0, <3>1, <4>1, <4>2, <4>3
    <3>2. CASE q # s
      <4> DEFINE k == session[q].lineage
                 pq == session[q].predecessor
      <4>1. \A o \in Session \ {s} :
              /\ session'[o].lineage = session[o].lineage
              /\ session'[o].incarnation = session[o].incarnation
              /\ session'[o].predecessor = session[o].predecessor
              /\ o # p => session'[o].supersededBy = session[o].supersededBy
        BY <1>0, <1>1 DEF LineageTypeOK, SessionRow, WritesSessions, WritesLineages
      <4>2. k \in Lineage /\ session[q].incarnation \in Nat /\ pq \in Session \cup {None}
        BY <1>0, <2>2, <3>2, <4>1 DEF LineageTypeOK, SessionRow
      <4>3. /\ session[q].incarnation \in 1 .. lineage[k].headIncarnation
            /\ session[q].incarnation = lineage[k].headIncarnation => lineage[k].head = q
            /\ pq = None => session[q].incarnation = 1
            /\ pq # None => /\ session[pq].lineage = k
                           /\ session[pq].incarnation = session[q].incarnation - 1
                           /\ session[pq].supersededBy = q
        BY <1>0, <4>2 DEF ChainIsContiguous
      <4>4. lineage[k].headIncarnation \in Nat
        BY <1>0, <4>2 DEF LineageTypeOK, LineageRow
      <4>5. /\ session[q].incarnation \in 1 .. lineage'[k].headIncarnation
            /\ session[q].incarnation = lineage'[k].headIncarnation => lineage'[k].head = q
        <5>1. CASE k = l
          <6>1. lineage'[l].headIncarnation = lineage[l].headIncarnation + 1
            BY <1>0, <1>1 DEF WritesSessions, WritesLineages
          <6>2. QED
            BY <4>2, <4>3, <4>4, <5>1, <6>1
        <5>2. CASE k # l
          <6>1. lineage'[k] = lineage[k]
            BY <1>0, <1>1, <4>2, <5>2 DEF WritesSessions, WritesLineages
          <6>2. QED
            BY <4>3, <6>1
        <5>3. QED
          BY <5>1, <5>2
      <4>6. pq # None => pq # s /\ pq # p
        <5>1. pq # None => pq # s
          BY <1>2, <4>2, <4>3 DEF NoSession
        <5>2. ASSUME pq # None, pq = p PROVE FALSE
          <6>1. k = l /\ session[q].incarnation - 1 = lineage[l].headIncarnation
            BY <2>1, <4>3, <5>2
          <6>2. QED
            BY <4>2, <4>3, <4>4, <6>1
        <5>3. QED
          BY <5>1, <5>2
      <4>7. QED
        BY <3>2, <4>1, <4>2, <4>3, <4>5, <4>6
    <3>3. QED
      BY <3>1, <3>2
  <2>3. ASSUME NEW k \in Lineage, lineage'[k].head # None
        PROVE  /\ session'[lineage'[k].head].lineage = k
               /\ session'[lineage'[k].head].incarnation = lineage'[k].headIncarnation
               /\ session'[lineage'[k].head].supersededBy = None
    <3>1. CASE k = l
      BY <1>0, <1>1, <3>1 DEF WritesSessions, WritesLineages
    <3>2. CASE k # l
      <4> DEFINE h == lineage[k].head
      <4>1. lineage'[k] = lineage[k]
        BY <1>0, <1>1, <3>2 DEF WritesSessions, WritesLineages
      <4>2. /\ h \in Session /\ session[h].lineage = k
            /\ session[h].incarnation = lineage[k].headIncarnation
            /\ session[h].supersededBy = None
        BY <1>0, <2>3, <4>1 DEF ChainIsContiguous, LineageTypeOK, LineageRow
      <4>3. h # s /\ h # p
        BY <1>2, <2>1, <3>2, <4>2 DEF NoSession
      <4>4. session'[h] = session[h]
        BY <1>0, <1>1, <4>2, <4>3 DEF WritesSessions, WritesLineages
      <4>5. QED
        BY <4>1, <4>2, <4>4
    <3>3. QED
      BY <3>1, <3>2
  <2>4. QED
    BY <2>2, <2>3 DEF ChainIsContiguous
<1>12. QED
  BY <1>3, <1>4, <1>5, <1>6, <1>9, <1>10, <1>11 DEF LineageInv

LEMMA GenericInv ==
  ASSUME LineageInv, NEW s \in Session, RegisterGeneric(s)
  PROVE  LineageInv'
<1> USE ConstantsDisjoint
<1>0. /\ LineageTypeOK /\ OnlyHeadIsOpen /\ ChainIsContiguous /\ ActiveReservationIsUsable
      /\ BlankUntilInserted /\ HeadlessIsNew /\ ReservationIsAhead
  BY DEF LineageInv
<1>1. session[s] = NoSession
  BY <1>0 DEF RegisterGeneric, BlankUntilInserted
<1>2. /\ \A q \in Session \ {s} : session'[q] = session[q]
      /\ session'[s].lineage = None /\ session'[s].connection = "OPEN"
      /\ lineage' = lineage /\ reservation' = reservation
  BY <1>0 DEF RegisterGeneric, LineageTypeOK, NoSession
<1>3. LineageTypeOK'
  BY <1>0 DEF RegisterGeneric, LineageTypeOK, NoSession, SessionRow
<1>4. OnlyHeadIsOpen'
  BY <1>0, <1>2 DEF OnlyHeadIsOpen, IsOpen
<1>5. ChainIsContiguous'
  <2>1. \A q \in Session : session[q].lineage # None =>
          q # s /\ (session[q].predecessor # None =>
                       session[q].predecessor \in Session \ {s})
    BY <1>0, <1>1 DEF ChainIsContiguous, NoSession, LineageTypeOK, SessionRow
  <2>2. \A l \in Lineage : lineage[l].head # None => lineage[l].head \in Session \ {s}
    BY <1>0, <1>1 DEF ChainIsContiguous, NoSession, LineageTypeOK, LineageRow
  <2>3. QED
    BY <1>0, <1>2, <2>1, <2>2 DEF ChainIsContiguous
<1>6. ActiveReservationIsUsable' /\ HeadlessIsNew' /\ ReservationIsAhead'
  BY <1>0, <1>2 DEF ActiveReservationIsUsable, ReservationMatches, HeadlessIsNew, ReservationIsAhead
<1>7. BlankUntilInserted'
  BY <1>0, <1>2 DEF BlankUntilInserted, Registered
<1>8. QED
  BY <1>3, <1>4, <1>5, <1>6, <1>7 DEF LineageInv

LEMMA CloseInv ==
  ASSUME LineageInv, NEW s \in Session, CloseSession(s)
  PROVE  LineageInv'
<1> USE ConstantsDisjoint
<1>0. /\ LineageTypeOK /\ OnlyHeadIsOpen /\ ChainIsContiguous /\ ActiveReservationIsUsable
      /\ BlankUntilInserted /\ HeadlessIsNew /\ ReservationIsAhead
  BY DEF LineageInv
<1>1. LineageTypeOK'
  BY <1>0 DEF CloseSession, LineageTypeOK, SessionRow
<1>2. /\ \A q \in Session : /\ session'[q].lineage = session[q].lineage
                            /\ session'[q].incarnation = session[q].incarnation
                            /\ session'[q].predecessor = session[q].predecessor
                            /\ session'[q].supersededBy = session[q].supersededBy
      /\ \A q \in Session \ {s} : session'[q] = session[q]
      /\ session'[s].connection = "CLOSED"
      /\ lineage' = lineage /\ reservation' = reservation
  BY <1>0 DEF CloseSession, LineageTypeOK, SessionRow
<1>3. OnlyHeadIsOpen'
  BY <1>0, <1>2 DEF OnlyHeadIsOpen, IsOpen
<1>4. ChainIsContiguous'
  BY <1>0, <1>2 DEF ChainIsContiguous, LineageTypeOK, LineageRow, SessionRow
<1>5. ActiveReservationIsUsable' /\ HeadlessIsNew' /\ ReservationIsAhead'
  BY <1>0, <1>2 DEF ActiveReservationIsUsable, ReservationMatches, HeadlessIsNew, ReservationIsAhead
<1>6. BlankUntilInserted'
  BY <1>0, <1>2 DEF BlankUntilInserted, Registered
<1>7. QED
  BY <1>1, <1>3, <1>4, <1>5, <1>6 DEF LineageInv

LEMMA LineageNextInv == LineageInv /\ [LineageNext]_lineageVars => LineageInv'
<1> SUFFICES ASSUME LineageInv, [LineageNext]_lineageVars PROVE LineageInv'
  OBVIOUS
<1>1. CASE \E r \in Run, l \in Lineage : ReserveLaunch(r, l)
  BY <1>1, ReserveLaunchInv
<1>2. CASE \E s \in Session, l \in Lineage, r \in Run \cup {None},
              expected \in Session \cup {None, Unspecified} :
             RegisterIncarnation(s, l, r, expected)
  BY <1>2, RegisterInv
<1>3. CASE \E s \in Session : RegisterGeneric(s)
  BY <1>3, GenericInv
<1>4. CASE \E s \in Session : CloseSession(s)
  BY <1>4, CloseInv
<1>5. CASE UNCHANGED lineageVars
  BY <1>5 DEF lineageVars, LineageInv, LineageTypeOK, OnlyHeadIsOpen, IsOpen, ChainIsContiguous,
     ActiveReservationIsUsable, ReservationMatches, BlankUntilInserted, Registered, HeadlessIsNew,
     ReservationIsAhead
<1>6. QED
  BY <1>1, <1>2, <1>3, <1>4, <1>5 DEF LineageNext

\* Every reachable state of any instance satisfies the inductive invariant.
THEOREM LineageInvariant == LineageSpec => []LineageInv
  BY LineageInitInv, LineageNextInv, PTL DEF LineageSpec

\* Each safety property the runs of succession check, for any number of
\* sessions, lineages and launches: rows keep their types, two processes of one
\* worker are never both open, and the newest reservation stays usable.
THEOREM LineageSafety ==
  LineageSpec => [](LineageTypeOK /\ OnlyHeadIsOpen /\ ChainIsContiguous
                      /\ ActiveReservationIsUsable)
<1>1. LineageInv => LineageTypeOK /\ OnlyHeadIsOpen /\ ChainIsContiguous
                      /\ ActiveReservationIsUsable
  BY DEF LineageInv
<1>2. QED
  BY <1>1, LineageInvariant, PTL

----------------------------------------------------------------------------
\* What a step may do to a head and to a closed session, for any instance: the
\* two action properties the run checks.
HeadStep ==
  \A l \in Lineage : lineage'[l].head # lineage[l].head =>
    LET h == lineage'[l].head IN
    /\ h # None
    /\ ~Registered(h)
    /\ session'[h].predecessor = lineage[l].head
    /\ lineage[l].fenceRequired =>
         /\ lineage'[l].headGeneration = lineage[l].generation
         /\ lineage'[l].headGeneration > lineage[l].headGeneration

ClosedStep ==
  \A s \in Session : session[s].connection = "CLOSED" =>
    /\ session'[s].connection = "CLOSED"
    /\ session[s].supersededBy # None => session'[s] = session[s]

LEMMA RegisterSteps ==
  ASSUME LineageInv, NEW s \in Session, NEW l \in Lineage, NEW r \in Run \cup {None},
         NEW expected, RegisterIncarnation(s, l, r, expected)
  PROVE  HeadStep /\ ClosedStep
<1> USE ConstantsDisjoint
<1>0. /\ LineageTypeOK /\ ChainIsContiguous /\ BlankUntilInserted /\ ReservationIsAhead
  BY DEF LineageInv
<1>1. WritesSessions(s, l) /\ WritesLineages(s, l, r)
  BY <1>0, SessionEffect, HeadEffect DEF RegisterIncarnation
<1>2. lineage[l].fenceRequired =>
        /\ r \in Run /\ r # None /\ lineage[l].active = r
        /\ reservation[r].generation = lineage[l].generation
  BY DEF RegisterIncarnation, Admits, HeadMatches, ReservationMatches
<1>3. lineage[l].fenceRequired =>
        /\ lineage'[l].headGeneration = lineage[l].generation
        /\ lineage'[l].headGeneration > lineage[l].headGeneration
  BY <1>0, <1>1, <1>2 DEF WritesLineages, ReservationIsAhead, LineageTypeOK, LineageRow
<1>4. HeadStep
  <2>1. ~Registered(s) /\ s # None
    BY DEF RegisterIncarnation
  <2>2. QED
    BY <1>1, <1>3, <2>1 DEF HeadStep, WritesSessions, WritesLineages
<1>5. ClosedStep
  <2>1. session[s].connection # "CLOSED"
    BY DEF RegisterIncarnation, Registered
  <2>2. \A q \in Session : q = lineage[l].head => session[q].supersededBy = None
    BY <1>0 DEF ChainIsContiguous
  <2>3. QED
    BY <1>1, <2>1, <2>2 DEF ClosedStep, WritesSessions
<1>6. QED
  BY <1>4, <1>5

\* Heads move only forward and closed sessions stay history, in every step of
\* every instance.
THEOREM LineageHistory == LineageSpec => HeadMovesForward /\ ClosedIsFinal
<1>1. LineageInv /\ [LineageNext]_lineageVars => [HeadStep /\ ClosedStep]_lineageVars
  <2> SUFFICES ASSUME LineageInv, LineageNext PROVE HeadStep /\ ClosedStep
    OBVIOUS
  <2>0. LineageTypeOK /\ BlankUntilInserted
    BY DEF LineageInv
  <2>1. CASE \E r \in Run, l \in Lineage : ReserveLaunch(r, l)
    <3> PICK r \in Run, l \in Lineage : ReserveLaunch(r, l)
      BY <2>1
    <3>1. \A k \in Lineage : lineage'[k].head = lineage[k].head
      BY <2>0 DEF ReserveLaunch, LineageTypeOK, LineageRow
    <3>2. QED
      BY <3>1 DEF HeadStep, ClosedStep, ReserveLaunch
  <2>2. CASE \E s \in Session, l \in Lineage, r \in Run \cup {None},
                expected \in Session \cup {None, Unspecified} :
               RegisterIncarnation(s, l, r, expected)
    BY <2>2, RegisterSteps
  <2>3. CASE \E s \in Session : RegisterGeneric(s)
    BY <2>0, <2>3 DEF RegisterGeneric, Registered, HeadStep, ClosedStep, LineageTypeOK
  <2>4. CASE \E s \in Session : CloseSession(s)
    BY <2>0, <2>4 DEF CloseSession, IsOpen, HeadStep, ClosedStep, LineageTypeOK, SessionRow
  <2>5. QED
    BY <2>1, <2>2, <2>3, <2>4 DEF LineageNext
<1>2. LineageSpec => [][HeadStep /\ ClosedStep]_lineageVars
  BY <1>1, LineageInvariant, PTL DEF LineageSpec
<1>3. [HeadStep /\ ClosedStep]_lineageVars => [HeadStep]_lineageVars /\ [ClosedStep]_lineageVars
  OBVIOUS
<1>4. LineageSpec => [][HeadStep]_lineageVars /\ [][ClosedStep]_lineageVars
  BY <1>2, <1>3, PTL
<1>5. QED
  BY <1>4 DEF HeadMovesForward, ClosedIsFinal, HeadStep, ClosedStep
=============================================================================
