----------------------- MODULE CredentialRotation_proofs -----------------------
(***************************************************************************)
(* Proofs about CredentialRotation, for any number of rotations, slots,     *)
(* crashes and restored databases.                                         *)
(***************************************************************************)
EXTENDS CredentialRotation, TLAPS

StoreTypeOK ==
  /\ db \in DatabaseRow
  /\ backup \in DatabaseRow
  /\ journal \in [Op -> Phase]
  /\ plan \in [Op -> PlanRow]
  /\ canonical \in [Slot -> Token \cup {None}]
  /\ staged \in [Op -> SUBSET Slot]
  /\ quarantine \in [Op -> SUBSET Slot]

ProcessTypeOK ==
  /\ run \in [op : Op \cup {0}, mode : Mode]
  /\ crashes \in Nat
  /\ restores \in Nat

\* The phases of a rotation the Hub has neither committed nor given up.
Working == {"PREPARED", "STAGED", "SWITCHING", "FILES_INSTALLED"}

\* What DatabaseFollowsJournal and DatabaseIsIntact say of the database, of any
\* copy of it: a restored copy has to satisfy them as well.
Follows(f, j) ==
  /\ f = "ABORTED" => j \in {"STAGED", "ABORTED"}
  /\ f \in {"DB_COMMITTED", "COMPLETED"} => Order(j) >= Order("FILES_INSTALLED")
  /\ f \in Working => /\ j # "NONE"
                      /\ j # "ABORTED" => Order(f) <= Order(j) + 1

FollowsJournal(d) == \A o \in Op : Follows(d.op[o].phase, journal[o])

CommittedIn(d) == {o \in Op : d.op[o].phase \in {"DB_COMMITTED", "COMPLETED"}}

UnfinishedIn(d) ==
  {o \in Op : d.op[o].phase \in {"PREPARED", "STAGED", "SWITCHING", "FILES_INSTALLED",
                                 "AUTHORIZED", "CLEANUP_PENDING"}}

Intact(d) ==
  /\ d.epoch > 0 => d.active \in CommittedIn(d)
  /\ \A o \in CommittedIn(d) : d.op[o].before < d.epoch
  /\ \A o, q \in CommittedIn(d) : d.op[o].before = d.op[q].before => o = q
  /\ \A o \in UnfinishedIn(d) : d.op[o].before = d.epoch
  /\ \A o, q \in UnfinishedIn(d) : o = q
  /\ \A e \in 0 .. d.epoch - 1 : \E o \in CommittedIn(d) : d.op[o].before = e

\* What the database knows of the files, and the journal does not yet: a switch
\* begins with all new tokens staged, and files it calls installed are.
FilesFollowDatabase(d) ==
  \A o \in Op :
    /\ d.op[o].phase \in {"SWITCHING", "FILES_INSTALLED"} /\ journal[o] = "STAGED" =>
         staged[o] = Slot
    /\ d.op[o].phase = "FILES_INSTALLED" /\ journal[o] = "SWITCHING" => AllNew(o)

\* A copy knows of no abort the database has not made.
CopyIsOlder == \A o \in Op : backup.op[o].phase = "ABORTED" => db.op[o].phase = "ABORTED"

\* Rotations begin in their order, each after the one before has ended.
OneAtATime == \A o, q \in Op : q < o /\ Begun(o) => journal[q] \in Terminal

\* A file in force was installed by a rotation, none of them older than the last
\* one completed.
InForceIsBegun == \A s \in Slot : canonical[s] \in Op => Begun(canonical[s])
InForceIsNewest ==
  \A o \in Op, s \in Slot :
    journal[o] = "COMPLETED" => canonical[s] = None \/ canonical[s] >= o

OldIsOlder == \A o \in Op : Begun(o) => plan[o].old < o

CompletedIsClean == \A o \in Op : journal[o] = "COMPLETED" => quarantine[o] = {}

\* Where the coordinator's process is in its procedure.
ModeFollowsJournal ==
  /\ run.mode # "idle" => run.op \in Op /\ Begun(run.op)
  /\ run.mode = "rotate" =>
       /\ journal[run.op] \in {"AUTHORIZED", "PREPARED", "STAGED"}
       /\ DbPhase(run.op) \in {"STAGED", "SWITCHING"} => staged[run.op] = Slot
  /\ run.mode = "forward" => Order(journal[run.op]) >= Order("SWITCHING")
  /\ run.mode = "abort" => journal[run.op] = "ABORTED"

\* The three stores, whatever the coordinator is at.
StoreInv ==
  /\ StoreTypeOK
  /\ FollowsJournal(db) /\ FollowsJournal(backup)
  /\ Intact(db) /\ Intact(backup)
  /\ FilesFollowDatabase(db) /\ FilesFollowDatabase(backup)
  /\ CopyIsOlder
  /\ OneAtATime
  /\ OldIsOlder
  /\ InForceIsBegun
  /\ InForceIsNewest
  /\ CompletedIsClean
  /\ FilesFollowJournal

RotationInv == StoreInv /\ ProcessTypeOK /\ ModeFollowsJournal

----------------------------------------------------------------------------
(* Phases and their order.                                                 *)

LEMMA OrderValues ==
  /\ Order("NONE") = -2 /\ Order("ABORTED") = -1 /\ Order("AUTHORIZED") = 0
  /\ Order("PREPARED") = 1 /\ Order("STAGED") = 2 /\ Order("SWITCHING") = 3
  /\ Order("FILES_INSTALLED") = 4 /\ Order("DB_COMMITTED") = 5
  /\ Order("CLEANUP_PENDING") = 6 /\ Order("COMPLETED") = 7
BY DEF Order

LEMMA OrderCuts ==
  ASSUME NEW p \in Phase
  PROVE  /\ Order(p) \in Int
         /\ Order(p) <= Order("STAGED") <=>
              p \in {"NONE", "ABORTED", "AUTHORIZED", "PREPARED", "STAGED"}
         /\ Order(p) >= Order("STAGED") <=>
              p \in {"STAGED", "SWITCHING", "FILES_INSTALLED", "DB_COMMITTED",
                     "CLEANUP_PENDING", "COMPLETED"}
         /\ Order(p) >= Order("SWITCHING") <=>
              p \in {"SWITCHING", "FILES_INSTALLED", "DB_COMMITTED",
                     "CLEANUP_PENDING", "COMPLETED"}
         /\ Order(p) >= Order("FILES_INSTALLED") <=>
              p \in {"FILES_INSTALLED", "DB_COMMITTED", "CLEANUP_PENDING", "COMPLETED"}
         /\ Order(p) >= Order("DB_COMMITTED") <=>
              p \in {"DB_COMMITTED", "CLEANUP_PENDING", "COMPLETED"}
         /\ Order(p) < Order("DB_COMMITTED") <=>
              p \notin {"DB_COMMITTED", "CLEANUP_PENDING", "COMPLETED"}
BY OrderValues DEF Phase

\* The database is at most one phase ahead of a journal at p: its own phase is f.
AtMostOneAhead(p) ==
  CASE p = "AUTHORIZED" -> {"PREPARED"}
    [] p = "PREPARED" -> {"PREPARED", "STAGED"}
    [] p = "STAGED" -> {"PREPARED", "STAGED", "SWITCHING"}
    [] OTHER -> {"PREPARED", "STAGED", "SWITCHING", "FILES_INSTALLED"}

LEMMA OneAhead ==
  ASSUME NEW p \in Phase, p \notin {"NONE", "ABORTED"},
         NEW f \in {"PREPARED", "STAGED", "SWITCHING", "FILES_INSTALLED"}
  PROVE  Order(f) <= Order(p) + 1 <=> f \in AtMostOneAhead(p)
BY OrderValues DEF Phase, AtMostOneAhead

LEMMA NextPhases ==
  /\ NextPhase("AUTHORIZED") = "PREPARED"
  /\ NextPhase("PREPARED") = "STAGED"
  /\ NextPhase("STAGED") = "SWITCHING"
  /\ NextPhase("SWITCHING") = "FILES_INSTALLED"
<1>1. \A q \in Phase : Order(q) = 1 <=> q = "PREPARED"
  BY OrderValues DEF Phase
<1>2. \A q \in Phase : Order(q) = 2 <=> q = "STAGED"
  BY OrderValues DEF Phase
<1>3. \A q \in Phase : Order(q) = 3 <=> q = "SWITCHING"
  BY OrderValues DEF Phase
<1>4. \A q \in Phase : Order(q) = 4 <=> q = "FILES_INSTALLED"
  BY OrderValues DEF Phase
<1>5. {"PREPARED", "STAGED", "SWITCHING", "FILES_INSTALLED"} \subseteq Phase
  BY DEF Phase
<1>6. NextPhase("AUTHORIZED") = "PREPARED"
  BY <1>1, <1>5, OrderValues DEF NextPhase
<1>7. NextPhase("PREPARED") = "STAGED"
  BY <1>2, <1>5, OrderValues DEF NextPhase
<1>8. NextPhase("STAGED") = "SWITCHING"
  BY <1>3, <1>5, OrderValues DEF NextPhase
<1>9. NextPhase("SWITCHING") = "FILES_INSTALLED"
  BY <1>4, <1>5, OrderValues DEF NextPhase
<1>10. QED  BY <1>6, <1>7, <1>8, <1>9

----------------------------------------------------------------------------
(* What each transaction leaves of the tables.                             *)

LEMMA PreparedRow ==
  ASSUME db \in DatabaseRow, NEW o \in Op
  PROVE  /\ Prepared(o) \in DatabaseRow
         /\ Prepared(o).epoch = db.epoch
         /\ Prepared(o).active = db.active
         /\ Prepared(o).op[o].phase = "PREPARED"
         /\ Prepared(o).op[o].before = db.epoch
         /\ \A q \in Op : q # o => Prepared(o).op[q] = db.op[q]
BY DEF Prepared, DatabaseRow, Phase

LEMMA CommittedRow ==
  ASSUME NEW d \in DatabaseRow, NEW o \in Op
  PROVE  /\ Committed(o, d) \in DatabaseRow
         /\ Committed(o, d).epoch = d.op[o].before + 1
         /\ Committed(o, d).active = o
         /\ Committed(o, d).op[o].phase = "DB_COMMITTED"
         /\ Committed(o, d).op[o].before = d.op[o].before
         /\ \A q \in Op : q # o => Committed(o, d).op[q] = d.op[q]
<1>1. o \in Token /\ d.op[o].before + 1 \in Nat
  BY RotationConstants DEF Op, Token, DatabaseRow
<1>2. QED  BY <1>1 DEF Committed, DatabaseRow, Phase

LEMMA PhaseRow ==
  ASSUME db \in DatabaseRow, NEW o \in Op, NEW p \in Phase
  PROVE  /\ DbWith(o, p) \in DatabaseRow
         /\ DbWith(o, p).epoch = db.epoch
         /\ DbWith(o, p).active = db.active
         /\ DbWith(o, p).op[o].phase = p
         /\ DbWith(o, p).op[o].before = db.op[o].before
         /\ \A q \in Op : q # o => DbWith(o, p).op[q] = db.op[q]
BY DEF DbWith, DatabaseRow

LEMMA IntactPrepared ==
  ASSUME db \in DatabaseRow, NEW o \in Op, MayPrepare(o), Intact(db)
  PROVE  Intact(Prepared(o))
<1> DEFINE d == Prepared(o)
<1>1. /\ d.epoch = db.epoch /\ d.active = db.active
      /\ d.op[o].phase = "PREPARED" /\ d.op[o].before = db.epoch
      /\ \A q \in Op : q # o => d.op[q] = db.op[q]
  BY PreparedRow
<1> HIDE DEF d
<1>2. CommittedIn(d) = CommittedIn(db) /\ o \notin CommittedIn(db)
  BY <1>1 DEF CommittedIn, MayPrepare, DbPhase
<1>3. \A q \in CommittedIn(d) : d.op[q] = db.op[q]
  BY <1>1, <1>2 DEF CommittedIn
<1>4. UnfinishedIn(d) = {o}
  BY <1>1 DEF UnfinishedIn, MayPrepare, DbPhase
<1>5. Intact(d)
  BY <1>1, <1>2, <1>3, <1>4 DEF Intact
<1>6. QED  BY <1>5 DEF d

LEMMA IntactCommitted ==
  ASSUME NEW d \in DatabaseRow, NEW o \in Op, Intact(d),
         d.op[o].phase \in Working, d.epoch = d.op[o].before
  PROVE  Intact(Committed(o, d))
<1> DEFINE c == Committed(o, d)
<1>1. /\ c.epoch = d.epoch + 1 /\ c.active = o
      /\ c.op[o].phase = "DB_COMMITTED" /\ c.op[o].before = d.epoch
      /\ \A q \in Op : q # o => c.op[q] = d.op[q]
  BY CommittedRow
<1>2. d.epoch \in Nat /\ \A q \in Op : d.op[q].before \in Nat
  BY DEF DatabaseRow
<1> HIDE DEF c
<1>3. CommittedIn(c) = CommittedIn(d) \cup {o} /\ o \notin CommittedIn(d)
  BY <1>1 DEF CommittedIn, Working
<1>4. o \in UnfinishedIn(d)
  BY DEF UnfinishedIn, Working
<1>5. \A q \in Op : q \in UnfinishedIn(d) => q = o
  BY <1>4 DEF Intact
<1>6. UnfinishedIn(c) = {}
  BY <1>1, <1>5 DEF UnfinishedIn
<1>7. \A q \in CommittedIn(d) : c.op[q].before = d.op[q].before /\ d.op[q].before < d.epoch
  BY <1>1, <1>3 DEF Intact, CommittedIn
<1>8. \A e \in 0 .. c.epoch - 1 : e \in 0 .. d.epoch - 1 \/ e = d.epoch
  BY <1>1, <1>2
<1>9. \A e \in 0 .. c.epoch - 1 : \E q \in CommittedIn(c) : c.op[q].before = e
  BY <1>8, <1>1, <1>3, <1>7 DEF Intact
<1>10. \A q \in CommittedIn(c) : c.op[q].before < c.epoch
  <2>1. \A q \in CommittedIn(d) : d.op[q].before \in Nat
    BY <1>2 DEF CommittedIn
  <2>2. QED  BY <2>1, <1>1, <1>2, <1>3, <1>7
<1>11. \A q, r \in CommittedIn(c) : c.op[q].before = c.op[r].before => q = r
  <2>1. \A q \in CommittedIn(d) : c.op[q].before # c.op[o].before
    BY <1>1, <1>2, <1>7 DEF CommittedIn
  <2>2. \A q, r \in CommittedIn(d) : c.op[q].before = c.op[r].before => q = r
    BY <1>7 DEF Intact
  <2>3. QED  BY <2>1, <2>2, <1>3
<1>12. c.active \in CommittedIn(c)
  BY <1>1, <1>3
<1>13. Intact(c)
  BY <1>6, <1>9, <1>10, <1>11, <1>12 DEF Intact
<1>14. QED  BY <1>13 DEF c

LEMMA IntactPhase ==
  ASSUME db \in DatabaseRow, NEW o \in Op, NEW p \in Phase, Intact(db),
         \/ DbPhase(o) \in Working /\ p \in Working \cup {"ABORTED"}
         \/ DbPhase(o) = "DB_COMMITTED" /\ p = "COMPLETED"
  PROVE  Intact(DbWith(o, p))
<1> DEFINE d == DbWith(o, p)
<1>1. /\ d.epoch = db.epoch /\ d.active = db.active
      /\ d.op[o].phase = p /\ d.op[o].before = db.op[o].before
      /\ \A q \in Op : q # o => d.op[q] = db.op[q]
  BY PhaseRow
<1> HIDE DEF d
<1>2. \A q \in Op : d.op[q].before = db.op[q].before
  BY <1>1
<1>3. CommittedIn(d) = CommittedIn(db)
  BY <1>1 DEF CommittedIn, Working, DbPhase
<1>4. UnfinishedIn(d) \subseteq UnfinishedIn(db)
  BY <1>1 DEF UnfinishedIn, Working, DbPhase
<1>5. /\ \A q \in CommittedIn(d) : d.op[q].before = db.op[q].before
      /\ \A q \in UnfinishedIn(d) : d.op[q].before = db.op[q].before
  BY <1>2 DEF CommittedIn, UnfinishedIn
<1>6. Intact(d)
  BY <1>1, <1>3, <1>4, <1>5 DEF Intact
<1>7. QED  BY <1>6 DEF d

LEMMA IntactRedone ==
  ASSUME db \in DatabaseRow, NEW o \in Op, MayPrepare(o), Intact(db)
  PROVE  Redone(o) \in DatabaseRow /\ Intact(Redone(o))
<1>1. Prepared(o) \in DatabaseRow /\ Intact(Prepared(o))
  BY PreparedRow, IntactPrepared
<1>2. Prepared(o).op[o].phase \in Working /\ Prepared(o).epoch = Prepared(o).op[o].before
  BY PreparedRow DEF Working
<1> DEFINE d == Prepared(o)
<1>3. d \in DatabaseRow /\ Intact(d) /\ d.op[o].phase \in Working /\ d.epoch = d.op[o].before
  BY <1>1, <1>2
<1> HIDE DEF d
<1>4. Committed(o, d) \in DatabaseRow /\ Intact(Committed(o, d))
  BY <1>3, IntactCommitted, CommittedRow
<1>5. QED  BY <1>4 DEF Redone, d

----------------------------------------------------------------------------
(* What a step does to the stores.                                         *)

\* A transaction of the database.
DatabaseMove(o) ==
  /\ UNCHANGED <<backup, journal, plan, canonical, staged, quarantine>>
  /\ \/ /\ MayPrepare(o) /\ journal[o] \notin {"NONE", "ABORTED"}
        /\ db' = Prepared(o)
     \/ /\ MayPrepare(o) /\ journal[o] \in {"DB_COMMITTED", "CLEANUP_PENDING", "COMPLETED"}
        /\ db' = Redone(o)
     \/ /\ DbPhase(o) = "PREPARED" /\ journal[o] = "PREPARED"
        /\ db' = DbWith(o, "STAGED")
     \/ /\ DbPhase(o) = "STAGED"
        /\ \/ journal[o] = "STAGED" /\ staged[o] = Slot
           \/ Order(journal[o]) >= Order("SWITCHING")
        /\ db' = DbWith(o, "SWITCHING")
     \/ /\ DbPhase(o) = "STAGED" /\ journal[o] = "STAGED"
        /\ db' = DbWith(o, "ABORTED")
     \/ /\ DbPhase(o) = "SWITCHING" /\ Order(journal[o]) >= Order("SWITCHING") /\ AllNew(o)
        /\ db' = DbWith(o, "FILES_INSTALLED")
     \/ /\ MayCommit(o) /\ Order(journal[o]) >= Order("FILES_INSTALLED")
        /\ db' = Committed(o, db)
     \/ /\ DbPhase(o) = "DB_COMMITTED"
        /\ db' = DbWith(o, "COMPLETED")

\* A record appended to the journal.
Appends(o, p, q) ==
  /\ journal[o] = p
  /\ journal' = [journal EXCEPT ![o] = q]
  /\ UNCHANGED <<db, backup, plan, canonical, staged, quarantine>>

JournalMove(o) ==
  \/ Appends(o, "AUTHORIZED", "PREPARED")
  \/ Appends(o, "PREPARED", "STAGED")
  \/ /\ Appends(o, "STAGED", "SWITCHING")
     /\ DbPhase(o) \in {"SWITCHING", "FILES_INSTALLED"} /\ staged[o] = Slot
  \/ Appends(o, "SWITCHING", "FILES_INSTALLED") /\ AllNew(o)
  \/ Appends(o, "FILES_INSTALLED", "DB_COMMITTED")
  \/ Appends(o, "DB_COMMITTED", "CLEANUP_PENDING")
  \/ Appends(o, "CLEANUP_PENDING", "COMPLETED") /\ quarantine[o] = {} /\ AllNew(o)
  \/ Appends(o, "STAGED", "ABORTED") /\ DbPhase(o) = "ABORTED"

\* A credential file written, moved or removed.
FileMove(o, s) ==
  /\ UNCHANGED <<db, backup, journal, plan>>
  /\ \/ /\ journal[o] = "PREPARED"
        /\ staged' = [staged EXCEPT ![o] = @ \cup {s}]
        /\ UNCHANGED <<canonical, quarantine>>
     \/ /\ journal[o] = "SWITCHING" /\ Latest(o)
        /\ canonical[s] = plan[o].old /\ s \in staged[o]
        /\ canonical' = [canonical EXCEPT ![s] = None]
        /\ quarantine' = [quarantine EXCEPT ![o] = @ \cup {s}]
        /\ UNCHANGED staged
     \/ /\ journal[o] = "SWITCHING" /\ Latest(o)
        /\ canonical[s] = None /\ s \in quarantine[o]
        /\ canonical' = [canonical EXCEPT ![s] = o]
        /\ staged' = [staged EXCEPT ![o] = @ \ {s}]
        /\ UNCHANGED quarantine
     \/ /\ journal[o] \in {"ABORTED", "CLEANUP_PENDING"}
        /\ staged' = [staged EXCEPT ![o] = @ \ {s}]
        /\ quarantine' = [quarantine EXCEPT ![o] = @ \ {s}]
        /\ UNCHANGED canonical

\* A rotation bound to the credentials in force.
Begins(o) ==
  /\ journal[o] = "NONE"
  /\ \A q \in Op : q < o => journal[q] # "NONE"
  /\ \A q \in Op : journal[q] \in Terminal \cup {"NONE"}
  /\ \A s \in Slot : canonical[s] = db.active
  /\ plan' = [plan EXCEPT ![o] = Material]
  /\ journal' = [journal EXCEPT ![o] = "AUTHORIZED"]
  /\ UNCHANGED <<db, backup, canonical, staged, quarantine>>

CopyMove ==
  /\ db' \in {db, backup} /\ backup' \in {db, backup}
  /\ db' = db \/ backup' = backup
  /\ UNCHANGED <<journal, plan, canonical, staged, quarantine>>

StoreMove ==
  \/ CopyMove
  \/ \E o \in Op : \/ DatabaseMove(o) \/ JournalMove(o) \/ Begins(o)
                   \/ \E s \in Slot : FileMove(o, s)

----------------------------------------------------------------------------
(* Facts about the state.                                                  *)

\* Only the rotation that began last is still going on.
LEMMA GoingOnIsLatest ==
  ASSUME StoreInv, NEW o \in Op, journal[o] \notin {"NONE", "COMPLETED", "ABORTED"}
  PROVE  Latest(o)
<1>1. OneAtATime
  BY DEF StoreInv
<1>2. o \in Int /\ Op \subseteq Int
  BY RotationConstants DEF Op
<1>3. QED  BY <1>1, <1>2 DEF OneAtATime, Latest, Begun, Terminal

LEMMA OnlyOneIsLatest ==
  ASSUME NEW o \in Op, NEW q \in Op, Latest(o), Latest(q)
  PROVE  o = q
<1>1. o \in Int /\ q \in Int
  BY RotationConstants DEF Op
<1>2. QED  BY <1>1 DEF Latest

LEMMA Tokens ==
  ASSUME StoreInv, NEW o \in Op
  PROVE  /\ o \in Nat /\ o # None /\ plan[o].old \in Nat /\ plan[o].old # None
         /\ Begun(o) => plan[o].old # o /\ plan[o].old < o
<1>1. o \in Nat /\ Token \subseteq Nat /\ None \notin Nat
  BY RotationConstants DEF Op, Token
<1>2. plan[o].old \in Token
  BY DEF StoreInv, StoreTypeOK, PlanRow
<1>3. Begun(o) => plan[o].old < o
  BY DEF StoreInv, OldIsOlder
<1>4. o \in Nat /\ plan[o].old \in Nat
  BY <1>1, <1>2
<1>5. o # None /\ plan[o].old # None
  BY <1>4, <1>1
<1>6. Begun(o) => plan[o].old # o
  BY <1>3, <1>4
<1>7. QED  BY <1>3, <1>4, <1>5, <1>6

\* A file still old, of a rotation that goes forward, is the latest rotation's:
\* the files of a completed one are at least its own.
LEMMA OldIsOfTheLatest ==
  ASSUME RotationInv, NEW o \in Op, NEW s \in Slot, At(o, "forward"),
         canonical[s] = plan[o].old
  PROVE  journal[o] = "SWITCHING" /\ Latest(o) /\ s \in staged[o]
<1>1. /\ Begun(o) /\ journal[o] \in {"SWITCHING", "FILES_INSTALLED", "DB_COMMITTED",
                                     "CLEANUP_PENDING", "COMPLETED"}
  <2>1. journal[o] \in Phase
    BY DEF RotationInv, StoreInv, StoreTypeOK
  <2>2. Begun(o) /\ Order(journal[o]) >= Order("SWITCHING")
    BY DEF RotationInv, ModeFollowsJournal, At
  <2>3. QED  BY <2>1, <2>2, OrderCuts
<1>2. /\ o \in Nat /\ plan[o].old \in Nat /\ plan[o].old # None /\ o # None
      /\ plan[o].old < o /\ plan[o].old # o
  BY <1>1, Tokens DEF RotationInv
<1>3. journal[o] # "COMPLETED"
  BY <1>2 DEF RotationInv, StoreInv, InForceIsNewest
<1>4. Latest(o)
  BY <1>1, <1>3, GoingOnIsLatest DEF RotationInv
<1>5. SlotFollows(o, s)
  BY <1>4 DEF RotationInv, StoreInv, FilesFollowJournal
<1>6. QED  BY <1>1, <1>2, <1>4, <1>5, OrderValues DEF SlotFollows

LEMMA InstallsTheLatest ==
  ASSUME RotationInv, NEW o \in Op, NEW s \in Slot, At(o, "forward"),
         canonical[s] = None, s \in quarantine[o]
  PROVE  journal[o] = "SWITCHING" /\ Latest(o)
<1>1. /\ Begun(o) /\ journal[o] \in {"SWITCHING", "FILES_INSTALLED", "DB_COMMITTED",
                                     "CLEANUP_PENDING", "COMPLETED"}
  <2>1. journal[o] \in Phase
    BY DEF RotationInv, StoreInv, StoreTypeOK
  <2>2. Begun(o) /\ Order(journal[o]) >= Order("SWITCHING")
    BY DEF RotationInv, ModeFollowsJournal, At
  <2>3. QED  BY <2>1, <2>2, OrderCuts
<1>2. plan[o].old # None /\ o # None
  BY Tokens DEF RotationInv
<1>3. journal[o] # "COMPLETED"
  BY DEF RotationInv, StoreInv, CompletedIsClean
<1>4. Latest(o)
  BY <1>1, <1>3, GoingOnIsLatest DEF RotationInv
<1>5. SlotFollows(o, s)
  BY <1>4 DEF RotationInv, StoreInv, FilesFollowJournal
<1>6. QED  BY <1>1, <1>2, <1>4, <1>5, OrderValues DEF SlotFollows

\* At STAGED no file has moved.
LEMMA StagedIsOld ==
  ASSUME StoreInv, NEW o \in Op, journal[o] = "STAGED"
  PROVE  AllOld(o) /\ ~AnyNew(o)
<1>1. Latest(o) /\ Begun(o)
  BY GoingOnIsLatest DEF Begun
<1>2. \A s \in Slot : SlotFollows(o, s)
  BY <1>1 DEF StoreInv, FilesFollowJournal
<1>3. AllOld(o)
  BY <1>2, OrderValues DEF SlotFollows, AllOld
<1>4. QED  BY <1>1, <1>3, Tokens DEF AllOld, AnyNew

----------------------------------------------------------------------------
(* Every step is one of these moves.                                       *)

LEMMA PhasesOf ==
  ASSUME StoreInv, NEW o \in Op
  PROVE  /\ journal[o] \in Phase /\ DbPhase(o) \in Phase
         /\ DbPhase(o) = "ABORTED" => journal[o] \in {"STAGED", "ABORTED"}
         /\ DbPhase(o) \in {"DB_COMMITTED", "COMPLETED"} =>
              journal[o] \in {"FILES_INSTALLED", "DB_COMMITTED", "CLEANUP_PENDING", "COMPLETED"}
         /\ DbPhase(o) \in Working => Begun(o)
         /\ DbPhase(o) \in Working /\ journal[o] # "ABORTED" =>
              DbPhase(o) \in AtMostOneAhead(journal[o])
<1>1. journal[o] \in Phase /\ DbPhase(o) \in Phase
  BY DEF StoreInv, StoreTypeOK, DatabaseRow, DbPhase
<1>2. Follows(DbPhase(o), journal[o])
  BY DEF StoreInv, FollowsJournal, DbPhase
<1>3. DbPhase(o) \in {"DB_COMMITTED", "COMPLETED"} =>
        journal[o] \in {"FILES_INSTALLED", "DB_COMMITTED", "CLEANUP_PENDING", "COMPLETED"}
  BY <1>1, <1>2, OrderCuts DEF Follows
<1>4. ASSUME DbPhase(o) \in Working, journal[o] # "ABORTED"
      PROVE  DbPhase(o) \in AtMostOneAhead(journal[o])
  <2>1. journal[o] # "NONE" /\ Order(DbPhase(o)) <= Order(journal[o]) + 1
    BY <1>2, <1>4 DEF Follows
  <2>2. QED  BY <2>1, <1>1, <1>4, OneAhead DEF Working
<1>5. QED  BY <1>1, <1>2, <1>3, <1>4 DEF Follows, Begun

LEMMA ModeFacts ==
  ASSUME RotationInv, NEW o \in Op, NEW m \in Mode \ {"idle"}, At(o, m)
  PROVE  /\ Begun(o)
         /\ m = "rotate" =>
              /\ journal[o] \in {"AUTHORIZED", "PREPARED", "STAGED"}
              /\ DbPhase(o) \in {"STAGED", "SWITCHING"} => staged[o] = Slot
         /\ m = "forward" => Order(journal[o]) >= Order("SWITCHING")
         /\ m = "abort" => journal[o] = "ABORTED"
<1>1. run.op = o /\ run.mode = m
  BY DEF At
<1>2. QED  BY <1>1 DEF RotationInv, ModeFollowsJournal

LEMMA TransactionsMove ==
  ASSUME RotationInv, NEW o \in Op,
         \/ RotatePrepares(o) \/ RotateStages(o) \/ RotateSwitches(o) \/ RecoverExternal(o)
         \/ ReconcilePrepares(o) \/ ReconcileStages(o) \/ AbortsDatabase(o)
         \/ ReconcileSwitches(o) \/ ForwardInstalled(o) \/ ForwardCommits(o) \/ HubFinishes(o)
  PROVE  DatabaseMove(o)
<1> USE DEF Updates, files
<1>0. /\ StoreInv /\ journal[o] \in Phase
      /\ "rotate" \in Mode \ {"idle"} /\ "reconcile" \in Mode \ {"idle"}
      /\ "forward" \in Mode \ {"idle"}
  BY PhasesOf DEF RotationInv, Mode
<1>1. CASE RotatePrepares(o)
  BY <1>1 DEF RotatePrepares, DatabaseMove
<1>2. CASE RotateStages(o)
  BY <1>2 DEF RotateStages, DatabaseMove
<1>3. CASE RotateSwitches(o)
  <2>1. staged[o] = Slot
    BY <1>0, <1>3, ModeFacts DEF RotateSwitches
  <2>2. QED  BY <2>1, <1>3 DEF RotateSwitches, DatabaseMove
<1>4. CASE RecoverExternal(o)
  <2>1. journal[o] \in {"DB_COMMITTED", "CLEANUP_PENDING", "COMPLETED"}
    BY <1>0, <1>4, OrderCuts DEF RecoverExternal
  <2>2. QED  BY <2>1, <1>4 DEF RecoverExternal, DatabaseMove
<1>5. CASE ReconcilePrepares(o)
  <2>1. Begun(o) /\ journal[o] # "ABORTED"
    BY <1>0, <1>5, ModeFacts DEF ReconcilePrepares, Behind
  <2>2. QED  BY <2>1, <1>5 DEF ReconcilePrepares, DatabaseMove, Begun
<1>6. CASE ReconcileStages(o)
  BY <1>6 DEF ReconcileStages, DatabaseMove
<1>7. CASE AbortsDatabase(o)
  BY <1>7 DEF AbortsDatabase, DatabaseMove, DecidesToAbort, Aborted
<1>8. CASE ReconcileSwitches(o)
  <2>1. journal[o] # "STAGED"
    BY <1>0, <1>8, StagedIsOld DEF ReconcileSwitches, DecidesToAbort
  <2>2. Order(journal[o]) >= Order("SWITCHING")
    BY <2>1, <1>0, <1>8, OrderCuts DEF ReconcileSwitches
  <2>3. QED  BY <2>2, <1>8 DEF ReconcileSwitches, DatabaseMove
<1>9. CASE ForwardInstalled(o)
  <2>1. Order(journal[o]) >= Order("SWITCHING")
    BY <1>0, <1>9, ModeFacts DEF ForwardInstalled
  <2>2. QED  BY <2>1, <1>9 DEF ForwardInstalled, DatabaseMove
<1>10. CASE ForwardCommits(o)
  BY <1>10 DEF ForwardCommits, DatabaseMove
<1>11. CASE HubFinishes(o)
  BY <1>11 DEF HubFinishes, DatabaseMove, Finished
<1>12. QED  BY <1>1, <1>2, <1>3, <1>4, <1>5, <1>6, <1>7, <1>8, <1>9, <1>10, <1>11

LEMMA RecordsMove ==
  ASSUME RotationInv, NEW o \in Op,
         \/ RotateJournals(o) \/ ReconcileCommitted(o) \/ CatchUp(o) \/ AbortsJournal(o)
         \/ ForwardJournals(o) \/ ForwardCommitted(o) \/ CleanupBegins(o) \/ Complete(o)
  PROVE  JournalMove(o) \/ CopyMove
<1> USE DEF Journals, files
<1>0. /\ StoreInv /\ journal \in [Op -> Phase]
      /\ "rotate" \in Mode \ {"idle"} /\ "reconcile" \in Mode \ {"idle"}
      /\ "forward" \in Mode \ {"idle"}
  BY DEF RotationInv, Mode, StoreInv, StoreTypeOK
<1>00. ASSUME journal' = journal, UNCHANGED <<db, backup, plan, canonical, staged, quarantine>>
       PROVE  CopyMove
  BY <1>00 DEF CopyMove
<1>1. CASE RotateJournals(o)
  <2>1. CASE journal[o] = "AUTHORIZED" /\ Journals(o, "PREPARED")
    BY <2>1 DEF JournalMove, Appends
  <2>2. CASE journal[o] = "PREPARED" /\ Journals(o, "STAGED")
    BY <2>2 DEF JournalMove, Appends
  <2>3. CASE journal[o] = "STAGED" /\ DbPhase(o) = "SWITCHING" /\ Journals(o, "SWITCHING")
    <3>1. staged[o] = Slot
      BY <1>0, <1>1, <2>3, ModeFacts DEF RotateJournals
    <3>2. QED  BY <3>1, <2>3 DEF JournalMove, Appends
  <2>4. QED  BY <1>1, <2>1, <2>2, <2>3 DEF RotateJournals
<1>2. ASSUME ObservedCommitted(o), UNCHANGED <<db, backup, plan, canonical, staged, quarantine>>,
             journal' = IF Order(journal[o]) < Order("DB_COMMITTED")
                        THEN [journal EXCEPT ![o] = "DB_COMMITTED"] ELSE journal
      PROVE  JournalMove(o) \/ CopyMove
  <2>1. CASE Order(journal[o]) < Order("DB_COMMITTED")
    <3>1. journal[o] = "FILES_INSTALLED"
      BY <1>0, <1>2, <2>1, PhasesOf, OrderCuts DEF ObservedCommitted
    <3>2. QED  BY <3>1, <2>1, <1>2 DEF JournalMove, Appends
  <2>2. CASE ~(Order(journal[o]) < Order("DB_COMMITTED"))
    BY <2>2, <1>2, <1>00
  <2>3. QED  BY <2>1, <2>2
<1>3. CASE ReconcileCommitted(o)
  BY <1>3, <1>2 DEF ReconcileCommitted
<1>4. CASE CatchUp(o)
  <2>1. /\ Begun(o) /\ journal[o] # "ABORTED" /\ journal[o] \in Phase /\ DbPhase(o) \in Phase
        /\ Order(DbPhase(o)) \in Order(journal[o]) + 1 .. Order("FILES_INSTALLED")
        /\ Journals(o, NextPhase(journal[o]))
    BY <1>0, <1>4, ModeFacts, PhasesOf DEF CatchUp, Behind
  <2>2. /\ Order(DbPhase(o)) \in Int /\ Order(journal[o]) \in Int
        /\ Order(journal[o]) < 4 /\ Order(DbPhase(o)) <= 4
        /\ Order(journal[o]) < Order(DbPhase(o))
    BY <2>1, OrderCuts, OrderValues
  <2>3. journal[o] \in {"AUTHORIZED", "PREPARED", "STAGED", "SWITCHING"}
    BY <2>1, <2>2, OrderValues DEF Begun, Phase
  <2>4. DbPhase(o) \in Working
    BY <2>1, <2>2, <2>3, OrderValues DEF Working, Phase
  <2>5. DbPhase(o) \in AtMostOneAhead(journal[o])
    BY <2>1, <2>4, <1>0, PhasesOf
  <2>6. CASE journal[o] = "AUTHORIZED"
    BY <2>6, <2>1, NextPhases DEF JournalMove, Appends
  <2>7. CASE journal[o] = "PREPARED"
    BY <2>7, <2>1, NextPhases DEF JournalMove, Appends
  <2>8. CASE journal[o] = "STAGED"
    <3>1. DbPhase(o) = "SWITCHING"
      BY <2>2, <2>5, <2>8, OrderValues DEF AtMostOneAhead
    <3>2. staged[o] = Slot
      BY <3>1, <2>8, <1>0 DEF StoreInv, FilesFollowDatabase, DbPhase
    <3>3. QED  BY <3>1, <3>2, <2>8, <2>1, NextPhases DEF JournalMove, Appends
  <2>9. CASE journal[o] = "SWITCHING"
    <3>1. DbPhase(o) = "FILES_INSTALLED"
      BY <2>2, <2>4, <2>9, OrderValues DEF Working
    <3>2. AllNew(o)
      BY <3>1, <2>9, <1>0 DEF StoreInv, FilesFollowDatabase, DbPhase
    <3>3. QED  BY <3>2, <2>9, <2>1, NextPhases DEF JournalMove, Appends
  <2>10. QED  BY <2>3, <2>6, <2>7, <2>8, <2>9
<1>5. CASE AbortsJournal(o)
  BY <1>5 DEF AbortsJournal, JournalMove, Appends, DecidesToAbort, ObservedAborted
<1>6. CASE ForwardJournals(o)
  BY <1>6 DEF ForwardJournals, JournalMove, Appends
<1>7. CASE ForwardCommitted(o)
  BY <1>7, <1>2 DEF ForwardCommitted
<1>8. CASE CleanupBegins(o)
  BY <1>8 DEF CleanupBegins, JournalMove, Appends
<1>9. CASE Complete(o)
  <2>1. CASE journal[o] = "COMPLETED"
    <3>1. journal' = journal
      BY <2>1, <1>9, <1>0 DEF Complete
    <3>2. QED  BY <3>1, <1>9, <1>00 DEF Complete
  <2>2. CASE journal[o] = "CLEANUP_PENDING" /\ staged[o] \cup quarantine[o] = {}
    BY <2>2, <1>9 DEF Complete, JournalMove, Appends
  <2>3. QED  BY <2>1, <2>2, <1>9 DEF Complete
<1>10. QED  BY <1>1, <1>3, <1>4, <1>5, <1>6, <1>7, <1>8, <1>9

LEMMA FilesMove ==
  ASSUME RotationInv, NEW o \in Op, NEW s \in Slot,
         Stage(o, s) \/ Quarantine(o, s) \/ Install(o, s) \/ RemoveFiles(o, s)
  PROVE  FileMove(o, s)
<1>1. CASE Stage(o, s)
  BY <1>1 DEF Stage, FileMove
<1>2. CASE Quarantine(o, s)
  <2>1. journal[o] = "SWITCHING" /\ Latest(o) /\ s \in staged[o]
    BY <1>2, OldIsOfTheLatest DEF Quarantine
  <2>2. QED  BY <2>1, <1>2 DEF Quarantine, FileMove
<1>3. CASE Install(o, s)
  <2>1. journal[o] = "SWITCHING" /\ Latest(o)
    BY <1>3, InstallsTheLatest DEF Install
  <2>2. QED  BY <2>1, <1>3 DEF Install, FileMove
<1>4. CASE RemoveFiles(o, s)
  <2>1. journal[o] \in {"ABORTED", "CLEANUP_PENDING"}
    BY <1>4, ModeFacts DEF RemoveFiles, Mode
  <2>2. QED  BY <2>1, <1>4 DEF RemoveFiles, FileMove
<1>5. QED  BY <1>1, <1>2, <1>3, <1>4

LEMMA StepsMoveStores ==
  ASSUME RotationInv, [Next]_vars
  PROVE  StoreMove
<1>1. CASE UNCHANGED vars
  BY <1>1 DEF vars, StoreMove, CopyMove
<1>2. ASSUME NEW o \in Op, Rotate(o)  PROVE StoreMove
  BY <1>2 DEF Rotate, Begins, StoreMove, files
<1>3. ASSUME NEW o \in Op, Reconcile(o)  PROVE StoreMove
  BY <1>3 DEF Reconcile, CopyMove, StoreMove, files
<1>4. ASSUME NEW o \in Op, Step(o)  PROVE StoreMove
  <2>1. CASE ReconcileAborted(o) \/ ReconcileForward(o) \/ AbortEnds(o)
    BY <2>1 DEF ReconcileAborted, ReconcileForward, AbortEnds, CopyMove, StoreMove, files
  <2>2. CASE \E s \in Slot : Stage(o, s) \/ Quarantine(o, s) \/ Install(o, s) \/ RemoveFiles(o, s)
    BY <2>2, FilesMove DEF StoreMove
  <2>3. CASE \/ RotateJournals(o) \/ ReconcileCommitted(o) \/ CatchUp(o) \/ AbortsJournal(o)
             \/ ForwardJournals(o) \/ ForwardCommitted(o) \/ CleanupBegins(o) \/ Complete(o)
    BY <2>3, RecordsMove DEF StoreMove
  <2>4. CASE \/ RotatePrepares(o) \/ RotateStages(o) \/ RotateSwitches(o) \/ RecoverExternal(o)
             \/ ReconcilePrepares(o) \/ ReconcileStages(o) \/ AbortsDatabase(o)
             \/ ReconcileSwitches(o) \/ ForwardInstalled(o) \/ ForwardCommits(o)
    BY <2>4, TransactionsMove DEF StoreMove
  <2>5. QED  BY <1>4, <2>1, <2>2, <2>3, <2>4 DEF Step
<1>5. ASSUME NEW o \in Op, HubFinishes(o)  PROVE StoreMove
  BY <1>5, TransactionsMove DEF StoreMove
<1>6. CASE Fail
  BY <1>6 DEF Fail, CopyMove, StoreMove, files
<1>7. CASE Crash
  BY <1>7 DEF Crash, CopyMove, StoreMove, files
<1>8. CASE Backup
  BY <1>8 DEF Backup, CopyMove, StoreMove, files
<1>9. CASE Restore
  BY <1>9 DEF Restore, CopyMove, StoreMove, files
<1>10. QED  BY <1>1, <1>2, <1>3, <1>4, <1>5, <1>6, <1>7, <1>8, <1>9 DEF Next

----------------------------------------------------------------------------
(* The moves keep what is said of the stores.                              *)

LEMMA CopyKeeps ==
  ASSUME StoreInv, CopyMove
  PROVE  StoreInv'
<1> USE DEF CopyMove
<1>1. StoreTypeOK'
  BY DEF StoreInv, StoreTypeOK
<1>2. FollowsJournal(db)' /\ FollowsJournal(backup)'
  BY DEF StoreInv, FollowsJournal
<1>3. Intact(db)' /\ Intact(backup)'
  BY DEF StoreInv, Intact, CommittedIn, UnfinishedIn
<1>4. FilesFollowDatabase(db)' /\ FilesFollowDatabase(backup)'
  BY DEF StoreInv, FilesFollowDatabase, AllNew
<1>5. CopyIsOlder'
  BY DEF StoreInv, CopyIsOlder
<1>6. OneAtATime' /\ OldIsOlder' /\ InForceIsBegun' /\ InForceIsNewest' /\ CompletedIsClean'
  BY DEF StoreInv, OneAtATime, OldIsOlder, InForceIsBegun, InForceIsNewest, CompletedIsClean, Begun
<1>7. FilesFollowJournal'
  BY DEF StoreInv, FilesFollowJournal, Latest, Begun, SlotFollows
<1>8. QED  BY <1>1, <1>2, <1>3, <1>4, <1>5, <1>6, <1>7 DEF StoreInv

\* A transaction that leaves the rows of the other rotations.
LEMMA RowKeeps ==
  ASSUME StoreInv, NEW o \in Op, NEW d \in DatabaseRow, Intact(d),
         \A q \in Op : q # o => d.op[q] = db.op[q],
         Follows(d.op[o].phase, journal[o]),
         d.op[o].phase \in {"SWITCHING", "FILES_INSTALLED"} /\ journal[o] = "STAGED" =>
           staged[o] = Slot,
         d.op[o].phase = "FILES_INSTALLED" /\ journal[o] = "SWITCHING" => AllNew(o),
         DbPhase(o) # "ABORTED",
         db' = d, UNCHANGED <<backup, journal, plan, canonical, staged, quarantine>>
  PROVE  StoreInv'
<1>1. StoreTypeOK'
  BY DEF StoreInv, StoreTypeOK
<1>2. FollowsJournal(db)' /\ FollowsJournal(backup)'
  BY DEF StoreInv, FollowsJournal
<1>3. Intact(db)' /\ Intact(backup)'
  BY DEF StoreInv, Intact, CommittedIn, UnfinishedIn
<1>4. FilesFollowDatabase(db)' /\ FilesFollowDatabase(backup)'
  BY DEF StoreInv, FilesFollowDatabase, AllNew
<1>5. CopyIsOlder'
  BY DEF StoreInv, CopyIsOlder, DbPhase
<1>6. OneAtATime' /\ OldIsOlder' /\ InForceIsBegun' /\ InForceIsNewest' /\ CompletedIsClean'
  BY DEF StoreInv, OneAtATime, OldIsOlder, InForceIsBegun, InForceIsNewest, CompletedIsClean, Begun
<1>7. FilesFollowJournal'
  BY DEF StoreInv, FilesFollowJournal, Latest, Begun, SlotFollows
<1>8. QED  BY <1>1, <1>2, <1>3, <1>4, <1>5, <1>6, <1>7 DEF StoreInv

LEMMA DatabaseKeeps ==
  ASSUME StoreInv, NEW o \in Op, DatabaseMove(o)
  PROVE  StoreInv'
<1> USE DEF DatabaseMove
<1>0. /\ db \in DatabaseRow /\ Intact(db) /\ journal[o] \in Phase
      /\ UNCHANGED <<backup, journal, plan, canonical, staged, quarantine>>
  BY DEF StoreInv, StoreTypeOK
<1>1. CASE MayPrepare(o) /\ journal[o] \notin {"NONE", "ABORTED"} /\ db' = Prepared(o)
  <2>1. /\ Prepared(o) \in DatabaseRow /\ Intact(Prepared(o))
        /\ Prepared(o).op[o].phase = "PREPARED"
        /\ \A q \in Op : q # o => Prepared(o).op[q] = db.op[q]
    BY <1>0, <1>1, PreparedRow, IntactPrepared
  <2>2. Follows("PREPARED", journal[o])
    BY <1>0, <1>1, OrderValues DEF Follows, Phase
  <2>3. DbPhase(o) # "ABORTED"
    BY <1>1 DEF MayPrepare
  <2>4. QED  BY <2>1, <2>2, <2>3, <1>0, <1>1, RowKeeps
<1>2. CASE /\ MayPrepare(o) /\ journal[o] \in {"DB_COMMITTED", "CLEANUP_PENDING", "COMPLETED"}
           /\ db' = Redone(o)
  <2>1. Redone(o) \in DatabaseRow /\ Intact(Redone(o)) /\ Prepared(o) \in DatabaseRow
    BY <1>0, <1>2, IntactRedone, PreparedRow
  <2>2. /\ Redone(o).op[o].phase = "DB_COMMITTED"
        /\ \A q \in Op : q # o => Redone(o).op[q] = db.op[q]
    BY <1>0, <2>1, PreparedRow, CommittedRow DEF Redone
  <2>3. Follows("DB_COMMITTED", journal[o])
    BY <1>2, OrderValues DEF Follows, Working
  <2>4. DbPhase(o) # "ABORTED"
    BY <1>2 DEF MayPrepare
  <2>5. QED  BY <2>1, <2>2, <2>3, <2>4, <1>0, <1>2, RowKeeps
<1>3. ASSUME NEW p \in Phase, db' = DbWith(o, p),
             \/ DbPhase(o) \in Working /\ p \in Working \cup {"ABORTED"}
             \/ DbPhase(o) = "DB_COMMITTED" /\ p = "COMPLETED",
             Follows(p, journal[o]),
             p \in {"SWITCHING", "FILES_INSTALLED"} /\ journal[o] = "STAGED" => staged[o] = Slot,
             p = "FILES_INSTALLED" /\ journal[o] = "SWITCHING" => AllNew(o)
      PROVE  StoreInv'
  <2>1. /\ DbWith(o, p) \in DatabaseRow /\ Intact(DbWith(o, p))
        /\ DbWith(o, p).op[o].phase = p
        /\ \A q \in Op : q # o => DbWith(o, p).op[q] = db.op[q]
    BY <1>0, <1>3, PhaseRow, IntactPhase
  <2>2. DbPhase(o) # "ABORTED"
    BY <1>3 DEF Working
  <2>3. QED  BY <2>1, <2>2, <1>0, <1>3, RowKeeps
<1>4. CASE DbPhase(o) = "PREPARED" /\ journal[o] = "PREPARED" /\ db' = DbWith(o, "STAGED")
  <2>1. Follows("STAGED", journal[o]) /\ "STAGED" \in Phase
    BY <1>4, OrderValues DEF Follows, Phase
  <2>2. QED  BY <2>1, <1>4, <1>3 DEF Working
<1>5. CASE /\ DbPhase(o) = "STAGED"
           /\ \/ journal[o] = "STAGED" /\ staged[o] = Slot
              \/ Order(journal[o]) >= Order("SWITCHING")
           /\ db' = DbWith(o, "SWITCHING")
  <2>1. journal[o] = "STAGED" => staged[o] = Slot
    BY <1>5, OrderValues
  <2>2. Order(journal[o]) >= 2 /\ Order(journal[o]) \in Int
    BY <1>0, <1>5, OrderValues, OrderCuts
  <2>3. Follows("SWITCHING", journal[o]) /\ "SWITCHING" \in Phase
    BY <2>2, OrderValues DEF Follows, Phase
  <2>4. QED  BY <2>1, <2>3, <1>5, <1>3 DEF Working
<1>6. CASE DbPhase(o) = "STAGED" /\ journal[o] = "STAGED" /\ db' = DbWith(o, "ABORTED")
  <2>1. Follows("ABORTED", journal[o]) /\ "ABORTED" \in Phase
    BY <1>6 DEF Follows, Phase, Working
  <2>2. QED  BY <2>1, <1>6, <1>3 DEF Working
<1>7. CASE /\ DbPhase(o) = "SWITCHING" /\ Order(journal[o]) >= Order("SWITCHING") /\ AllNew(o)
           /\ db' = DbWith(o, "FILES_INSTALLED")
  <2>1. journal[o] # "STAGED" /\ Order(journal[o]) >= 3 /\ Order(journal[o]) \in Int
    BY <1>0, <1>7, OrderValues, OrderCuts
  <2>2. Follows("FILES_INSTALLED", journal[o]) /\ "FILES_INSTALLED" \in Phase
    BY <2>1, OrderValues DEF Follows, Phase
  <2>3. QED  BY <2>1, <2>2, <1>7, <1>3 DEF Working
<1>8. CASE MayCommit(o) /\ Order(journal[o]) >= Order("FILES_INSTALLED") /\ db' = Committed(o, db)
  <2>1. db.op[o].phase \in Working /\ db.epoch = db.op[o].before
    BY <1>8 DEF MayCommit, Working, DbPhase
  <2>2. /\ Committed(o, db) \in DatabaseRow /\ Intact(Committed(o, db))
        /\ Committed(o, db).op[o].phase = "DB_COMMITTED"
        /\ \A q \in Op : q # o => Committed(o, db).op[q] = db.op[q]
    BY <1>0, <2>1, CommittedRow, IntactCommitted
  <2>3. Follows("DB_COMMITTED", journal[o])
    BY <1>8 DEF Follows, Working
  <2>4. DbPhase(o) # "ABORTED"
    BY <1>8 DEF MayCommit
  <2>5. QED  BY <2>2, <2>3, <2>4, <1>0, <1>8, RowKeeps
<1>9. CASE DbPhase(o) = "DB_COMMITTED" /\ db' = DbWith(o, "COMPLETED")
  <2>1. Follows("DB_COMMITTED", journal[o])
    BY <1>9 DEF StoreInv, FollowsJournal, DbPhase
  <2>2. Follows("COMPLETED", journal[o]) /\ "COMPLETED" \in Phase
    BY <2>1 DEF Follows, Phase, Working
  <2>3. QED  BY <2>2, <1>9, <1>3
<1>10. QED  BY <1>1, <1>2, <1>4, <1>5, <1>6, <1>7, <1>8, <1>9

\* A record appended for the rotation that is going on.
LEMMA RecordKeeps ==
  ASSUME StoreInv, NEW o \in Op, NEW p \in Phase, NEW q \in Phase, Appends(o, p, q),
         p \notin {"NONE", "COMPLETED", "ABORTED"}, q # "NONE",
         Follows(db.op[o].phase, q), Follows(backup.op[o].phase, q),
         q = "STAGED" => /\ db.op[o].phase \notin {"SWITCHING", "FILES_INSTALLED"}
                         /\ backup.op[o].phase \notin {"SWITCHING", "FILES_INSTALLED"},
         q = "SWITCHING" => /\ db.op[o].phase # "FILES_INSTALLED"
                            /\ backup.op[o].phase # "FILES_INSTALLED",
         q = "COMPLETED" => quarantine[o] = {} /\ AllNew(o),
         \A s \in Slot : SlotFollows(o, s)'
  PROVE  StoreInv'
<1>0. /\ journal[o] = p /\ journal \in [Op -> Phase] /\ journal' \in [Op -> Phase]
      /\ journal'[o] = q /\ \A x \in Op : x # o => journal'[x] = journal[x]
      /\ UNCHANGED <<db, backup, plan, canonical, staged, quarantine>>
  BY DEF Appends, StoreInv, StoreTypeOK
<1>1. StoreTypeOK'
  BY <1>0 DEF StoreInv, StoreTypeOK
<1>2. FollowsJournal(db)' /\ FollowsJournal(backup)'
  BY <1>0 DEF StoreInv, FollowsJournal
<1>3. Intact(db)' /\ Intact(backup)'
  BY <1>0 DEF StoreInv, Intact, CommittedIn, UnfinishedIn
<1>4. FilesFollowDatabase(db)' /\ FilesFollowDatabase(backup)'
  BY <1>0 DEF StoreInv, FilesFollowDatabase, AllNew
<1>5. CopyIsOlder'
  BY <1>0 DEF StoreInv, CopyIsOlder
<1>6. \A x \in Op : Begun(x)' <=> Begun(x)
  BY <1>0 DEF Begun
<1>7. OneAtATime'
  <2>1. \A x \in Op : journal[x] \in Terminal => journal'[x] \in Terminal
    BY <1>0 DEF Terminal
  <2>2. QED  BY <2>1, <1>6 DEF StoreInv, OneAtATime
<1>8. OldIsOlder' /\ InForceIsBegun'
  BY <1>0, <1>6 DEF StoreInv, OldIsOlder, InForceIsBegun
<1>9. InForceIsNewest'
  <2>1. o >= o
    BY RotationConstants DEF Op
  <2>2. QED  BY <1>0, <2>1 DEF StoreInv, InForceIsNewest, AllNew
<1>10. CompletedIsClean'
  BY <1>0 DEF StoreInv, CompletedIsClean
<1>11. FilesFollowJournal'
  <2>1. \A x \in Op : Latest(x)' => Latest(x)
    BY <1>6 DEF Latest
  <2>2. Latest(o)
    BY <1>0, GoingOnIsLatest
  <2>3. \A x \in Op : Latest(x)' => x = o
    BY <2>1, <2>2, OnlyOneIsLatest
  <2>4. QED  BY <2>3 DEF FilesFollowJournal
<1>12. QED  BY <1>1, <1>2, <1>3, <1>4, <1>5, <1>7, <1>8, <1>9, <1>10, <1>11 DEF StoreInv

LEMMA FollowsNext ==
  ASSUME NEW f \in Phase, NEW p \in Phase, NEW q \in Phase, Follows(f, p),
         Order(p) >= 0, q # "ABORTED", Order(q) = Order(p) + 1,
         f = "ABORTED" => q = "STAGED"
  PROVE  Follows(f, q)
<1>1. Order(p) \in Int /\ Order(q) \in Int /\ Order(f) \in Int
  BY OrderCuts
<1>2. p \notin {"NONE", "ABORTED"} /\ q # "NONE"
  BY <1>1, OrderValues
<1>3. QED  BY <1>1, <1>2, OrderValues DEF Follows

LEMMA JournalKeeps ==
  ASSUME StoreInv, NEW o \in Op, JournalMove(o)
  PROVE  StoreInv'
<1> DEFINE f == db.op[o].phase
           b == backup.op[o].phase
<1>0. /\ f \in Phase /\ b \in Phase
      /\ Follows(f, journal[o]) /\ Follows(b, journal[o])
      /\ b = "ABORTED" => f = "ABORTED"
      /\ journal \in [Op -> Phase]
  BY DEF StoreInv, StoreTypeOK, DatabaseRow, FollowsJournal, CopyIsOlder
<1>00. \A x \in {f, b} : x \in Working /\ journal[o] # "ABORTED" => x \in AtMostOneAhead(journal[o])
  BY <1>0, OneAhead DEF Follows, Working
<1>000. \A p \in {"AUTHORIZED", "PREPARED", "STAGED", "SWITCHING", "FILES_INSTALLED",
                  "DB_COMMITTED", "CLEANUP_PENDING", "COMPLETED", "ABORTED"} : p \in Phase
  BY DEF Phase
<1>s. ASSUME journal[o] \notin {"NONE", "COMPLETED", "ABORTED"}
      PROVE  \A s \in Slot : SlotFollows(o, s)
  BY <1>s, GoingOnIsLatest DEF StoreInv, FilesFollowJournal
<1>a. ASSUME NEW p, NEW q, Appends(o, p, q)
      PROVE  /\ journal[o] = p /\ journal'[o] = q
             /\ UNCHANGED <<db, backup, plan, canonical, staged, quarantine>>
  BY <1>a, <1>0 DEF Appends
<1>1. CASE Appends(o, "AUTHORIZED", "PREPARED")
  <2>1. journal[o] = "AUTHORIZED" /\ f \notin {"ABORTED"} /\ b \notin {"ABORTED"}
    BY <1>0, <1>1, <1>a DEF Follows
  <2>2. Follows(f, "PREPARED") /\ Follows(b, "PREPARED")
    BY <2>1, <1>0, <1>000, FollowsNext, OrderValues
  <2>3. \A s \in Slot : SlotFollows(o, s)'
    BY <2>1, <1>s, <1>1, <1>a, OrderValues DEF SlotFollows
  <2>4. QED  BY <2>2, <2>3, <1>000, <1>1, RecordKeeps
<1>2. CASE Appends(o, "PREPARED", "STAGED")
  <2>1. journal[o] = "PREPARED"
    BY <1>2, <1>a
  <2>2. Follows(f, "STAGED") /\ Follows(b, "STAGED")
    BY <2>1, <1>0, <1>000, FollowsNext, OrderValues
  <2>3. f \notin {"SWITCHING", "FILES_INSTALLED"} /\ b \notin {"SWITCHING", "FILES_INSTALLED"}
    BY <2>1, <1>00 DEF AtMostOneAhead, Working
  <2>4. \A s \in Slot : SlotFollows(o, s)'
    BY <2>1, <1>s, <1>2, <1>a, OrderValues DEF SlotFollows
  <2>5. QED  BY <2>2, <2>3, <2>4, <1>000, <1>2, RecordKeeps
<1>3. CASE /\ Appends(o, "STAGED", "SWITCHING")
           /\ DbPhase(o) \in {"SWITCHING", "FILES_INSTALLED"} /\ staged[o] = Slot
  <2>1. journal[o] = "STAGED" /\ f # "ABORTED" /\ b # "ABORTED"
    BY <1>0, <1>3, <1>a DEF DbPhase
  <2>2. Follows(f, "SWITCHING") /\ Follows(b, "SWITCHING")
    BY <2>1, <1>0, <1>000, FollowsNext, OrderValues
  <2>3. f # "FILES_INSTALLED" /\ b # "FILES_INSTALLED"
    BY <2>1, <1>00 DEF AtMostOneAhead, Working
  <2>4. \A s \in Slot : SlotFollows(o, s)'
    <3>1. \A s \in Slot : canonical[s] = plan[o].old /\ s \in staged[o]
      BY <2>1, <1>s, <1>3, OrderValues DEF SlotFollows
    <3>2. QED  BY <3>1, <1>3, <1>a, OrderValues DEF SlotFollows
  <2>5. QED  BY <2>2, <2>3, <2>4, <1>000, <1>3, RecordKeeps
<1>4. CASE Appends(o, "SWITCHING", "FILES_INSTALLED") /\ AllNew(o)
  <2>1. journal[o] = "SWITCHING" /\ f # "ABORTED" /\ b # "ABORTED"
    BY <1>0, <1>4, <1>a DEF Follows
  <2>2. Follows(f, "FILES_INSTALLED") /\ Follows(b, "FILES_INSTALLED")
    BY <2>1, <1>0, <1>000, FollowsNext, OrderValues
  <2>3. \A s \in Slot : SlotFollows(o, s)'
    <3>1. \A s \in Slot : canonical[s] = o /\ s \in quarantine[o]
      BY <2>1, <1>s, <1>4, Tokens, OrderValues DEF SlotFollows, AllNew, Begun
    <3>2. QED  BY <3>1, <1>4, <1>a, OrderValues DEF SlotFollows
  <2>4. QED  BY <2>2, <2>3, <1>000, <1>4, RecordKeeps
<1>5. CASE Appends(o, "FILES_INSTALLED", "DB_COMMITTED")
  <2>1. journal[o] = "FILES_INSTALLED" /\ f # "ABORTED" /\ b # "ABORTED"
    BY <1>0, <1>5, <1>a DEF Follows
  <2>2. Follows(f, "DB_COMMITTED") /\ Follows(b, "DB_COMMITTED")
    BY <2>1, <1>0, <1>000, FollowsNext, OrderValues
  <2>3. \A s \in Slot : SlotFollows(o, s)'
    <3>1. \A s \in Slot : canonical[s] = o
      BY <2>1, <1>s, OrderValues DEF SlotFollows
    <3>2. QED  BY <3>1, <1>5, <1>a, OrderValues DEF SlotFollows
  <2>4. QED  BY <2>2, <2>3, <1>000, <1>5, RecordKeeps
<1>6. CASE Appends(o, "DB_COMMITTED", "CLEANUP_PENDING")
  <2>1. journal[o] = "DB_COMMITTED" /\ f # "ABORTED" /\ b # "ABORTED"
    BY <1>0, <1>6, <1>a DEF Follows
  <2>2. Follows(f, "CLEANUP_PENDING") /\ Follows(b, "CLEANUP_PENDING")
    BY <2>1, <1>0, <1>000, FollowsNext, OrderValues
  <2>3. \A s \in Slot : SlotFollows(o, s)'
    <3>1. \A s \in Slot : canonical[s] = o
      BY <2>1, <1>s, OrderValues DEF SlotFollows
    <3>2. QED  BY <3>1, <1>6, <1>a, OrderValues DEF SlotFollows
  <2>4. QED  BY <2>2, <2>3, <1>000, <1>6, RecordKeeps
<1>7. CASE Appends(o, "CLEANUP_PENDING", "COMPLETED") /\ quarantine[o] = {} /\ AllNew(o)
  <2>1. journal[o] = "CLEANUP_PENDING" /\ f # "ABORTED" /\ b # "ABORTED"
    BY <1>0, <1>7, <1>a DEF Follows
  <2>2. Follows(f, "COMPLETED") /\ Follows(b, "COMPLETED")
    BY <2>1, <1>0, <1>000, FollowsNext, OrderValues
  <2>3. \A s \in Slot : SlotFollows(o, s)'
    BY <1>7, <1>a, OrderValues DEF SlotFollows, AllNew
  <2>4. QED  BY <2>2, <2>3, <1>000, <1>7, RecordKeeps
<1>8. CASE Appends(o, "STAGED", "ABORTED") /\ DbPhase(o) = "ABORTED"
  <2>1. journal[o] = "STAGED"
    BY <1>8, <1>a
  <2>2. Follows(f, "ABORTED") /\ Follows(b, "ABORTED")
    BY <2>1, <1>0, OrderValues DEF Follows
  <2>3. \A s \in Slot : SlotFollows(o, s)'
    BY <2>1, <1>s, <1>8, <1>a, OrderValues DEF SlotFollows
  <2>4. QED  BY <2>2, <2>3, <1>000, <1>8, RecordKeeps
<1>9. QED  BY <1>1, <1>2, <1>3, <1>4, <1>5, <1>6, <1>7, <1>8 DEF JournalMove

LEMMA FilesKeep ==
  ASSUME StoreInv, NEW o \in Op, NEW s \in Slot, FileMove(o, s)
  PROVE  StoreInv'
<1>0. /\ UNCHANGED <<db, backup, journal, plan>>
      /\ canonical \in [Slot -> Token \cup {None}]
      /\ staged \in [Op -> SUBSET Slot] /\ quarantine \in [Op -> SUBSET Slot]
      /\ o \in Nat /\ o \in Token /\ o # None /\ plan[o].old # None
      /\ Begun(o) => plan[o].old # o
      /\ \A x \in Op : x \in Nat
  BY Tokens, RotationConstants DEF FileMove, StoreInv, StoreTypeOK, Op, Token
<1>1. /\ canonical' \in [Slot -> Token \cup {None}]
      /\ staged' \in [Op -> SUBSET Slot] /\ quarantine' \in [Op -> SUBSET Slot]
  BY <1>0 DEF FileMove
<1>2. StoreTypeOK'
  BY <1>0, <1>1 DEF StoreInv, StoreTypeOK
<1>3a. UNCHANGED <<db, backup, journal, plan>>
  BY <1>0
<1>3b. FollowsJournal(db)' /\ FollowsJournal(backup)'
  BY <1>3a DEF StoreInv, FollowsJournal
<1>3c. Intact(db)' /\ Intact(backup)'
  BY <1>3a DEF StoreInv, Intact, CommittedIn, UnfinishedIn
<1>4. CopyIsOlder' /\ OneAtATime' /\ OldIsOlder'
  BY <1>0 DEF StoreInv, CopyIsOlder, OneAtATime, OldIsOlder, Begun
<1>5. journal[o] = "SWITCHING" /\ Latest(o) =>
        \A x \in Op : journal[x] \in {"SWITCHING"} \/ Latest(x) => x = o
  <2>1. \A x \in Op : journal[x] = "SWITCHING" => Latest(x)
    BY GoingOnIsLatest
  <2>2. QED  BY <2>1, OnlyOneIsLatest
<1>6. \A x \in Op : journal[x] = "STAGED" => staged'[x] = staged[x]
  <2>1. CASE journal[o] = "STAGED"
    BY <2>1 DEF FileMove
  <2>2. CASE journal[o] # "STAGED"
    BY <2>2, <1>0 DEF FileMove
  <2>3. QED  BY <2>1, <2>2
<1>7. \A x \in Op : journal[x] = "SWITCHING" /\ AllNew(x) => AllNew(x)'
  BY <1>0, <1>5 DEF FileMove, AllNew, Begun
<1>8. FilesFollowDatabase(db)' /\ FilesFollowDatabase(backup)'
  BY <1>0, <1>6, <1>7 DEF StoreInv, FilesFollowDatabase
<1>9. \A r \in Slot : canonical'[r] # canonical[r] =>
        \/ canonical'[r] = None
        \/ canonical'[r] = o /\ journal[o] = "SWITCHING" /\ Latest(o)
  BY <1>0 DEF FileMove
<1>10. InForceIsBegun'
  <2>1. \A r \in Slot : canonical'[r] \in Op => Begun(canonical'[r])
    <3>1. None \notin Op
      BY RotationConstants DEF Op
    <3>2. QED  BY <3>1, <1>9 DEF StoreInv, InForceIsBegun, Latest
  <2>2. QED  BY <2>1, <1>0 DEF InForceIsBegun, Begun
<1>11. InForceIsNewest'
  <2>1. Latest(o) => \A x \in Op : journal[x] = "COMPLETED" => o >= x
    <3>1. \A x \in Op : journal[x] = "COMPLETED" => Begun(x)
      BY DEF Begun
    <3>2. \A x \in Op : x > o \/ o >= x
      BY RotationConstants DEF Op
    <3>3. QED  BY <3>1, <3>2 DEF Latest
  <2>2. QED  BY <2>1, <1>0, <1>9 DEF StoreInv, InForceIsNewest
<1>12. CompletedIsClean'
  <2>1. \A x \in Op : journal[x] = "COMPLETED" => quarantine'[x] = quarantine[x]
    <3>1. CASE journal[o] = "COMPLETED"
      BY <3>1 DEF FileMove
    <3>2. CASE journal[o] # "COMPLETED"
      BY <3>2, <1>0 DEF FileMove
    <3>3. QED  BY <3>1, <3>2
  <2>2. QED  BY <2>1, <1>0 DEF StoreInv, CompletedIsClean
<1>13. FilesFollowJournal'
  <2>1. SUFFICES ASSUME NEW x \in Op, NEW r \in Slot, Latest(x)
                 PROVE  SlotFollows(x, r)'
    BY <1>0 DEF FilesFollowJournal, Latest, Begun
  <2>2. SlotFollows(x, r) /\ Begun(x) /\ journal[x] \in Phase
    BY <2>1 DEF StoreInv, StoreTypeOK, FilesFollowJournal, Latest
  <2>3. CASE /\ journal[o] = "PREPARED"
             /\ staged' = [staged EXCEPT ![o] = @ \cup {s}]
             /\ UNCHANGED <<canonical, quarantine>>
    <3>1. staged[x] \subseteq staged'[x]
      BY <1>0, <2>3
    <3>2. QED  BY <3>1, <2>2, <2>3, <1>0 DEF SlotFollows
  <2>4. CASE /\ journal[o] = "SWITCHING" /\ Latest(o)
             /\ canonical[s] = plan[o].old /\ s \in staged[o]
             /\ canonical' = [canonical EXCEPT ![s] = None]
             /\ quarantine' = [quarantine EXCEPT ![o] = @ \cup {s}]
             /\ UNCHANGED staged
    <3>1. x = o
      BY <2>1, <2>4, <1>5
    <3>2. CASE r = s
      <4>1. canonical'[r] = None /\ r \in staged'[x] /\ r \in quarantine'[x]
        BY <3>1, <3>2, <2>4, <1>0
      <4>2. QED  BY <4>1, <3>1, <2>4, <1>0, OrderValues DEF SlotFollows
    <3>3. CASE r # s
      <4>1. canonical'[r] = canonical[r] /\ staged'[x] = staged[x] /\ quarantine[x] \subseteq quarantine'[x]
        BY <3>1, <3>3, <2>4, <1>0
      <4>2. QED  BY <4>1, <3>1, <2>2, <2>4, <1>0, OrderValues DEF SlotFollows
    <3>4. QED  BY <3>2, <3>3
  <2>5. CASE /\ journal[o] = "SWITCHING" /\ Latest(o)
             /\ canonical[s] = None /\ s \in quarantine[o]
             /\ canonical' = [canonical EXCEPT ![s] = o]
             /\ staged' = [staged EXCEPT ![o] = @ \ {s}]
             /\ UNCHANGED quarantine
    <3>1. x = o
      BY <2>1, <2>5, <1>5
    <3>2. CASE r = s
      <4>1. canonical'[r] = o /\ r \in quarantine'[x]
        BY <3>1, <3>2, <2>5, <1>0
      <4>2. QED  BY <4>1, <3>1, <2>5, <1>0, OrderValues DEF SlotFollows
    <3>3. CASE r # s
      <4>1. canonical'[r] = canonical[r] /\ (r \in staged'[x] <=> r \in staged[x]) /\ quarantine'[x] = quarantine[x]
        BY <3>1, <3>3, <2>5, <1>0
      <4>2. QED  BY <4>1, <3>1, <2>2, <2>5, <1>0, OrderValues DEF SlotFollows
    <3>4. QED  BY <3>2, <3>3
  <2>6. CASE /\ journal[o] \in {"ABORTED", "CLEANUP_PENDING"}
             /\ staged' = [staged EXCEPT ![o] = @ \ {s}]
             /\ quarantine' = [quarantine EXCEPT ![o] = @ \ {s}]
             /\ UNCHANGED canonical
    <3>1. CASE x = o
      BY <3>1, <2>2, <2>6, <1>0, OrderValues DEF SlotFollows
    <3>2. CASE x # o
      <4>1. staged'[x] = staged[x] /\ quarantine'[x] = quarantine[x]
        BY <3>2, <2>6, <1>0
      <4>2. QED  BY <4>1, <2>2, <2>6, <1>0 DEF SlotFollows
    <3>3. QED  BY <3>1, <3>2
  <2>7. QED  BY <2>3, <2>4, <2>5, <2>6 DEF FileMove
<1>14. QED  BY <1>2, <1>3b, <1>3c, <1>4, <1>8, <1>10, <1>11, <1>12, <1>13 DEF StoreInv

LEMMA BeginsKeep ==
  ASSUME StoreInv, NEW o \in Op, Begins(o)
  PROVE  StoreInv'
<1>0. /\ UNCHANGED <<db, backup, canonical, staged, quarantine>>
      /\ journal \in [Op -> Phase] /\ plan \in [Op -> PlanRow]
      /\ journal[o] = "NONE" /\ journal'[o] = "AUTHORIZED"
      /\ \A x \in Op : x # o => journal'[x] = journal[x] /\ plan'[x] = plan[x]
      /\ plan'[o] = Material
      /\ \A x \in Op : x \in Int
  BY RotationConstants DEF Begins, StoreInv, StoreTypeOK, Op
<1>1. Material \in PlanRow /\ Material.old = db.active
  BY DEF Material, PlanRow, StoreInv, StoreTypeOK, DatabaseRow
<1>2. StoreTypeOK'
  <2>1. journal' \in [Op -> Phase]
    BY <1>0 DEF Begins, Phase
  <2>2. plan' \in [Op -> PlanRow]
    BY <1>0, <1>1 DEF Begins
  <2>3. QED  BY <2>1, <2>2, <1>0 DEF StoreInv, StoreTypeOK
<1>3. \A x \in Op : x > o => ~Begun(x)
  <2>1. OneAtATime
    BY DEF StoreInv
  <2>2. QED  BY <2>1, <1>0 DEF OneAtATime, Begun, Terminal
<1>4. \A x \in Op : x # o => (Begun(x)' <=> Begun(x))
  BY <1>0 DEF Begun
<1>5. FollowsJournal(db)' /\ FollowsJournal(backup)'
  <2>1. ASSUME NEW p \in Phase, Follows(p, "NONE")  PROVE Follows(p, "AUTHORIZED")
    BY <2>1, OrderValues DEF Follows
  <2>2. /\ db.op[o].phase \in Phase /\ backup.op[o].phase \in Phase
        /\ Follows(db.op[o].phase, "NONE") /\ Follows(backup.op[o].phase, "NONE")
    BY <1>0 DEF StoreInv, StoreTypeOK, DatabaseRow, FollowsJournal
  <2>3. QED  BY <2>1, <2>2, <1>0 DEF StoreInv, FollowsJournal
<1>6. Intact(db)' /\ Intact(backup)'
  BY <1>0 DEF StoreInv, Intact, CommittedIn, UnfinishedIn
<1>7. FilesFollowDatabase(db)' /\ FilesFollowDatabase(backup)'
  BY <1>0 DEF StoreInv, FilesFollowDatabase, AllNew
<1>8. CopyIsOlder'
  BY <1>0 DEF StoreInv, CopyIsOlder
<1>9. OneAtATime'
  <2>1. \A x \in Op : x < o => journal[x] \in Terminal
    BY DEF Begins
  <2>2. \A x, y \in Op : x < y /\ Begun(y)' => journal'[x] \in Terminal
    <3>1. \A x, y \in Op : x < y /\ Begun(y)' => y <= o /\ x < o
      BY <1>0, <1>3, <1>4
    <3>2. QED  BY <3>1, <2>1, <1>0
  <2>3. QED  BY <2>2, <1>0 DEF OneAtATime
<1>10. OldIsOlder'
  <2>1. PICK s \in Slot : TRUE
    BY RotationConstants DEF Slot
  <2>2. canonical[s] = db.active /\ db.active \in Token
    BY DEF Begins, StoreInv, StoreTypeOK, DatabaseRow
  <2>3. db.active < o
    <3>1. CASE db.active \in Op
      BY <3>1, <2>2, <1>0, <1>3 DEF StoreInv, InForceIsBegun, Begun
    <3>2. CASE db.active \notin Op
      BY <3>2, <2>2, RotationConstants DEF Token, Op
    <3>3. QED  BY <3>1, <3>2
  <2>4. QED  BY <2>3, <1>0, <1>1, <1>4 DEF StoreInv, OldIsOlder
<1>11. InForceIsBegun' /\ InForceIsNewest' /\ CompletedIsClean'
  BY <1>0 DEF StoreInv, InForceIsBegun, InForceIsNewest, CompletedIsClean, Begun
<1>12. FilesFollowJournal'
  <2>1. Begun(o)'
    BY <1>0 DEF Begun
  <2>2. \A x \in Op : Latest(x)' => x = o
    BY <2>1, <1>0, <1>3, <1>4 DEF Latest
  <2>3. \A s \in Slot : SlotFollows(o, s)'
    BY <1>0, <1>1, OrderValues DEF SlotFollows, Begins
  <2>4. QED  BY <2>2, <2>3 DEF FilesFollowJournal
<1>13. QED  BY <1>2, <1>5, <1>6, <1>7, <1>8, <1>9, <1>10, <1>11, <1>12 DEF StoreInv

LEMMA StoresKept ==
  ASSUME RotationInv, [Next]_vars
  PROVE  StoreInv'
<1>1. StoreInv /\ StoreMove
  BY StepsMoveStores DEF RotationInv
<1>2. QED  BY <1>1, CopyKeeps, DatabaseKeeps, JournalKeeps, FilesKeep, BeginsKeep DEF StoreMove

----------------------------------------------------------------------------
(* The coordinator keeps to its procedure.                                 *)

\* What ModeFollowsJournal says of a coordinator at rotation o, in mode m.
ModeHolds(o, m) ==
  /\ Begun(o)
  /\ m = "rotate" =>
       /\ journal[o] \in {"AUTHORIZED", "PREPARED", "STAGED"}
       /\ DbPhase(o) \in {"STAGED", "SWITCHING"} => staged[o] = Slot
  /\ m = "forward" => Order(journal[o]) >= Order("SWITCHING")
  /\ m = "abort" => journal[o] = "ABORTED"

RunOK == run \in [op : Op \cup {0}, mode : Mode]

LEMMA IdleFollows ==
  ASSUME run' = Idle
  PROVE  RunOK' /\ ModeFollowsJournal'
<1>1. run'.mode = "idle" /\ RunOK'
  BY DEF Idle, RunOK, Mode
<1>2. QED  BY <1>1 DEF ModeFollowsJournal

LEMMA ModeFollows ==
  ASSUME NEW o \in Op, NEW m \in Mode, run' = [op |-> o, mode |-> m], ModeHolds(o, m)'
  PROVE  RunOK' /\ ModeFollowsJournal'
<1>1. run'.op = o /\ run'.mode = m
  OBVIOUS
<1>2. RunOK'
  BY DEF RunOK
<1>3. QED  BY <1>1, <1>2 DEF ModeFollowsJournal, ModeHolds

LEMMA ModeHeld ==
  ASSUME RotationInv, NEW o \in Op, NEW m \in Mode \ {"idle"}, At(o, m)
  PROVE  ModeHolds(o, m) /\ journal \in [Op -> Phase]
<1>1. journal \in [Op -> Phase]
  BY DEF RotationInv, StoreInv, StoreTypeOK
<1>2. QED  BY <1>1, ModeFacts DEF ModeHolds

\* A step that leaves the coordinator where it is.
LEMMA StaysFollows ==
  ASSUME RotationInv, run' = run, UNCHANGED <<db, journal, staged>>
  PROVE  RunOK' /\ ModeFollowsJournal'
<1>1. RunOK'
  BY DEF RotationInv, ProcessTypeOK, RunOK
<1>2. ModeFollowsJournal'
  BY DEF RotationInv, ModeFollowsJournal, Begun, DbPhase
<1>3. QED  BY <1>1, <1>2

\* The database moves under a coordinator that is not in rotate.
LEMMA DatabaseFollows ==
  ASSUME RotationInv, run' = run, run.mode # "rotate", UNCHANGED <<journal, staged>>
  PROVE  RunOK' /\ ModeFollowsJournal'
<1>1. RunOK'
  BY DEF RotationInv, ProcessTypeOK, RunOK
<1>2. ModeFollowsJournal'
  BY DEF RotationInv, ModeFollowsJournal, Begun
<1>3. QED  BY <1>1, <1>2

LEMMA ModeStep ==
  ASSUME RotationInv, NEW o \in Op, Step(o)
  PROVE  RunOK' /\ ModeFollowsJournal'
<1> USE DEF Updates, Journals, Goto, files
<1>m. {"rotate", "reconcile", "forward", "cleanup", "abort"} \subseteq Mode \ {"idle"}
  BY DEF Mode
<1>t. /\ db \in DatabaseRow /\ journal \in [Op -> Phase] /\ staged \in [Op -> SUBSET Slot]
  BY DEF RotationInv, StoreInv, StoreTypeOK
<1>a. ASSUME NEW m, At(o, m)  PROVE run.mode = m /\ run.op = o
  BY <1>a DEF At
<1>1. CASE RotatePrepares(o) \/ RotateStages(o) \/ RotateSwitches(o)
  <2>1. /\ At(o, "rotate") /\ UNCHANGED <<run, journal, staged>>
        /\ ModeHolds(o, "rotate")
    BY <1>1, <1>m, ModeHeld DEF RotatePrepares, RotateStages, RotateSwitches
  <2>2. CASE RotatePrepares(o)
    <3>1. DbPhase(o)' = "PREPARED"
      BY <2>2, <1>t, PreparedRow DEF RotatePrepares, DbPhase
    <3>2. ModeHolds(o, "rotate")'
      BY <2>1, <3>1 DEF ModeHolds, Begun
    <3>3. QED  BY <3>2, <2>1, <1>m, ModeFollows DEF At
  <2>3. CASE RotateStages(o) \/ RotateSwitches(o)
    <3>1. staged[o] = Slot
      BY <2>1, <2>3 DEF RotateStages, RotateSwitches, ModeHolds
    <3>2. ModeHolds(o, "rotate")'
      BY <2>1, <3>1 DEF ModeHolds, Begun
    <3>3. QED  BY <3>2, <2>1, <1>m, ModeFollows DEF At
  <2>4. QED  BY <1>1, <2>2, <2>3
<1>2. CASE RotateJournals(o)
  <2>1. At(o, "rotate") /\ ModeHolds(o, "rotate") /\ UNCHANGED <<db, staged>>
    BY <1>2, <1>m, ModeHeld DEF RotateJournals
  <2>2. CASE journal[o] = "AUTHORIZED" /\ Journals(o, "PREPARED") /\ UNCHANGED run
    <3>1. journal'[o] = "PREPARED"
      BY <2>2, <1>t
    <3>2. ModeHolds(o, "rotate")'
      BY <3>1, <2>1 DEF ModeHolds, Begun, DbPhase
    <3>3. QED  BY <3>2, <2>1, <2>2, <1>m, ModeFollows DEF At
  <2>3. CASE journal[o] = "PREPARED" /\ Journals(o, "STAGED") /\ UNCHANGED run
    <3>1. journal'[o] = "STAGED"
      BY <2>3, <1>t
    <3>2. ModeHolds(o, "rotate")'
      BY <3>1, <2>1 DEF ModeHolds, Begun, DbPhase
    <3>3. QED  BY <3>2, <2>1, <2>3, <1>m, ModeFollows DEF At
  <2>4. CASE journal[o] = "STAGED" /\ Journals(o, "SWITCHING") /\ Goto(o, "forward")
    <3>1. journal'[o] = "SWITCHING"
      BY <2>4, <1>t
    <3>2. ModeHolds(o, "forward")'
      BY <3>1, OrderValues DEF ModeHolds, Begun
    <3>3. QED  BY <3>2, <2>4, <1>m, ModeFollows
  <2>5. QED  BY <1>2, <2>2, <2>3, <2>4 DEF RotateJournals
<1>3. CASE ReconcileAborted(o)
  <2>1. ModeHolds(o, "abort")'
    BY <1>3 DEF ReconcileAborted, ModeHolds, Begun
  <2>2. QED  BY <2>1, <1>3, <1>m, ModeFollows DEF ReconcileAborted
<1>4. ASSUME Begun(o), run' = [op |-> o, mode |-> "cleanup"],
             journal'[o] # "NONE"
      PROVE  RunOK' /\ ModeFollowsJournal'
  <2>1. ModeHolds(o, "cleanup")'
    BY <1>4 DEF ModeHolds, Begun
  <2>2. QED  BY <2>1, <1>4, <1>m, ModeFollows
<1>5. CASE ReconcileCommitted(o) \/ ForwardCommitted(o)
  <2>1. Begun(o)
    BY <1>5, <1>m, ModeHeld DEF ReconcileCommitted, ForwardCommitted, ModeHolds
  <2>2. journal'[o] # "NONE" /\ run' = [op |-> o, mode |-> "cleanup"]
    BY <1>5, <1>t, <2>1 DEF ReconcileCommitted, ForwardCommitted, Begun
  <2>3. QED  BY <2>1, <2>2, <1>4
<1>6. CASE RecoverExternal(o)
  <2>1. Begun(o)
    BY <1>6, <1>m, ModeHeld DEF RecoverExternal, ModeHolds
  <2>2. QED  BY <2>1, <1>6, <1>4 DEF RecoverExternal, Begun
<1>7. CASE ReconcilePrepares(o) \/ ReconcileStages(o) \/ AbortsDatabase(o) \/ ReconcileSwitches(o)
  <2>1. At(o, "reconcile") /\ UNCHANGED <<run, journal, staged>>
    BY <1>7 DEF ReconcilePrepares, ReconcileStages, AbortsDatabase, ReconcileSwitches
  <2>2. QED  BY <2>1, <1>a, DatabaseFollows
<1>8. CASE CatchUp(o)
  <2>1. /\ At(o, "reconcile") /\ run' = run
        /\ journal' = [journal EXCEPT ![o] = NextPhase(journal[o])]
    BY <1>8 DEF CatchUp
  <2>2. /\ Begun(o) /\ journal[o] # "ABORTED" /\ journal[o] \in Phase /\ DbPhase(o) \in Phase
        /\ Order(journal[o]) < Order("FILES_INSTALLED")
    <3>1. Begun(o) /\ journal[o] # "ABORTED" /\ journal[o] \in Phase /\ DbPhase(o) \in Phase
      BY <1>8, <2>1, <1>m, <1>t, ModeHeld DEF CatchUp, Behind, ModeHolds, DbPhase, DatabaseRow
    <3>2. Order(journal[o]) \in Int /\ Order(DbPhase(o)) \in Int
      BY <3>1, OrderCuts
    <3>3. QED  BY <3>1, <3>2, <1>8, OrderValues DEF CatchUp
  <2>3. journal[o] \in {"AUTHORIZED", "PREPARED", "STAGED", "SWITCHING"}
    BY <2>2, OrderValues DEF Begun, Phase
  <2>4. NextPhase(journal[o]) # "NONE"
    BY <2>3, NextPhases
  <2>5. ModeHolds(o, "reconcile")'
    BY <2>1, <2>4, <1>t DEF ModeHolds, Begun
  <2>6. QED  BY <2>1, <2>5, <1>m, ModeFollows DEF At
<1>9. CASE AbortsJournal(o)
  <2>1. ModeHolds(o, "abort")'
    BY <1>9, <1>t DEF AbortsJournal, ModeHolds, Begun
  <2>2. QED  BY <2>1, <1>9, <1>m, ModeFollows DEF AbortsJournal
<1>10. CASE ReconcileForward(o)
  <2>1. Begun(o) /\ Order(journal[o]) \in Int /\ DbPhase(o) \in Phase
    BY <1>10, <1>m, <1>t, ModeHeld, OrderCuts DEF ReconcileForward, ModeHolds, DbPhase, DatabaseRow
  <2>2. Order(journal[o]) >= Order("SWITCHING")
    BY <2>1, <1>10, OrderCuts, OrderValues DEF ReconcileForward
  <2>3. ModeHolds(o, "forward")'
    BY <2>1, <2>2, <1>10 DEF ReconcileForward, ModeHolds, Begun
  <2>4. QED  BY <2>3, <1>10, <1>m, ModeFollows DEF ReconcileForward
<1>11. CASE ForwardInstalled(o) \/ ForwardCommits(o)
  <2>1. At(o, "forward") /\ UNCHANGED <<run, journal, staged>>
    BY <1>11 DEF ForwardInstalled, ForwardCommits
  <2>2. QED  BY <2>1, <1>a, DatabaseFollows
<1>12. CASE ForwardJournals(o)
  <2>1. ModeHolds(o, "forward")'
    BY <1>12, <1>t, OrderValues DEF ForwardJournals, ModeHolds, Begun
  <2>2. QED  BY <2>1, <1>12, <1>m, ModeFollows DEF ForwardJournals, At
<1>13. CASE CleanupBegins(o)
  <2>1. ModeHolds(o, "cleanup")'
    BY <1>13, <1>t DEF CleanupBegins, ModeHolds, Begun
  <2>2. QED  BY <2>1, <1>13, <1>m, ModeFollows DEF CleanupBegins, At
<1>14. CASE Complete(o) \/ AbortEnds(o)
  BY <1>14, IdleFollows DEF Complete, AbortEnds
<1>15. ASSUME NEW s \in Slot, Stage(o, s)  PROVE RunOK' /\ ModeFollowsJournal'
  <2>1. ModeHolds(o, "rotate")'
    BY <1>15, <1>m, <1>t, ModeHeld DEF Stage, ModeHolds, Begun, DbPhase
  <2>2. QED  BY <2>1, <1>15, <1>m, ModeFollows DEF Stage, At
<1>16. ASSUME NEW s \in Slot, Quarantine(o, s) \/ Install(o, s) \/ RemoveFiles(o, s)
       PROVE  RunOK' /\ ModeFollowsJournal'
  <2>1. PICK m \in {"forward", "abort", "cleanup"} : At(o, m)
    BY <1>16 DEF Quarantine, Install, RemoveFiles
  <2>2. UNCHANGED <<run, db, journal>>
    BY <1>16 DEF Quarantine, Install, RemoveFiles
  <2>3. ModeHolds(o, m)'
    BY <2>1, <2>2, <1>m, ModeHeld DEF ModeHolds, Begun
  <2>4. QED  BY <2>1, <2>2, <2>3, <1>m, ModeFollows DEF At
<1>17. QED
  BY <1>1, <1>2, <1>3, <1>5, <1>6, <1>7, <1>8, <1>9, <1>10, <1>11, <1>12, <1>13, <1>14,
     <1>15, <1>16 DEF Step

LEMMA ProcessKept ==
  ASSUME RotationInv, [Next]_vars
  PROVE  ProcessTypeOK' /\ ModeFollowsJournal'
<1> USE DEF files
<1>1. RunOK' /\ ModeFollowsJournal'
  <2>1. CASE UNCHANGED vars
    BY <2>1, StaysFollows DEF vars
  <2>2. ASSUME NEW o \in Op, Rotate(o)  PROVE RunOK' /\ ModeFollowsJournal'
    <3>1. journal \in [Op -> Phase] /\ DbPhase(o) = "NONE" /\ db' = db
      BY <2>2 DEF Rotate, RotationInv, StoreInv, StoreTypeOK
    <3>2. ModeHolds(o, "rotate")'
      BY <2>2, <3>1 DEF Rotate, ModeHolds, Begun, DbPhase
    <3>3. QED  BY <2>2, <3>2, ModeFollows DEF Rotate, Goto, Mode
  <2>3. ASSUME NEW o \in Op, Reconcile(o)  PROVE RunOK' /\ ModeFollowsJournal'
    <3>1. ModeHolds(o, "reconcile")'
      BY <2>3 DEF Reconcile, ModeHolds, Begun
    <3>2. QED  BY <2>3, <3>1, ModeFollows DEF Reconcile, Goto, Mode
  <2>4. ASSUME NEW o \in Op, HubFinishes(o)  PROVE RunOK' /\ ModeFollowsJournal'
    BY <2>4, IdleFollows DEF HubFinishes
  <2>5. CASE Fail
    BY <2>5, IdleFollows DEF Fail
  <2>6. CASE Crash
    BY <2>6, IdleFollows DEF Crash
  <2>7. CASE Backup
    BY <2>7, StaysFollows DEF Backup
  <2>8. CASE Restore
    BY <2>8, IdleFollows DEF Restore
  <2>9. QED  BY <2>1, <2>2, <2>3, <2>4, <2>5, <2>6, <2>7, <2>8, ModeStep DEF Next
<1>2. crashes' \in Nat /\ restores' \in Nat
  <2>1. crashes \in Nat /\ restores \in Nat
    BY DEF RotationInv, ProcessTypeOK
  <2>2. ASSUME NEW o \in Op, Step(o)  PROVE UNCHANGED <<crashes, restores>>
    BY <2>2 DEF Step, RotatePrepares, RotateStages, RotateSwitches, RotateJournals,
       ReconcileAborted, ReconcileCommitted, RecoverExternal, ReconcilePrepares, CatchUp,
       ReconcileStages, AbortsDatabase, AbortsJournal, ReconcileSwitches, ReconcileForward,
       ForwardInstalled, ForwardJournals, ForwardCommits, ForwardCommitted, CleanupBegins,
       Complete, AbortEnds, Stage, Quarantine, Install, RemoveFiles, Updates, Journals
  <2>3. ASSUME NEW o \in Op, Rotate(o) \/ Reconcile(o) \/ HubFinishes(o)
        PROVE  UNCHANGED <<crashes, restores>>
    BY <2>3 DEF Rotate, Reconcile, HubFinishes
  <2>4. CASE Fail \/ Backup \/ UNCHANGED vars
    BY <2>4, <2>1 DEF Fail, Backup, vars
  <2>5. CASE Crash \/ Restore
    BY <2>5, <2>1 DEF Crash, Restore
  <2>6. QED  BY <2>1, <2>2, <2>3, <2>4, <2>5 DEF Next
<1>3. QED  BY <1>1, <1>2 DEF ProcessTypeOK, RunOK

----------------------------------------------------------------------------
(* The theorems.                                                           *)

LEMMA RotationInit ==
  ASSUME Init
  PROVE  RotationInv
<1> USE DEF Init
<1>1. StoreTypeOK
  <2>1. 0 \in Token /\ 0 \in Nat /\ "NONE" \in Phase
    BY RotationConstants DEF Token, Phase
  <2>2. db \in DatabaseRow
    BY <2>1 DEF DatabaseRow
  <2>3. QED  BY <2>1, <2>2 DEF StoreTypeOK, PlanRow
<1>2. \A o \in Op : /\ db.op[o].phase = "NONE" /\ backup.op[o].phase = "NONE"
                    /\ journal[o] = "NONE" /\ ~Begun(o) /\ quarantine[o] = {}
  BY DEF Begun
<1>3. FollowsJournal(db) /\ FollowsJournal(backup)
  BY <1>2 DEF FollowsJournal, Follows, Working
<1>4. CommittedIn(db) = {} /\ UnfinishedIn(db) = {} /\ db.epoch = 0 /\ backup = db
  BY <1>2 DEF CommittedIn, UnfinishedIn
<1>5. Intact(db) /\ Intact(backup)
  <2> HIDE DEF Init
  <2>1. 0 .. db.epoch - 1 = {} /\ ~(db.epoch > 0)
    BY <1>4
  <2>2. Intact(db)
    BY <1>4, <2>1 DEF Intact
  <2>3. QED  BY <1>4, <2>2
<1>6. FilesFollowDatabase(db) /\ FilesFollowDatabase(backup) /\ CopyIsOlder
  BY <1>2 DEF FilesFollowDatabase, CopyIsOlder
<1>7. /\ OneAtATime /\ OldIsOlder /\ InForceIsNewest /\ CompletedIsClean
      /\ FilesFollowJournal
  BY <1>2 DEF OneAtATime, OldIsOlder, InForceIsNewest, CompletedIsClean, FilesFollowJournal, Latest
<1>8. InForceIsBegun
  <2>1. \A s \in Slot : canonical[s] = 0
    OBVIOUS
  <2>2. 0 \notin Op
    BY RotationConstants DEF Op
  <2>3. QED  BY <2>1, <2>2 DEF InForceIsBegun
<1>9. ProcessTypeOK /\ ModeFollowsJournal
  BY DEF ProcessTypeOK, ModeFollowsJournal, Idle, Mode
<1>10. QED  BY <1>1, <1>3, <1>5, <1>6, <1>7, <1>8, <1>9 DEF RotationInv, StoreInv

(* The three stores and the coordinator's process agree in all the ways the *)
(* procedure relies on, whichever process died where and whatever copy the  *)
(* database was replaced with (credential-rotation.ts, rotate, reconcile    *)
(* and continueForward).                                                   *)
THEOREM RotationInvariant == Spec => []RotationInv
<1>1. Init => RotationInv
  BY RotationInit
<1>2. RotationInv /\ [Next]_vars => RotationInv'
  BY StoresKept, ProcessKept DEF RotationInv
<1>3. QED  BY <1>1, <1>2, PTL DEF Spec

(* The journal says which credential files are in force (inspectFileStates  *)
(* and the branches of reconcile that go by it).                           *)
THEOREM FilesInForce == Spec => []FilesFollowJournal
<1>1. RotationInv => FilesFollowJournal
  BY DEF RotationInv, StoreInv
<1>2. QED  BY <1>1, RotationInvariant, PTL

(* The database is at most one phase ahead of the journal, and gives up only *)
(* what the journal can give up (catchJournalUpToDatabase).                *)
THEOREM DatabaseIsRepairable == Spec => []DatabaseFollowsJournal
<1>1. RotationInv => DatabaseFollowsJournal
  BY DEF RotationInv, StoreInv, FollowsJournal, Follows, DatabaseFollowsJournal, DbPhase,
         Begun, Working
<1>2. QED  BY <1>1, RotationInvariant, PTL

(* assertCredentialRotationIntegrity never fails on the Hub's own tables,   *)
(* a database put back from a copy included.                               *)
THEOREM HubIsIntact == Spec => []DatabaseIsIntact
<1>1. ASSUME RotationInv  PROVE DatabaseIsIntact
  <2>1. Intact(db) /\ \A o \in Op : DbPhase(o) \in Phase
    BY <1>1 DEF RotationInv, StoreInv, StoreTypeOK, DatabaseRow, DbPhase
  <2>2. {o \in Op : DbPhase(o) \in {"DB_COMMITTED", "COMPLETED"}} = CommittedIn(db)
    BY DEF CommittedIn, DbPhase
  <2>3. {o \in Op : DbPhase(o) \notin {"NONE", "ABORTED"}} \ CommittedIn(db) = UnfinishedIn(db)
    BY <2>1 DEF CommittedIn, UnfinishedIn, DbPhase, Phase
  <2>4. QED  BY <2>1, <2>2, <2>3 DEF DatabaseIsIntact, IntegrityHolds, Intact
<1>2. QED  BY <1>1, RotationInvariant, PTL
=============================================================================
