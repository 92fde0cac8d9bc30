------------------------- MODULE CredentialRotation -------------------------
(***************************************************************************)
(* Replacing all static credentials of an installation at once, over three  *)
(* stores that no transaction spans: the Hub database, an append-only       *)
(* journal and the credential files.                                       *)
(*                                                                         *)
(* The coordinator is a command line process.  It may die before any of its *)
(* steps, and every later call reconciles: it reads the three stores and    *)
(* goes on from what it finds, back to the old credentials as long as no    *)
(* file can have moved, forward afterwards.  The database may be replaced   *)
(* by an older copy of itself while no coordinator runs.                    *)
(*                                                                         *)
(* Source: packages/cli/src/credential-rotation.ts (coordinator, files,     *)
(* journal) over apps/hub/src/security/credential-rotation.ts (the database *)
(* calls, each one transaction).  The adapter between the two is not in the *)
(* repository: each of its methods stands for the Hub function of that      *)
(* name.  One coordinator runs at a time.  A journal append, a rename and a *)
(* removal are single steps, as their callers fsync and reread.  A token is *)
(* named by the rotation that made it.  Scopes, digests, hashes and         *)
(* authorization are left out; the receipt of a commit is a function of its *)
(* plan.                                                                   *)
(***************************************************************************)
EXTENDS Integers

CONSTANTS
  MaxOps,       \* bound on the rotations, numbered in the order of their start
  Slots,        \* the number of credential slots (eight in the code)
  None,
  MaxCrashes,   \* bound on the coordinator processes that die
  MaxRestores   \* bound on the times the database is replaced by a copy

ASSUME RotationConstants ==
  /\ MaxOps \in Nat
  /\ Slots \in Nat \ {0}
  /\ None \notin Int
  /\ MaxCrashes \in Nat
  /\ MaxRestores \in Nat

Op   == 1 .. MaxOps
Slot == 1 .. Slots
Token == 0 .. MaxOps    \* 0 is the credentials before any rotation

VARIABLES
  db,          \* static_credential_* tables: [epoch, active, op]
  backup,      \* an older copy of the database
  journal,     \* the last phase of each rotation in the external journal
  plan,        \* what its AUTHORIZED record binds it to
  canonical,   \* the token in each canonical credential file, or None
  staged,      \* the slots whose staged file of a rotation exists
  quarantine,  \* the slots whose old file of a rotation is kept aside
  run,         \* the coordinator process: [op, mode]
  crashes, restores

files == <<canonical, staged, quarantine>>
vars == <<db, backup, journal, plan, canonical, staged, quarantine, run, crashes, restores>>

----------------------------------------------------------------------------

\* phaseOrder; indexOf is -1 for ABORTED.
Order(p) ==
  CASE p = "NONE" -> -2
    [] p = "ABORTED" -> -1
    [] p = "AUTHORIZED" -> 0
    [] p = "PREPARED" -> 1
    [] p = "STAGED" -> 2
    [] p = "SWITCHING" -> 3
    [] p = "FILES_INSTALLED" -> 4
    [] p = "DB_COMMITTED" -> 5
    [] p = "CLEANUP_PENDING" -> 6
    [] p = "COMPLETED" -> 7

Phase == {"NONE", "ABORTED", "AUTHORIZED", "PREPARED", "STAGED", "SWITCHING",
          "FILES_INSTALLED", "DB_COMMITTED", "CLEANUP_PENDING", "COMPLETED"}

Terminal == {"COMPLETED", "ABORTED"}

PlanRow == [before : Nat, old : Token]

\* The Hub's rows: its phase of a rotation and the epoch it was prepared at.
DatabaseRow ==
  [epoch : Nat, active : Token, op : [Op -> [phase : Phase, before : Nat]]]

Mode == {"idle", "rotate", "reconcile", "forward", "cleanup", "abort"}
Idle == [op |-> 0, mode |-> "idle"]

DbPhase(o) == db.op[o].phase

\* assertOperationMatches
Matches(o) == DbPhase(o) # "NONE" /\ db.op[o].before = plan[o].before

EpochAfter(o) == plan[o].before + 1

\* exactCommittedObservation and assertAbortedObservation
ObservedCommitted(o) ==
  /\ Matches(o)
  /\ db.epoch = EpochAfter(o)
  /\ DbPhase(o) = "DB_COMMITTED"
  /\ db.active = o
ObservedAborted(o) ==
  /\ Matches(o)
  /\ db.epoch = plan[o].before
  /\ DbPhase(o) = "ABORTED"
  /\ db.active = plan[o].old

\* inspectFileStates
AllOld(o) == \A s \in Slot : canonical[s] = plan[o].old
AnyNew(o) == \E s \in Slot : canonical[s] = o
AllNew(o) == \A s \in Slot : canonical[s] = o
AllKnown(o) == \A s \in Slot : canonical[s] \in {plan[o].old, o, None}

\* latestExternalEpoch
ExternalEpoch ==
  LET epochs == {0} \cup {IF Order(journal[o]) >= Order("DB_COMMITTED")
                          THEN EpochAfter(o) ELSE plan[o].before :
                          o \in {q \in Op : journal[q] # "NONE"}}
  IN  CHOOSE e \in epochs : \A f \in epochs : f <= e

Init ==
  /\ db = [epoch |-> 0, active |-> 0, op |-> [o \in Op |-> [phase |-> "NONE", before |-> 0]]]
  /\ backup = db
  /\ journal = [o \in Op |-> "NONE"]
  /\ plan = [o \in Op |-> [before |-> 0, old |-> 0]]
  /\ canonical = [s \in Slot |-> 0]
  /\ staged = [o \in Op |-> {}]
  /\ quarantine = [o \in Op |-> {}]
  /\ run = Idle
  /\ crashes = 0
  /\ restores = 0

----------------------------------------------------------------------------
(* The Hub's side: each a transaction, as a new value of the tables.       *)

DbWith(o, phase) == [db EXCEPT !.op[o].phase = phase]

\* Mutant: a rotation is prepared beside an unfinished one.
MayPrepareBeside(o) == DbPhase(o) = "NONE"

\* prepareStaticCredentialRotation: no other rotation is unfinished.
MayPrepare(o) ==
  /\ DbPhase(o) = "NONE"
  /\ \A q \in Op : DbPhase(q) \in {"NONE", "COMPLETED", "ABORTED"}
Prepared(o) == [db EXCEPT !.op[o] = [phase |-> "PREPARED", before |-> db.epoch]]

\* commitStaticCredentialRotation: the epoch is still the one it was prepared at.
MayCommit(o) ==
  /\ DbPhase(o) = "FILES_INSTALLED"
  /\ db.epoch = db.op[o].before
Committed(o, d) ==
  [d EXCEPT !.epoch = d.op[o].before + 1, !.active = o, !.op[o].phase = "DB_COMMITTED"]

\* abortStagedCredentialRotation
Aborted(o) == DbWith(o, "ABORTED")

\* recoverExternalStaticCredentialRotation: all its phases, files at hand.
Redone(o) == Committed(o, Prepared(o))

\* finishCredentialRotationCleanup
Finished(o) == DbWith(o, "COMPLETED")

(* The Hub's reconciliation of a committed rotation, which the coordinator  *)
(* does not call: until it has run the Hub refuses the next rotation.       *)
HubFinishes(o) ==
  /\ run = Idle
  /\ DbPhase(o) = "DB_COMMITTED"
  /\ AllNew(o)
  /\ db' = Finished(o)
  /\ UNCHANGED <<backup, journal, plan, files, run, crashes, restores>>

----------------------------------------------------------------------------
(* The coordinator.                                                        *)

At(o, mode) == run = [op |-> o, mode |-> mode]

Goto(o, mode) == run' = [op |-> o, mode |-> mode]

\* append: a record of a phase the journal is past is not written again.
Journals(o, phase) ==
  /\ journal' = [journal EXCEPT ![o] = phase]
  /\ UNCHANGED <<db, backup, plan, files, crashes, restores>>

Updates(newDb) ==
  /\ db' = newDb
  /\ UNCHANGED <<backup, journal, plan, files, run, crashes, restores>>

\* createMemberMaterial and the plan bound to what was observed.
Material == [before |-> db.epoch, old |-> db.active]

(* rotate up to its AUTHORIZED record: every earlier rotation has ended,    *)
(* and database, journal and files agree on the credentials in force.       *)
Rotate(o) ==
  /\ run = Idle
  /\ journal[o] = "NONE"
  /\ \A q \in Op : q < o => journal[q] # "NONE"
  /\ \A q \in Op : journal[q] \in Terminal \cup {"NONE"}
  /\ DbPhase(o) = "NONE"
  /\ db.epoch = ExternalEpoch
  /\ \A s \in Slot : canonical[s] = db.active
  /\ plan' = [plan EXCEPT ![o] = Material]
  /\ journal' = [journal EXCEPT ![o] = "AUTHORIZED"]
  /\ Goto(o, "rotate")
  /\ UNCHANGED <<db, backup, files, crashes, restores>>

\* The database calls and journal records of rotate, in their order.
RotatePrepares(o) ==
  /\ At(o, "rotate")
  /\ journal[o] = "AUTHORIZED"
  /\ MayPrepare(o)
  /\ Updates(Prepared(o))

\* writeStaged: the new tokens exist in these files only.
Stage(o, s) ==
  /\ At(o, "rotate")
  /\ journal[o] = "PREPARED"
  /\ DbPhase(o) = "PREPARED"
  /\ staged[o] = 1 .. s - 1
  /\ staged' = [staged EXCEPT ![o] = @ \cup {s}]
  /\ UNCHANGED <<db, backup, journal, plan, canonical, quarantine, run, crashes, restores>>

RotateStages(o) ==
  /\ At(o, "rotate")
  /\ journal[o] = "PREPARED"
  /\ DbPhase(o) = "PREPARED"
  /\ staged[o] = Slot
  /\ Updates(DbWith(o, "STAGED"))

RotateSwitches(o) ==
  /\ At(o, "rotate")
  /\ journal[o] = "STAGED"
  /\ DbPhase(o) = "STAGED"
  /\ Updates(DbWith(o, "SWITCHING"))

RotateJournals(o) ==
  /\ At(o, "rotate")
  /\ \/ /\ journal[o] = "AUTHORIZED" /\ DbPhase(o) = "PREPARED"
        /\ Journals(o, "PREPARED") /\ UNCHANGED run
     \/ /\ journal[o] = "PREPARED" /\ DbPhase(o) = "STAGED"
        /\ Journals(o, "STAGED") /\ UNCHANGED run
     \/ /\ journal[o] = "STAGED" /\ DbPhase(o) = "SWITCHING"
        /\ Journals(o, "SWITCHING") /\ Goto(o, "forward")

----------------------------------------------------------------------------
(* reconcile, or rotate with an operation id the journal knows.            *)

Reconcile(o) ==
  /\ run = Idle
  /\ journal[o] # "NONE"
  /\ Goto(o, "reconcile")
  /\ UNCHANGED <<db, backup, journal, plan, files, crashes, restores>>

\* The journal says ABORTED: only files may be left to remove.
ReconcileAborted(o) ==
  /\ At(o, "reconcile")
  /\ journal[o] = "ABORTED"
  /\ ObservedAborted(o)
  /\ Goto(o, "abort")
  /\ UNCHANGED <<db, backup, journal, plan, files, crashes, restores>>

\* The database has committed: record it and clean up.
ReconcileCommitted(o) ==
  /\ At(o, "reconcile")
  /\ journal[o] # "ABORTED"
  /\ ObservedCommitted(o)
  /\ AllNew(o)
  /\ journal' = IF Order(journal[o]) < Order("DB_COMMITTED")
                THEN [journal EXCEPT ![o] = "DB_COMMITTED"] ELSE journal
  /\ Goto(o, "cleanup")
  /\ UNCHANGED <<db, backup, plan, files, crashes, restores>>

Behind(o) == journal[o] # "ABORTED" /\ db.epoch < EpochAfter(o)

\* Mutant: a completed rotation needs no recovery.
RecoverUnfinished(o) ==
  /\ At(o, "reconcile")
  /\ Behind(o)
  /\ MayPrepare(o)
  /\ Order(journal[o]) >= Order("DB_COMMITTED")
  /\ journal[o] # "COMPLETED"
  /\ AllNew(o)
  /\ db.epoch = plan[o].before
  /\ db' = Redone(o)
  /\ Goto(o, "cleanup")
  /\ UNCHANGED <<backup, journal, plan, files, crashes, restores>>

(* recoverExternal: the journal survived an older database, which is        *)
(* brought forward to the files in force.                                  *)
RecoverExternal(o) ==
  /\ At(o, "reconcile")
  /\ Behind(o)
  /\ MayPrepare(o)
  /\ Order(journal[o]) >= Order("DB_COMMITTED")
  /\ AllNew(o)
  /\ db.epoch = plan[o].before
  /\ db' = Redone(o)
  /\ Goto(o, "cleanup")
  /\ UNCHANGED <<backup, journal, plan, files, crashes, restores>>

ReconcilePrepares(o) ==
  /\ At(o, "reconcile")
  /\ Behind(o)
  /\ Order(journal[o]) < Order("DB_COMMITTED")
  /\ MayPrepare(o)
  /\ Updates(Prepared(o))

NextPhase(p) == CHOOSE q \in Phase : Order(q) = Order(p) + 1

\* catchJournalUpToDatabase, one record at a time.
CatchUp(o) ==
  /\ At(o, "reconcile")
  /\ Behind(o)
  /\ Matches(o)
  /\ Order(DbPhase(o)) \in Order(journal[o]) + 1 .. Order("FILES_INSTALLED")
  /\ Journals(o, NextPhase(journal[o]))
  /\ UNCHANGED run

\* Mutant: a rotation interrupted before all its files were staged waits for them.
ReconcileStagesComplete(o) ==
  /\ At(o, "reconcile")
  /\ Behind(o)
  /\ Matches(o)
  /\ staged[o] = Slot
  /\ journal[o] = "PREPARED"
  /\ DbPhase(o) = "PREPARED"
  /\ Updates(DbWith(o, "STAGED"))

ReconcileStages(o) ==
  /\ At(o, "reconcile")
  /\ Behind(o)
  /\ Matches(o)
  /\ journal[o] = "PREPARED"
  /\ DbPhase(o) = "PREPARED"
  /\ Updates(DbWith(o, "STAGED"))

\* Mutant: a rotation goes back whatever the journal has recorded.
GoesBackWhenAllOld(o) == AllOld(o)

\* No file has moved and none will: back to the old credentials.
DecidesToAbort(o) == journal[o] = "STAGED" /\ AllOld(o)

AbortsDatabase(o) ==
  /\ At(o, "reconcile")
  /\ Behind(o)
  /\ Matches(o)
  /\ DecidesToAbort(o)
  /\ DbPhase(o) = "STAGED"
  /\ Updates(Aborted(o))

AbortsJournal(o) ==
  /\ At(o, "reconcile")
  /\ Behind(o)
  /\ DecidesToAbort(o)
  /\ ObservedAborted(o)
  /\ Journals(o, "ABORTED")
  /\ Goto(o, "abort")

ReconcileSwitches(o) ==
  /\ At(o, "reconcile")
  /\ Behind(o)
  /\ Matches(o)
  /\ AllKnown(o)
  /\ ~DecidesToAbort(o)
  /\ AllOld(o) \/ AnyNew(o)
  /\ Order(journal[o]) >= Order("STAGED")
  /\ DbPhase(o) = "STAGED"
  /\ Updates(DbWith(o, "SWITCHING"))

ReconcileForward(o) ==
  /\ At(o, "reconcile")
  /\ Behind(o)
  /\ Matches(o)
  /\ AllKnown(o)
  /\ Order(DbPhase(o)) >= Order("SWITCHING")
  /\ Order(journal[o]) >= Order(DbPhase(o))
  /\ Goto(o, "forward")
  /\ UNCHANGED <<db, backup, journal, plan, files, crashes, restores>>

----------------------------------------------------------------------------
(* continueForward: every file first, then the database, then the journal. *)

\* installAll, slot by slot: the old file is kept aside before the new one
\* takes its place.
Quarantine(o, s) ==
  /\ At(o, "forward")
  /\ \A q \in Slot : q < s => canonical[q] = o
  /\ canonical[s] = plan[o].old
  /\ s \notin quarantine[o]
  /\ canonical' = [canonical EXCEPT ![s] = None]
  /\ quarantine' = [quarantine EXCEPT ![o] = @ \cup {s}]
  /\ UNCHANGED <<db, backup, journal, plan, staged, run, crashes, restores>>

Install(o, s) ==
  /\ At(o, "forward")
  /\ \A q \in Slot : q < s => canonical[q] = o
  /\ canonical[s] = None
  /\ s \in quarantine[o]
  /\ s \in staged[o]
  /\ canonical' = [canonical EXCEPT ![s] = o]
  /\ staged' = [staged EXCEPT ![o] = @ \ {s}]
  /\ UNCHANGED <<db, backup, journal, plan, quarantine, run, crashes, restores>>

ForwardInstalled(o) ==
  /\ At(o, "forward")
  /\ AllNew(o)
  /\ DbPhase(o) = "SWITCHING"
  /\ Updates(DbWith(o, "FILES_INSTALLED"))

ForwardJournals(o) ==
  /\ At(o, "forward")
  /\ AllNew(o)
  /\ Order(DbPhase(o)) >= Order("FILES_INSTALLED")
  /\ journal[o] = "SWITCHING"
  /\ Journals(o, "FILES_INSTALLED")
  /\ UNCHANGED run

ForwardCommits(o) ==
  /\ At(o, "forward")
  /\ AllNew(o)
  /\ Order(journal[o]) >= Order("FILES_INSTALLED")
  /\ MayCommit(o)
  /\ Updates(Committed(o, db))

\* The answer, or a look at the database after it was lost.
ForwardCommitted(o) ==
  /\ At(o, "forward")
  /\ ObservedCommitted(o)
  /\ journal' = IF Order(journal[o]) < Order("DB_COMMITTED")
                THEN [journal EXCEPT ![o] = "DB_COMMITTED"] ELSE journal
  /\ Goto(o, "cleanup")
  /\ UNCHANGED <<db, backup, plan, files, crashes, restores>>

----------------------------------------------------------------------------
(* cleanup and cleanupArtifacts.                                           *)

CleanupBegins(o) ==
  /\ At(o, "cleanup")
  /\ AllNew(o)
  /\ journal[o] = "DB_COMMITTED"
  /\ Journals(o, "CLEANUP_PENDING")
  /\ UNCHANGED run

\* removeQuarantine removes both files of a slot.
RemoveFiles(o, s) ==
  /\ \/ At(o, "abort")
     \/ At(o, "cleanup") /\ AllNew(o) /\ journal[o] = "CLEANUP_PENDING"
  /\ s \in staged[o] \cup quarantine[o]
  /\ \A q \in Slot : q < s => q \notin staged[o] \cup quarantine[o]
  /\ staged' = [staged EXCEPT ![o] = @ \ {s}]
  /\ quarantine' = [quarantine EXCEPT ![o] = @ \ {s}]
  /\ UNCHANGED <<db, backup, journal, plan, canonical, run, crashes, restores>>

Complete(o) ==
  /\ At(o, "cleanup")
  /\ AllNew(o)
  /\ \/ journal[o] = "COMPLETED"
     \/ journal[o] = "CLEANUP_PENDING" /\ staged[o] \cup quarantine[o] = {}
  /\ journal' = [journal EXCEPT ![o] = "COMPLETED"]
  /\ run' = Idle
  /\ UNCHANGED <<db, backup, plan, files, crashes, restores>>

AbortEnds(o) ==
  /\ At(o, "abort")
  /\ staged[o] \cup quarantine[o] = {}
  /\ run' = Idle
  /\ UNCHANGED <<db, backup, journal, plan, files, crashes, restores>>

----------------------------------------------------------------------------

Step(o) ==
  \/ RotatePrepares(o) \/ RotateStages(o) \/ RotateSwitches(o) \/ RotateJournals(o)
  \/ ReconcileAborted(o) \/ ReconcileCommitted(o) \/ RecoverExternal(o)
  \/ ReconcilePrepares(o) \/ CatchUp(o) \/ ReconcileStages(o) \/ AbortsDatabase(o)
  \/ AbortsJournal(o) \/ ReconcileSwitches(o) \/ ReconcileForward(o)
  \/ ForwardInstalled(o) \/ ForwardJournals(o) \/ ForwardCommits(o) \/ ForwardCommitted(o)
  \/ CleanupBegins(o) \/ Complete(o) \/ AbortEnds(o)
  \/ \E s \in Slot : Stage(o, s) \/ Quarantine(o, s) \/ Install(o, s) \/ RemoveFiles(o, s)

\* A check fails and the call is refused.
Fail ==
  /\ run # Idle
  /\ ~ENABLED Step(run.op)
  /\ run' = Idle
  /\ UNCHANGED <<db, backup, journal, plan, files, crashes, restores>>

\* The coordinator dies, or a removal fails and it returns.
Crash ==
  /\ run # Idle
  /\ crashes < MaxCrashes
  /\ crashes' = crashes + 1
  /\ run' = Idle
  /\ UNCHANGED <<db, backup, journal, plan, files, restores>>

\* The database is copied at any time, and later the copy put in its place.
Backup ==
  /\ restores < MaxRestores
  /\ backup' = db
  /\ UNCHANGED <<db, journal, plan, files, run, crashes, restores>>
Restore ==
  /\ run = Idle
  /\ restores < MaxRestores
  /\ restores' = restores + 1
  /\ db' = backup
  /\ UNCHANGED <<backup, journal, plan, files, run, crashes>>

Next ==
  \/ \E o \in Op : Rotate(o) \/ Reconcile(o) \/ Step(o) \/ HubFinishes(o)
  \/ Fail \/ Crash \/ Backup \/ Restore

Spec == Init /\ [][Next]_vars

(* A coordinator that lives goes on, and somebody calls it again for a      *)
(* rotation that has not ended.                                            *)
FairSpec ==
  /\ Spec
  /\ \A o \in Op : WF_vars(Step(o)) /\ SF_vars(Reconcile(o))
  /\ WF_vars(Fail)

----------------------------------------------------------------------------
Begun(o) == journal[o] # "NONE"

\* The rotation that began last: every earlier one has ended.
Latest(o) == Begun(o) /\ \A q \in Op : q > o => ~Begun(q)

SlotFollows(o, s) ==
  CASE Order(journal[o]) <= Order("STAGED") -> canonical[s] = plan[o].old
    [] journal[o] = "SWITCHING" ->
         \/ canonical[s] = plan[o].old /\ s \in staged[o]
         \/ canonical[s] = None /\ s \in staged[o] /\ s \in quarantine[o]
         \/ canonical[s] = o /\ s \in quarantine[o]
    [] journal[o] = "FILES_INSTALLED" -> canonical[s] = o /\ s \in quarantine[o]
    [] OTHER -> canonical[s] = o

(* Whatever process died where, and whatever copy the database was replaced *)
(* with, the journal says which credential files are in force: all old, all *)
(* new, or in between with the old and the new token of every slot on disk  *)
(* until the commit.  reconcile decides by it.                             *)
FilesFollowJournal == \A o \in Op, s \in Slot : Latest(o) => SlotFollows(o, s)

(* The database is at most one phase ahead of the journal, gives up only    *)
(* what the journal can give up, and makes only tokens active whose files   *)
(* are all installed: a crash between the two writes is always repairable. *)
DatabaseFollowsJournal ==
  \A o \in Op :
    /\ DbPhase(o) = "ABORTED" => journal[o] \in {"STAGED", "ABORTED"}
    /\ DbPhase(o) \in {"DB_COMMITTED", "COMPLETED"} =>
         Order(journal[o]) >= Order("FILES_INSTALLED")
    /\ DbPhase(o) \in {"PREPARED", "STAGED", "SWITCHING", "FILES_INSTALLED"} =>
         /\ Begun(o)
         /\ journal[o] # "ABORTED" => Order(DbPhase(o)) <= Order(journal[o]) + 1

\* assertCredentialRotationIntegrity, which the Hub makes before it prepares,
\* stages or commits anything.
IntegrityHolds ==
  LET committed == {o \in Op : DbPhase(o) \in {"DB_COMMITTED", "COMPLETED"}}
      unfinished == {o \in Op : DbPhase(o) \notin {"NONE", "ABORTED"}} \ committed
  IN  /\ db.epoch > 0 => db.active \in committed
      /\ \A o \in committed : db.op[o].before < db.epoch
      /\ \A o, q \in committed : db.op[o].before = db.op[q].before => o = q
      /\ \A o \in unfinished : db.op[o].before = db.epoch
      /\ \A o, q \in unfinished : o = q
      /\ \A e \in 0 .. db.epoch - 1 : \E o \in committed : db.op[o].before = e

(* The Hub's tables never come to contradict themselves, so that its own    *)
(* integrity check never stops a rotation that could still be reconciled.  *)
DatabaseIsIntact == IntegrityHolds

(* A database older than what the coordinator asks for: it was replaced.    *)
Overtaken(o) ==
  \/ db.epoch < plan[o].before
  \/ Order(journal[o]) >= Order("STAGED") /\ DbPhase(o) \in {"NONE", "PREPARED"}
  \/ Order(journal[o]) >= Order("SWITCHING") /\ DbPhase(o) = "ABORTED"
  \/ DbPhase(o) = "STAGED" /\ ~AllOld(o) /\ ~AnyNew(o)

(* The Hub has an earlier rotation it did not end, or has ended this one    *)
(* before the coordinator did.                                             *)
HubInTheWay(o) ==
  \/ DbPhase(o) = "NONE" /\ ~MayPrepare(o)
  \/ DbPhase(o) = "COMPLETED"

(* A rotation that was begun ends, committed or given up, however often the *)
(* coordinator dies and is called again, unless the database was replaced   *)
(* by a copy older than the switch or the Hub stands in its way.           *)
RotationEnds ==
  \A o \in Op : Begun(o) ~> (journal[o] \in Terminal \/ Overtaken(o) \/ HubInTheWay(o))

\* The database was put back to before a rotation whose commit is journaled.
Forgotten(o) ==
  /\ Latest(o)
  /\ Order(journal[o]) >= Order("DB_COMMITTED")
  /\ DbPhase(o) = "NONE"
  /\ db.epoch = plan[o].before
  /\ MayPrepare(o)

(* recoverExternal: such a database is brought forward to the credentials   *)
(* in force when the coordinator is called for that rotation.              *)
ForgottenCommitIsRedone ==
  \A o \in Op : Forgotten(o) ~> (db.epoch = EpochAfter(o) /\ db.active = o)
=============================================================================
