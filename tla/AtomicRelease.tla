--------------------------- MODULE AtomicRelease ---------------------------
(***************************************************************************)
(* Replacing the installed release of the Hub by a candidate, and taking it *)
(* back when the candidate does not hold up.                               *)
(*                                                                         *)
(* A release is a journal that walks through the phases of one of three     *)
(* tracks.  At an intent phase the manager calls an adapter under a key     *)
(* made of release and phase, and records the answer before it goes on; an  *)
(* answer that is lost leaves the journal where it is, and a later run      *)
(* repeats the call under the same key.  One global lease says whose run    *)
(* may write a journal.  Runs crash and stall, leases run out, calls take   *)
(* effect after their caller is gone.                                      *)
(*                                                                         *)
(* Source: packages/cli/src/atomic-release-manager.ts.  The adapters are    *)
(* interfaces: each action of theirs is what the manager asks for and       *)
(* verifies in the receipt.  They are taken to decide a key once, to have   *)
(* done nothing when they reject (MayLeaveTraces apart), and to check what  *)
(* they are told to expect.  Store and lease are the tests' memory store.   *)
(* A manager keeps the journal in memory; that is the stored one as long as *)
(* its lease stands, and without the lease it can neither write nor call.   *)
(* An identity is a build; digests, times, security epochs and the          *)
(* subjects of a pause are left out.                                       *)
(***************************************************************************)
EXTENDS Integers, Sequences

CONSTANTS
  Release,       \* the releases somebody asks for
  Owner,         \* manager processes
  Build,
  From(_),       \* expectedCurrent of a release
  To(_),         \* expectedCandidate
  Installed,     \* the build that is there at first
  None,
  MaxFaults,     \* bound on crashes, stalls and lost answers
  MaxWrites      \* bound on what the users write

ASSUME ReleaseConstants ==
  /\ Installed \in Build
  /\ \A o \in Release : From(o) \in Build /\ To(o) \in Build /\ From(o) # To(o)
  /\ None \notin Release \cup Owner \cup Build
  /\ MaxFaults \in Nat /\ MaxWrites \in Nat

VARIABLES
  journal,   \* the journal of each release
  lease,     \* the active-operation lease: [op, owner, live]
  proc,      \* what each manager process is doing: [op, at, saw]
  call,      \* the call at the phase a release is in, and its answer
  hub,       \* the installation
  faults

vars == <<journal, lease, proc, call, hub, faults>>

----------------------------------------------------------------------------
(* The tracks.                                                             *)

NormalPhases ==
  <<"CANDIDATE_PROBE_INTENT", "CANDIDATE_VALIDATED",
    "PREFLIGHT_SNAPSHOT_INTENT", "PREFLIGHT_SNAPSHOT_READY",
    "CURRENT_REVALIDATE_INTENT", "CURRENT_REVALIDATED",
    "ENTER_MAINTENANCE_INTENT", "MAINTENANCE_ENTERED",
    "PAUSE_SUPERVISORS_INTENT", "SUPERVISORS_PAUSED",
    "STOP_INTENT", "STOP_RECEIPT_CONFIRMED", "STOPPED",
    "FINAL_SNAPSHOT_INTENT", "FINAL_SNAPSHOT_READY", "SWAP_INTENT", "SWAPPED",
    "START_CANDIDATE_MAINTENANCE_INTENT", "CANDIDATE_MAINTENANCE_STARTED",
    "VERIFY_CANDIDATE_MAINTENANCE_INTENT", "CANDIDATE_MAINTENANCE_HEALTHY",
    "MIGRATE_CANDIDATE_INTENT", "CANDIDATE_MIGRATED",
    "AUTHORIZE_BRIDGES_INTENT", "BRIDGE_TRANSITION_AUTHORIZED",
    "RESUME_BRIDGES_INTENT", "BRIDGES_RESUMED",
    "COMMIT_MAINTENANCE_INTENT", "MAINTENANCE_COMMITTED", "COMPLETED">>

RollbackPhases ==
  <<"ROLLBACK_STOP_CANDIDATE_INTENT", "ROLLBACK_RESTORE_INTENT",
    "ROLLBACK_START_PREVIOUS_MAINTENANCE_INTENT", "ROLLBACK_PREVIOUS_STARTED",
    "ROLLBACK_VERIFY_PREVIOUS_INTENT", "ROLLBACK_PREVIOUS_HEALTHY",
    "ROLLBACK_AUTHORIZE_BRIDGES_INTENT", "ROLLBACK_BRIDGE_TRANSITION_AUTHORIZED",
    "ROLLBACK_RESUME_BRIDGES_INTENT", "ROLLBACK_BRIDGES_RESUMED",
    "ROLLBACK_COMMIT_MAINTENANCE_INTENT", "ROLLBACK_MAINTENANCE_COMMITTED",
    "ROLLED_BACK">>

CleanupPhases == <<"PRE_SWAP_CLEANUP_INTENT", "PRE_SWAP_CLEANUP_CONFIRMED", "BLOCKED">>

PhasesOf(track) == {track[i] : i \in DOMAIN track}
OnTrack == PhasesOf(NormalPhases) \cup PhasesOf(RollbackPhases) \cup PhasesOf(CleanupPhases)
Phase == OnTrack \cup {"NONE", "ROLLBACK_FAILED"}

\* None is written where a journal has no phase to name.
ASSUME NoneIsNoPhase == None \notin Phase

Terminal == {"COMPLETED", "ROLLED_BACK", "BLOCKED", "ROLLBACK_FAILED"}

Track(p) ==
  IF p \in PhasesOf(NormalPhases) THEN NormalPhases
  ELSE IF p \in PhasesOf(RollbackPhases) THEN RollbackPhases ELSE CleanupPhases

\* normalRank, rollbackRank.
Rank == [p \in OnTrack |-> CHOOSE i \in DOMAIN Track(p) : Track(p)[i] = p]
After(p) == Track(p)[Rank[p] + 1]

\* The phases at which an adapter is called, and those that first observe.
Observing == {"CURRENT_REVALIDATE_INTENT", "STOP_RECEIPT_CONFIRMED", "SWAPPED"}
ObserveFirst == {"ROLLBACK_RESTORE_INTENT", "ROLLBACK_START_PREVIOUS_MAINTENANCE_INTENT"}
Authorizing == {"AUTHORIZE_BRIDGES_INTENT", "ROLLBACK_AUTHORIZE_BRIDGES_INTENT"}
NormalCalls ==
  {"CANDIDATE_PROBE_INTENT", "PREFLIGHT_SNAPSHOT_INTENT", "ENTER_MAINTENANCE_INTENT",
   "PAUSE_SUPERVISORS_INTENT", "STOP_INTENT", "FINAL_SNAPSHOT_INTENT", "SWAP_INTENT",
   "START_CANDIDATE_MAINTENANCE_INTENT", "VERIFY_CANDIDATE_MAINTENANCE_INTENT",
   "MIGRATE_CANDIDATE_INTENT", "RESUME_BRIDGES_INTENT", "COMMIT_MAINTENANCE_INTENT"}
RollbackCalls ==
  {"ROLLBACK_STOP_CANDIDATE_INTENT", "ROLLBACK_RESTORE_INTENT",
   "ROLLBACK_START_PREVIOUS_MAINTENANCE_INTENT", "ROLLBACK_VERIFY_PREVIOUS_INTENT",
   "ROLLBACK_RESUME_BRIDGES_INTENT", "ROLLBACK_COMMIT_MAINTENANCE_INTENT"}
Call == NormalCalls \cup RollbackCalls \cup {"PRE_SWAP_CLEANUP_INTENT"}

\* The phases that leave a receipt in the journal: the calls but one, the
\* observation of the current Hub and the two authorizations.
NormalReceipt ==
  NormalCalls \cup {"CURRENT_REVALIDATE_INTENT", "AUTHORIZE_BRIDGES_INTENT"}
RollbackReceipt ==
  (RollbackCalls \ {"ROLLBACK_STOP_CANDIDATE_INTENT"}) \cup {"ROLLBACK_AUTHORIZE_BRIDGES_INTENT"}
Receipt == NormalReceipt \cup RollbackReceipt \cup {"PRE_SWAP_CLEANUP_INTENT"}
Null == -1

\* A receipt is the number the manager compares: the instance of the Hub, the
\* revision of the release pointer, the rows of a snapshot, a journal revision.
Blank ==
  [phase |-> "NONE", revision |-> 0, got |-> [r \in Receipt |-> Null],
   cause |-> None, cleanupAt |-> None, failedAt |-> None]

Free == [op |-> None, owner |-> None, live |-> FALSE]
Resting == [op |-> None, at |-> "ready", saw |-> None]
Uncalled == [state |-> "none", value |-> 0]

Init ==
  /\ journal = [o \in Release |-> Blank]
  /\ lease = Free
  /\ proc = [w \in Owner |-> Resting]
  /\ call = [o \in Release |-> Uncalled]
  /\ hub = [build |-> Installed, pointer |-> 1, state |-> "RUNNING", runtime |-> Installed,
            mode |-> "NORMAL", instance |-> 1, fence |-> None, last |-> None,
            rows |-> 0, schema |-> Installed, bridges |-> Installed]
  /\ faults = 0

Fault == faults < MaxFaults /\ faults' = faults + 1

----------------------------------------------------------------------------
(* What a journal must look like: a transition to one that does not throws, *)
(* and one that was read is called corrupt.                                *)

Has(j, r) == j.got[r] # Null

\* receiptRelationsValid, as far as the receipts are numbers.
ReceiptsAgree(j) ==
  /\ Has(j, "ENTER_MAINTENANCE_INTENT") => Has(j, "CURRENT_REVALIDATE_INTENT")
  /\ Has(j, "PAUSE_SUPERVISORS_INTENT") =>
       j.got["PAUSE_SUPERVISORS_INTENT"] = j.got["ENTER_MAINTENANCE_INTENT"]
  /\ Has(j, "STOP_INTENT") => j.got["STOP_INTENT"] = j.got["CURRENT_REVALIDATE_INTENT"]
  /\ Has(j, "FINAL_SNAPSHOT_INTENT") => Has(j, "STOP_INTENT")
  /\ Has(j, "SWAP_INTENT") =>
       /\ Has(j, "PAUSE_SUPERVISORS_INTENT")
       /\ j.got["SWAP_INTENT"] = j.got["PAUSE_SUPERVISORS_INTENT"] + 1
  /\ Has(j, "VERIFY_CANDIDATE_MAINTENANCE_INTENT") =>
       j.got["VERIFY_CANDIDATE_MAINTENANCE_INTENT"] = j.got["START_CANDIDATE_MAINTENANCE_INTENT"]
  /\ Has(j, "AUTHORIZE_BRIDGES_INTENT") =>
       j.got["AUTHORIZE_BRIDGES_INTENT"] = j.got["SWAP_INTENT"]
  /\ Has(j, "RESUME_BRIDGES_INTENT") => Has(j, "AUTHORIZE_BRIDGES_INTENT")
  /\ Has(j, "COMMIT_MAINTENANCE_INTENT") =>
       /\ Has(j, "RESUME_BRIDGES_INTENT")
       /\ j.got["COMMIT_MAINTENANCE_INTENT"] = j.got["AUTHORIZE_BRIDGES_INTENT"] + 1
  /\ Has(j, "ROLLBACK_RESTORE_INTENT") =>
       /\ Has(j, "FINAL_SNAPSHOT_INTENT") /\ Has(j, "SWAP_INTENT")
       /\ j.got["ROLLBACK_RESTORE_INTENT"] = j.got["SWAP_INTENT"] + 1
  /\ Has(j, "ROLLBACK_VERIFY_PREVIOUS_INTENT") =>
       j.got["ROLLBACK_VERIFY_PREVIOUS_INTENT"] =
         j.got["ROLLBACK_START_PREVIOUS_MAINTENANCE_INTENT"]
  /\ Has(j, "ROLLBACK_AUTHORIZE_BRIDGES_INTENT") =>
       j.got["ROLLBACK_AUTHORIZE_BRIDGES_INTENT"] = j.got["ROLLBACK_RESTORE_INTENT"]
  /\ Has(j, "ROLLBACK_RESUME_BRIDGES_INTENT") => Has(j, "ROLLBACK_AUTHORIZE_BRIDGES_INTENT")
  /\ Has(j, "ROLLBACK_COMMIT_MAINTENANCE_INTENT") =>
       /\ Has(j, "ROLLBACK_RESUME_BRIDGES_INTENT")
       /\ j.got["ROLLBACK_COMMIT_MAINTENANCE_INTENT"] =
            j.got["ROLLBACK_AUTHORIZE_BRIDGES_INTENT"] + 1
  /\ Has(j, "PRE_SWAP_CLEANUP_INTENT") =>
       /\ j.cleanupAt # None
       /\ j.got["PRE_SWAP_CLEANUP_INTENT"] = j.got["ENTER_MAINTENANCE_INTENT"]

\* journalRelationsValid: the terminal fields, the cleanup track, and which
\* receipts are there at which phase.
RelationsValid(j) ==
  LET failed == j.phase \in {"BLOCKED", "ROLLBACK_FAILED"}
      cleanup == j.phase \in {"PRE_SWAP_CLEANUP_INTENT", "PRE_SWAP_CLEANUP_CONFIRMED"}
                   \/ (j.phase = "BLOCKED" /\ j.cleanupAt # None)
      p == IF failed THEN j.failedAt ELSE j.phase
  IN  /\ ReceiptsAgree(j)
      /\ failed <=> j.failedAt # None
      /\ cleanup <=> j.cleanupAt # None
      /\ Has(j, "PRE_SWAP_CLEANUP_INTENT") <=> cleanup /\ j.phase # "PRE_SWAP_CLEANUP_INTENT"
      /\ cleanup => j.cause = None
      /\ ~cleanup /\ p \in PhasesOf(NormalPhases) =>
           /\ j.cause = None
           /\ \A r \in NormalReceipt : Has(j, r) <=> Rank[p] > Rank[r]
           /\ \A r \in RollbackReceipt : ~Has(j, r)
      /\ ~cleanup /\ p \notin PhasesOf(NormalPhases) =>
           /\ p \in PhasesOf(RollbackPhases)
           /\ j.cause \in PhasesOf(NormalPhases) /\ Rank[j.cause] > Rank["SWAPPED"]
           /\ \A r \in NormalReceipt : Has(j, r) <=> Rank[j.cause] > Rank[r]
           /\ \A r \in RollbackReceipt : Has(j, r) <=> Rank[p] > Rank[r]

----------------------------------------------------------------------------
(* The adapters: when each can do what it is asked for, what becomes of the *)
(* installation, and the number its receipt carries.                       *)

Running(build, mode) ==
  hub.state = "RUNNING" /\ hub.runtime = build /\ hub.mode = mode

Started(build) ==
  [hub EXCEPT !.state = "RUNNING", !.runtime = build, !.mode = "MAINTENANCE", !.instance = @ + 1]

Opened == [hub EXCEPT !.mode = "NORMAL", !.fence = None, !.pointer = @ + 1]

ProbeCandidate(o) == [can |-> TRUE, hub |-> hub, receipt |-> 0]

PreflightSnapshot(o) == [can |-> TRUE, hub |-> hub, receipt |-> hub.rows]

EnterMaintenance(o) ==
  [can |-> Running(From(o), "NORMAL") /\ hub.instance = journal[o].got["CURRENT_REVALIDATE_INTENT"],
   hub |-> [hub EXCEPT !.mode = "MAINTENANCE", !.fence = o, !.last = o],
   receipt |-> hub.pointer]

PauseSupervisors(o) ==
  [can |-> hub.fence = o, hub |-> [hub EXCEPT !.bridges = None], receipt |-> hub.pointer]

\* A cooperative stop is confirmed when the Hub has begun to stop.
StopCurrent(o) ==
  [can |-> /\ hub.fence = o
           /\ Running(From(o), "MAINTENANCE")
           /\ hub.instance = journal[o].got["CURRENT_REVALIDATE_INTENT"],
   hub |-> [hub EXCEPT !.state = "STOPPING"],
   receipt |-> hub.instance]

FinalSnapshot(o) == [can |-> hub.fence = o, hub |-> hub, receipt |-> hub.rows]

AtomicSwap(o) ==
  [can |-> hub.build = From(o) /\ hub.pointer = journal[o].got["PAUSE_SUPERVISORS_INTENT"],
   hub |-> [hub EXCEPT !.build = To(o), !.pointer = @ + 1],
   receipt |-> hub.pointer + 1]

StartCandidate(o) ==
  [can |-> hub.fence = o /\ hub.build = To(o) /\ hub.state = "STOPPED",
   hub |-> Started(To(o)), receipt |-> hub.instance + 1]

VerifyCandidate(o) ==
  [can |-> /\ Running(To(o), "MAINTENANCE")
           /\ hub.instance = journal[o].got["START_CANDIDATE_MAINTENANCE_INTENT"],
   hub |-> hub, receipt |-> hub.instance]

MigrateCandidate(o) ==
  [can |-> hub.fence = o /\ Running(To(o), "MAINTENANCE"),
   hub |-> [hub EXCEPT !.schema = To(o)], receipt |-> 0]

ResumeBridges(o) ==
  [can |-> hub.fence = o /\ Running(To(o), "MAINTENANCE"),
   hub |-> [hub EXCEPT !.bridges = To(o)], receipt |-> 0]

CommitMaintenance(o) ==
  [can |-> /\ hub.fence = o /\ Running(To(o), "MAINTENANCE")
           /\ hub.pointer = journal[o].got["AUTHORIZE_BRIDGES_INTENT"],
   hub |-> Opened, receipt |-> hub.pointer + 1]

StopCandidate(o) ==
  [can |-> hub.fence = o,
   hub |-> IF hub.state = "RUNNING" THEN [hub EXCEPT !.state = "STOPPING"] ELSE hub,
   receipt |-> 0]

\* Mutant: back to the snapshot that was taken while the Hub still served.
PreflightRows(o) == journal[o].got["PREFLIGHT_SNAPSHOT_INTENT"]

\* The rows a rollback goes back to.
RollbackRows(o) == journal[o].got["FINAL_SNAPSHOT_INTENT"]

RestoreSnapshot(o) ==
  [can |-> /\ hub.fence = o /\ hub.state = "STOPPED"
           /\ hub.pointer = journal[o].got["SWAP_INTENT"],
   hub |-> [hub EXCEPT !.build = From(o), !.pointer = @ + 1,
                       !.rows = RollbackRows(o), !.schema = From(o)],
   receipt |-> hub.pointer + 1]

StartPrevious(o) ==
  [can |-> hub.fence = o /\ hub.build = From(o) /\ hub.state = "STOPPED",
   hub |-> Started(From(o)), receipt |-> hub.instance + 1]

VerifyPrevious(o) ==
  [can |-> /\ Running(From(o), "MAINTENANCE")
           /\ hub.instance = journal[o].got["ROLLBACK_START_PREVIOUS_MAINTENANCE_INTENT"],
   hub |-> hub, receipt |-> hub.instance]

RollBackBridges(o) ==
  [can |-> hub.fence = o /\ Running(From(o), "MAINTENANCE"),
   hub |-> [hub EXCEPT !.bridges = From(o)], receipt |-> 0]

CommitRollback(o) ==
  [can |-> /\ hub.fence = o /\ Running(From(o), "MAINTENANCE")
           /\ hub.pointer = journal[o].got["ROLLBACK_AUTHORIZE_BRIDGES_INTENT"],
   hub |-> Opened, receipt |-> hub.pointer + 1]

\* Everything up to the swap is taken back, and the Hub serves again.
CleanupPreSwap(o) ==
  [can |-> hub.fence = o /\ hub.build = From(o)
             /\ hub.pointer = journal[o].got["ENTER_MAINTENANCE_INTENT"],
   hub |-> [hub EXCEPT !.state = "RUNNING", !.runtime = From(o), !.mode = "NORMAL",
                       !.instance = IF hub.state = "RUNNING" THEN @ ELSE @ + 1,
                       !.bridges = From(o), !.fence = None],
   receipt |-> hub.pointer]

Adapter(o, p) ==
  CASE p = "CANDIDATE_PROBE_INTENT" -> ProbeCandidate(o)
    [] p = "PREFLIGHT_SNAPSHOT_INTENT" -> PreflightSnapshot(o)
    [] p = "ENTER_MAINTENANCE_INTENT" -> EnterMaintenance(o)
    [] p = "PAUSE_SUPERVISORS_INTENT" -> PauseSupervisors(o)
    [] p = "STOP_INTENT" -> StopCurrent(o)
    [] p = "FINAL_SNAPSHOT_INTENT" -> FinalSnapshot(o)
    [] p = "SWAP_INTENT" -> AtomicSwap(o)
    [] p = "START_CANDIDATE_MAINTENANCE_INTENT" -> StartCandidate(o)
    [] p = "VERIFY_CANDIDATE_MAINTENANCE_INTENT" -> VerifyCandidate(o)
    [] p = "MIGRATE_CANDIDATE_INTENT" -> MigrateCandidate(o)
    [] p = "RESUME_BRIDGES_INTENT" -> ResumeBridges(o)
    [] p = "COMMIT_MAINTENANCE_INTENT" -> CommitMaintenance(o)
    [] p = "ROLLBACK_STOP_CANDIDATE_INTENT" -> StopCandidate(o)
    [] p = "ROLLBACK_RESTORE_INTENT" -> RestoreSnapshot(o)
    [] p = "ROLLBACK_START_PREVIOUS_MAINTENANCE_INTENT" -> StartPrevious(o)
    [] p = "ROLLBACK_VERIFY_PREVIOUS_INTENT" -> VerifyPrevious(o)
    [] p = "ROLLBACK_RESUME_BRIDGES_INTENT" -> RollBackBridges(o)
    [] p = "ROLLBACK_COMMIT_MAINTENANCE_INTENT" -> CommitRollback(o)
    [] p = "PRE_SWAP_CLEANUP_INTENT" -> CleanupPreSwap(o)

\* Rejected after it was done: the manager takes back what these may have left.
MayLeaveTraces ==
  {"PAUSE_SUPERVISORS_INTENT", "STOP_INTENT", "START_CANDIDATE_MAINTENANCE_INTENT",
   "MIGRATE_CANDIDATE_INTENT", "RESUME_BRIDGES_INTENT"}

Out(o) == call[o].state = "out"

Decided(o, state, value) ==
  /\ call' = [call EXCEPT ![o] = [state |-> state, value |-> value]]
  /\ UNCHANGED <<journal, lease, proc>>

Confirms(o) ==
  LET done == Adapter(o, journal[o].phase) IN
  /\ Out(o)
  /\ done.can
  /\ hub' = done.hub
  /\ Decided(o, "CONFIRMED", done.receipt)
  /\ UNCHANGED faults

Rejects(o) ==
  LET p == journal[o].phase  done == Adapter(o, p) IN
  /\ Out(o)
  /\ p # "PRE_SWAP_CLEANUP_INTENT"   \* CleanupRejected
  /\ \/ hub' = hub
     \/ p \in MayLeaveTraces /\ done.can /\ hub' = done.hub
  /\ Decided(o, "REJECTED", 0)
  /\ UNCHANGED faults

\* A final snapshot whose manifest does not fit its proof.
Spoils(o) ==
  /\ Out(o)
  /\ journal[o].phase = "FINAL_SNAPSHOT_INTENT"
  /\ Decided(o, "INVALID", 0)
  /\ Fault
  /\ UNCHANGED hub

----------------------------------------------------------------------------
(* The manager.                                                            *)

\* renewLease, before and after everything: whoever fails it is out.
Holds(w) == lease.live /\ lease.owner = w /\ lease.op = proc[w].op

Works(w, o, at) == proc[w].op = o /\ proc[w].at = at /\ Holds(w)

Rests(w) == proc' = [proc EXCEPT ![w] = Resting]

\* transition: the next revision, by compare-and-swap under the lease.
Writes(w, o, j) ==
  /\ journal' = [journal EXCEPT ![o] = [j EXCEPT !.revision = @ + 1]]
  /\ call' = [call EXCEPT ![o] = Uncalled]
  /\ proc' = [proc EXCEPT ![w] = [@ EXCEPT !.at = "ready", !.saw = None]]
  /\ UNCHANGED <<lease, hub, faults>>

Blocked(j) == [j EXCEPT !.phase = "BLOCKED", !.failedAt = j.phase]
RolledBack(j) == [j EXCEPT !.phase = "ROLLBACK_STOP_CANDIDATE_INTENT", !.cause = j.phase]
CleanedUp(j) == [j EXCEPT !.phase = "PRE_SWAP_CLEANUP_INTENT", !.cleanupAt = j.phase]
RollbackFailed(j) == [j EXCEPT !.phase = "ROLLBACK_FAILED", !.failedAt = j.phase]

Confirmed(j, value) ==
  [j EXCEPT !.phase = After(j.phase),
            !.got = IF j.phase \in Receipt THEN [@ EXCEPT ![j.phase] = value] ELSE @]

\* Mutant: a pause that was rejected has left nothing to clean up.
RejectedUntilPause(j) ==
  IF j.phase \in RollbackCalls THEN RollbackFailed(j)
  ELSE IF Rank[j.phase] <= Rank["PAUSE_SUPERVISORS_INTENT"] THEN Blocked(j)
  ELSE IF Rank[j.phase] <= Rank["SWAP_INTENT"] THEN CleanedUp(j)
  ELSE RolledBack(j)

\* Mutant: a swap that was rejected is rolled back.
RejectedFromSwapOn(j) ==
  IF j.phase \in RollbackCalls THEN RollbackFailed(j)
  ELSE IF Rank[j.phase] <= Rank["ENTER_MAINTENANCE_INTENT"] THEN Blocked(j)
  ELSE IF Rank[j.phase] < Rank["SWAP_INTENT"] THEN CleanedUp(j)
  ELSE RolledBack(j)

\* Mutant: a migration that was rejected was not needed.
RejectedMigrationGoesOn(j) ==
  IF j.phase \in RollbackCalls THEN RollbackFailed(j)
  ELSE IF j.phase = "MIGRATE_CANDIDATE_INTENT" THEN Confirmed(j, 0)
  ELSE IF Rank[j.phase] <= Rank["ENTER_MAINTENANCE_INTENT"] THEN Blocked(j)
  ELSE IF Rank[j.phase] <= Rank["SWAP_INTENT"] THEN CleanedUp(j)
  ELSE RolledBack(j)

\* Before maintenance nothing has to be undone; until the swap cleaning up is
\* enough; from then on the release is rolled back.
Rejected(j) ==
  IF j.phase \in RollbackCalls THEN RollbackFailed(j)
  ELSE IF Rank[j.phase] <= Rank["ENTER_MAINTENANCE_INTENT"] THEN Blocked(j)
  ELSE IF Rank[j.phase] <= Rank["SWAP_INTENT"] THEN CleanedUp(j)
  ELSE RolledBack(j)

\* Mutant: a lease that has run out is not taken over.
BeginUnleased(w, o) ==
  /\ proc[w].op = None
  /\ journal[o].phase \notin Terminal
  /\ lease.op # None => lease.owner = w /\ lease.op = o
  /\ lease' = [op |-> o, owner |-> w, live |-> TRUE]
  /\ proc' = [proc EXCEPT ![w] = [Resting EXCEPT !.op = o]]
  /\ journal' = IF journal[o].phase = "NONE"
                THEN [journal EXCEPT ![o].phase = "CANDIDATE_PROBE_INTENT"] ELSE journal
  /\ UNCHANGED <<call, hub, faults>>

\* run: one run of a release at a time in a process, one release at a time
\* anywhere.  Nobody runs a release again that has ended.
Begin(w, o) ==
  /\ proc[w].op = None
  /\ journal[o].phase \notin Terminal
  /\ lease.live => lease.owner = w /\ lease.op = o
  /\ lease' = [op |-> o, owner |-> w, live |-> TRUE]
  /\ proc' = [proc EXCEPT ![w] = [Resting EXCEPT !.op = o]]
  /\ journal' = IF journal[o].phase = "NONE"
                THEN [journal EXCEPT ![o].phase = "CANDIDATE_PROBE_INTENT"] ELSE journal
  /\ UNCHANGED <<call, hub, faults>>

\* ActiveLeaseLostError
Loses(w) ==
  /\ proc[w].op # None
  /\ ~Holds(w)
  /\ Rests(w)
  /\ UNCHANGED <<journal, lease, call, hub, faults>>

\* The phases between two calls.
Moves(w, o) ==
  /\ Works(w, o, "ready")
  /\ journal[o].phase \notin Terminal \cup Call \cup Observing \cup Authorizing
  /\ Writes(w, o, [journal[o] EXCEPT
       !.phase = After(@),
       !.failedAt = IF journal[o].phase = "PRE_SWAP_CLEANUP_CONFIRMED"
                    THEN journal[o].cleanupAt ELSE @])

\* createTransitionAuthorization
Authorizes(w, o) ==
  /\ Works(w, o, "ready")
  /\ journal[o].phase \in Authorizing
  /\ Writes(w, o, Confirmed(journal[o],
       journal[o].got[IF journal[o].phase = "AUTHORIZE_BRIDGES_INTENT"
                      THEN "SWAP_INTENT" ELSE "ROLLBACK_RESTORE_INTENT"]))

\* observeOrNull; a Hub that is stopping still runs.
Observes(w, o) ==
  /\ Works(w, o, "ready")
  /\ journal[o].phase \in Observing \cup ObserveFirst
  /\ proc[w].saw = None
  /\ proc' = [proc EXCEPT ![w].saw =
       [build |-> hub.build, stopped |-> hub.state = "STOPPED", runtime |-> hub.runtime,
        mode |-> hub.mode, instance |-> hub.instance]]
  /\ UNCHANGED <<journal, lease, call, hub, faults>>

Sees(w, o, phase) == Works(w, o, "ready") /\ journal[o].phase = phase /\ proc[w].saw # None

SawRunning(w, build, mode) ==
  ~proc[w].saw.stopped /\ proc[w].saw.runtime = build /\ proc[w].saw.mode = mode

Revalidates(w, o) ==
  /\ Sees(w, o, "CURRENT_REVALIDATE_INTENT")
  /\ Writes(w, o, IF proc[w].saw.build = From(o) /\ SawRunning(w, From(o), "NORMAL")
                  THEN Confirmed(journal[o], proc[w].saw.instance)
                  ELSE Blocked(journal[o]))

ChecksStop(w, o) ==
  /\ Sees(w, o, "STOP_RECEIPT_CONFIRMED")
  /\ Writes(w, o, IF proc[w].saw.build = From(o) /\ proc[w].saw.stopped
                  THEN Confirmed(journal[o], 0) ELSE Blocked(journal[o]))

ChecksSwap(w, o) ==
  /\ Sees(w, o, "SWAPPED")
  /\ proc[w].saw.build = To(o) /\ proc[w].saw.stopped
  /\ Writes(w, o, Confirmed(journal[o], 0))

MayRestore(w, o) == proc[w].saw.stopped /\ proc[w].saw.build \in {From(o), To(o)}

\* The answer to an earlier start may have been lost.
MayStartPrevious(w, o) ==
  /\ proc[w].saw.build = From(o)
  /\ proc[w].saw.stopped \/ SawRunning(w, From(o), "MAINTENANCE")

Fits(w, o) ==
  CASE journal[o].phase = "ROLLBACK_RESTORE_INTENT" -> MayRestore(w, o)
    [] journal[o].phase = "ROLLBACK_START_PREVIOUS_MAINTENANCE_INTENT" -> MayStartPrevious(w, o)
    [] OTHER -> FALSE

\* callAdapter, under the key of release and phase.
Calls(w, o) ==
  /\ Works(w, o, "ready")
  /\ journal[o].phase \in Call
  /\ journal[o].phase \in ObserveFirst => proc[w].saw # None /\ Fits(w, o)
  /\ call' = IF call[o].state = "none" THEN [call EXCEPT ![o].state = "out"] ELSE call
  /\ proc' = [proc EXCEPT ![w] = [@ EXCEPT !.at = "calling", !.saw = None]]
  /\ UNCHANGED <<journal, lease, hub, faults>>

\* recoveryRequired: the journal stays, and so does the lease.
GivesUp(w, o) ==
  /\ Works(w, o, "ready")
  /\ journal[o].phase \in ObserveFirst \cup {"SWAPPED"}
  /\ proc[w].saw # None
  /\ ~Fits(w, o)
  /\ journal[o].phase = "SWAPPED" => ~(proc[w].saw.build = To(o) /\ proc[w].saw.stopped)
  /\ Rests(w)
  /\ UNCHANGED <<journal, lease, call, hub, faults>>

\* The answer to a call, recorded with the step it leads to.
Takes(w, o) ==
  /\ Works(w, o, "calling")
  /\ LET j == journal[o]
         a == call[o]
     IN  /\ a.state \notin {"none", "out"}
         /\ Writes(w, o, CASE a.state = "CONFIRMED" -> Confirmed(j, a.value)
                           [] a.state = "REJECTED" -> Rejected(j)
                           [] a.state = "INVALID" -> Blocked(j))

\* An answer or an observation is lost, late, ambiguous or throws.
LosesAnswer(w) ==
  /\ proc[w].op # None
  /\ Fault
  /\ Rests(w)
  /\ UNCHANGED <<journal, lease, call, hub>>

\* A cleanup that is rejected ends the run with recoveryRequired; the next run
\* asks for it again.
CleanupRejected(w, o) ==
  /\ Works(w, o, "calling")
  /\ journal[o].phase = "PRE_SWAP_CLEANUP_INTENT"
  /\ Out(o)
  /\ Fault
  /\ call' = [call EXCEPT ![o] = Uncalled]
  /\ Rests(w)
  /\ UNCHANGED <<journal, lease, hub>>

\* releaseActiveLease with the terminal proof; its failure is swallowed.
Finishes(w, o) ==
  /\ Works(w, o, "ready")
  /\ journal[o].phase \in Terminal
  /\ Rests(w)
  /\ \/ lease' = Free /\ UNCHANGED faults
     \/ lease' = lease /\ Fault
  /\ UNCHANGED <<journal, call, hub>>

\* Nobody renews the lease of a run that has ended.
Expires ==
  /\ lease.live
  /\ \A w \in Owner : lease.owner = w => proc[w].op # lease.op
  /\ lease' = [lease EXCEPT !.live = FALSE]
  /\ UNCHANGED <<journal, proc, call, hub, faults>>

----------------------------------------------------------------------------
(* What goes wrong, and what goes on meanwhile.                            *)

\* The heartbeat of a live run stalls for longer than its lease.
Stalls ==
  /\ lease.live
  /\ Fault
  /\ lease' = [lease EXCEPT !.live = FALSE]
  /\ UNCHANGED <<journal, proc, call, hub>>

\* The manager that comes back has another owner id.
Crashes(w) ==
  /\ proc[w].op # None
  /\ Fault
  /\ Rests(w)
  /\ lease' = IF lease.owner = w THEN [lease EXCEPT !.owner = None] ELSE lease
  /\ UNCHANGED <<journal, call, hub>>

HubWrites ==
  /\ hub.state = "RUNNING" /\ hub.mode = "NORMAL"
  /\ hub.rows < MaxWrites
  /\ hub' = [hub EXCEPT !.rows = @ + 1]
  /\ UNCHANGED <<journal, lease, proc, call, faults>>

HubStops ==
  /\ hub.state = "STOPPING"
  /\ hub' = [hub EXCEPT !.state = "STOPPED"]
  /\ UNCHANGED <<journal, lease, proc, call, faults>>

\* A Hub dies during a maintenance.
HubDies ==
  /\ hub.state = "RUNNING" /\ hub.mode = "MAINTENANCE"
  /\ Fault
  /\ hub' = [hub EXCEPT !.state = "STOPPED"]
  /\ UNCHANGED <<journal, lease, proc, call>>

ManagerStep(w) ==
  \/ Loses(w)
  \/ \E o \in Release :
       \/ Moves(w, o) \/ Authorizes(w, o) \/ Observes(w, o)
       \/ Revalidates(w, o) \/ ChecksStop(w, o) \/ ChecksSwap(w, o)
       \/ Calls(w, o) \/ GivesUp(w, o) \/ Takes(w, o) \/ Finishes(w, o)

AdapterStep(o) == Confirms(o) \/ Rejects(o)

Next ==
  \/ \E w \in Owner :
       \/ ManagerStep(w) \/ LosesAnswer(w) \/ Crashes(w)
       \/ \E o \in Release : Begin(w, o) \/ CleanupRejected(w, o)
  \/ \E o \in Release : AdapterStep(o) \/ Spoils(o)
  \/ Expires \/ Stalls
  \/ HubWrites \/ HubStops \/ HubDies

\* A run goes on, adapters answer in the end, a stopping Hub stops, a lease
\* nobody renews runs out, and somebody runs an unfinished release again.
Fairness ==
  /\ \A w \in Owner : WF_vars(ManagerStep(w))
  /\ \A w \in Owner, o \in Release : WF_vars(Begin(w, o))
  /\ \A o \in Release : WF_vars(AdapterStep(o))
  /\ WF_vars(Expires)
  /\ WF_vars(HubStops)

Spec == Init /\ [][Next]_vars /\ Fairness

----------------------------------------------------------------------------
TypeOK ==
  /\ \A o \in Release :
       /\ journal[o].phase \in Phase
       /\ call[o].state \in {"none", "out", "CONFIRMED", "REJECTED", "INVALID"}
       /\ call[o].state # "none" => journal[o].phase \in Call
  /\ lease.op \in Release \cup {None} /\ lease.owner \in Owner \cup {None}
  /\ \A w \in Owner : proc[w].op \in Release \cup {None} /\ proc[w].at \in {"ready", "calling"}
  /\ hub.build \in Build /\ hub.runtime \in Build /\ hub.schema \in Build
  /\ faults \in 0 .. MaxFaults

\* The manager writes no journal that it would itself refuse (such a transition
\* throws, and the release could never go on), whichever way it leaves the
\* track and whatever was confirmed before.
JournalStaysLegible ==
  \A o \in Release : journal[o].phase # "NONE" => RelationsValid(journal[o])

Serves(build) ==
  /\ Running(build, "NORMAL") /\ hub.build = build
  /\ hub.schema = build /\ hub.bridges = build

\* A Hub that takes requests is the installed build, on a database of its own
\* schema and with its own bridges, however many releases and runs overlap.
OpenHubIsConsistent ==
  hub.state = "RUNNING" /\ hub.mode = "NORMAL" => Serves(hub.build)

\* Where a release is blocked after maintenance began, with nothing undone.
LeavesHubDown == {"STOP_RECEIPT_CONFIRMED", "FINAL_SNAPSHOT_INTENT"}

\* What a release reports at its end is how it left the installation: deployed,
\* rolled back or cleaned up, and untouched if it was blocked before that.
\* (A Hub that still runs after the stop was confirmed and a spoiled manifest
\* block a release without cleaning up; a failed rollback promises nothing.)
OutcomeIsTrue ==
  \A o \in Release :
    LET j == journal[o]  last == hub.last = o IN
    /\ j.phase = "COMPLETED" /\ last => Serves(To(o))
    /\ j.phase = "ROLLED_BACK" /\ last => Serves(From(o))
    /\ j.phase = "BLOCKED" /\ j.cleanupAt # None /\ last => Serves(From(o))
    /\ j.phase = "BLOCKED" /\ j.cleanupAt = None /\ j.failedAt \notin LeavesHubDown => ~last

\* No release, run, retry or late call loses a row the Hub has accepted.
WritesSurvive == [][hub'.rows >= hub.rows]_vars

\* Every release that was begun ends, whatever crashes, stalls and is lost.
ReleaseEnds ==
  \A o \in Release : journal[o].phase # "NONE" ~> journal[o].phase \in Terminal

=============================================================================
