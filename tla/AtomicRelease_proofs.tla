------------------------ MODULE AtomicRelease_proofs ------------------------
(***************************************************************************)
(* Proofs about AtomicRelease, for any number of releases and managers.    *)
(*                                                                         *)
(* The tables come first: where each phase stands on its track.  Then what  *)
(* a legible journal is on each track, what an answer, a rejection or an    *)
(* observation makes of it, what each adapter makes of the installation,    *)
(* and what each step makes of the two together.                           *)
(***************************************************************************)
EXTENDS AtomicRelease, TLAPS

----------------------------------------------------------------------------
(* The tables.                                                             *)

\* The normal track, place by place (NORMAL_PHASES).
LEMMA NormalTable ==
  /\ DOMAIN NormalPhases = 1 .. 30
  /\ NormalPhases[1] = "CANDIDATE_PROBE_INTENT"
  /\ NormalPhases[2] = "CANDIDATE_VALIDATED"
  /\ NormalPhases[3] = "PREFLIGHT_SNAPSHOT_INTENT"
  /\ NormalPhases[4] = "PREFLIGHT_SNAPSHOT_READY"
  /\ NormalPhases[5] = "CURRENT_REVALIDATE_INTENT"
  /\ NormalPhases[6] = "CURRENT_REVALIDATED"
  /\ NormalPhases[7] = "ENTER_MAINTENANCE_INTENT"
  /\ NormalPhases[8] = "MAINTENANCE_ENTERED"
  /\ NormalPhases[9] = "PAUSE_SUPERVISORS_INTENT"
  /\ NormalPhases[10] = "SUPERVISORS_PAUSED"
  /\ NormalPhases[11] = "STOP_INTENT"
  /\ NormalPhases[12] = "STOP_RECEIPT_CONFIRMED"
  /\ NormalPhases[13] = "STOPPED"
  /\ NormalPhases[14] = "FINAL_SNAPSHOT_INTENT"
  /\ NormalPhases[15] = "FINAL_SNAPSHOT_READY"
  /\ NormalPhases[16] = "SWAP_INTENT"
  /\ NormalPhases[17] = "SWAPPED"
  /\ NormalPhases[18] = "START_CANDIDATE_MAINTENANCE_INTENT"
  /\ NormalPhases[19] = "CANDIDATE_MAINTENANCE_STARTED"
  /\ NormalPhases[20] = "VERIFY_CANDIDATE_MAINTENANCE_INTENT"
  /\ NormalPhases[21] = "CANDIDATE_MAINTENANCE_HEALTHY"
  /\ NormalPhases[22] = "MIGRATE_CANDIDATE_INTENT"
  /\ NormalPhases[23] = "CANDIDATE_MIGRATED"
  /\ NormalPhases[24] = "AUTHORIZE_BRIDGES_INTENT"
  /\ NormalPhases[25] = "BRIDGE_TRANSITION_AUTHORIZED"
  /\ NormalPhases[26] = "RESUME_BRIDGES_INTENT"
  /\ NormalPhases[27] = "BRIDGES_RESUMED"
  /\ NormalPhases[28] = "COMMIT_MAINTENANCE_INTENT"
  /\ NormalPhases[29] = "MAINTENANCE_COMMITTED"
  /\ NormalPhases[30] = "COMPLETED"
BY DEF NormalPhases

\* The rollback track, place by place.
LEMMA RollbackTable ==
  /\ DOMAIN RollbackPhases = 1 .. 13
  /\ RollbackPhases[1] = "ROLLBACK_STOP_CANDIDATE_INTENT"
  /\ RollbackPhases[2] = "ROLLBACK_RESTORE_INTENT"
  /\ RollbackPhases[3] = "ROLLBACK_START_PREVIOUS_MAINTENANCE_INTENT"
  /\ RollbackPhases[4] = "ROLLBACK_PREVIOUS_STARTED"
  /\ RollbackPhases[5] = "ROLLBACK_VERIFY_PREVIOUS_INTENT"
  /\ RollbackPhases[6] = "ROLLBACK_PREVIOUS_HEALTHY"
  /\ RollbackPhases[7] = "ROLLBACK_AUTHORIZE_BRIDGES_INTENT"
  /\ RollbackPhases[8] = "ROLLBACK_BRIDGE_TRANSITION_AUTHORIZED"
  /\ RollbackPhases[9] = "ROLLBACK_RESUME_BRIDGES_INTENT"
  /\ RollbackPhases[10] = "ROLLBACK_BRIDGES_RESUMED"
  /\ RollbackPhases[11] = "ROLLBACK_COMMIT_MAINTENANCE_INTENT"
  /\ RollbackPhases[12] = "ROLLBACK_MAINTENANCE_COMMITTED"
  /\ RollbackPhases[13] = "ROLLED_BACK"
BY DEF RollbackPhases

\* The cleanup before the swap, place by place.
LEMMA CleanupTable ==
  /\ DOMAIN CleanupPhases = 1 .. 3
  /\ CleanupPhases[1] = "PRE_SWAP_CLEANUP_INTENT"
  /\ CleanupPhases[2] = "PRE_SWAP_CLEANUP_CONFIRMED"
  /\ CleanupPhases[3] = "BLOCKED"
BY DEF CleanupPhases

\* A phase stands on the normal track once.
LEMMA NormalOnce == \A i, k \in 1 .. 30 : NormalPhases[i] = NormalPhases[k] => i = k
BY SMTT(60), NormalTable

\* A phase stands on the rollback track once.
LEMMA RollbackOnce == \A i, k \in 1 .. 13 : RollbackPhases[i] = RollbackPhases[k] => i = k
BY SMTT(60), RollbackTable

\* No phase stands on two tracks.
LEMMA Apart ==
  /\ \A i \in 1 .. 30, k \in 1 .. 13 : NormalPhases[i] # RollbackPhases[k]
  /\ \A i \in 1 .. 30, k \in 1 .. 3 : NormalPhases[i] # CleanupPhases[k]
  /\ \A i \in 1 .. 13, k \in 1 .. 3 : RollbackPhases[i] # CleanupPhases[k]
BY SMTT(60), NormalTable, RollbackTable, CleanupTable

\* Ranks are positions.
LEMMA RankTable ==
  /\ \A i \in 1 .. 30 : /\ NormalPhases[i] \in PhasesOf(NormalPhases)
                        /\ Rank[NormalPhases[i]] = i /\ Track(NormalPhases[i]) = NormalPhases
  /\ \A i \in 1 .. 13 : /\ RollbackPhases[i] \in PhasesOf(RollbackPhases)
                        /\ Rank[RollbackPhases[i]] = i /\ Track(RollbackPhases[i]) = RollbackPhases
  /\ \A i \in 1 .. 3 : /\ CleanupPhases[i] \in PhasesOf(CleanupPhases)
                       /\ Rank[CleanupPhases[i]] = i /\ Track(CleanupPhases[i]) = CleanupPhases
<1>0. /\ DOMAIN NormalPhases = 1 .. 30 /\ DOMAIN RollbackPhases = 1 .. 13
      /\ DOMAIN CleanupPhases = 1 .. 3
  BY NormalTable, RollbackTable, CleanupTable
<1>1. ASSUME NEW i \in 1 .. 30
      PROVE  /\ NormalPhases[i] \in PhasesOf(NormalPhases)
             /\ Rank[NormalPhases[i]] = i /\ Track(NormalPhases[i]) = NormalPhases
  <2>1. NormalPhases[i] \in PhasesOf(NormalPhases) /\ Track(NormalPhases[i]) = NormalPhases
    BY <1>0 DEF PhasesOf, Track
  <2>2. Rank[NormalPhases[i]] = CHOOSE k \in 1 .. 30 : NormalPhases[k] = NormalPhases[i]
    BY <1>0, <2>1 DEF Rank, OnTrack
  <2>3. QED
    BY <2>1, <2>2, NormalOnce
<1>2. ASSUME NEW i \in 1 .. 13
      PROVE  /\ RollbackPhases[i] \in PhasesOf(RollbackPhases)
             /\ Rank[RollbackPhases[i]] = i /\ Track(RollbackPhases[i]) = RollbackPhases
  <2>1. RollbackPhases[i] \in PhasesOf(RollbackPhases) /\ Track(RollbackPhases[i]) = RollbackPhases
    BY <1>0, Apart DEF PhasesOf, Track
  <2>2. Rank[RollbackPhases[i]] = CHOOSE k \in 1 .. 13 : RollbackPhases[k] = RollbackPhases[i]
    BY <1>0, <2>1 DEF Rank, OnTrack
  <2>3. QED
    BY <2>1, <2>2, RollbackOnce
<1>3. ASSUME NEW i \in 1 .. 3
      PROVE  /\ CleanupPhases[i] \in PhasesOf(CleanupPhases)
             /\ Rank[CleanupPhases[i]] = i /\ Track(CleanupPhases[i]) = CleanupPhases
  <2>1. CleanupPhases[i] \in PhasesOf(CleanupPhases) /\ Track(CleanupPhases[i]) = CleanupPhases
    BY <1>0, Apart DEF PhasesOf, Track
  <2>2. Rank[CleanupPhases[i]] = CHOOSE k \in 1 .. 3 : CleanupPhases[k] = CleanupPhases[i]
    BY <1>0, <2>1 DEF Rank, OnTrack
  <2>3. QED
    BY <2>1, <2>2, CleanupTable
<1>4. QED
  BY <1>1, <1>2, <1>3

\* What a phase of the normal track is, by its place.
LEMMA OnNormal ==
  ASSUME NEW p \in PhasesOf(NormalPhases)
  PROVE  /\ Rank[p] \in 1 .. 30 /\ p = NormalPhases[Rank[p]]
         /\ After(p) = NormalPhases[Rank[p] + 1]
         /\ p \notin PhasesOf(RollbackPhases) \cup PhasesOf(CleanupPhases)
BY RankTable, NormalTable, RollbackTable, CleanupTable, Apart DEF PhasesOf, After

\* What a phase of the rollback track is, by its place.
LEMMA OnRollback ==
  ASSUME NEW p \in PhasesOf(RollbackPhases)
  PROVE  /\ Rank[p] \in 1 .. 13 /\ p = RollbackPhases[Rank[p]]
         /\ After(p) = RollbackPhases[Rank[p] + 1]
         /\ p \notin PhasesOf(NormalPhases) \cup PhasesOf(CleanupPhases)
BY RankTable, NormalTable, RollbackTable, CleanupTable, Apart DEF PhasesOf, After

\* What a phase of the cleanup is, by its place.
LEMMA OnCleanup ==
  ASSUME NEW p \in PhasesOf(CleanupPhases)
  PROVE  /\ Rank[p] \in 1 .. 3 /\ p = CleanupPhases[Rank[p]]
         /\ After(p) = CleanupPhases[Rank[p] + 1]
         /\ p \notin PhasesOf(NormalPhases) \cup PhasesOf(RollbackPhases)
BY RankTable, NormalTable, RollbackTable, CleanupTable, Apart DEF PhasesOf, After

\* The places that guards and receipts speak of.
LEMMA Ranks ==
  /\ Rank["CANDIDATE_PROBE_INTENT"] = 1 /\ Rank["PREFLIGHT_SNAPSHOT_INTENT"] = 3
  /\ Rank["CURRENT_REVALIDATE_INTENT"] = 5
  /\ Rank["ENTER_MAINTENANCE_INTENT"] = 7 /\ Rank["MAINTENANCE_ENTERED"] = 8
  /\ Rank["PAUSE_SUPERVISORS_INTENT"] = 9 /\ Rank["STOP_INTENT"] = 11
  /\ Rank["STOP_RECEIPT_CONFIRMED"] = 12
  /\ Rank["FINAL_SNAPSHOT_INTENT"] = 14 /\ Rank["FINAL_SNAPSHOT_READY"] = 15
  /\ Rank["SWAP_INTENT"] = 16 /\ Rank["SWAPPED"] = 17
  /\ Rank["START_CANDIDATE_MAINTENANCE_INTENT"] = 18
  /\ Rank["VERIFY_CANDIDATE_MAINTENANCE_INTENT"] = 20
  /\ Rank["MIGRATE_CANDIDATE_INTENT"] = 22 /\ Rank["CANDIDATE_MIGRATED"] = 23
  /\ Rank["AUTHORIZE_BRIDGES_INTENT"] = 24
  /\ Rank["RESUME_BRIDGES_INTENT"] = 26 /\ Rank["BRIDGES_RESUMED"] = 27
  /\ Rank["COMMIT_MAINTENANCE_INTENT"] = 28 /\ Rank["MAINTENANCE_COMMITTED"] = 29
  /\ Rank["COMPLETED"] = 30
  /\ Rank["ROLLBACK_STOP_CANDIDATE_INTENT"] = 1 /\ Rank["ROLLBACK_RESTORE_INTENT"] = 2
  /\ Rank["ROLLBACK_START_PREVIOUS_MAINTENANCE_INTENT"] = 3
  /\ Rank["ROLLBACK_VERIFY_PREVIOUS_INTENT"] = 5
  /\ Rank["ROLLBACK_AUTHORIZE_BRIDGES_INTENT"] = 7
  /\ Rank["ROLLBACK_RESUME_BRIDGES_INTENT"] = 9 /\ Rank["ROLLBACK_BRIDGES_RESUMED"] = 10
  /\ Rank["ROLLBACK_COMMIT_MAINTENANCE_INTENT"] = 11
  /\ Rank["ROLLBACK_MAINTENANCE_COMMITTED"] = 12 /\ Rank["ROLLED_BACK"] = 13
  /\ Rank["PRE_SWAP_CLEANUP_INTENT"] = 1 /\ Rank["PRE_SWAP_CLEANUP_CONFIRMED"] = 2
  /\ Rank["BLOCKED"] = 3
<1>1. \A i \in 1 .. 30 : Rank[NormalPhases[i]] = i
  BY RankTable
<1>2. \A i \in 1 .. 13 : Rank[RollbackPhases[i]] = i
  BY RankTable
<1>3. \A i \in 1 .. 3 : Rank[CleanupPhases[i]] = i
  BY RankTable
<1>4. QED
  BY <1>1, <1>2, <1>3, NormalTable, RollbackTable, CleanupTable

\* Which phases are what, by the place on their track.
LEMMA NormalPlaces ==
  ASSUME NEW p \in PhasesOf(NormalPhases)
  PROVE  /\ p \in Call <=> Rank[p] \in {1, 3, 7, 9, 11, 14, 16, 18, 20, 22, 26, 28}
         /\ p \in NormalReceipt <=> Rank[p] \in {1, 3, 5, 7, 9, 11, 14, 16, 18, 20, 22, 24, 26, 28}
         /\ p \in Receipt <=> p \in NormalReceipt
         /\ p \notin RollbackReceipt
         /\ p \in Terminal <=> Rank[p] = 30
         /\ p \notin {"NONE", "BLOCKED", "ROLLBACK_FAILED", "PRE_SWAP_CLEANUP_INTENT",
                      "PRE_SWAP_CLEANUP_CONFIRMED", "ROLLED_BACK"}
<1>1. p = NormalPhases[Rank[p]] /\ Rank[p] \in 1 .. 30
  BY OnNormal
<1>2. QED
  BY <1>1, NormalTable
     DEF Call, NormalCalls, RollbackCalls, NormalReceipt, RollbackReceipt, Receipt,
     Terminal

\* The same for the rollback.
LEMMA RollbackPlaces ==
  ASSUME NEW p \in PhasesOf(RollbackPhases)
  PROVE  /\ p \in Call <=> Rank[p] \in {1, 2, 3, 5, 9, 11}
         /\ p \in RollbackReceipt <=> Rank[p] \in {2, 3, 5, 7, 9, 11}
         /\ p \in Receipt <=> p \in RollbackReceipt
         /\ p \notin NormalReceipt
         /\ p \in Terminal <=> Rank[p] = 13
         /\ p \notin {"NONE", "BLOCKED", "ROLLBACK_FAILED", "PRE_SWAP_CLEANUP_INTENT",
                      "PRE_SWAP_CLEANUP_CONFIRMED", "COMPLETED"}
<1>1. p = RollbackPhases[Rank[p]] /\ Rank[p] \in 1 .. 13
  BY OnRollback
<1>2. QED
  BY <1>1, RollbackTable
     DEF Call, NormalCalls, RollbackCalls, NormalReceipt, RollbackReceipt, Receipt,
     Terminal
----------------------------------------------------------------------------
(* The invariant.                                                          *)

\* The journal as it will be once a confirmed answer is recorded: what an
\* adapter has done counts from the moment it was done.
Effective(j, a) == IF a.state = "CONFIRMED" THEN Confirmed(j, a.value) ELSE j

JournalType ==
  [phase : Phase, revision : Nat, got : [Receipt -> Nat \cup {Null}],
   cause : Phase \cup {None}, cleanupAt : Phase \cup {None}, failedAt : Phase \cup {None}]

HubType ==
  [build : Build, pointer : Nat, state : {"RUNNING", "STOPPING", "STOPPED"}, runtime : Build,
   mode : {"NORMAL", "MAINTENANCE"}, instance : Nat, fence : Release \cup {None},
   last : Release \cup {None}, rows : Nat, schema : Build, bridges : Build \cup {None}]

CallType ==
  [state : {"none", "out", "CONFIRMED", "REJECTED", "INVALID"}, value : Nat]

ProcType(p) ==
  /\ p.op \in Release \cup {None}
  /\ p.saw # None => p.saw.instance \in Nat

Types ==
  /\ journal \in [Release -> JournalType]
  /\ call \in [Release -> CallType]
  /\ hub \in HubType
  /\ DOMAIN proc = Owner
  /\ \A w \in Owner : ProcType(proc[w])

\* A call is at the phase of its journal, and its answer is one to that phase.
Booked(j, a) ==
  /\ a.state # "none" => j.phase \in Call
  /\ a.state = "REJECTED" => j.phase # "PRE_SWAP_CLEANUP_INTENT"
  /\ a.state = "INVALID" => j.phase = "FINAL_SNAPSHOT_INTENT"
  /\ j.phase = "NONE" => j = Blank

\* What is run has begun.
Begun(p) == p.op # None => journal[p.op].phase # "NONE"

Legible(j, a) ==
  j.phase # "NONE" => RelationsValid(j) /\ RelationsValid(Effective(j, a))

\* Serves, of a Hub that is named.
ServesIn(h, build) ==
  /\ h.state = "RUNNING" /\ h.runtime = build /\ h.mode = "NORMAL" /\ h.build = build
  /\ h.schema = build /\ h.bridges = build

\* The fence of a maintenance is that of the release that was let in last, and
\* without a fence the Hub serves.
Fenced(h) ==
  /\ h.fence = None <=> h.mode = "NORMAL"
  /\ h.fence = None => ServesIn(h, h.build)
  /\ h.fence # None => h.last = h.fence

\* Where on its track a release is.
Ahead(e, m, n) == e.phase \in PhasesOf(NormalPhases) /\ m <= Rank[e.phase] /\ Rank[e.phase] <= n
Back(e, m, n) == e.phase \in PhasesOf(RollbackPhases) /\ m <= Rank[e.phase] /\ Rank[e.phase] <= n

Untouched(e) ==
  \/ e.phase = "NONE"
  \/ Ahead(e, 1, 7)
  \/ e.phase = "BLOCKED" /\ e.cleanupAt = None /\ e.failedAt \notin LeavesHubDown

Deployed(e) == Ahead(e, 29, 30)

TakenBack(e) ==
  \/ Back(e, 12, 13)
  \/ e.phase = "PRE_SWAP_CLEANUP_CONFIRMED"
  \/ e.phase = "BLOCKED" /\ e.cleanupAt # None

UnderWay(e) == Ahead(e, 8, 28) \/ Back(e, 1, 11) \/ e.phase = "PRE_SWAP_CLEANUP_INTENT"

\* How a release has left the installation when it is none of its business.
Outcome(o, e, h) ==
  /\ Untouched(e) => h.last # o
  /\ Deployed(e) => h.fence # o /\ (h.last = o => ServesIn(h, To(o)))
  /\ TakenBack(e) => h.fence # o /\ (h.last = o => ServesIn(h, From(o)))

\* What a release under way has made of it, step by step.
Progress(o, e, h) ==
  /\ UnderWay(e) => h.fence = o
  /\ Ahead(e, 8, 16) \/ e.phase = "PRE_SWAP_CLEANUP_INTENT" \/ Back(e, 3, 11) =>
       h.build = From(o) /\ h.schema = From(o)
  /\ Ahead(e, 8, 16) => h.pointer = e.got["ENTER_MAINTENANCE_INTENT"]
  /\ Ahead(e, 15, 28) \/ Back(e, 1, 11) => h.rows = e.got["FINAL_SNAPSHOT_INTENT"]
  /\ Ahead(e, 17, 28) => h.build = To(o)
  /\ Ahead(e, 23, 28) => h.schema = To(o)
  /\ Ahead(e, 27, 28) => h.bridges = To(o)
  /\ Back(e, 10, 11) => h.bridges = From(o)

Stage(o, e, h) == Outcome(o, e, h) /\ Progress(o, e, h)

\* A release, its call and the installation, of one accord.
Sound(o, j, a, h) ==
  /\ Booked(j, a)
  /\ Legible(j, a)
  /\ Stage(o, Effective(j, a), h)

ReleaseInvariant ==
  /\ Types
  /\ \A w \in Owner : Begun(proc[w])
  /\ Fenced(hub)
  /\ \A o \in Release : Sound(o, journal[o], call[o], hub)

----------------------------------------------------------------------------
(* What a legible journal is, track by track.                              *)

Clean(j) == j.failedAt = None /\ j.cleanupAt = None /\ ~Has(j, "PRE_SWAP_CLEANUP_INTENT")
NormalReceipts(j, n) == \A r \in NormalReceipt : Has(j, r) <=> n > Rank[r]
RollbackReceipts(j, n) == \A r \in RollbackReceipt : Has(j, r) <=> n > Rank[r]

LegibleNormal(j, n) ==
  /\ ReceiptsAgree(j) /\ j.cause = None
  /\ NormalReceipts(j, n) /\ \A r \in RollbackReceipt : ~Has(j, r)

LegibleRollback(j, n) ==
  /\ ReceiptsAgree(j)
  /\ j.cause \in PhasesOf(NormalPhases) /\ Rank[j.cause] > 17
  /\ NormalReceipts(j, Rank[j.cause]) /\ RollbackReceipts(j, n)

\* A legible journal on the normal track.
LEMMA NormalJournal ==
  ASSUME NEW j, j.phase \in PhasesOf(NormalPhases)
  PROVE  RelationsValid(j) <=> Clean(j) /\ LegibleNormal(j, Rank[j.phase])
<1>1. /\ j.phase \notin {"BLOCKED", "ROLLBACK_FAILED", "PRE_SWAP_CLEANUP_INTENT",
                         "PRE_SWAP_CLEANUP_CONFIRMED"}
  BY NormalPlaces
<1>2. QED
  BY <1>1 DEF RelationsValid, Clean, LegibleNormal, NormalReceipts

\* A legible journal on the rollback track.
LEMMA RollbackJournal ==
  ASSUME NEW j, j.phase \in PhasesOf(RollbackPhases)
  PROVE  RelationsValid(j) <=> Clean(j) /\ LegibleRollback(j, Rank[j.phase])
<1>1. /\ j.phase \notin {"BLOCKED", "ROLLBACK_FAILED", "PRE_SWAP_CLEANUP_INTENT",
                         "PRE_SWAP_CLEANUP_CONFIRMED"}
  BY RollbackPlaces
<1>2. j.phase \notin PhasesOf(NormalPhases)
  BY OnRollback
<1>3. QED
  BY <1>1, <1>2, Ranks
     DEF RelationsValid, Clean, LegibleRollback, NormalReceipts, RollbackReceipts

\* A legible journal while everything before the swap is taken back.
LEMMA CleanupJournal ==
  ASSUME NEW j, j.phase \in {"PRE_SWAP_CLEANUP_INTENT", "PRE_SWAP_CLEANUP_CONFIRMED"}
  PROVE  RelationsValid(j) <=>
           /\ ReceiptsAgree(j) /\ j.failedAt = None /\ j.cleanupAt # None /\ j.cause = None
           /\ Has(j, "PRE_SWAP_CLEANUP_INTENT") <=> j.phase = "PRE_SWAP_CLEANUP_CONFIRMED"
BY DEF RelationsValid

\* A legible journal of a blocked release: cleaned up, or never under way.
LEMMA BlockedJournal ==
  ASSUME NEW j, j.phase = "BLOCKED"
  PROVE  /\ RelationsValid(j) => ReceiptsAgree(j) /\ j.failedAt # None
         /\ ReceiptsAgree(j) /\ j.failedAt # None /\ j.cleanupAt # None /\ j.cause = None
              /\ Has(j, "PRE_SWAP_CLEANUP_INTENT") => RelationsValid(j)
         /\ ReceiptsAgree(j) /\ j.failedAt \in PhasesOf(NormalPhases) /\ j.failedAt # None
              /\ j.cleanupAt = None /\ ~Has(j, "PRE_SWAP_CLEANUP_INTENT")
              /\ LegibleNormal(j, Rank[j.failedAt]) => RelationsValid(j)
BY DEF RelationsValid, LegibleNormal, NormalReceipts

\* A legible journal of a rollback that failed.
LEMMA FailedJournal ==
  ASSUME NEW j, j.phase = "ROLLBACK_FAILED", j.failedAt \in PhasesOf(RollbackPhases),
         j.failedAt # None, j.cleanupAt = None, ~Has(j, "PRE_SWAP_CLEANUP_INTENT"),
         LegibleRollback(j, Rank[j.failedAt])
  PROVE  RelationsValid(j)
BY OnRollback, Ranks DEF RelationsValid, LegibleRollback, NormalReceipts, RollbackReceipts

----------------------------------------------------------------------------
(* What a confirmed answer makes of a legible journal.                     *)

\* An answer that fits what is in the journal already.
Fitting(j, v) ==
  /\ j.phase = "PAUSE_SUPERVISORS_INTENT" => v = j.got["ENTER_MAINTENANCE_INTENT"]
  /\ j.phase = "STOP_INTENT" => v = j.got["CURRENT_REVALIDATE_INTENT"]
  /\ j.phase = "SWAP_INTENT" => v = j.got["PAUSE_SUPERVISORS_INTENT"] + 1
  /\ j.phase = "VERIFY_CANDIDATE_MAINTENANCE_INTENT" =>
       v = j.got["START_CANDIDATE_MAINTENANCE_INTENT"]
  /\ j.phase = "AUTHORIZE_BRIDGES_INTENT" => v = j.got["SWAP_INTENT"]
  /\ j.phase = "COMMIT_MAINTENANCE_INTENT" => v = j.got["AUTHORIZE_BRIDGES_INTENT"] + 1
  /\ j.phase = "ROLLBACK_RESTORE_INTENT" => v = j.got["SWAP_INTENT"] + 1
  /\ j.phase = "ROLLBACK_VERIFY_PREVIOUS_INTENT" =>
       v = j.got["ROLLBACK_START_PREVIOUS_MAINTENANCE_INTENT"]
  /\ j.phase = "ROLLBACK_AUTHORIZE_BRIDGES_INTENT" => v = j.got["ROLLBACK_RESTORE_INTENT"]
  /\ j.phase = "ROLLBACK_COMMIT_MAINTENANCE_INTENT" =>
       v = j.got["ROLLBACK_AUTHORIZE_BRIDGES_INTENT"] + 1
  /\ j.phase = "PRE_SWAP_CLEANUP_INTENT" => v = j.got["ENTER_MAINTENANCE_INTENT"]

\* An answer moves the phase on and leaves one receipt, and nothing else.
LEMMA ConfirmedRow ==
  ASSUME NEW j \in JournalType, NEW v \in Nat, After(j.phase) \in Phase
  PROVE  /\ Confirmed(j, v) \in JournalType
         /\ Confirmed(j, v).phase = After(j.phase)
         /\ Confirmed(j, v).cause = j.cause /\ Confirmed(j, v).cleanupAt = j.cleanupAt
         /\ Confirmed(j, v).failedAt = j.failedAt
         /\ \A r \in Receipt : Confirmed(j, v).got[r] = IF r = j.phase THEN v ELSE j.got[r]
BY DEF Confirmed, JournalType

\* After an answer on the normal track the receipts go one place further.
LEMMA NormalReceiptsGrow ==
  ASSUME NEW j \in JournalType, j.phase \in PhasesOf(NormalPhases), NEW v \in Nat,
         NEW c, \A r \in Receipt : c.got[r] = IF r = j.phase THEN v ELSE j.got[r],
         NormalReceipts(j, Rank[j.phase])
  PROVE  NormalReceipts(c, Rank[j.phase] + 1)
<1>1. SUFFICES ASSUME NEW r \in NormalReceipt
               PROVE  Has(c, r) <=> Rank[j.phase] + 1 > Rank[r]
  BY DEF NormalReceipts
<1>2. r \in Receipt /\ r \in PhasesOf(NormalPhases)
  BY NormalTable DEF NormalReceipt, NormalCalls, Receipt, PhasesOf
<1>3. Rank[r] \in Int /\ Rank[j.phase] \in Int
  BY <1>2, OnNormal
<1>4. Rank[r] = Rank[j.phase] => r = j.phase
  BY <1>2, OnNormal
<1>5. Has(j, r) <=> Rank[j.phase] > Rank[r]
  BY DEF NormalReceipts
<1>6. QED
  BY <1>2, <1>3, <1>4, <1>5 DEF Has, Null

\* After an answer on the rollback track the receipts go one place further.
LEMMA RollbackReceiptsGrow ==
  ASSUME NEW j \in JournalType, j.phase \in PhasesOf(RollbackPhases), NEW v \in Nat,
         NEW c, \A r \in Receipt : c.got[r] = IF r = j.phase THEN v ELSE j.got[r],
         RollbackReceipts(j, Rank[j.phase])
  PROVE  RollbackReceipts(c, Rank[j.phase] + 1)
<1>1. SUFFICES ASSUME NEW r \in RollbackReceipt
               PROVE  Has(c, r) <=> Rank[j.phase] + 1 > Rank[r]
  BY DEF RollbackReceipts
<1>2. r \in Receipt /\ r \in PhasesOf(RollbackPhases)
  BY RollbackTable DEF RollbackReceipt, RollbackCalls, Receipt, PhasesOf
<1>3. Rank[r] \in Int /\ Rank[j.phase] \in Int
  BY <1>2, OnRollback
<1>4. Rank[r] = Rank[j.phase] => r = j.phase
  BY <1>2, OnRollback
<1>5. Has(j, r) <=> Rank[j.phase] > Rank[r]
  BY DEF RollbackReceipts
<1>6. QED
  BY <1>2, <1>3, <1>4, <1>5 DEF Has, Null

\* The receipts that are there by place.
LEMMA NormalPattern ==
  ASSUME NEW j, NEW n \in Int, NormalReceipts(j, n)
  PROVE  /\ Has(j, "CURRENT_REVALIDATE_INTENT") <=> n > 5
         /\ Has(j, "ENTER_MAINTENANCE_INTENT") <=> n > 7
         /\ Has(j, "PAUSE_SUPERVISORS_INTENT") <=> n > 9
         /\ Has(j, "STOP_INTENT") <=> n > 11
         /\ Has(j, "FINAL_SNAPSHOT_INTENT") <=> n > 14
         /\ Has(j, "SWAP_INTENT") <=> n > 16
         /\ Has(j, "START_CANDIDATE_MAINTENANCE_INTENT") <=> n > 18
         /\ Has(j, "VERIFY_CANDIDATE_MAINTENANCE_INTENT") <=> n > 20
         /\ Has(j, "AUTHORIZE_BRIDGES_INTENT") <=> n > 24
         /\ Has(j, "RESUME_BRIDGES_INTENT") <=> n > 26
         /\ Has(j, "COMMIT_MAINTENANCE_INTENT") <=> n > 28
BY Ranks DEF NormalReceipts, NormalReceipt, NormalCalls

\* The same for the rollback.
LEMMA RollbackPattern ==
  ASSUME NEW j, NEW n \in Int, RollbackReceipts(j, n)
  PROVE  /\ Has(j, "ROLLBACK_RESTORE_INTENT") <=> n > 2
         /\ Has(j, "ROLLBACK_START_PREVIOUS_MAINTENANCE_INTENT") <=> n > 3
         /\ Has(j, "ROLLBACK_VERIFY_PREVIOUS_INTENT") <=> n > 5
         /\ Has(j, "ROLLBACK_AUTHORIZE_BRIDGES_INTENT") <=> n > 7
         /\ Has(j, "ROLLBACK_RESUME_BRIDGES_INTENT") <=> n > 9
         /\ Has(j, "ROLLBACK_COMMIT_MAINTENANCE_INTENT") <=> n > 11
BY Ranks DEF RollbackReceipts, RollbackReceipt, RollbackCalls

\* The receipts the relations speak of are receipts.
LEMMA ReceiptNames ==
  /\ {"CURRENT_REVALIDATE_INTENT", "ENTER_MAINTENANCE_INTENT", "PAUSE_SUPERVISORS_INTENT",
      "STOP_INTENT", "FINAL_SNAPSHOT_INTENT", "SWAP_INTENT",
      "START_CANDIDATE_MAINTENANCE_INTENT", "VERIFY_CANDIDATE_MAINTENANCE_INTENT",
      "AUTHORIZE_BRIDGES_INTENT", "RESUME_BRIDGES_INTENT", "COMMIT_MAINTENANCE_INTENT",
      "ROLLBACK_RESTORE_INTENT", "ROLLBACK_START_PREVIOUS_MAINTENANCE_INTENT",
      "ROLLBACK_VERIFY_PREVIOUS_INTENT", "ROLLBACK_AUTHORIZE_BRIDGES_INTENT",
      "ROLLBACK_RESUME_BRIDGES_INTENT", "ROLLBACK_COMMIT_MAINTENANCE_INTENT",
      "PRE_SWAP_CLEANUP_INTENT"} \subseteq Receipt
  /\ NormalReceipt \subseteq Receipt /\ RollbackReceipt \subseteq Receipt
  /\ "PRE_SWAP_CLEANUP_INTENT" \notin NormalReceipt \cup RollbackReceipt
BY DEF Receipt, NormalReceipt, RollbackReceipt, NormalCalls, RollbackCalls

\* A fitting answer on the normal track keeps the receipts in agreement.
LEMMA NormalAgreementGrows ==
  ASSUME NEW j \in JournalType, j.phase \in PhasesOf(NormalPhases), NEW v \in Nat,
         NEW c, \A r \in Receipt : c.got[r] = IF r = j.phase THEN v ELSE j.got[r],
         Clean(j), LegibleNormal(j, Rank[j.phase]), Fitting(j, v)
  PROVE  ReceiptsAgree(c)
<1>0. PICK n \in 1 .. 30 : n = Rank[j.phase]
  BY OnNormal
<1>1. NormalReceipts(j, n) /\ NormalReceipts(c, n + 1) /\ n + 1 \in Int /\ n \in Int
  BY <1>0, NormalReceiptsGrow DEF LegibleNormal
<1>2. \A r \in RollbackReceipt \cup {"PRE_SWAP_CLEANUP_INTENT"} : ~Has(c, r)
  BY ReceiptNames, NormalPlaces DEF LegibleNormal, Clean, Has
<1>3. j.phase = NormalPhases[n]
  BY <1>0, OnNormal
<1>4. ReceiptsAgree(j)
  BY DEF LegibleNormal
<1>5. /\ ~Has(c, "ROLLBACK_RESTORE_INTENT") /\ ~Has(c, "ROLLBACK_VERIFY_PREVIOUS_INTENT")
      /\ ~Has(c, "ROLLBACK_AUTHORIZE_BRIDGES_INTENT") /\ ~Has(c, "ROLLBACK_RESUME_BRIDGES_INTENT")
      /\ ~Has(c, "ROLLBACK_COMMIT_MAINTENANCE_INTENT") /\ ~Has(c, "PRE_SWAP_CLEANUP_INTENT")
  BY <1>2 DEF RollbackReceipt, RollbackCalls
<1>6. /\ Has(c, "ENTER_MAINTENANCE_INTENT") => Has(c, "CURRENT_REVALIDATE_INTENT")
      /\ Has(c, "FINAL_SNAPSHOT_INTENT") => Has(c, "STOP_INTENT")
      /\ Has(c, "SWAP_INTENT") => Has(c, "PAUSE_SUPERVISORS_INTENT")
      /\ Has(c, "RESUME_BRIDGES_INTENT") => Has(c, "AUTHORIZE_BRIDGES_INTENT")
      /\ Has(c, "COMMIT_MAINTENANCE_INTENT") => Has(c, "RESUME_BRIDGES_INTENT")
  BY <1>1, NormalPattern
<1>7. Has(c, "PAUSE_SUPERVISORS_INTENT") =>
        c.got["PAUSE_SUPERVISORS_INTENT"] = c.got["ENTER_MAINTENANCE_INTENT"]
  BY <1>1, <1>3, <1>4, NormalPattern, NormalTable, ReceiptNames DEF ReceiptsAgree, Fitting
<1>8. Has(c, "STOP_INTENT") => c.got["STOP_INTENT"] = c.got["CURRENT_REVALIDATE_INTENT"]
  BY <1>1, <1>3, <1>4, NormalPattern, NormalTable, ReceiptNames DEF ReceiptsAgree, Fitting
<1>9. Has(c, "SWAP_INTENT") => c.got["SWAP_INTENT"] = c.got["PAUSE_SUPERVISORS_INTENT"] + 1
  BY <1>1, <1>3, <1>4, NormalPattern, NormalTable, ReceiptNames DEF ReceiptsAgree, Fitting
<1>10. Has(c, "VERIFY_CANDIDATE_MAINTENANCE_INTENT") =>
         c.got["VERIFY_CANDIDATE_MAINTENANCE_INTENT"] = c.got["START_CANDIDATE_MAINTENANCE_INTENT"]
  BY <1>1, <1>3, <1>4, NormalPattern, NormalTable, ReceiptNames DEF ReceiptsAgree, Fitting
<1>11. Has(c, "AUTHORIZE_BRIDGES_INTENT") =>
         c.got["AUTHORIZE_BRIDGES_INTENT"] = c.got["SWAP_INTENT"]
  BY <1>1, <1>3, <1>4, NormalPattern, NormalTable, ReceiptNames DEF ReceiptsAgree, Fitting
<1>12. Has(c, "COMMIT_MAINTENANCE_INTENT") =>
         c.got["COMMIT_MAINTENANCE_INTENT"] = c.got["AUTHORIZE_BRIDGES_INTENT"] + 1
  BY <1>1, <1>3, <1>4, NormalPattern, NormalTable, ReceiptNames DEF ReceiptsAgree, Fitting
<1>13. QED
  BY <1>5, <1>6, <1>7, <1>8, <1>9, <1>10, <1>11, <1>12 DEF ReceiptsAgree

\* A fitting answer on the rollback track keeps the receipts in agreement.
LEMMA RollbackAgreementGrows ==
  ASSUME NEW j \in JournalType, j.phase \in PhasesOf(RollbackPhases), NEW v \in Nat,
         NEW c, \A r \in Receipt : c.got[r] = IF r = j.phase THEN v ELSE j.got[r],
         Clean(j), LegibleRollback(j, Rank[j.phase]), Fitting(j, v)
  PROVE  ReceiptsAgree(c)
<1>0. PICK n \in 1 .. 13 : n = Rank[j.phase]
  BY OnRollback
<1>1. RollbackReceipts(j, n) /\ RollbackReceipts(c, n + 1) /\ n + 1 \in Int /\ n \in Int
  BY <1>0, RollbackReceiptsGrow DEF LegibleRollback
<1>2. /\ \A r \in NormalReceipt : c.got[r] = j.got[r] /\ r # j.phase
      /\ c.got["PRE_SWAP_CLEANUP_INTENT"] = j.got["PRE_SWAP_CLEANUP_INTENT"]
  BY ReceiptNames, RollbackPlaces
<1>3. j.phase = RollbackPhases[n]
  BY <1>0, OnRollback
<1>4. ReceiptsAgree(j) /\ ~Has(c, "PRE_SWAP_CLEANUP_INTENT")
  BY <1>2 DEF LegibleRollback, Clean, Has
<1>5. Has(c, "FINAL_SNAPSHOT_INTENT") /\ Has(c, "SWAP_INTENT")
  <2>1. Rank[j.cause] \in Int /\ Rank[j.cause] > 17
    BY OnNormal DEF LegibleRollback
  <2>2. NormalReceipts(j, Rank[j.cause])
    BY DEF LegibleRollback
  <2>3. Has(j, "FINAL_SNAPSHOT_INTENT") /\ Has(j, "SWAP_INTENT")
    BY <2>1, <2>2, NormalPattern
  <2>4. QED
    BY <1>2, <2>3 DEF Has, NormalReceipt, NormalCalls
<1>6. /\ Has(c, "ROLLBACK_RESUME_BRIDGES_INTENT") => Has(c, "ROLLBACK_AUTHORIZE_BRIDGES_INTENT")
      /\ Has(c, "ROLLBACK_COMMIT_MAINTENANCE_INTENT") => Has(c, "ROLLBACK_RESUME_BRIDGES_INTENT")
  BY <1>1, RollbackPattern
<1>7. Has(c, "ROLLBACK_RESTORE_INTENT") =>
        c.got["ROLLBACK_RESTORE_INTENT"] = c.got["SWAP_INTENT"] + 1
  BY <1>1, <1>2, <1>3, <1>4, RollbackPattern, RollbackTable, ReceiptNames
     DEF ReceiptsAgree, Fitting, NormalReceipt, NormalCalls
<1>8. Has(c, "ROLLBACK_VERIFY_PREVIOUS_INTENT") =>
        c.got["ROLLBACK_VERIFY_PREVIOUS_INTENT"] =
          c.got["ROLLBACK_START_PREVIOUS_MAINTENANCE_INTENT"]
  BY <1>1, <1>3, <1>4, RollbackPattern, RollbackTable, ReceiptNames DEF ReceiptsAgree, Fitting
<1>9. Has(c, "ROLLBACK_AUTHORIZE_BRIDGES_INTENT") =>
        c.got["ROLLBACK_AUTHORIZE_BRIDGES_INTENT"] = c.got["ROLLBACK_RESTORE_INTENT"]
  BY <1>1, <1>3, <1>4, RollbackPattern, RollbackTable, ReceiptNames DEF ReceiptsAgree, Fitting
<1>10. Has(c, "ROLLBACK_COMMIT_MAINTENANCE_INTENT") =>
         c.got["ROLLBACK_COMMIT_MAINTENANCE_INTENT"] =
           c.got["ROLLBACK_AUTHORIZE_BRIDGES_INTENT"] + 1
  BY <1>1, <1>3, <1>4, RollbackPattern, RollbackTable, ReceiptNames DEF ReceiptsAgree, Fitting
<1>11. \A r \in NormalReceipt : Has(c, r) <=> Has(j, r)
  BY <1>2 DEF Has
<1>12. /\ Has(c, "ENTER_MAINTENANCE_INTENT") => Has(c, "CURRENT_REVALIDATE_INTENT")
       /\ Has(c, "PAUSE_SUPERVISORS_INTENT") =>
            c.got["PAUSE_SUPERVISORS_INTENT"] = c.got["ENTER_MAINTENANCE_INTENT"]
       /\ Has(c, "STOP_INTENT") => c.got["STOP_INTENT"] = c.got["CURRENT_REVALIDATE_INTENT"]
       /\ Has(c, "FINAL_SNAPSHOT_INTENT") => Has(c, "STOP_INTENT")
       /\ Has(c, "SWAP_INTENT") =>
            /\ Has(c, "PAUSE_SUPERVISORS_INTENT")
            /\ c.got["SWAP_INTENT"] = c.got["PAUSE_SUPERVISORS_INTENT"] + 1
       /\ Has(c, "VERIFY_CANDIDATE_MAINTENANCE_INTENT") =>
            c.got["VERIFY_CANDIDATE_MAINTENANCE_INTENT"] =
              c.got["START_CANDIDATE_MAINTENANCE_INTENT"]
       /\ Has(c, "AUTHORIZE_BRIDGES_INTENT") =>
            c.got["AUTHORIZE_BRIDGES_INTENT"] = c.got["SWAP_INTENT"]
       /\ Has(c, "RESUME_BRIDGES_INTENT") => Has(c, "AUTHORIZE_BRIDGES_INTENT")
       /\ Has(c, "COMMIT_MAINTENANCE_INTENT") =>
            /\ Has(c, "RESUME_BRIDGES_INTENT")
            /\ c.got["COMMIT_MAINTENANCE_INTENT"] = c.got["AUTHORIZE_BRIDGES_INTENT"] + 1
  BY <1>2, <1>4, <1>11 DEF ReceiptsAgree, NormalReceipt, NormalCalls
<1>13. QED
  BY <1>4, <1>5, <1>6, <1>7, <1>8, <1>9, <1>10, <1>12 DEF ReceiptsAgree

\* A fitting receipt of the cleanup keeps the receipts in agreement.
LEMMA CleanupAgreementGrows ==
  ASSUME NEW j \in JournalType, j.phase = "PRE_SWAP_CLEANUP_INTENT", NEW v \in Nat,
         NEW c, \A r \in Receipt : c.got[r] = IF r = j.phase THEN v ELSE j.got[r],
         c.cleanupAt = j.cleanupAt, j.cleanupAt # None, ReceiptsAgree(j), Fitting(j, v)
  PROVE  ReceiptsAgree(c)
<1>1. c.got["PRE_SWAP_CLEANUP_INTENT"] = c.got["ENTER_MAINTENANCE_INTENT"]
  BY ReceiptNames DEF Fitting
<1>2. \A r \in NormalReceipt \cup RollbackReceipt :
        c.got[r] = j.got[r] /\ (Has(c, r) <=> Has(j, r))
  BY ReceiptNames DEF Has
<1>3. QED
  BY <1>1, <1>2 DEF ReceiptsAgree, NormalReceipt, NormalCalls, RollbackReceipt, RollbackCalls

\* Places a confirmed answer, or a step without a call, leads on from.
GoesOn(p) ==
  \/ p \in PhasesOf(NormalPhases) /\ Rank[p] < 30
  \/ p \in PhasesOf(RollbackPhases) /\ Rank[p] < 13
  \/ p = "PRE_SWAP_CLEANUP_INTENT"

\* One place further is on the same track.
LEMMA AfterOnTrack ==
  ASSUME NEW p, GoesOn(p)
  PROVE  /\ After(p) \in Phase /\ After(p) # "NONE"
         /\ p \in PhasesOf(NormalPhases) =>
              After(p) \in PhasesOf(NormalPhases) /\ Rank[After(p)] = Rank[p] + 1
         /\ p \in PhasesOf(RollbackPhases) =>
              After(p) \in PhasesOf(RollbackPhases) /\ Rank[After(p)] = Rank[p] + 1
         /\ p = "PRE_SWAP_CLEANUP_INTENT" => After(p) = "PRE_SWAP_CLEANUP_CONFIRMED"
<1>1. CASE p \in PhasesOf(NormalPhases) /\ Rank[p] < 30
  <2>1. Rank[p] + 1 \in 1 .. 30 /\ After(p) = NormalPhases[Rank[p] + 1]
    BY <1>1, OnNormal
  <2>2. After(p) \in PhasesOf(NormalPhases) /\ Rank[After(p)] = Rank[p] + 1
    BY <2>1, RankTable
  <2>3. QED
    BY <1>1, <2>2, OnNormal, OnCleanup, NormalPlaces DEF Phase, OnTrack
<1>2. CASE p \in PhasesOf(RollbackPhases) /\ Rank[p] < 13
  <2>1. Rank[p] + 1 \in 1 .. 13 /\ After(p) = RollbackPhases[Rank[p] + 1]
    BY <1>2, OnRollback
  <2>2. After(p) \in PhasesOf(RollbackPhases) /\ Rank[After(p)] = Rank[p] + 1
    BY <2>1, RankTable
  <2>3. QED
    BY <1>2, <2>2, OnRollback, RollbackPlaces DEF Phase, OnTrack
<1>3. CASE p = "PRE_SWAP_CLEANUP_INTENT"
  <2>1. p \in PhasesOf(CleanupPhases) /\ Rank[p] = 1
    BY <1>3, RankTable, CleanupTable
  <2>2. After(p) = "PRE_SWAP_CLEANUP_CONFIRMED"
    BY <2>1, OnCleanup, CleanupTable
  <2>3. "PRE_SWAP_CLEANUP_CONFIRMED" \in PhasesOf(CleanupPhases)
    BY CleanupTable DEF PhasesOf
  <2>4. QED
    BY <1>3, <2>1, <2>2, <2>3, OnCleanup DEF Phase, OnTrack
<1>4. QED
  BY <1>1, <1>2, <1>3 DEF GoesOn

\* A fitting answer leaves a legible journal legible.
LEMMA ConfirmedIsLegible ==
  ASSUME NEW j \in JournalType, NEW v \in Nat, GoesOn(j.phase), RelationsValid(j), Fitting(j, v)
  PROVE  /\ Confirmed(j, v) \in JournalType
         /\ RelationsValid(Confirmed(j, v))
<1>. DEFINE c == Confirmed(j, v)
<1>1. /\ c \in JournalType /\ c.phase = After(j.phase)
      /\ c.cause = j.cause /\ c.cleanupAt = j.cleanupAt /\ c.failedAt = j.failedAt
      /\ \A r \in Receipt : c.got[r] = IF r = j.phase THEN v ELSE j.got[r]
  BY AfterOnTrack, ConfirmedRow
<1>. HIDE DEF c
<1>2. CASE j.phase \in PhasesOf(NormalPhases) /\ Rank[j.phase] < 30
  <2>1. Clean(j) /\ LegibleNormal(j, Rank[j.phase])
    BY <1>2, NormalJournal
  <2>2. ReceiptsAgree(c)
    BY <1>1, <1>2, <2>1, NormalAgreementGrows
  <2>3. NormalReceipts(c, Rank[j.phase] + 1)
    BY <1>1, <1>2, <2>1, NormalReceiptsGrow DEF LegibleNormal
  <2>4. \A r \in RollbackReceipt \cup {"PRE_SWAP_CLEANUP_INTENT"} : ~Has(c, r)
    BY <1>1, <1>2, <2>1, ReceiptNames, NormalPlaces DEF LegibleNormal, Clean, Has
  <2>5. c.phase \in PhasesOf(NormalPhases) /\ Rank[c.phase] = Rank[j.phase] + 1
    BY <1>1, <1>2, AfterOnTrack
  <2>6. Clean(c) /\ LegibleNormal(c, Rank[c.phase])
    BY <1>1, <2>1, <2>2, <2>3, <2>4, <2>5 DEF Clean, LegibleNormal
  <2>7. QED
    BY <1>1, <2>5, <2>6, NormalJournal DEF c
<1>3. CASE j.phase \in PhasesOf(RollbackPhases) /\ Rank[j.phase] < 13
  <2>1. Clean(j) /\ LegibleRollback(j, Rank[j.phase])
    BY <1>3, RollbackJournal
  <2>2. ReceiptsAgree(c)
    BY <1>1, <1>3, <2>1, RollbackAgreementGrows
  <2>3. RollbackReceipts(c, Rank[j.phase] + 1)
    BY <1>1, <1>3, <2>1, RollbackReceiptsGrow DEF LegibleRollback
  <2>4. /\ \A r \in NormalReceipt : Has(c, r) <=> Has(j, r)
        /\ ~Has(c, "PRE_SWAP_CLEANUP_INTENT")
    BY <1>1, <1>3, <2>1, ReceiptNames, RollbackPlaces DEF Clean, Has
  <2>5. c.phase \in PhasesOf(RollbackPhases) /\ Rank[c.phase] = Rank[j.phase] + 1
    BY <1>1, <1>3, AfterOnTrack
  <2>6. Clean(c) /\ LegibleRollback(c, Rank[c.phase])
    BY <1>1, <2>1, <2>2, <2>3, <2>4, <2>5 DEF Clean, LegibleRollback, NormalReceipts
  <2>7. QED
    BY <1>1, <2>5, <2>6, RollbackJournal DEF c
<1>4. CASE j.phase = "PRE_SWAP_CLEANUP_INTENT"
  <2>1. ReceiptsAgree(j) /\ j.failedAt = None /\ j.cleanupAt # None /\ j.cause = None
    BY <1>4, CleanupJournal
  <2>2. ReceiptsAgree(c)
    BY <1>1, <1>4, <2>1, CleanupAgreementGrows
  <2>3. c.phase = "PRE_SWAP_CLEANUP_CONFIRMED"
    BY <1>1, <1>4, AfterOnTrack
  <2>4. Has(c, "PRE_SWAP_CLEANUP_INTENT")
    BY <1>1, <1>4, ReceiptNames DEF Has, Null
  <2>5. QED
    BY <1>1, <2>1, <2>2, <2>3, <2>4, CleanupJournal DEF c
<1>5. QED
  BY <1>2, <1>3, <1>4 DEF GoesOn

----------------------------------------------------------------------------
(* The ways off the track.                                                 *)

\* Phases, and what is none.
LEMMA SomePhases ==
  /\ PhasesOf(NormalPhases) \cup PhasesOf(RollbackPhases) \subseteq Phase
  /\ {"NONE", "BLOCKED", "ROLLBACK_FAILED", "PRE_SWAP_CLEANUP_INTENT", "PRE_SWAP_CLEANUP_CONFIRMED",
      "ROLLBACK_STOP_CANDIDATE_INTENT", "CANDIDATE_PROBE_INTENT"} \subseteq Phase
  /\ "ROLLBACK_STOP_CANDIDATE_INTENT" \in PhasesOf(RollbackPhases)
  /\ "CANDIDATE_PROBE_INTENT" \in PhasesOf(NormalPhases)
  /\ None \notin Phase
BY NormalTable, RollbackTable, CleanupTable, NoneIsNoPhase DEF PhasesOf, Phase, OnTrack

\* Blocking a release leaves its journal legible.
LEMMA BlockedIsLegible ==
  ASSUME NEW j \in JournalType, j.phase \in PhasesOf(NormalPhases), RelationsValid(j)
  PROVE  /\ Blocked(j) \in JournalType /\ RelationsValid(Blocked(j))
         /\ Blocked(j).phase = "BLOCKED" /\ Blocked(j).cleanupAt = None
         /\ Blocked(j).failedAt = j.phase
<1>. DEFINE c == Blocked(j)
<1>1. Clean(j) /\ LegibleNormal(j, Rank[j.phase])
  BY NormalJournal
<1>2. /\ c \in JournalType /\ c.phase = "BLOCKED" /\ c.failedAt = j.phase
      /\ c.got = j.got /\ c.cause = j.cause /\ c.cleanupAt = j.cleanupAt
  BY SomePhases DEF Blocked, JournalType
<1>. HIDE DEF c
<1>3. ReceiptsAgree(c)
  BY <1>1, <1>2 DEF ReceiptsAgree, LegibleNormal, Has
<1>4. LegibleNormal(c, Rank[c.failedAt]) /\ c.cleanupAt = None /\ ~Has(c, "PRE_SWAP_CLEANUP_INTENT")
  BY <1>1, <1>2, <1>3 DEF LegibleNormal, NormalReceipts, Has, Clean
<1>5. c.failedAt # None
  BY <1>2, SomePhases
<1>6. QED
  BY <1>2, <1>3, <1>4, <1>5, BlockedJournal DEF c

\* Turning to the cleanup leaves a journal legible.
LEMMA CleanedUpIsLegible ==
  ASSUME NEW j \in JournalType, j.phase \in PhasesOf(NormalPhases), RelationsValid(j)
  PROVE  /\ CleanedUp(j) \in JournalType /\ RelationsValid(CleanedUp(j))
         /\ CleanedUp(j).phase = "PRE_SWAP_CLEANUP_INTENT"
<1>. DEFINE c == CleanedUp(j)
<1>1. Clean(j) /\ LegibleNormal(j, Rank[j.phase])
  BY NormalJournal
<1>2. /\ c \in JournalType /\ c.phase = "PRE_SWAP_CLEANUP_INTENT" /\ c.failedAt = j.failedAt
      /\ c.got = j.got /\ c.cause = j.cause /\ c.cleanupAt = j.phase
  BY SomePhases DEF CleanedUp, JournalType
<1>. HIDE DEF c
<1>3. c.cleanupAt # None /\ ~Has(c, "PRE_SWAP_CLEANUP_INTENT")
  BY <1>1, <1>2, SomePhases DEF Has, Clean
<1>4. ReceiptsAgree(c)
  BY <1>1, <1>2, <1>3 DEF ReceiptsAgree, LegibleNormal, Has
<1>5. QED
  BY <1>1, <1>2, <1>3, <1>4, CleanupJournal DEF c, Clean, LegibleNormal

\* Turning back after the swap leaves a journal legible.
LEMMA RolledBackIsLegible ==
  ASSUME NEW j \in JournalType, j.phase \in PhasesOf(NormalPhases), Rank[j.phase] > 17,
         RelationsValid(j)
  PROVE  /\ RolledBack(j) \in JournalType /\ RelationsValid(RolledBack(j))
         /\ RolledBack(j).phase = "ROLLBACK_STOP_CANDIDATE_INTENT"
         /\ RolledBack(j).got = j.got
<1>. DEFINE c == RolledBack(j)
<1>1. Clean(j) /\ LegibleNormal(j, Rank[j.phase])
  BY NormalJournal
<1>2. /\ c \in JournalType /\ c.phase = "ROLLBACK_STOP_CANDIDATE_INTENT" /\ c.failedAt = j.failedAt
      /\ c.got = j.got /\ c.cause = j.phase /\ c.cleanupAt = j.cleanupAt
  BY SomePhases DEF RolledBack, JournalType
<1>. HIDE DEF c
<1>3. Clean(c)
  BY <1>1, <1>2, SomePhases DEF Has, Clean
<1>4. ReceiptsAgree(c)
  BY <1>1, <1>2, <1>3 DEF ReceiptsAgree, LegibleNormal, Has
<1>5. Rank[c.phase] = 1
  BY <1>2, Ranks
<1>6. NormalReceipts(c, Rank[c.cause])
  BY <1>1, <1>2 DEF LegibleNormal, NormalReceipts, Has
<1>7. RollbackReceipts(c, 1)
  <2>1. SUFFICES ASSUME NEW r \in RollbackReceipt PROVE ~(1 > Rank[r]) /\ ~Has(c, r)
    BY DEF RollbackReceipts
  <2>2. r \in PhasesOf(RollbackPhases)
    BY RollbackTable DEF RollbackReceipt, RollbackCalls, PhasesOf
  <2>3. QED
    BY <1>1, <1>2, <2>2, OnRollback DEF LegibleNormal, Has
<1>8. LegibleRollback(c, Rank[c.phase])
  BY <1>2, <1>4, <1>5, <1>6, <1>7 DEF LegibleRollback
<1>9. QED
  BY <1>2, <1>3, <1>8, SomePhases, RollbackJournal DEF c

\* Giving up a rollback leaves a journal legible.
LEMMA RollbackFailedIsLegible ==
  ASSUME NEW j \in JournalType, j.phase \in PhasesOf(RollbackPhases), RelationsValid(j)
  PROVE  /\ RollbackFailed(j) \in JournalType /\ RelationsValid(RollbackFailed(j))
         /\ RollbackFailed(j).phase = "ROLLBACK_FAILED"
<1>. DEFINE c == RollbackFailed(j)
<1>1. Clean(j) /\ LegibleRollback(j, Rank[j.phase])
  BY RollbackJournal
<1>2. /\ c \in JournalType /\ c.phase = "ROLLBACK_FAILED" /\ c.failedAt = j.phase
      /\ c.got = j.got /\ c.cause = j.cause /\ c.cleanupAt = j.cleanupAt
  BY SomePhases DEF RollbackFailed, JournalType
<1>. HIDE DEF c
<1>3. c.failedAt # None /\ c.cleanupAt = None /\ ~Has(c, "PRE_SWAP_CLEANUP_INTENT")
  BY <1>1, <1>2, SomePhases DEF Has, Clean
<1>4. ReceiptsAgree(c)
  BY <1>1, <1>2, <1>3 DEF ReceiptsAgree, LegibleRollback, Has
<1>5. LegibleRollback(c, Rank[c.failedAt])
  BY <1>1, <1>2, <1>4 DEF LegibleRollback, NormalReceipts, RollbackReceipts, Has
<1>6. QED
  BY <1>2, <1>3, <1>5, FailedJournal DEF c

\* The revision is nobody's business.
Revised(j) == [j EXCEPT !.revision = @ + 1]

\* A new revision changes nothing else.
LEMMA RevisedRow ==
  ASSUME NEW j \in JournalType
  PROVE  /\ Revised(j) \in JournalType
         /\ Revised(j).phase = j.phase /\ Revised(j).got = j.got /\ Revised(j).cause = j.cause
         /\ Revised(j).cleanupAt = j.cleanupAt /\ Revised(j).failedAt = j.failedAt
BY DEF Revised, JournalType

\* A new revision leaves a journal legible.
LEMMA RevisedIsLegible ==
  ASSUME NEW j \in JournalType, RelationsValid(j)
  PROVE  RelationsValid(Revised(j))
<1>. DEFINE c == Revised(j)
<1>1. /\ c.phase = j.phase /\ c.got = j.got /\ c.cause = j.cause
      /\ c.cleanupAt = j.cleanupAt /\ c.failedAt = j.failedAt
  BY RevisedRow
<1>. HIDE DEF c
<1>2. ReceiptsAgree(c)
  BY <1>1 DEF RelationsValid, ReceiptsAgree, Has
<1>3. RelationsValid(c)
  BY <1>1, <1>2 DEF RelationsValid, Has
<1>4. QED
  BY <1>3 DEF c

----------------------------------------------------------------------------
(* Where calls are made, and what is left of a stage by a step of the       *)
(* journal alone.                                                          *)

\* The places of the calls, and that each leads on.
LEMMA CallPlaces ==
  ASSUME NEW p \in Call
  PROVE  /\ GoesOn(p)
         /\ \/ /\ p \in PhasesOf(NormalPhases)
               /\ Rank[p] \in {1, 3, 7, 9, 11, 14, 16, 18, 20, 22, 26, 28}
            \/ p \in PhasesOf(RollbackPhases) /\ Rank[p] \in {1, 2, 3, 5, 9, 11}
            \/ p = "PRE_SWAP_CLEANUP_INTENT"
         /\ p \in RollbackCalls <=> p \in PhasesOf(RollbackPhases)
<1>1. p \in NormalCalls => p \in PhasesOf(NormalPhases)
  BY NormalTable DEF NormalCalls, PhasesOf
<1>2. p \in RollbackCalls => p \in PhasesOf(RollbackPhases)
  BY RollbackTable DEF RollbackCalls, PhasesOf
<1>3. \/ p \in PhasesOf(NormalPhases) /\ Rank[p] \in {1, 3, 7, 9, 11, 14, 16, 18, 20, 22, 26, 28}
      \/ p \in PhasesOf(RollbackPhases) /\ Rank[p] \in {1, 2, 3, 5, 9, 11}
      \/ p = "PRE_SWAP_CLEANUP_INTENT"
  BY <1>1, <1>2, NormalPlaces, RollbackPlaces DEF Call
<1>4. GoesOn(p)
  BY <1>3 DEF GoesOn
<1>5. p \in PhasesOf(RollbackPhases) => p \in RollbackCalls
  BY <1>1, OnRollback, RollbackPlaces DEF Call
<1>6. QED
  BY <1>2, <1>3, <1>4, <1>5

\* A stage depends on four fields of a journal.
LEMMA StageReads ==
  ASSUME NEW o, NEW h, NEW e, NEW c, c.phase = e.phase, c.got = e.got,
         c.cleanupAt = e.cleanupAt, c.failedAt = e.failedAt, Stage(o, e, h)
  PROVE  Stage(o, c, h)
BY DEF Stage, Outcome, Progress, Untouched, Deployed, TakenBack, UnderWay, Ahead, Back

\* On the way, a release keeps its stage but where a call makes the difference.
LEMMA StageGoesOn ==
  ASSUME NEW o, NEW h, NEW j \in JournalType, NEW v \in Nat, GoesOn(j.phase), Stage(o, j, h),
         j.phase \in PhasesOf(NormalPhases) => Rank[j.phase] \notin {7, 14, 16, 22, 26, 28},
         j.phase \in PhasesOf(RollbackPhases) => Rank[j.phase] \notin {2, 9, 11},
         j.phase # "PRE_SWAP_CLEANUP_INTENT"
  PROVE  Stage(o, Confirmed(j, v), h)
<1>. DEFINE c == Confirmed(j, v)
<1>1. /\ c.phase = After(j.phase)
      /\ c.cleanupAt = j.cleanupAt /\ c.failedAt = j.failedAt
      /\ \A r \in Receipt : c.got[r] = IF r = j.phase THEN v ELSE j.got[r]
  BY AfterOnTrack, ConfirmedRow
<1>. HIDE DEF c
<1>2. /\ c.got["ENTER_MAINTENANCE_INTENT"] = j.got["ENTER_MAINTENANCE_INTENT"]
      /\ c.got["FINAL_SNAPSHOT_INTENT"] = j.got["FINAL_SNAPSHOT_INTENT"]
  <2>1. j.phase \notin {"ENTER_MAINTENANCE_INTENT", "FINAL_SNAPSHOT_INTENT"}
    BY Ranks, RollbackPlaces, ReceiptNames, NormalTable DEF PhasesOf
  <2>2. QED
    BY <1>1, <2>1, ReceiptNames
<1>3. CASE j.phase \in PhasesOf(NormalPhases) /\ Rank[j.phase] < 30
  <2>1. PICK n \in 1 .. 29 : n = Rank[j.phase] /\ n \notin {7, 14, 16, 22, 26, 28}
    BY <1>3, OnNormal
  <2>2. /\ c.phase \in PhasesOf(NormalPhases) /\ Rank[c.phase] = n + 1
        /\ c.phase \notin PhasesOf(RollbackPhases) /\ j.phase \notin PhasesOf(RollbackPhases)
    BY <1>1, <1>3, <2>1, AfterOnTrack, OnNormal
  <2>3. /\ c.phase \notin {"NONE", "BLOCKED", "PRE_SWAP_CLEANUP_INTENT",
                           "PRE_SWAP_CLEANUP_CONFIRMED"}
        /\ j.phase \notin {"NONE", "BLOCKED", "PRE_SWAP_CLEANUP_INTENT",
                           "PRE_SWAP_CLEANUP_CONFIRMED"}
    BY <1>3, <2>2, NormalPlaces
  <2>4. Outcome(o, c, h)
    BY <1>3, <2>1, <2>2, <2>3 DEF Stage, Outcome, Untouched, Deployed, TakenBack, Ahead, Back
  <2>5. Progress(o, c, h)
    BY <1>2, <1>3, <2>1, <2>2, <2>3 DEF Stage, Progress, UnderWay, Ahead, Back
  <2>6. QED
    BY <2>4, <2>5 DEF Stage, c
<1>4. CASE j.phase \in PhasesOf(RollbackPhases) /\ Rank[j.phase] < 13
  <2>1. PICK n \in 1 .. 12 : n = Rank[j.phase] /\ n \notin {2, 9, 11}
    BY <1>4, OnRollback
  <2>2. /\ c.phase \in PhasesOf(RollbackPhases) /\ Rank[c.phase] = n + 1
        /\ c.phase \notin PhasesOf(NormalPhases) /\ j.phase \notin PhasesOf(NormalPhases)
    BY <1>1, <1>4, <2>1, AfterOnTrack, OnRollback
  <2>3. /\ c.phase \notin {"NONE", "BLOCKED", "PRE_SWAP_CLEANUP_INTENT",
                           "PRE_SWAP_CLEANUP_CONFIRMED"}
        /\ j.phase \notin {"NONE", "BLOCKED", "PRE_SWAP_CLEANUP_INTENT",
                           "PRE_SWAP_CLEANUP_CONFIRMED"}
    BY <1>4, <2>2, RollbackPlaces
  <2>4. Outcome(o, c, h)
    BY <1>4, <2>1, <2>2, <2>3 DEF Stage, Outcome, Untouched, Deployed, TakenBack, Ahead, Back
  <2>5. Progress(o, c, h)
    BY <1>2, <1>4, <2>1, <2>2, <2>3 DEF Stage, Progress, UnderWay, Ahead, Back
  <2>6. QED
    BY <2>4, <2>5 DEF Stage, c
<1>5. QED
  BY <1>3, <1>4 DEF GoesOn

\* Blocked before maintenance, or where a release is left as it is.
LEMMA StageBlocked ==
  ASSUME NEW o, NEW h, NEW j \in JournalType, j.phase \in PhasesOf(NormalPhases),
         RelationsValid(j), Stage(o, j, h), Rank[j.phase] <= 7 \/ j.phase \in LeavesHubDown
  PROVE  Stage(o, Blocked(j), h)
<1>. DEFINE c == Blocked(j)
<1>1. c.phase = "BLOCKED" /\ c.cleanupAt = None /\ c.failedAt = j.phase
  BY BlockedIsLegible
<1>. HIDE DEF c
<1>2. c.phase \notin PhasesOf(NormalPhases) \cup PhasesOf(RollbackPhases)
  BY <1>1, NormalPlaces, RollbackPlaces
<1>3. Rank[j.phase] \in 1 .. 30
  BY OnNormal
<1>4. Outcome(o, c, h)
  BY <1>1, <1>2, <1>3 DEF Stage, Outcome, Untouched, Deployed, TakenBack, Ahead, Back
<1>5. Progress(o, c, h)
  BY <1>1, <1>2 DEF Progress, UnderWay, Ahead, Back
<1>6. QED
  BY <1>4, <1>5 DEF Stage, c

\* Turning to the cleanup keeps the stage.
LEMMA StageCleanedUp ==
  ASSUME NEW o, NEW h, NEW j \in JournalType, j.phase \in PhasesOf(NormalPhases),
         RelationsValid(j), Stage(o, j, h), Rank[j.phase] \in 8 .. 16
  PROVE  Stage(o, CleanedUp(j), h)
<1>. DEFINE c == CleanedUp(j)
<1>1. c.phase = "PRE_SWAP_CLEANUP_INTENT"
  BY CleanedUpIsLegible
<1>. HIDE DEF c
<1>2. c.phase \notin PhasesOf(NormalPhases) \cup PhasesOf(RollbackPhases)
  BY <1>1, NormalPlaces, RollbackPlaces
<1>3. Outcome(o, c, h)
  BY <1>1, <1>2 DEF Outcome, Untouched, Deployed, TakenBack, Ahead, Back
<1>4. Progress(o, c, h)
  BY <1>1, <1>2 DEF Stage, Progress, UnderWay, Ahead, Back
<1>5. QED
  BY <1>3, <1>4 DEF Stage, c

\* Turning back after the swap keeps the stage.
LEMMA StageRolledBack ==
  ASSUME NEW o, NEW h, NEW j \in JournalType, j.phase \in PhasesOf(NormalPhases),
         RelationsValid(j), Stage(o, j, h), Rank[j.phase] \in 18 .. 28
  PROVE  Stage(o, RolledBack(j), h)
<1>. DEFINE c == RolledBack(j)
<1>1. c.phase = "ROLLBACK_STOP_CANDIDATE_INTENT" /\ c.got = j.got
  BY RolledBackIsLegible
<1>. HIDE DEF c
<1>2. /\ c.phase \notin PhasesOf(NormalPhases) /\ c.phase \in PhasesOf(RollbackPhases)
      /\ Rank[c.phase] = 1
  BY <1>1, SomePhases, OnRollback, Ranks
<1>3. Outcome(o, c, h)
  BY <1>1, <1>2 DEF Outcome, Untouched, Deployed, TakenBack, Ahead, Back
<1>4. Progress(o, c, h)
  BY <1>1, <1>2 DEF Stage, Progress, UnderWay, Ahead, Back
<1>5. QED
  BY <1>3, <1>4 DEF Stage, c

\* A rollback that failed promises nothing.
LEMMA StageFailed ==
  ASSUME NEW o, NEW h, NEW c, c.phase = "ROLLBACK_FAILED"
  PROVE  Stage(o, c, h)
<1>1. c.phase \notin PhasesOf(NormalPhases) \cup PhasesOf(RollbackPhases)
  BY NormalPlaces, RollbackPlaces
<1>2. QED
  BY <1>1 DEF Stage, Outcome, Progress, Untouched, Deployed, TakenBack, UnderWay, Ahead, Back

\* A rejected answer, whatever it leads to.
LEMMA RejectedIsFine ==
  ASSUME NEW o, NEW h, NEW j \in JournalType, j.phase \in Call \ {"PRE_SWAP_CLEANUP_INTENT"},
         RelationsValid(j), Stage(o, j, h)
  PROVE  /\ Rejected(j) \in JournalType /\ RelationsValid(Rejected(j)) /\ Stage(o, Rejected(j), h)
         /\ Rejected(j).phase # "NONE"
<1>1. CASE j.phase \in PhasesOf(RollbackPhases)
  <2>1. Rejected(j) = RollbackFailed(j)
    BY <1>1, CallPlaces DEF Rejected
  <2>2. QED
    BY <1>1, <2>1, RollbackFailedIsLegible, StageFailed
<1>2. CASE j.phase \in PhasesOf(NormalPhases)
  <2>1. j.phase \notin RollbackCalls
    BY <1>2, CallPlaces, OnNormal
  <2>2. Rank[j.phase] \in {1, 3, 7, 9, 11, 14, 16, 18, 20, 22, 26, 28}
    BY <1>2, CallPlaces, OnNormal, OnRollback
  <2>3. CASE Rank[j.phase] <= 7
    <3>1. Rejected(j) = Blocked(j)
      BY <2>1, <2>3, Ranks DEF Rejected
    <3>2. QED
      BY <1>2, <2>3, <3>1, BlockedIsLegible, StageBlocked
  <2>4. CASE Rank[j.phase] \in 8 .. 16
    <3>1. Rejected(j) = CleanedUp(j)
      BY <2>1, <2>4, Ranks DEF Rejected
    <3>2. QED
      BY <1>2, <2>4, <3>1, CleanedUpIsLegible, StageCleanedUp
  <2>5. CASE Rank[j.phase] \in 18 .. 28
    <3>1. Rejected(j) = RolledBack(j)
      BY <2>1, <2>5, Ranks DEF Rejected
    <3>2. Rank[j.phase] > 17
      BY <2>5
    <3>3. QED
      BY <1>2, <2>5, <3>1, <3>2, RolledBackIsLegible, StageRolledBack
  <2>6. QED
    BY <2>2, <2>3, <2>4, <2>5
<1>3. QED
  BY <1>1, <1>2, CallPlaces

----------------------------------------------------------------------------
(* What an adapter may do at each place.                                   *)

\* The stage of a release at place n of the normal track, and of the rollback.
NormalStage(o, n, entered, snapshot, h) ==
  /\ n <= 7 => h.last # o
  /\ 8 <= n /\ n <= 28 => h.fence = o
  /\ 8 <= n /\ n <= 16 => h.build = From(o) /\ h.schema = From(o) /\ h.pointer = entered
  /\ 15 <= n /\ n <= 28 => h.rows = snapshot
  /\ 17 <= n /\ n <= 28 => h.build = To(o)
  /\ 23 <= n /\ n <= 28 => h.schema = To(o)
  /\ 27 <= n /\ n <= 28 => h.bridges = To(o)
  /\ 29 <= n => h.fence # o /\ (h.last = o => ServesIn(h, To(o)))

RollbackStage(o, n, snapshot, h) ==
  /\ n <= 11 => h.fence = o /\ h.rows = snapshot
  /\ 3 <= n /\ n <= 11 => h.build = From(o) /\ h.schema = From(o)
  /\ 10 <= n /\ n <= 11 => h.bridges = From(o)
  /\ 12 <= n => h.fence # o /\ (h.last = o => ServesIn(h, From(o)))

\* The stage of a release on the normal track, by its place.
LEMMA StageAhead ==
  ASSUME NEW o, NEW h, NEW e, e.phase \in PhasesOf(NormalPhases)
  PROVE  Stage(o, e, h) <=>
           NormalStage(o, Rank[e.phase], e.got["ENTER_MAINTENANCE_INTENT"],
                       e.got["FINAL_SNAPSHOT_INTENT"], h)
<1>1. /\ e.phase \notin {"NONE", "BLOCKED", "PRE_SWAP_CLEANUP_INTENT", "PRE_SWAP_CLEANUP_CONFIRMED"}
      /\ e.phase \notin PhasesOf(RollbackPhases) /\ Rank[e.phase] \in 1 .. 30
  BY NormalPlaces, OnNormal
<1>2. QED
  BY <1>1 DEF Stage, Outcome, Progress, Untouched, Deployed, TakenBack, UnderWay, Ahead, Back,
              NormalStage

\* The stage of a release on the rollback track, by its place.
LEMMA StageBack ==
  ASSUME NEW o, NEW h, NEW e, e.phase \in PhasesOf(RollbackPhases)
  PROVE  Stage(o, e, h) <=>
           RollbackStage(o, Rank[e.phase], e.got["FINAL_SNAPSHOT_INTENT"], h)
<1>1. /\ e.phase \notin {"NONE", "BLOCKED", "PRE_SWAP_CLEANUP_INTENT", "PRE_SWAP_CLEANUP_CONFIRMED"}
      /\ e.phase \notin PhasesOf(NormalPhases) /\ Rank[e.phase] \in 1 .. 13
  BY RollbackPlaces, OnRollback
<1>2. QED
  BY <1>1 DEF Stage, Outcome, Progress, Untouched, Deployed, TakenBack, UnderWay, Ahead, Back,
              RollbackStage

\* The stage one place further on the normal track.
LEMMA AnswerAhead ==
  ASSUME NEW o, NEW h, NEW j \in JournalType, NEW v \in Nat,
         j.phase \in PhasesOf(NormalPhases), Rank[j.phase] < 30,
         NormalStage(o, Rank[j.phase] + 1,
                     IF j.phase = "ENTER_MAINTENANCE_INTENT" THEN v
                     ELSE j.got["ENTER_MAINTENANCE_INTENT"],
                     IF j.phase = "FINAL_SNAPSHOT_INTENT" THEN v
                     ELSE j.got["FINAL_SNAPSHOT_INTENT"], h)
  PROVE  Stage(o, Confirmed(j, v), h)
<1>. DEFINE c == Confirmed(j, v)
<1>1. c.phase \in PhasesOf(NormalPhases) /\ Rank[c.phase] = Rank[j.phase] + 1
  BY ConfirmedRow, AfterOnTrack DEF GoesOn
<1>2. \A r \in Receipt : c.got[r] = IF r = j.phase THEN v ELSE j.got[r]
  BY ConfirmedRow, AfterOnTrack DEF GoesOn
<1>. HIDE DEF c
<1>3. Stage(o, c, h)
  BY <1>1, <1>2, StageAhead, ReceiptNames
<1>4. QED
  BY <1>3 DEF c

\* The stage one place further on the rollback track.
LEMMA AnswerBack ==
  ASSUME NEW o, NEW h, NEW j \in JournalType, NEW v \in Nat,
         j.phase \in PhasesOf(RollbackPhases), Rank[j.phase] < 13,
         RollbackStage(o, Rank[j.phase] + 1, j.got["FINAL_SNAPSHOT_INTENT"], h)
  PROVE  Stage(o, Confirmed(j, v), h)
<1>. DEFINE c == Confirmed(j, v)
<1>1. c.phase \in PhasesOf(RollbackPhases) /\ Rank[c.phase] = Rank[j.phase] + 1
  BY ConfirmedRow, AfterOnTrack DEF GoesOn
<1>2. \A r \in Receipt : c.got[r] = IF r = j.phase THEN v ELSE j.got[r]
  BY ConfirmedRow, AfterOnTrack DEF GoesOn
<1>3. "FINAL_SNAPSHOT_INTENT" # j.phase
  BY OnRollback, NormalTable DEF PhasesOf
<1>. HIDE DEF c
<1>4. Stage(o, c, h)
  BY <1>1, <1>2, <1>3, StageBack, ReceiptNames
<1>5. QED
  BY <1>4 DEF c

\* What an adapter does is the business of its release only.
Aside(o, h, g) ==
  \/ g = h
  \/ h.fence \in {o, None} /\ g.fence \in {o, None} /\ g.last = o

\* What an adapter does for one release leaves the stage of another alone.
LEMMA Bystander ==
  ASSUME NEW o \in Release, NEW b \in Release, b # o, NEW e, NEW h, NEW g,
         Aside(o, h, g), Fenced(h), Stage(b, e, h)
  PROVE  Stage(b, e, g)
<1>1. CASE g = h
  BY <1>1
<1>2. CASE h.fence \in {o, None} /\ g.fence \in {o, None} /\ g.last = o
  <2>1. h.fence # b /\ g.fence # b /\ g.last # b
    BY <1>2, ReleaseConstants
  <2>2. Outcome(b, e, g)
    BY <2>1 DEF Stage, Outcome
  <2>3. ~UnderWay(e)
    BY <2>1 DEF Stage, Progress
  <2>4. e.phase \in PhasesOf(NormalPhases) => Rank[e.phase] \in 1 .. 30
    BY OnNormal
  <2>5. e.phase \in PhasesOf(RollbackPhases) => Rank[e.phase] \in 1 .. 13
    BY OnRollback
  <2>6. Progress(b, e, g)
    BY <2>3, <2>4, <2>5 DEF Progress, UnderWay, Ahead, Back
  <2>7. QED
    BY <2>2, <2>6 DEF Stage
<1>3. QED
  BY <1>1, <1>2 DEF Aside

----------------------------------------------------------------------------
(* The adapters, one by one.                                               *)

Asked(o) ==
  /\ o \in Release /\ journal[o] \in JournalType /\ hub \in HubType
  /\ RelationsValid(journal[o]) /\ Stage(o, journal[o], hub) /\ Fenced(hub)

\* What an adapter does keeps what has to be kept, whether it is confirmed or,
\* where that may happen, rejected.
Answers(o, d) ==
  /\ d.receipt \in Nat /\ d.hub \in HubType /\ d.hub.rows = hub.rows
  /\ Fitting(journal[o], d.receipt)
  /\ Fenced(d.hub) /\ Aside(o, hub, d.hub)
  /\ Stage(o, Confirmed(journal[o], d.receipt), d.hub)
  /\ journal[o].phase \in MayLeaveTraces => Stage(o, journal[o], d.hub)

\* Counting on.
LEMMA Counts ==
  ASSUME hub \in HubType
  PROVE  hub.pointer + 1 \in Nat /\ hub.instance + 1 \in Nat
BY DEF HubType

\* What is known of a release that calls from the normal track.
LEMMA AskedAhead ==
  ASSUME NEW o, Asked(o), NEW n \in 1 .. 29, journal[o].phase = NormalPhases[n]
  PROVE  /\ journal[o].phase \in PhasesOf(NormalPhases) /\ Rank[journal[o].phase] = n
         /\ NormalStage(o, n, journal[o].got["ENTER_MAINTENANCE_INTENT"],
                        journal[o].got["FINAL_SNAPSHOT_INTENT"], hub)
         /\ LegibleNormal(journal[o], n)
BY RankTable, StageAhead, NormalJournal DEF Asked

\* What is known of a release that calls from the rollback track.
LEMMA AskedBack ==
  ASSUME NEW o, Asked(o), NEW n \in 1 .. 12, journal[o].phase = RollbackPhases[n]
  PROVE  /\ journal[o].phase \in PhasesOf(RollbackPhases) /\ Rank[journal[o].phase] = n
         /\ RollbackStage(o, n, journal[o].got["FINAL_SNAPSHOT_INTENT"], hub)
         /\ LegibleRollback(journal[o], n)
BY RankTable, StageBack, RollbackJournal DEF Asked

\* ProbeCandidate does what the manager verifies, and keeps what has to be kept.
LEMMA ProbeCandidateAnswers ==
  ASSUME NEW o, Asked(o), journal[o].phase = "CANDIDATE_PROBE_INTENT", ProbeCandidate(o).can
  PROVE  Answers(o, ProbeCandidate(o))
<1>. DEFINE d == ProbeCandidate(o)
<1>1. /\ journal[o].phase \in PhasesOf(NormalPhases) /\ Rank[journal[o].phase] = 1
      /\ NormalStage(o, 1, journal[o].got["ENTER_MAINTENANCE_INTENT"],
                     journal[o].got["FINAL_SNAPSHOT_INTENT"], hub)
  BY AskedAhead, NormalTable
<1>2. d.receipt \in Nat /\ d.hub \in HubType /\ d.hub.rows = hub.rows
  BY ReleaseConstants, Counts DEF Asked, ProbeCandidate, HubType
<1>3. Fitting(journal[o], d.receipt)
  BY <1>1 DEF Asked, Fitting, NormalStage, ProbeCandidate
<1>4. Fenced(d.hub) /\ Aside(o, hub, d.hub)
  BY <1>1, ReleaseConstants
     DEF Asked, Fenced, Aside, ServesIn, NormalStage, HubType, ProbeCandidate
<1>5. NormalStage(o, 2, journal[o].got["ENTER_MAINTENANCE_INTENT"],
                  journal[o].got["FINAL_SNAPSHOT_INTENT"], d.hub)
  BY <1>1, ReleaseConstants DEF Asked, Fenced, ServesIn, NormalStage, HubType, ProbeCandidate
<1>. HIDE DEF d
<1>6. Stage(o, Confirmed(journal[o], d.receipt), d.hub)
  BY <1>1, <1>2, <1>5, AnswerAhead DEF Asked
<1>7. Answers(o, d)
  BY <1>2, <1>3, <1>4, <1>6 DEF Answers, MayLeaveTraces
<1>8. QED
  BY <1>7 DEF d

\* PreflightSnapshot does what the manager verifies, and keeps what has to be kept.
LEMMA PreflightSnapshotAnswers ==
  ASSUME NEW o, Asked(o), journal[o].phase = "PREFLIGHT_SNAPSHOT_INTENT",
         PreflightSnapshot(o).can
  PROVE  Answers(o, PreflightSnapshot(o))
<1>. DEFINE d == PreflightSnapshot(o)
<1>1. /\ journal[o].phase \in PhasesOf(NormalPhases) /\ Rank[journal[o].phase] = 3
      /\ NormalStage(o, 3, journal[o].got["ENTER_MAINTENANCE_INTENT"],
                     journal[o].got["FINAL_SNAPSHOT_INTENT"], hub)
  BY AskedAhead, NormalTable
<1>2. d.receipt \in Nat /\ d.hub \in HubType /\ d.hub.rows = hub.rows
  BY ReleaseConstants, Counts DEF Asked, PreflightSnapshot, HubType
<1>3. Fitting(journal[o], d.receipt)
  BY <1>1 DEF Asked, Fitting, NormalStage, PreflightSnapshot
<1>4. Fenced(d.hub) /\ Aside(o, hub, d.hub)
  BY <1>1, ReleaseConstants
     DEF Asked, Fenced, Aside, ServesIn, NormalStage, HubType, PreflightSnapshot
<1>5. NormalStage(o, 4, journal[o].got["ENTER_MAINTENANCE_INTENT"],
                  journal[o].got["FINAL_SNAPSHOT_INTENT"], d.hub)
  BY <1>1, ReleaseConstants DEF Asked, Fenced, ServesIn, NormalStage, HubType, PreflightSnapshot
<1>. HIDE DEF d
<1>6. Stage(o, Confirmed(journal[o], d.receipt), d.hub)
  BY <1>1, <1>2, <1>5, AnswerAhead DEF Asked
<1>7. Answers(o, d)
  BY <1>2, <1>3, <1>4, <1>6 DEF Answers, MayLeaveTraces
<1>8. QED
  BY <1>7 DEF d

\* EnterMaintenance does what the manager verifies, and keeps what has to be kept.
LEMMA EnterMaintenanceAnswers ==
  ASSUME NEW o, Asked(o), journal[o].phase = "ENTER_MAINTENANCE_INTENT", EnterMaintenance(o).can
  PROVE  Answers(o, EnterMaintenance(o))
<1>. DEFINE d == EnterMaintenance(o)
<1>1. /\ journal[o].phase \in PhasesOf(NormalPhases) /\ Rank[journal[o].phase] = 7
      /\ NormalStage(o, 7, journal[o].got["ENTER_MAINTENANCE_INTENT"],
                     journal[o].got["FINAL_SNAPSHOT_INTENT"], hub)
  BY AskedAhead, NormalTable
<1>2. d.receipt \in Nat /\ d.hub \in HubType /\ d.hub.rows = hub.rows
  BY ReleaseConstants, Counts DEF Asked, EnterMaintenance, Running, HubType
<1>3. Fitting(journal[o], d.receipt)
  BY <1>1 DEF Asked, Fitting, NormalStage, EnterMaintenance, Running
<1>4. /\ d.hub.build = hub.build /\ d.hub.pointer = hub.pointer /\ d.hub.state = hub.state
      /\ d.hub.runtime = hub.runtime /\ d.hub.mode = "MAINTENANCE"
      /\ d.hub.instance = hub.instance /\ d.hub.fence = o /\ d.hub.last = o
      /\ d.hub.rows = hub.rows /\ d.hub.schema = hub.schema /\ d.hub.bridges = hub.bridges
      /\ hub.state = "RUNNING" /\ hub.runtime = From(o) /\ hub.mode = "NORMAL"
      /\ d.receipt = hub.pointer
  BY DEF Asked, HubType, EnterMaintenance, Running
<1>5. Fenced(d.hub) /\ Aside(o, hub, d.hub)
  BY <1>4, <1>1, ReleaseConstants DEF Asked, Fenced, Aside, ServesIn, NormalStage
<1>6. NormalStage(o, 8, d.receipt,
                  journal[o].got["FINAL_SNAPSHOT_INTENT"], d.hub)
  BY <1>4, <1>1, ReleaseConstants DEF Asked, Fenced, ServesIn, NormalStage
<1>. HIDE DEF d
<1>7. Stage(o, Confirmed(journal[o], d.receipt), d.hub)
  BY <1>1, <1>2, <1>6, AnswerAhead DEF Asked
<1>8. Answers(o, d)
  BY <1>2, <1>3, <1>5, <1>7 DEF Answers, MayLeaveTraces
<1>9. QED
  BY <1>8 DEF d

\* PauseSupervisors does what the manager verifies, and keeps what has to be kept.
LEMMA PauseSupervisorsAnswers ==
  ASSUME NEW o, Asked(o), journal[o].phase = "PAUSE_SUPERVISORS_INTENT", PauseSupervisors(o).can
  PROVE  Answers(o, PauseSupervisors(o))
<1>. DEFINE d == PauseSupervisors(o)
<1>1. /\ journal[o].phase \in PhasesOf(NormalPhases) /\ Rank[journal[o].phase] = 9
      /\ NormalStage(o, 9, journal[o].got["ENTER_MAINTENANCE_INTENT"],
                     journal[o].got["FINAL_SNAPSHOT_INTENT"], hub)
  BY AskedAhead, NormalTable
<1>2. d.receipt \in Nat /\ d.hub \in HubType /\ d.hub.rows = hub.rows
  BY ReleaseConstants, Counts DEF Asked, PauseSupervisors, HubType
<1>3. Fitting(journal[o], d.receipt)
  BY <1>1 DEF Asked, Fitting, NormalStage, PauseSupervisors
<1>4. Fenced(d.hub) /\ Aside(o, hub, d.hub)
  BY <1>1, ReleaseConstants
     DEF Asked, Fenced, Aside, ServesIn, NormalStage, HubType, PauseSupervisors
<1>5. NormalStage(o, 10, journal[o].got["ENTER_MAINTENANCE_INTENT"],
                  journal[o].got["FINAL_SNAPSHOT_INTENT"], d.hub)
  BY <1>1, ReleaseConstants DEF Asked, Fenced, ServesIn, NormalStage, HubType, PauseSupervisors
<1>6. NormalStage(o, 9, journal[o].got["ENTER_MAINTENANCE_INTENT"],
                  journal[o].got["FINAL_SNAPSHOT_INTENT"], d.hub)
  BY <1>1 DEF Asked, HubType, NormalStage, PauseSupervisors
<1>. HIDE DEF d
<1>7. Stage(o, journal[o], d.hub)
  BY <1>1, <1>6, StageAhead
<1>8. Stage(o, Confirmed(journal[o], d.receipt), d.hub)
  BY <1>1, <1>2, <1>5, AnswerAhead DEF Asked
<1>9. Answers(o, d)
  BY <1>2, <1>3, <1>4, <1>7, <1>8 DEF Answers
<1>10. QED
  BY <1>9 DEF d

\* StopCurrent does what the manager verifies, and keeps what has to be kept.
LEMMA StopCurrentAnswers ==
  ASSUME NEW o, Asked(o), journal[o].phase = "STOP_INTENT", StopCurrent(o).can
  PROVE  Answers(o, StopCurrent(o))
<1>. DEFINE d == StopCurrent(o)
<1>1. /\ journal[o].phase \in PhasesOf(NormalPhases) /\ Rank[journal[o].phase] = 11
      /\ NormalStage(o, 11, journal[o].got["ENTER_MAINTENANCE_INTENT"],
                     journal[o].got["FINAL_SNAPSHOT_INTENT"], hub)
  BY AskedAhead, NormalTable
<1>2. d.receipt \in Nat /\ d.hub \in HubType /\ d.hub.rows = hub.rows
  BY ReleaseConstants, Counts DEF Asked, StopCurrent, Running, HubType
<1>3. Fitting(journal[o], d.receipt)
  BY <1>1 DEF Asked, Fitting, NormalStage, StopCurrent, Running
<1>4. Fenced(d.hub) /\ Aside(o, hub, d.hub)
  BY <1>1, ReleaseConstants
     DEF Asked, Fenced, Aside, ServesIn, NormalStage, HubType, StopCurrent, Running
<1>5. NormalStage(o, 12, journal[o].got["ENTER_MAINTENANCE_INTENT"],
                  journal[o].got["FINAL_SNAPSHOT_INTENT"], d.hub)
  BY <1>1, ReleaseConstants
     DEF Asked, Fenced, ServesIn, NormalStage, HubType, StopCurrent, Running
<1>6. NormalStage(o, 11, journal[o].got["ENTER_MAINTENANCE_INTENT"],
                  journal[o].got["FINAL_SNAPSHOT_INTENT"], d.hub)
  BY <1>1 DEF Asked, HubType, NormalStage, StopCurrent, Running
<1>. HIDE DEF d
<1>7. Stage(o, journal[o], d.hub)
  BY <1>1, <1>6, StageAhead
<1>8. Stage(o, Confirmed(journal[o], d.receipt), d.hub)
  BY <1>1, <1>2, <1>5, AnswerAhead DEF Asked
<1>9. Answers(o, d)
  BY <1>2, <1>3, <1>4, <1>7, <1>8 DEF Answers
<1>10. QED
  BY <1>9 DEF d

\* FinalSnapshot does what the manager verifies, and keeps what has to be kept.
LEMMA FinalSnapshotAnswers ==
  ASSUME NEW o, Asked(o), journal[o].phase = "FINAL_SNAPSHOT_INTENT", FinalSnapshot(o).can
  PROVE  Answers(o, FinalSnapshot(o))
<1>. DEFINE d == FinalSnapshot(o)
<1>1. /\ journal[o].phase \in PhasesOf(NormalPhases) /\ Rank[journal[o].phase] = 14
      /\ NormalStage(o, 14, journal[o].got["ENTER_MAINTENANCE_INTENT"],
                     journal[o].got["FINAL_SNAPSHOT_INTENT"], hub)
  BY AskedAhead, NormalTable
<1>2. d.receipt \in Nat /\ d.hub \in HubType /\ d.hub.rows = hub.rows
  BY ReleaseConstants, Counts DEF Asked, FinalSnapshot, HubType
<1>3. Fitting(journal[o], d.receipt)
  BY <1>1 DEF Asked, Fitting, NormalStage, FinalSnapshot
<1>4. Fenced(d.hub) /\ Aside(o, hub, d.hub)
  BY <1>1, ReleaseConstants
     DEF Asked, Fenced, Aside, ServesIn, NormalStage, HubType, FinalSnapshot
<1>5. NormalStage(o, 15, journal[o].got["ENTER_MAINTENANCE_INTENT"],
                  d.receipt, d.hub)
  BY <1>1, ReleaseConstants DEF Asked, Fenced, ServesIn, NormalStage, HubType, FinalSnapshot
<1>. HIDE DEF d
<1>6. Stage(o, Confirmed(journal[o], d.receipt), d.hub)
  BY <1>1, <1>2, <1>5, AnswerAhead DEF Asked
<1>7. Answers(o, d)
  BY <1>2, <1>3, <1>4, <1>6 DEF Answers, MayLeaveTraces
<1>8. QED
  BY <1>7 DEF d

\* AtomicSwap does what the manager verifies, and keeps what has to be kept.
LEMMA AtomicSwapAnswers ==
  ASSUME NEW o, Asked(o), journal[o].phase = "SWAP_INTENT", AtomicSwap(o).can
  PROVE  Answers(o, AtomicSwap(o))
<1>. DEFINE d == AtomicSwap(o)
<1>1. /\ journal[o].phase \in PhasesOf(NormalPhases) /\ Rank[journal[o].phase] = 16
      /\ NormalStage(o, 16, journal[o].got["ENTER_MAINTENANCE_INTENT"],
                     journal[o].got["FINAL_SNAPSHOT_INTENT"], hub)
  BY AskedAhead, NormalTable
<1>2. d.receipt \in Nat /\ d.hub \in HubType /\ d.hub.rows = hub.rows
  BY ReleaseConstants, Counts DEF Asked, AtomicSwap, HubType
<1>3. Fitting(journal[o], d.receipt)
  BY <1>1 DEF Asked, Fitting, NormalStage, AtomicSwap
<1>4. /\ d.hub.build = To(o) /\ d.hub.pointer = hub.pointer + 1 /\ d.hub.state = hub.state
      /\ d.hub.runtime = hub.runtime /\ d.hub.mode = hub.mode
      /\ d.hub.instance = hub.instance /\ d.hub.fence = hub.fence /\ d.hub.last = hub.last
      /\ d.hub.rows = hub.rows /\ d.hub.schema = hub.schema /\ d.hub.bridges = hub.bridges
  BY DEF Asked, HubType, AtomicSwap
<1>5. Fenced(d.hub) /\ Aside(o, hub, d.hub)
  BY <1>4, <1>1, ReleaseConstants DEF Asked, Fenced, Aside, ServesIn, NormalStage
<1>6. NormalStage(o, 17, journal[o].got["ENTER_MAINTENANCE_INTENT"],
                  journal[o].got["FINAL_SNAPSHOT_INTENT"], d.hub)
  BY <1>4, <1>1, ReleaseConstants DEF Asked, Fenced, ServesIn, NormalStage
<1>. HIDE DEF d
<1>7. Stage(o, Confirmed(journal[o], d.receipt), d.hub)
  BY <1>1, <1>2, <1>6, AnswerAhead DEF Asked
<1>8. Answers(o, d)
  BY <1>2, <1>3, <1>5, <1>7 DEF Answers, MayLeaveTraces
<1>9. QED
  BY <1>8 DEF d

\* StartCandidate does what the manager verifies, and keeps what has to be kept.
LEMMA StartCandidateAnswers ==
  ASSUME NEW o, Asked(o), journal[o].phase = "START_CANDIDATE_MAINTENANCE_INTENT",
         StartCandidate(o).can
  PROVE  Answers(o, StartCandidate(o))
<1>. DEFINE d == StartCandidate(o)
<1>1. /\ journal[o].phase \in PhasesOf(NormalPhases) /\ Rank[journal[o].phase] = 18
      /\ NormalStage(o, 18, journal[o].got["ENTER_MAINTENANCE_INTENT"],
                     journal[o].got["FINAL_SNAPSHOT_INTENT"], hub)
  BY AskedAhead, NormalTable
<1>2. d.receipt \in Nat /\ d.hub \in HubType /\ d.hub.rows = hub.rows
  BY ReleaseConstants, Counts DEF Asked, StartCandidate, Started, HubType
<1>3. Fitting(journal[o], d.receipt)
  BY <1>1 DEF Asked, Fitting, NormalStage, StartCandidate, Started
<1>4. /\ d.hub.build = hub.build /\ d.hub.pointer = hub.pointer /\ d.hub.state = "RUNNING"
      /\ d.hub.runtime = To(o) /\ d.hub.mode = "MAINTENANCE"
      /\ d.hub.instance = hub.instance + 1 /\ d.hub.fence = hub.fence
      /\ d.hub.last = hub.last /\ d.hub.rows = hub.rows /\ d.hub.schema = hub.schema
      /\ d.hub.bridges = hub.bridges
  BY DEF Asked, HubType, StartCandidate, Started
<1>5. Fenced(d.hub) /\ Aside(o, hub, d.hub)
  BY <1>4, <1>1, ReleaseConstants DEF Asked, Fenced, Aside, ServesIn, NormalStage
<1>6. NormalStage(o, 19, journal[o].got["ENTER_MAINTENANCE_INTENT"],
                  journal[o].got["FINAL_SNAPSHOT_INTENT"], d.hub)
  BY <1>4, <1>1, ReleaseConstants DEF Asked, Fenced, ServesIn, NormalStage
<1>7. NormalStage(o, 18, journal[o].got["ENTER_MAINTENANCE_INTENT"],
                  journal[o].got["FINAL_SNAPSHOT_INTENT"], d.hub)
  BY <1>1 DEF Asked, HubType, NormalStage, StartCandidate, Started
<1>. HIDE DEF d
<1>8. Stage(o, journal[o], d.hub)
  BY <1>1, <1>7, StageAhead
<1>9. Stage(o, Confirmed(journal[o], d.receipt), d.hub)
  BY <1>1, <1>2, <1>6, AnswerAhead DEF Asked
<1>10. Answers(o, d)
  BY <1>2, <1>3, <1>5, <1>8, <1>9 DEF Answers
<1>11. QED
  BY <1>10 DEF d

\* VerifyCandidate does what the manager verifies, and keeps what has to be kept.
LEMMA VerifyCandidateAnswers ==
  ASSUME NEW o, Asked(o), journal[o].phase = "VERIFY_CANDIDATE_MAINTENANCE_INTENT",
         VerifyCandidate(o).can
  PROVE  Answers(o, VerifyCandidate(o))
<1>. DEFINE d == VerifyCandidate(o)
<1>1. /\ journal[o].phase \in PhasesOf(NormalPhases) /\ Rank[journal[o].phase] = 20
      /\ NormalStage(o, 20, journal[o].got["ENTER_MAINTENANCE_INTENT"],
                     journal[o].got["FINAL_SNAPSHOT_INTENT"], hub)
  BY AskedAhead, NormalTable
<1>2. d.receipt \in Nat /\ d.hub \in HubType /\ d.hub.rows = hub.rows
  BY ReleaseConstants, Counts DEF Asked, VerifyCandidate, Running, HubType
<1>3. Fitting(journal[o], d.receipt)
  BY <1>1 DEF Asked, Fitting, NormalStage, VerifyCandidate, Running
<1>4. Fenced(d.hub) /\ Aside(o, hub, d.hub)
  BY <1>1, ReleaseConstants
     DEF Asked, Fenced, Aside, ServesIn, NormalStage, HubType, VerifyCandidate, Running
<1>5. NormalStage(o, 21, journal[o].got["ENTER_MAINTENANCE_INTENT"],
                  journal[o].got["FINAL_SNAPSHOT_INTENT"], d.hub)
  BY <1>1, ReleaseConstants
     DEF Asked, Fenced, ServesIn, NormalStage, HubType, VerifyCandidate, Running
<1>. HIDE DEF d
<1>6. Stage(o, Confirmed(journal[o], d.receipt), d.hub)
  BY <1>1, <1>2, <1>5, AnswerAhead DEF Asked
<1>7. Answers(o, d)
  BY <1>2, <1>3, <1>4, <1>6 DEF Answers, MayLeaveTraces
<1>8. QED
  BY <1>7 DEF d

\* MigrateCandidate does what the manager verifies, and keeps what has to be kept.
LEMMA MigrateCandidateAnswers ==
  ASSUME NEW o, Asked(o), journal[o].phase = "MIGRATE_CANDIDATE_INTENT", MigrateCandidate(o).can
  PROVE  Answers(o, MigrateCandidate(o))
<1>. DEFINE d == MigrateCandidate(o)
<1>1. /\ journal[o].phase \in PhasesOf(NormalPhases) /\ Rank[journal[o].phase] = 22
      /\ NormalStage(o, 22, journal[o].got["ENTER_MAINTENANCE_INTENT"],
                     journal[o].got["FINAL_SNAPSHOT_INTENT"], hub)
  BY AskedAhead, NormalTable
<1>2. d.receipt \in Nat /\ d.hub \in HubType /\ d.hub.rows = hub.rows
  BY ReleaseConstants, Counts DEF Asked, MigrateCandidate, Running, HubType
<1>3. Fitting(journal[o], d.receipt)
  BY <1>1 DEF Asked, Fitting, NormalStage, MigrateCandidate, Running
<1>4. Fenced(d.hub) /\ Aside(o, hub, d.hub)
  BY <1>1, ReleaseConstants
     DEF Asked, Fenced, Aside, ServesIn, NormalStage, HubType, MigrateCandidate, Running
<1>5. NormalStage(o, 23, journal[o].got["ENTER_MAINTENANCE_INTENT"],
                  journal[o].got["FINAL_SNAPSHOT_INTENT"], d.hub)
  BY <1>1, ReleaseConstants
     DEF Asked, Fenced, ServesIn, NormalStage, HubType, MigrateCandidate, Running
<1>6. NormalStage(o, 22, journal[o].got["ENTER_MAINTENANCE_INTENT"],
                  journal[o].got["FINAL_SNAPSHOT_INTENT"], d.hub)
  BY <1>1 DEF Asked, HubType, NormalStage, MigrateCandidate, Running
<1>. HIDE DEF d
<1>7. Stage(o, journal[o], d.hub)
  BY <1>1, <1>6, StageAhead
<1>8. Stage(o, Confirmed(journal[o], d.receipt), d.hub)
  BY <1>1, <1>2, <1>5, AnswerAhead DEF Asked
<1>9. Answers(o, d)
  BY <1>2, <1>3, <1>4, <1>7, <1>8 DEF Answers
<1>10. QED
  BY <1>9 DEF d

\* ResumeBridges does what the manager verifies, and keeps what has to be kept.
LEMMA ResumeBridgesAnswers ==
  ASSUME NEW o, Asked(o), journal[o].phase = "RESUME_BRIDGES_INTENT", ResumeBridges(o).can
  PROVE  Answers(o, ResumeBridges(o))
<1>. DEFINE d == ResumeBridges(o)
<1>1. /\ journal[o].phase \in PhasesOf(NormalPhases) /\ Rank[journal[o].phase] = 26
      /\ NormalStage(o, 26, journal[o].got["ENTER_MAINTENANCE_INTENT"],
                     journal[o].got["FINAL_SNAPSHOT_INTENT"], hub)
  BY AskedAhead, NormalTable
<1>2. d.receipt \in Nat /\ d.hub \in HubType /\ d.hub.rows = hub.rows
  BY ReleaseConstants, Counts DEF Asked, ResumeBridges, Running, HubType
<1>3. Fitting(journal[o], d.receipt)
  BY <1>1 DEF Asked, Fitting, NormalStage, ResumeBridges, Running
<1>4. Fenced(d.hub) /\ Aside(o, hub, d.hub)
  BY <1>1, ReleaseConstants
     DEF Asked, Fenced, Aside, ServesIn, NormalStage, HubType, ResumeBridges, Running
<1>5. NormalStage(o, 27, journal[o].got["ENTER_MAINTENANCE_INTENT"],
                  journal[o].got["FINAL_SNAPSHOT_INTENT"], d.hub)
  BY <1>1, ReleaseConstants
     DEF Asked, Fenced, ServesIn, NormalStage, HubType, ResumeBridges, Running
<1>6. NormalStage(o, 26, journal[o].got["ENTER_MAINTENANCE_INTENT"],
                  journal[o].got["FINAL_SNAPSHOT_INTENT"], d.hub)
  BY <1>1 DEF Asked, HubType, NormalStage, ResumeBridges, Running
<1>. HIDE DEF d
<1>7. Stage(o, journal[o], d.hub)
  BY <1>1, <1>6, StageAhead
<1>8. Stage(o, Confirmed(journal[o], d.receipt), d.hub)
  BY <1>1, <1>2, <1>5, AnswerAhead DEF Asked
<1>9. Answers(o, d)
  BY <1>2, <1>3, <1>4, <1>7, <1>8 DEF Answers
<1>10. QED
  BY <1>9 DEF d

\* CommitMaintenance does what the manager verifies, and keeps what has to be kept.
LEMMA CommitMaintenanceAnswers ==
  ASSUME NEW o, Asked(o), journal[o].phase = "COMMIT_MAINTENANCE_INTENT",
         CommitMaintenance(o).can
  PROVE  Answers(o, CommitMaintenance(o))
<1>. DEFINE d == CommitMaintenance(o)
<1>1. /\ journal[o].phase \in PhasesOf(NormalPhases) /\ Rank[journal[o].phase] = 28
      /\ NormalStage(o, 28, journal[o].got["ENTER_MAINTENANCE_INTENT"],
                     journal[o].got["FINAL_SNAPSHOT_INTENT"], hub)
  BY AskedAhead, NormalTable
<1>2. d.receipt \in Nat /\ d.hub \in HubType /\ d.hub.rows = hub.rows
  BY ReleaseConstants, Counts DEF Asked, CommitMaintenance, Opened, Running, HubType
<1>3. Fitting(journal[o], d.receipt)
  BY <1>1 DEF Asked, Fitting, NormalStage, CommitMaintenance, Opened, Running
<1>4. /\ d.hub.build = hub.build /\ d.hub.pointer = hub.pointer + 1
      /\ d.hub.state = hub.state /\ d.hub.runtime = hub.runtime /\ d.hub.mode = "NORMAL"
      /\ d.hub.instance = hub.instance /\ d.hub.fence = None /\ d.hub.last = hub.last
      /\ d.hub.rows = hub.rows /\ d.hub.schema = hub.schema /\ d.hub.bridges = hub.bridges
      /\ hub.state = "RUNNING" /\ hub.runtime = To(o)
  BY DEF Asked, HubType, CommitMaintenance, Opened, Running
<1>5. Fenced(d.hub) /\ Aside(o, hub, d.hub)
  BY <1>4, <1>1, ReleaseConstants DEF Asked, Fenced, Aside, ServesIn, NormalStage
<1>6. NormalStage(o, 29, journal[o].got["ENTER_MAINTENANCE_INTENT"],
                  journal[o].got["FINAL_SNAPSHOT_INTENT"], d.hub)
  BY <1>4, <1>1, ReleaseConstants DEF Asked, Fenced, ServesIn, NormalStage
<1>. HIDE DEF d
<1>7. Stage(o, Confirmed(journal[o], d.receipt), d.hub)
  BY <1>1, <1>2, <1>6, AnswerAhead DEF Asked
<1>8. Answers(o, d)
  BY <1>2, <1>3, <1>5, <1>7 DEF Answers, MayLeaveTraces
<1>9. QED
  BY <1>8 DEF d

\* StopCandidate does what the manager verifies, and keeps what has to be kept.
LEMMA StopCandidateAnswers ==
  ASSUME NEW o, Asked(o), journal[o].phase = "ROLLBACK_STOP_CANDIDATE_INTENT",
         StopCandidate(o).can
  PROVE  Answers(o, StopCandidate(o))
<1>. DEFINE d == StopCandidate(o)
<1>1. /\ journal[o].phase \in PhasesOf(RollbackPhases) /\ Rank[journal[o].phase] = 1
      /\ RollbackStage(o, 1, journal[o].got["FINAL_SNAPSHOT_INTENT"], hub)
  BY AskedBack, RollbackTable
<1>2. d.receipt \in Nat /\ d.hub \in HubType /\ d.hub.rows = hub.rows
  BY <1>1, ReleaseConstants, Counts DEF Asked, StopCandidate, HubType, RollbackStage
<1>3. Fitting(journal[o], d.receipt)
  BY <1>1 DEF Asked, Fitting, RollbackStage, StopCandidate
<1>4. Fenced(d.hub) /\ Aside(o, hub, d.hub)
  BY <1>1, ReleaseConstants
     DEF Asked, Fenced, Aside, ServesIn, RollbackStage, HubType, StopCandidate
<1>5. RollbackStage(o, 2, journal[o].got["FINAL_SNAPSHOT_INTENT"], d.hub)
  BY <1>1, ReleaseConstants DEF Asked, Fenced, ServesIn, RollbackStage, HubType, StopCandidate
<1>. HIDE DEF d
<1>6. Stage(o, Confirmed(journal[o], d.receipt), d.hub)
  BY <1>1, <1>2, <1>5, AnswerBack DEF Asked
<1>7. Answers(o, d)
  BY <1>2, <1>3, <1>4, <1>6 DEF Answers, MayLeaveTraces
<1>8. QED
  BY <1>7 DEF d

\* RestoreSnapshot does what the manager verifies, and keeps what has to be kept.
LEMMA RestoreSnapshotAnswers ==
  ASSUME NEW o, Asked(o), journal[o].phase = "ROLLBACK_RESTORE_INTENT", RestoreSnapshot(o).can
  PROVE  Answers(o, RestoreSnapshot(o))
<1>. DEFINE d == RestoreSnapshot(o)
<1>1. /\ journal[o].phase \in PhasesOf(RollbackPhases) /\ Rank[journal[o].phase] = 2
      /\ RollbackStage(o, 2, journal[o].got["FINAL_SNAPSHOT_INTENT"], hub)
  BY AskedBack, RollbackTable
<1>2. d.receipt \in Nat /\ d.hub \in HubType /\ d.hub.rows = hub.rows
  <2>1. RollbackRows(o) = hub.rows
    BY <1>1 DEF RollbackRows, RollbackStage
  <2>2. QED
    BY <2>1, ReleaseConstants, Counts DEF Asked, RestoreSnapshot, HubType
<1>3. Fitting(journal[o], d.receipt)
  BY <1>1 DEF Asked, Fitting, RollbackStage, RestoreSnapshot
<1>4. /\ d.hub.build = From(o) /\ d.hub.pointer = hub.pointer + 1 /\ d.hub.state = hub.state
      /\ d.hub.runtime = hub.runtime /\ d.hub.mode = hub.mode
      /\ d.hub.instance = hub.instance /\ d.hub.fence = hub.fence /\ d.hub.last = hub.last
      /\ d.hub.rows = journal[o].got["FINAL_SNAPSHOT_INTENT"] /\ d.hub.schema = From(o)
      /\ d.hub.bridges = hub.bridges
  BY DEF Asked, HubType, RestoreSnapshot, RollbackRows
<1>5. Fenced(d.hub) /\ Aside(o, hub, d.hub)
  BY <1>4, <1>1, ReleaseConstants DEF Asked, Fenced, Aside, ServesIn, RollbackStage
<1>6. RollbackStage(o, 3, journal[o].got["FINAL_SNAPSHOT_INTENT"], d.hub)
  BY <1>4, <1>1, ReleaseConstants DEF Asked, Fenced, ServesIn, RollbackStage
<1>. HIDE DEF d
<1>7. Stage(o, Confirmed(journal[o], d.receipt), d.hub)
  BY <1>1, <1>2, <1>6, AnswerBack DEF Asked
<1>8. Answers(o, d)
  BY <1>2, <1>3, <1>5, <1>7 DEF Answers, MayLeaveTraces
<1>9. QED
  BY <1>8 DEF d

\* StartPrevious does what the manager verifies, and keeps what has to be kept.
LEMMA StartPreviousAnswers ==
  ASSUME NEW o, Asked(o), journal[o].phase = "ROLLBACK_START_PREVIOUS_MAINTENANCE_INTENT",
         StartPrevious(o).can
  PROVE  Answers(o, StartPrevious(o))
<1>. DEFINE d == StartPrevious(o)
<1>1. /\ journal[o].phase \in PhasesOf(RollbackPhases) /\ Rank[journal[o].phase] = 3
      /\ RollbackStage(o, 3, journal[o].got["FINAL_SNAPSHOT_INTENT"], hub)
  BY AskedBack, RollbackTable
<1>2. d.receipt \in Nat /\ d.hub \in HubType /\ d.hub.rows = hub.rows
  BY <1>1, ReleaseConstants, Counts DEF Asked, StartPrevious, Started, HubType, RollbackStage
<1>3. Fitting(journal[o], d.receipt)
  BY <1>1 DEF Asked, Fitting, RollbackStage, StartPrevious, Started
<1>4. /\ d.hub.build = hub.build /\ d.hub.pointer = hub.pointer /\ d.hub.state = "RUNNING"
      /\ d.hub.runtime = From(o) /\ d.hub.mode = "MAINTENANCE"
      /\ d.hub.instance = hub.instance + 1 /\ d.hub.fence = hub.fence
      /\ d.hub.last = hub.last /\ d.hub.rows = hub.rows /\ d.hub.schema = hub.schema
      /\ d.hub.bridges = hub.bridges
  BY DEF Asked, HubType, StartPrevious, Started
<1>5. Fenced(d.hub) /\ Aside(o, hub, d.hub)
  BY <1>4, <1>1, ReleaseConstants DEF Asked, Fenced, Aside, ServesIn, RollbackStage
<1>6. RollbackStage(o, 4, journal[o].got["FINAL_SNAPSHOT_INTENT"], d.hub)
  BY <1>4, <1>1, ReleaseConstants DEF Asked, Fenced, ServesIn, RollbackStage
<1>. HIDE DEF d
<1>7. Stage(o, Confirmed(journal[o], d.receipt), d.hub)
  BY <1>1, <1>2, <1>6, AnswerBack DEF Asked
<1>8. Answers(o, d)
  BY <1>2, <1>3, <1>5, <1>7 DEF Answers, MayLeaveTraces
<1>9. QED
  BY <1>8 DEF d

\* VerifyPrevious does what the manager verifies, and keeps what has to be kept.
LEMMA VerifyPreviousAnswers ==
  ASSUME NEW o, Asked(o), journal[o].phase = "ROLLBACK_VERIFY_PREVIOUS_INTENT",
         VerifyPrevious(o).can
  PROVE  Answers(o, VerifyPrevious(o))
<1>. DEFINE d == VerifyPrevious(o)
<1>1. /\ journal[o].phase \in PhasesOf(RollbackPhases) /\ Rank[journal[o].phase] = 5
      /\ RollbackStage(o, 5, journal[o].got["FINAL_SNAPSHOT_INTENT"], hub)
  BY AskedBack, RollbackTable
<1>2. d.receipt \in Nat /\ d.hub \in HubType /\ d.hub.rows = hub.rows
  BY <1>1, ReleaseConstants, Counts DEF Asked, VerifyPrevious, Running, HubType, RollbackStage
<1>3. Fitting(journal[o], d.receipt)
  BY <1>1 DEF Asked, Fitting, RollbackStage, VerifyPrevious, Running
<1>4. Fenced(d.hub) /\ Aside(o, hub, d.hub)
  BY <1>1, ReleaseConstants
     DEF Asked, Fenced, Aside, ServesIn, RollbackStage, HubType, VerifyPrevious, Running
<1>5. RollbackStage(o, 6, journal[o].got["FINAL_SNAPSHOT_INTENT"], d.hub)
  BY <1>1, ReleaseConstants
     DEF Asked, Fenced, ServesIn, RollbackStage, HubType, VerifyPrevious, Running
<1>. HIDE DEF d
<1>6. Stage(o, Confirmed(journal[o], d.receipt), d.hub)
  BY <1>1, <1>2, <1>5, AnswerBack DEF Asked
<1>7. Answers(o, d)
  BY <1>2, <1>3, <1>4, <1>6 DEF Answers, MayLeaveTraces
<1>8. QED
  BY <1>7 DEF d

\* RollBackBridges does what the manager verifies, and keeps what has to be kept.
LEMMA RollBackBridgesAnswers ==
  ASSUME NEW o, Asked(o), journal[o].phase = "ROLLBACK_RESUME_BRIDGES_INTENT",
         RollBackBridges(o).can
  PROVE  Answers(o, RollBackBridges(o))
<1>. DEFINE d == RollBackBridges(o)
<1>1. /\ journal[o].phase \in PhasesOf(RollbackPhases) /\ Rank[journal[o].phase] = 9
      /\ RollbackStage(o, 9, journal[o].got["FINAL_SNAPSHOT_INTENT"], hub)
  BY AskedBack, RollbackTable
<1>2. d.receipt \in Nat /\ d.hub \in HubType /\ d.hub.rows = hub.rows
  BY <1>1, ReleaseConstants, Counts DEF Asked, RollBackBridges, Running, HubType, RollbackStage
<1>3. Fitting(journal[o], d.receipt)
  BY <1>1 DEF Asked, Fitting, RollbackStage, RollBackBridges, Running
<1>4. Fenced(d.hub) /\ Aside(o, hub, d.hub)
  BY <1>1, ReleaseConstants
     DEF Asked, Fenced, Aside, ServesIn, RollbackStage, HubType, RollBackBridges, Running
<1>5. RollbackStage(o, 10, journal[o].got["FINAL_SNAPSHOT_INTENT"], d.hub)
  BY <1>1, ReleaseConstants
     DEF Asked, Fenced, ServesIn, RollbackStage, HubType, RollBackBridges, Running
<1>. HIDE DEF d
<1>6. Stage(o, Confirmed(journal[o], d.receipt), d.hub)
  BY <1>1, <1>2, <1>5, AnswerBack DEF Asked
<1>7. Answers(o, d)
  BY <1>2, <1>3, <1>4, <1>6 DEF Answers, MayLeaveTraces
<1>8. QED
  BY <1>7 DEF d

\* CommitRollback does what the manager verifies, and keeps what has to be kept.
LEMMA CommitRollbackAnswers ==
  ASSUME NEW o, Asked(o), journal[o].phase = "ROLLBACK_COMMIT_MAINTENANCE_INTENT",
         CommitRollback(o).can
  PROVE  Answers(o, CommitRollback(o))
<1>. DEFINE d == CommitRollback(o)
<1>1. /\ journal[o].phase \in PhasesOf(RollbackPhases) /\ Rank[journal[o].phase] = 11
      /\ RollbackStage(o, 11, journal[o].got["FINAL_SNAPSHOT_INTENT"], hub)
  BY AskedBack, RollbackTable
<1>2. d.receipt \in Nat /\ d.hub \in HubType /\ d.hub.rows = hub.rows
  BY <1>1, ReleaseConstants, Counts
     DEF Asked, CommitRollback, Opened, Running, HubType, RollbackStage
<1>3. Fitting(journal[o], d.receipt)
  BY <1>1 DEF Asked, Fitting, RollbackStage, CommitRollback, Opened, Running
<1>4. /\ d.hub.build = hub.build /\ d.hub.pointer = hub.pointer + 1
      /\ d.hub.state = hub.state /\ d.hub.runtime = hub.runtime /\ d.hub.mode = "NORMAL"
      /\ d.hub.instance = hub.instance /\ d.hub.fence = None /\ d.hub.last = hub.last
      /\ d.hub.rows = hub.rows /\ d.hub.schema = hub.schema /\ d.hub.bridges = hub.bridges
      /\ hub.state = "RUNNING" /\ hub.runtime = From(o)
  BY DEF Asked, HubType, CommitRollback, Opened, Running
<1>5. Fenced(d.hub) /\ Aside(o, hub, d.hub)
  BY <1>4, <1>1, ReleaseConstants DEF Asked, Fenced, Aside, ServesIn, RollbackStage
<1>6. RollbackStage(o, 12, journal[o].got["FINAL_SNAPSHOT_INTENT"], d.hub)
  BY <1>4, <1>1, ReleaseConstants DEF Asked, Fenced, ServesIn, RollbackStage
<1>. HIDE DEF d
<1>7. Stage(o, Confirmed(journal[o], d.receipt), d.hub)
  BY <1>1, <1>2, <1>6, AnswerBack DEF Asked
<1>8. Answers(o, d)
  BY <1>2, <1>3, <1>5, <1>7 DEF Answers, MayLeaveTraces
<1>9. QED
  BY <1>8 DEF d

\* CleanupPreSwap does what the manager verifies, and keeps what has to be kept.
LEMMA CleanupPreSwapAnswers ==
  ASSUME NEW o, Asked(o), journal[o].phase = "PRE_SWAP_CLEANUP_INTENT", CleanupPreSwap(o).can
  PROVE  Answers(o, CleanupPreSwap(o))
<1>. DEFINE d == CleanupPreSwap(o)
<1>1. hub.fence = o /\ hub.build = From(o) /\ hub.schema = From(o)
  BY DEF Asked, Stage, Progress, UnderWay
<1>2. d.receipt \in Nat /\ d.hub \in HubType /\ d.hub.rows = hub.rows
  BY ReleaseConstants, Counts DEF Asked, CleanupPreSwap, HubType
<1>3. Fitting(journal[o], d.receipt)
  BY DEF Fitting, CleanupPreSwap
<1>4. ServesIn(d.hub, From(o)) /\ d.hub.fence = None /\ d.hub.last = o
  BY <1>1, ReleaseConstants DEF Asked, Fenced, ServesIn, HubType, CleanupPreSwap
<1>. HIDE DEF d
<1>5. Fenced(d.hub) /\ Aside(o, hub, d.hub) /\ d.hub.fence # o
  BY <1>1, <1>4, ReleaseConstants DEF Asked, Fenced, Aside, ServesIn
<1>6. Stage(o, Confirmed(journal[o], d.receipt), d.hub)
  <2>. DEFINE c == Confirmed(journal[o], d.receipt)
  <2>1. c.phase = "PRE_SWAP_CLEANUP_CONFIRMED"
    BY <1>2, AfterOnTrack, ConfirmedRow DEF Asked, GoesOn
  <2>. HIDE DEF c
  <2>2. c.phase \notin PhasesOf(NormalPhases) \cup PhasesOf(RollbackPhases)
    BY <2>1, NormalPlaces, RollbackPlaces
  <2>3. Stage(o, c, d.hub)
    BY <1>4, <1>5, <2>1, <2>2
       DEF Stage, Outcome, Progress, Untouched, Deployed, TakenBack, UnderWay, Ahead, Back
  <2>4. QED
    BY <2>3 DEF c
<1>7. Answers(o, d)
  BY <1>2, <1>3, <1>5, <1>6 DEF Answers, MayLeaveTraces
<1>8. QED
  BY <1>7 DEF d

\* Every call, by the phase it is made in.
LEMMA AdapterAnswers ==
  ASSUME NEW o, Asked(o), journal[o].phase \in Call, Adapter(o, journal[o].phase).can
  PROVE  Answers(o, Adapter(o, journal[o].phase))
<1>1. CASE journal[o].phase = "CANDIDATE_PROBE_INTENT"
  <2>1. Adapter(o, journal[o].phase) = ProbeCandidate(o)
    BY <1>1 DEF Adapter
  <2>2. QED
    BY <1>1, <2>1, ProbeCandidateAnswers
<1>2. CASE journal[o].phase = "PREFLIGHT_SNAPSHOT_INTENT"
  <2>1. Adapter(o, journal[o].phase) = PreflightSnapshot(o)
    BY <1>2 DEF Adapter
  <2>2. QED
    BY <1>2, <2>1, PreflightSnapshotAnswers
<1>3. CASE journal[o].phase = "ENTER_MAINTENANCE_INTENT"
  <2>1. Adapter(o, journal[o].phase) = EnterMaintenance(o)
    BY <1>3 DEF Adapter
  <2>2. QED
    BY <1>3, <2>1, EnterMaintenanceAnswers
<1>4. CASE journal[o].phase = "PAUSE_SUPERVISORS_INTENT"
  <2>1. Adapter(o, journal[o].phase) = PauseSupervisors(o)
    BY <1>4 DEF Adapter
  <2>2. QED
    BY <1>4, <2>1, PauseSupervisorsAnswers
<1>5. CASE journal[o].phase = "STOP_INTENT"
  <2>1. Adapter(o, journal[o].phase) = StopCurrent(o)
    BY <1>5 DEF Adapter
  <2>2. QED
    BY <1>5, <2>1, StopCurrentAnswers
<1>6. CASE journal[o].phase = "FINAL_SNAPSHOT_INTENT"
  <2>1. Adapter(o, journal[o].phase) = FinalSnapshot(o)
    BY <1>6 DEF Adapter
  <2>2. QED
    BY <1>6, <2>1, FinalSnapshotAnswers
<1>7. CASE journal[o].phase = "SWAP_INTENT"
  <2>1. Adapter(o, journal[o].phase) = AtomicSwap(o)
    BY <1>7 DEF Adapter
  <2>2. QED
    BY <1>7, <2>1, AtomicSwapAnswers
<1>8. CASE journal[o].phase = "START_CANDIDATE_MAINTENANCE_INTENT"
  <2>1. Adapter(o, journal[o].phase) = StartCandidate(o)
    BY <1>8 DEF Adapter
  <2>2. QED
    BY <1>8, <2>1, StartCandidateAnswers
<1>9. CASE journal[o].phase = "VERIFY_CANDIDATE_MAINTENANCE_INTENT"
  <2>1. Adapter(o, journal[o].phase) = VerifyCandidate(o)
    BY <1>9 DEF Adapter
  <2>2. QED
    BY <1>9, <2>1, VerifyCandidateAnswers
<1>10. CASE journal[o].phase = "MIGRATE_CANDIDATE_INTENT"
  <2>1. Adapter(o, journal[o].phase) = MigrateCandidate(o)
    BY <1>10 DEF Adapter
  <2>2. QED
    BY <1>10, <2>1, MigrateCandidateAnswers
<1>11. CASE journal[o].phase = "RESUME_BRIDGES_INTENT"
  <2>1. Adapter(o, journal[o].phase) = ResumeBridges(o)
    BY <1>11 DEF Adapter
  <2>2. QED
    BY <1>11, <2>1, ResumeBridgesAnswers
<1>12. CASE journal[o].phase = "COMMIT_MAINTENANCE_INTENT"
  <2>1. Adapter(o, journal[o].phase) = CommitMaintenance(o)
    BY <1>12 DEF Adapter
  <2>2. QED
    BY <1>12, <2>1, CommitMaintenanceAnswers
<1>13. CASE journal[o].phase = "ROLLBACK_STOP_CANDIDATE_INTENT"
  <2>1. Adapter(o, journal[o].phase) = StopCandidate(o)
    BY <1>13 DEF Adapter
  <2>2. QED
    BY <1>13, <2>1, StopCandidateAnswers
<1>14. CASE journal[o].phase = "ROLLBACK_RESTORE_INTENT"
  <2>1. Adapter(o, journal[o].phase) = RestoreSnapshot(o)
    BY <1>14 DEF Adapter
  <2>2. QED
    BY <1>14, <2>1, RestoreSnapshotAnswers
<1>15. CASE journal[o].phase = "ROLLBACK_START_PREVIOUS_MAINTENANCE_INTENT"
  <2>1. Adapter(o, journal[o].phase) = StartPrevious(o)
    BY <1>15 DEF Adapter
  <2>2. QED
    BY <1>15, <2>1, StartPreviousAnswers
<1>16. CASE journal[o].phase = "ROLLBACK_VERIFY_PREVIOUS_INTENT"
  <2>1. Adapter(o, journal[o].phase) = VerifyPrevious(o)
    BY <1>16 DEF Adapter
  <2>2. QED
    BY <1>16, <2>1, VerifyPreviousAnswers
<1>17. CASE journal[o].phase = "ROLLBACK_RESUME_BRIDGES_INTENT"
  <2>1. Adapter(o, journal[o].phase) = RollBackBridges(o)
    BY <1>17 DEF Adapter
  <2>2. QED
    BY <1>17, <2>1, RollBackBridgesAnswers
<1>18. CASE journal[o].phase = "ROLLBACK_COMMIT_MAINTENANCE_INTENT"
  <2>1. Adapter(o, journal[o].phase) = CommitRollback(o)
    BY <1>18 DEF Adapter
  <2>2. QED
    BY <1>18, <2>1, CommitRollbackAnswers
<1>19. CASE journal[o].phase = "PRE_SWAP_CLEANUP_INTENT"
  <2>1. Adapter(o, journal[o].phase) = CleanupPreSwap(o)
    BY <1>19 DEF Adapter
  <2>2. QED
    BY <1>19, <2>1, CleanupPreSwapAnswers
<1>20. QED
  BY <1>1, <1>2, <1>3, <1>4, <1>5, <1>6, <1>7, <1>8, <1>9, <1>10, <1>11, <1>12, <1>13,
     <1>14, <1>15, <1>16, <1>17, <1>18, <1>19
     DEF Call, NormalCalls, RollbackCalls

----------------------------------------------------------------------------
(* The steps.                                                              *)

\* A run or a lease that ends, or looks around, is nobody's concern.
LEMMA BookkeepingKeeps ==
  ASSUME ReleaseInvariant, UNCHANGED <<journal, call, hub>>, DOMAIN proc' = Owner,
         \A w \in Owner : /\ ProcType(proc'[w])
                          /\ proc'[w].op \in {proc[w].op, None}
  PROVE  ReleaseInvariant'
<1>1. Types'
  BY DEF ReleaseInvariant, Types, ProcType
<1>2. \A w \in Owner : Begun(proc[w])'
  BY DEF ReleaseInvariant, Begun
<1>3. Fenced(hub)' /\ \A o \in Release : Sound(o, journal[o], call[o], hub)'
  BY DEF ReleaseInvariant
<1>4. QED
  BY <1>1, <1>2, <1>3 DEF ReleaseInvariant

\* A run that ends (Loses, GivesUp, LosesAnswer, Crashes, Finishes).
LEMMA RestsKeeps ==
  ASSUME ReleaseInvariant, UNCHANGED <<journal, call, hub>>, NEW w \in Owner, Rests(w)
  PROVE  ReleaseInvariant'
<1>1. DOMAIN proc' = Owner /\ \A u \in Owner : proc'[u] = IF u = w THEN Resting ELSE proc[u]
  BY DEF ReleaseInvariant, Types, Rests
<1>2. ProcType(Resting) /\ Resting.op = None
  BY DEF ProcType, Resting
<1>3. \A u \in Owner : ProcType(proc[u])
  BY DEF ReleaseInvariant, Types
<1>4. \A u \in Owner : ProcType(proc'[u]) /\ proc'[u].op \in {proc[u].op, None}
  BY <1>1, <1>2, <1>3
<1>5. QED
  BY <1>1, <1>4, BookkeepingKeeps

\* observeOrNull.
LEMMA ObservesKeeps ==
  ASSUME ReleaseInvariant, NEW w \in Owner, NEW o \in Release, Observes(w, o)
  PROVE  ReleaseInvariant'
<1>. DEFINE s == [build |-> hub.build, stopped |-> hub.state = "STOPPED",
runtime |-> hub.runtime,
                  mode |-> hub.mode, instance |-> hub.instance]
<1>1. s.instance \in Nat
  BY DEF ReleaseInvariant, Types, HubType
<1>2. proc' = [proc EXCEPT ![w].saw = s] /\ UNCHANGED <<journal, call, hub>>
  BY DEF Observes
<1>. HIDE DEF s
<1>3. DOMAIN proc = Owner /\ \A u \in Owner : ProcType(proc[u])
  BY DEF ReleaseInvariant, Types
<1>4. proc'[w] = [proc[w] EXCEPT !.saw = s] /\ \A u \in Owner \ {w} : proc'[u] = proc[u]
  BY <1>2, <1>3
<1>5. proc'[w].op = proc[w].op /\ (proc'[w].saw = s \/ proc'[w].saw = proc[w].saw)
  BY <1>4
<1>6. ProcType(proc'[w])
  BY <1>1, <1>3, <1>5 DEF ProcType
<1>7. DOMAIN proc' = Owner
  BY <1>2, <1>3
<1>8. \A u \in Owner : ProcType(proc'[u]) /\ proc'[u].op \in {proc[u].op, None}
  BY <1>3, <1>4, <1>5, <1>6
<1>9. QED
  BY <1>2, <1>7, <1>8, BookkeepingKeeps

\* A release that is written down anew: legible, and at the stage the Hub is in.
LEMMA WritesKeeps ==
  ASSUME ReleaseInvariant, NEW w \in Owner, NEW o \in Release, NEW c \in JournalType,
         RelationsValid(c), Stage(o, c, hub), c.phase # "NONE", Writes(w, o, c)
  PROVE  ReleaseInvariant'
<1>1. /\ journal' = [journal EXCEPT ![o] = Revised(c)]
      /\ call' = [call EXCEPT ![o] = Uncalled] /\ hub' = hub
      /\ proc' = [proc EXCEPT ![w] = [@ EXCEPT !.at = "ready", !.saw = None]]
  BY DEF Writes, Revised
<1>2. /\ Types /\ Fenced(hub) /\ \A b \in Release : Sound(b, journal[b], call[b], hub)
  BY DEF ReleaseInvariant
<1>3. /\ journal'[o] = Revised(c) /\ call'[o] = Uncalled
      /\ \A b \in Release \ {o} : journal'[b] = journal[b] /\ call'[b] = call[b]
  BY <1>1, <1>2 DEF Types
<1>4. Types'
  <2>1. Revised(c) \in JournalType
    BY RevisedRow
  <2>2. journal' \in [Release -> JournalType]
    BY <1>1, <1>2, <2>1 DEF Types
  <2>3. call' \in [Release -> CallType]
    BY <1>1, <1>2 DEF Types, Uncalled, CallType
  <2>4. DOMAIN proc' = Owner /\ \A u \in Owner \ {w} : proc'[u] = proc[u]
    BY <1>1, <1>2 DEF Types
  <2>5. proc'[w] = [proc[w] EXCEPT !.at = "ready", !.saw = None]
    BY <1>1, <1>2 DEF Types
  <2>6. proc'[w].op = proc[w].op /\ (proc'[w].saw = None \/ proc'[w].saw = proc[w].saw)
    BY <2>5
  <2>7. \A u \in Owner : ProcType(proc'[u])
    BY <1>2, <2>4, <2>6 DEF Types, ProcType
  <2>8. hub' \in HubType
    BY <1>1, <1>2 DEF Types
  <2>9. QED
    BY <2>2, <2>3, <2>4, <2>7, <2>8 DEF Types, ProcType
<1>5. \A u \in Owner : Begun(proc[u])'
  <2>1. \A u \in Owner : proc'[u].op = proc[u].op
    BY <1>1, <1>2 DEF Types
  <2>2. journal'[o].phase # "NONE"
    BY <1>3, RevisedRow
  <2>3. \A u \in Owner : proc[u].op \in Release \cup {None}
    BY <1>2 DEF Types, ProcType
  <2>4. QED
    BY <1>3, <2>1, <2>2, <2>3 DEF ReleaseInvariant, Begun
<1>6. Sound(o, Revised(c), Uncalled, hub)
  <2>1. Booked(Revised(c), Uncalled)
    BY RevisedRow DEF Booked, Uncalled
  <2>2. Effective(Revised(c), Uncalled) = Revised(c)
    BY DEF Effective, Uncalled
  <2>3. Legible(Revised(c), Uncalled)
    BY <2>2, RevisedIsLegible DEF Legible
  <2>4. Stage(o, Revised(c), hub)
    BY RevisedRow, StageReads
  <2>5. QED
    BY <2>1, <2>2, <2>3, <2>4 DEF Sound
<1>7. \A b \in Release : Sound(b, journal'[b], call'[b], hub)
  BY <1>2, <1>3, <1>6
<1>8. QED
  BY <1>1, <1>2, <1>4, <1>5, <1>7 DEF ReleaseInvariant

\* Where nothing is called, the journal is what there is.
LEMMA NotConfirmed ==
  ASSUME ReleaseInvariant, NEW o \in Release, call[o].state # "CONFIRMED",
         journal[o].phase # "NONE"
  PROVE  /\ journal[o] \in JournalType /\ RelationsValid(journal[o])
         /\ Stage(o, journal[o], hub) /\ Asked(o)
<1>1. Sound(o, journal[o], call[o], hub) /\ journal[o] \in JournalType
  BY DEF ReleaseInvariant, Types
<1>2. Effective(journal[o], call[o]) = journal[o]
  BY DEF Effective
<1>3. QED
  BY <1>1, <1>2 DEF Sound, Legible, Asked, ReleaseInvariant, Types

\* Who works has a release that has begun.
LEMMA WorksOnBegun ==
  ASSUME ReleaseInvariant, NEW w \in Owner, NEW o \in Release, NEW at, Works(w, o, at)
  PROVE  journal[o].phase # "NONE"
BY ReleaseConstants DEF ReleaseInvariant, Begun, Works

\* The phases between the calls.
LEMMA StepsKeep ==
  ASSUME ReleaseInvariant, NEW w \in Owner, NEW o \in Release, NEW v \in Nat,
         Works(w, o, "ready"), GoesOn(journal[o].phase), journal[o].phase \notin Call,
         Fitting(journal[o], v), Writes(w, o, Confirmed(journal[o], v))
  PROVE  ReleaseInvariant'
<1>1. journal[o].phase # "NONE" /\ call[o].state = "none"
  BY WorksOnBegun DEF ReleaseInvariant, Sound, Booked
<1>2. journal[o] \in JournalType /\ RelationsValid(journal[o]) /\ Stage(o, journal[o], hub)
  BY <1>1, NotConfirmed
<1>3. /\ Confirmed(journal[o], v) \in JournalType /\ RelationsValid(Confirmed(journal[o], v))
  BY <1>2, ConfirmedIsLegible
<1>4. Confirmed(journal[o], v).phase # "NONE"
  BY <1>2, AfterOnTrack, ConfirmedRow
<1>5. /\ journal[o].phase \in PhasesOf(NormalPhases) =>
           Rank[journal[o].phase] \notin {7, 14, 16, 22, 26, 28}
      /\ journal[o].phase \in PhasesOf(RollbackPhases) =>
           Rank[journal[o].phase] \notin {2, 9, 11}
      /\ journal[o].phase # "PRE_SWAP_CLEANUP_INTENT"
  BY NormalPlaces, RollbackPlaces DEF Call
<1>6. Stage(o, Confirmed(journal[o], v), hub)
  BY <1>2, <1>5, StageGoesOn
<1>7. QED
  BY <1>3, <1>4, <1>6, WritesKeeps

\* Observing and authorizing are no calls.
LEMMA Unobserved ==
  /\ Observing \subseteq PhasesOf(NormalPhases) /\ "SWAPPED" \in PhasesOf(NormalPhases)
  /\ Observing \cap Call = {} /\ Authorizing \cap Call = {}
  /\ "AUTHORIZE_BRIDGES_INTENT" \in PhasesOf(NormalPhases)
  /\ "ROLLBACK_AUTHORIZE_BRIDGES_INTENT" \in PhasesOf(RollbackPhases)
BY NormalTable, RollbackTable
   DEF Observing, Authorizing, PhasesOf, Call, NormalCalls, RollbackCalls

\* The phases between two calls, and the end of a cleanup.
LEMMA MovesKeeps ==
  ASSUME ReleaseInvariant, NEW w \in Owner, NEW o \in Release, Moves(w, o)
  PROVE  ReleaseInvariant'
<1>. DEFINE j == journal[o]
            c == [j EXCEPT !.phase = After(@),
                           !.failedAt = IF j.phase = "PRE_SWAP_CLEANUP_CONFIRMED"
                                        THEN j.cleanupAt ELSE @]
<1>1. Works(w, o, "ready") /\ j.phase \notin Terminal \cup Call \cup Observing \cup Authorizing
      /\ Writes(w, o, c)
  BY DEF Moves
<1>2. j.phase # "NONE" /\ call[o].state = "none"
  BY <1>1, WorksOnBegun DEF ReleaseInvariant, Sound, Booked
<1>3. j \in JournalType /\ RelationsValid(j) /\ Stage(o, j, hub)
  BY <1>2, NotConfirmed
<1>4. CASE j.phase = "PRE_SWAP_CLEANUP_CONFIRMED"
  <2>1. /\ ReceiptsAgree(j) /\ j.failedAt = None /\ j.cleanupAt # None /\ j.cause = None
        /\ Has(j, "PRE_SWAP_CLEANUP_INTENT")
    BY <1>3, <1>4, CleanupJournal
  <2>2. j.phase \in PhasesOf(CleanupPhases) /\ Rank[j.phase] = 2
    BY <1>4, RankTable, CleanupTable
  <2>3. After(j.phase) = "BLOCKED"
    BY <2>2, OnCleanup, CleanupTable
  <2>4. /\ c \in JournalType /\ c.phase = "BLOCKED" /\ c.failedAt = j.cleanupAt /\ c.got = j.got
        /\ c.cleanupAt = j.cleanupAt /\ c.cause = j.cause
    BY <1>3, <1>4, <2>3, SomePhases DEF JournalType
  <2>. HIDE DEF c
  <2>5. ReceiptsAgree(c) /\ Has(c, "PRE_SWAP_CLEANUP_INTENT")
    BY <2>1, <2>4 DEF ReceiptsAgree, Has
  <2>6. RelationsValid(c)
    BY <2>1, <2>4, <2>5, BlockedJournal
  <2>7. /\ c.phase \notin PhasesOf(NormalPhases) \cup PhasesOf(RollbackPhases)
        /\ c.phase \notin {"NONE", "PRE_SWAP_CLEANUP_INTENT"}
    BY <2>4, NormalPlaces, RollbackPlaces
  <2>8. TakenBack(j)
    BY <1>4 DEF TakenBack
  <2>9. Outcome(o, c, hub)
    BY <1>3, <2>1, <2>4, <2>7, <2>8
       DEF Stage, Outcome, Untouched, Deployed, TakenBack, Ahead, Back
  <2>10. Progress(o, c, hub)
    BY <2>7 DEF Progress, UnderWay, Ahead, Back
  <2>11. QED
    BY <1>1, <2>4, <2>6, <2>7, <2>9, <2>10, WritesKeeps DEF Stage
<1>5. CASE j.phase # "PRE_SWAP_CLEANUP_CONFIRMED"
  <2>1. j.phase \in PhasesOf(NormalPhases) \cup PhasesOf(RollbackPhases)
    <3>1. j.phase \notin PhasesOf(CleanupPhases)
      BY <1>1, <1>5, OnCleanup, CleanupTable DEF Terminal, Call
    <3>2. j.phase \in Phase /\ j.phase # "ROLLBACK_FAILED"
      BY <1>1, <1>3 DEF JournalType, Terminal
    <3>3. QED
      BY <1>2, <3>1, <3>2 DEF Phase, OnTrack
  <2>2. GoesOn(j.phase)
    BY <1>1, <2>1, NormalPlaces, RollbackPlaces, OnNormal, OnRollback DEF GoesOn
  <2>3. j.phase \notin Receipt
    BY <1>1 DEF Receipt, NormalReceipt, RollbackReceipt, Call, Observing, Authorizing
  <2>4. c = Confirmed(j, 0)
    BY <1>3, <1>5, <2>3 DEF Confirmed, JournalType
  <2>5. Fitting(j, 0)
    BY <1>1 DEF Fitting, Call, NormalCalls, RollbackCalls, Authorizing
  <2>. HIDE DEF c
  <2>6. QED
    BY <1>1, <2>2, <2>4, <2>5, StepsKeep
<1>6. QED
  BY <1>4, <1>5

\* createTransitionAuthorization carries the receipt it authorizes.
LEMMA AuthorizesKeeps ==
  ASSUME ReleaseInvariant, NEW w \in Owner, NEW o \in Release, Authorizes(w, o)
  PROVE  ReleaseInvariant'
<1>. DEFINE j == journal[o]
            v == j.got[IF j.phase = "AUTHORIZE_BRIDGES_INTENT"
                       THEN "SWAP_INTENT" ELSE "ROLLBACK_RESTORE_INTENT"]
<1>1. Works(w, o, "ready") /\ j.phase \in Authorizing /\ Writes(w, o, Confirmed(j, v))
  BY DEF Authorizes
<1>2. j.phase \notin Call
  BY <1>1, Unobserved
<1>3. j.phase # "NONE" /\ call[o].state = "none"
  BY <1>1, <1>2, WorksOnBegun DEF ReleaseInvariant, Sound, Booked
<1>4. j \in JournalType /\ RelationsValid(j)
  BY <1>3, NotConfirmed
<1>5. CASE j.phase = "AUTHORIZE_BRIDGES_INTENT"
  <2>1. j.phase \in PhasesOf(NormalPhases) /\ Rank[j.phase] = 24
    BY <1>5, Unobserved, Ranks
  <2>2. NormalReceipts(j, 24)
    BY <1>4, <2>1, NormalJournal DEF LegibleNormal
  <2>3. Has(j, "SWAP_INTENT")
    BY <2>2, NormalPattern
  <2>4. v \in Nat /\ GoesOn(j.phase) /\ Fitting(j, v)
    BY <1>4, <1>5, <2>1, <2>3, ReceiptNames DEF Has, JournalType, GoesOn, Fitting
  <2>. HIDE DEF v
  <2>5. QED
    BY <1>1, <1>2, <2>4, StepsKeep
<1>6. CASE j.phase = "ROLLBACK_AUTHORIZE_BRIDGES_INTENT"
  <2>1. j.phase \in PhasesOf(RollbackPhases) /\ Rank[j.phase] = 7
    BY <1>6, Unobserved, Ranks
  <2>2. RollbackReceipts(j, 7)
    BY <1>4, <2>1, RollbackJournal DEF LegibleRollback
  <2>3. Has(j, "ROLLBACK_RESTORE_INTENT")
    BY <2>2, RollbackPattern
  <2>4. v \in Nat /\ GoesOn(j.phase) /\ Fitting(j, v)
    BY <1>4, <1>6, <2>1, <2>3, ReceiptNames DEF Has, JournalType, GoesOn, Fitting
  <2>. HIDE DEF v
  <2>5. QED
    BY <1>1, <1>2, <2>4, StepsKeep
<1>7. QED
  BY <1>1, <1>5, <1>6 DEF Authorizing

\* A release that an observation blocks.
LEMMA BlocksKeep ==
  ASSUME ReleaseInvariant, NEW w \in Owner, NEW o \in Release, NEW at, Works(w, o, at),
         call[o].state # "CONFIRMED", journal[o].phase \in PhasesOf(NormalPhases),
         Rank[journal[o].phase] <= 7 \/ journal[o].phase \in LeavesHubDown,
         Writes(w, o, Blocked(journal[o]))
  PROVE  ReleaseInvariant'
<1>1. journal[o].phase # "NONE"
  BY NormalPlaces
<1>2. journal[o] \in JournalType /\ RelationsValid(journal[o]) /\ Stage(o, journal[o], hub)
  BY <1>1, NotConfirmed
<1>3. /\ Blocked(journal[o]) \in JournalType /\ RelationsValid(Blocked(journal[o]))
      /\ Blocked(journal[o]).phase # "NONE"
  BY <1>2, BlockedIsLegible
<1>4. Stage(o, Blocked(journal[o]), hub)
  BY <1>2, StageBlocked
<1>5. QED
  BY <1>3, <1>4, WritesKeeps

\* The Hub is looked at once more before it is put into maintenance.
LEMMA RevalidatesKeeps ==
  ASSUME ReleaseInvariant, NEW w \in Owner, NEW o \in Release, Revalidates(w, o)
  PROVE  ReleaseInvariant'
<1>1. /\ Works(w, o, "ready") /\ journal[o].phase = "CURRENT_REVALIDATE_INTENT"
      /\ proc[w].saw # None
  BY DEF Revalidates, Sees
<1>2. /\ journal[o].phase \in PhasesOf(NormalPhases) /\ Rank[journal[o].phase] = 5
      /\ journal[o].phase \notin Call
  BY <1>1, Unobserved, Ranks DEF Observing
<1>3. call[o].state = "none"
  BY <1>2 DEF ReleaseInvariant, Sound, Booked
<1>4. proc[w].saw.instance \in Nat
  BY <1>1 DEF ReleaseInvariant, Types, ProcType
<1>5. GoesOn(journal[o].phase) /\ Fitting(journal[o], proc[w].saw.instance)
  BY <1>1, <1>2 DEF GoesOn, Fitting
<1>6. CASE Writes(w, o, Confirmed(journal[o], proc[w].saw.instance))
  BY <1>1, <1>2, <1>4, <1>5, <1>6, StepsKeep
<1>7. CASE Writes(w, o, Blocked(journal[o]))
  BY <1>1, <1>2, <1>3, <1>7, BlocksKeep
<1>8. QED
  BY <1>6, <1>7 DEF Revalidates

\* The stop is checked against the Hub.
LEMMA ChecksStopKeeps ==
  ASSUME ReleaseInvariant, NEW w \in Owner, NEW o \in Release, ChecksStop(w, o)
  PROVE  ReleaseInvariant'
<1>1. Works(w, o, "ready") /\ journal[o].phase = "STOP_RECEIPT_CONFIRMED"
  BY DEF ChecksStop, Sees
<1>2. /\ journal[o].phase \in PhasesOf(NormalPhases) /\ Rank[journal[o].phase] = 12
      /\ journal[o].phase \notin Call
  BY <1>1, Unobserved, Ranks DEF Observing
<1>3. call[o].state = "none"
  BY <1>2 DEF ReleaseInvariant, Sound, Booked
<1>4. GoesOn(journal[o].phase) /\ Fitting(journal[o], 0)
  BY <1>1, <1>2 DEF GoesOn, Fitting
<1>5. CASE Writes(w, o, Confirmed(journal[o], 0))
  BY <1>1, <1>2, <1>4, <1>5, StepsKeep
<1>6. CASE Writes(w, o, Blocked(journal[o]))
  BY <1>1, <1>2, <1>3, <1>6, BlocksKeep DEF LeavesHubDown
<1>7. QED
  BY <1>5, <1>6 DEF ChecksStop

\* The swap is checked against the Hub.
LEMMA ChecksSwapKeeps ==
  ASSUME ReleaseInvariant, NEW w \in Owner, NEW o \in Release, ChecksSwap(w, o)
  PROVE  ReleaseInvariant'
<1>1. /\ Works(w, o, "ready") /\ journal[o].phase = "SWAPPED"
      /\ Writes(w, o, Confirmed(journal[o], 0))
  BY DEF ChecksSwap, Sees
<1>2. /\ journal[o].phase \in PhasesOf(NormalPhases) /\ Rank[journal[o].phase] = 17
      /\ journal[o].phase \notin Call
  BY <1>1, Unobserved, Ranks DEF Observing
<1>3. GoesOn(journal[o].phase) /\ Fitting(journal[o], 0)
  BY <1>1, <1>2 DEF GoesOn, Fitting
<1>4. QED
  BY <1>1, <1>2, <1>3, StepsKeep

\* The answer to a call: what was confirmed is in the effective journal already.
LEMMA TakesKeeps ==
  ASSUME ReleaseInvariant, NEW w \in Owner, NEW o \in Release, Takes(w, o)
  PROVE  ReleaseInvariant'
<1>. DEFINE j == journal[o]
<1>1. Works(w, o, "calling") /\ call[o].state \notin {"none", "out"}
  BY DEF Takes
<1>2. Sound(o, j, call[o], hub) /\ j \in JournalType /\ call[o] \in CallType
  BY DEF ReleaseInvariant, Types
<1>3. j.phase \in Call /\ j.phase # "NONE"
  BY <1>1, <1>2, WorksOnBegun DEF Sound, Booked
<1>4. CASE call[o].state = "CONFIRMED"
  <2>. DEFINE v == call[o].value
  <2>1. Writes(w, o, Confirmed(j, v))
    BY <1>4 DEF Takes
  <2>2. v \in Nat /\ GoesOn(j.phase)
    BY <1>2, <1>3, CallPlaces DEF CallType
  <2>3. Effective(j, call[o]) = Confirmed(j, v)
    BY <1>4 DEF Effective
  <2>4. RelationsValid(Confirmed(j, v)) /\ Stage(o, Confirmed(j, v), hub)
    BY <1>2, <1>3, <2>3 DEF Sound, Legible
  <2>. HIDE DEF v
  <2>5. Confirmed(j, v) \in JournalType /\ Confirmed(j, v).phase # "NONE"
    BY <1>2, <2>2, AfterOnTrack, ConfirmedRow
  <2>6. QED
    BY <2>1, <2>4, <2>5, WritesKeeps
<1>5. CASE call[o].state = "REJECTED"
  <2>1. Writes(w, o, Rejected(j))
    BY <1>5 DEF Takes
  <2>2. j.phase \in Call \ {"PRE_SWAP_CLEANUP_INTENT"}
    BY <1>2, <1>3, <1>5 DEF Sound, Booked
  <2>3. RelationsValid(j) /\ Stage(o, j, hub)
    BY <1>3, <1>5, NotConfirmed
  <2>4. QED
    BY <1>2, <2>1, <2>2, <2>3, RejectedIsFine, WritesKeeps
<1>6. CASE call[o].state = "INVALID"
  <2>1. Writes(w, o, Blocked(j))
    BY <1>6 DEF Takes
  <2>2. j.phase = "FINAL_SNAPSHOT_INTENT"
    BY <1>2, <1>6 DEF Sound, Booked
  <2>3. j.phase \in PhasesOf(NormalPhases)
    BY <2>2, NormalTable DEF PhasesOf
  <2>4. QED
    BY <1>1, <1>6, <2>1, <2>2, <2>3, BlocksKeep DEF LeavesHubDown
<1>7. QED
  BY <1>1, <1>2, <1>4, <1>5, <1>6 DEF CallType

\* A call goes out, once for a key.
LEMMA CallsKeeps ==
  ASSUME ReleaseInvariant, NEW w \in Owner, NEW o \in Release, Calls(w, o)
  PROVE  ReleaseInvariant'
<1>1. /\ Works(w, o, "ready") /\ journal[o].phase \in Call
      /\ call' = IF call[o].state = "none" THEN [call EXCEPT ![o].state = "out"] ELSE call
      /\ proc' = [proc EXCEPT ![w] = [@ EXCEPT !.at = "calling", !.saw = None]]
      /\ UNCHANGED <<journal, hub>>
  BY DEF Calls
<1>2. Types /\ Fenced(hub) /\ \A b \in Release : Sound(b, journal[b], call[b], hub)
  BY DEF ReleaseInvariant
<1>3. /\ DOMAIN proc' = Owner /\ \A u \in Owner \ {w} : proc'[u] = proc[u]
      /\ proc'[w] = [proc[w] EXCEPT !.at = "calling", !.saw = None]
  BY <1>1, <1>2 DEF Types
<1>4. proc'[w].op = proc[w].op /\ (proc'[w].saw = None \/ proc'[w].saw = proc[w].saw)
  BY <1>3
<1>5. \A u \in Owner : ProcType(proc'[u]) /\ proc'[u].op = proc[u].op
  BY <1>2, <1>3, <1>4 DEF Types, ProcType
<1>6. /\ call' \in [Release -> CallType] /\ \A b \in Release \ {o} : call'[b] = call[b]
      /\ call'[o] = call[o] \/ (call[o].state = "none" /\ call'[o].state = "out")
  BY <1>1, <1>2 DEF Types, CallType
<1>7. Types'
  BY <1>1, <1>2, <1>3, <1>5, <1>6 DEF Types, ProcType
<1>8. \A u \in Owner : Begun(proc[u])'
  BY <1>1, <1>5 DEF ReleaseInvariant, Begun
<1>9. Sound(o, journal[o], call'[o], hub)
  <2>1. CASE call[o].state = "none" /\ call'[o].state = "out"
    <3>1. Effective(journal[o], call'[o]) = Effective(journal[o], call[o])
      BY <2>1 DEF Effective
    <3>2. Booked(journal[o], call'[o])
      BY <1>1, <1>2, <2>1 DEF Sound, Booked
    <3>3. QED
      BY <1>2, <3>1, <3>2 DEF Sound, Legible
  <2>2. QED
    BY <1>2, <1>6, <2>1
<1>10. \A b \in Release : Sound(b, journal[b], call'[b], hub)
  BY <1>2, <1>6, <1>9
<1>11. QED
  BY <1>1, <1>2, <1>7, <1>8, <1>10 DEF ReleaseInvariant

\* A cleanup that was refused and is asked for anew by another run.
LEMMA CleanupRejectedKeeps ==
  ASSUME ReleaseInvariant, NEW w \in Owner, NEW o \in Release, CleanupRejected(w, o)
  PROVE  ReleaseInvariant'
<1>1. /\ Out(o) /\ Rests(w) /\ call' = [call EXCEPT ![o] = Uncalled]
      /\ UNCHANGED <<journal, hub>>
  BY DEF CleanupRejected
<1>2. Types /\ Fenced(hub) /\ \A b \in Release : Sound(b, journal[b], call[b], hub)
  BY DEF ReleaseInvariant
<1>3. /\ DOMAIN proc' = Owner
      /\ \A u \in Owner : ProcType(proc'[u]) /\ proc'[u].op \in {proc[u].op, None}
  <2>1. DOMAIN proc' = Owner /\ \A u \in Owner : proc'[u] = IF u = w THEN Resting ELSE proc[u]
    BY <1>1, <1>2 DEF Types, Rests
  <2>2. ProcType(Resting) /\ Resting.op = None
    BY DEF ProcType, Resting
  <2>3. QED
    BY <1>2, <2>1, <2>2 DEF Types
<1>4. Uncalled \in CallType /\ Uncalled.state = "none"
  BY DEF Uncalled, CallType
<1>5. /\ call' \in [Release -> CallType] /\ \A b \in Release \ {o} : call'[b] = call[b]
      /\ call'[o] = Uncalled
  BY <1>1, <1>2, <1>4 DEF Types
<1>6. Types'
  BY <1>1, <1>2, <1>3, <1>5 DEF Types, ProcType
<1>7. \A u \in Owner : Begun(proc[u])'
  BY <1>1, <1>3 DEF ReleaseInvariant, Begun
<1>8. Sound(o, journal[o], Uncalled, hub)
  <2>1. Effective(journal[o], Uncalled) = Effective(journal[o], call[o])
    BY <1>1, <1>4 DEF Effective, Out
  <2>2. Booked(journal[o], Uncalled)
    BY <1>2, <1>4 DEF Sound, Booked
  <2>3. QED
    BY <1>2, <2>1, <2>2 DEF Sound, Legible
<1>9. \A b \in Release : Sound(b, journal[b], call'[b], hub)
  BY <1>2, <1>5, <1>8
<1>10. QED
  BY <1>1, <1>2, <1>6, <1>7, <1>9 DEF ReleaseInvariant

\* The first journal of a release.
LEMMA FirstJournal ==
  ASSUME NEW o \in Release, NEW h, Stage(o, Blank, h)
  PROVE  LET c == [Blank EXCEPT !.phase = "CANDIDATE_PROBE_INTENT"] IN
         /\ Blank \in JournalType /\ c \in JournalType /\ RelationsValid(c)
         /\ c.phase # "NONE" /\ Stage(o, c, h)
<1>. DEFINE c == [Blank EXCEPT !.phase = "CANDIDATE_PROBE_INTENT"]
<1>1. Blank \in JournalType /\ Blank.phase = "NONE"
  BY SomePhases DEF Blank, JournalType
<1>2. /\ c \in JournalType /\ c.phase = "CANDIDATE_PROBE_INTENT"
      /\ c.cause = None /\ c.cleanupAt = None /\ c.failedAt = None
      /\ \A r \in Receipt : c.got[r] = Null
  BY SomePhases DEF Blank, JournalType
<1>. HIDE DEF c
<1>3. c.phase \in PhasesOf(NormalPhases) /\ Rank[c.phase] = 1
  BY <1>2, SomePhases, Ranks
<1>4. \A r \in Receipt : ~Has(c, r)
  BY <1>2 DEF Has
<1>5. ReceiptsAgree(c) /\ Clean(c)
  BY <1>2, <1>4, ReceiptNames DEF ReceiptsAgree, Clean
<1>6. NormalReceipts(c, 1)
  <2>1. SUFFICES ASSUME NEW r \in NormalReceipt PROVE ~(1 > Rank[r]) /\ ~Has(c, r)
    BY DEF NormalReceipts
  <2>2. r \in PhasesOf(NormalPhases)
    BY NormalTable DEF NormalReceipt, NormalCalls, PhasesOf
  <2>3. QED
    BY <1>4, <2>2, OnNormal, ReceiptNames
<1>7. LegibleNormal(c, Rank[c.phase])
  BY <1>2, <1>3, <1>4, <1>5, <1>6, ReceiptNames DEF LegibleNormal
<1>8. RelationsValid(c)
  BY <1>3, <1>5, <1>7, NormalJournal
<1>9. h.last # o
  BY <1>1 DEF Stage, Outcome, Untouched
<1>10. Stage(o, c, h)
  BY <1>3, <1>9, StageAhead DEF NormalStage
<1>11. QED
  BY <1>1, <1>2, <1>8, <1>10 DEF c

\* run: a release begins, or its run is taken up again.
LEMMA BeginKeeps ==
  ASSUME ReleaseInvariant, NEW w \in Owner, NEW o \in Release, Begin(w, o)
  PROVE  ReleaseInvariant'
<1>. DEFINE c == [Blank EXCEPT !.phase = "CANDIDATE_PROBE_INTENT"]
<1>1. /\ proc' = [proc EXCEPT ![w] = [Resting EXCEPT !.op = o]]
      /\ journal' = IF journal[o].phase = "NONE"
                    THEN [journal EXCEPT ![o].phase = "CANDIDATE_PROBE_INTENT"] ELSE journal
      /\ UNCHANGED <<call, hub>>
  BY DEF Begin
<1>2. Types /\ Fenced(hub) /\ \A b \in Release : Sound(b, journal[b], call[b], hub)
  BY DEF ReleaseInvariant
<1>3. /\ DOMAIN proc' = Owner /\ \A u \in Owner \ {w} : proc'[u] = proc[u]
      /\ proc'[w].op = o /\ proc'[w].saw = None
  BY <1>1, <1>2 DEF Types, Resting
<1>4. \A u \in Owner : ProcType(proc'[u])
  BY <1>2, <1>3 DEF Types, ProcType
<1>5. CASE journal[o].phase # "NONE"
  <2>1. journal' = journal
    BY <1>1, <1>5
  <2>2. Types'
    BY <1>1, <1>2, <1>3, <1>4, <2>1 DEF Types, ProcType
  <2>3. \A u \in Owner : Begun(proc[u])'
    BY <1>3, <1>5, <2>1 DEF ReleaseInvariant, Begun
  <2>4. QED
    BY <1>1, <1>2, <2>1, <2>2, <2>3 DEF ReleaseInvariant
<1>6. CASE journal[o].phase = "NONE"
  <2>1. journal[o] = Blank /\ call[o].state = "none"
    <3>1. Booked(journal[o], call[o])
      BY <1>2 DEF Sound
    <3>2. "NONE" \notin Call
      BY DEF Call, NormalCalls, RollbackCalls
    <3>3. call[o].state \in {"none", "out", "CONFIRMED", "REJECTED", "INVALID"}
      BY <1>2 DEF Types, CallType
    <3>4. QED
      BY <1>6, <3>1, <3>2, <3>3 DEF Booked
  <2>2. Stage(o, Blank, hub)
    BY <1>2, <2>1 DEF Sound, Effective
  <2>3. /\ c \in JournalType /\ RelationsValid(c) /\ c.phase # "NONE" /\ Stage(o, c, hub)
    BY <2>2, FirstJournal
  <2>4. journal' = [journal EXCEPT ![o] = c]
    BY <1>1, <1>2, <1>6, <2>1 DEF Types
  <2>. HIDE DEF c
  <2>5. journal' \in [Release -> JournalType]
    BY <1>2, <2>3, <2>4 DEF Types
  <2>6. Types'
    BY <1>1, <1>2, <1>3, <1>4, <2>5 DEF Types, ProcType
  <2>7. journal'[o] = c /\ \A b \in Release \ {o} : journal'[b] = journal[b]
    BY <1>2, <2>4 DEF Types
  <2>8. \A u \in Owner : Begun(proc[u])'
    <3>1. \A b \in Release : journal[b].phase # "NONE" => journal'[b].phase # "NONE"
      BY <2>3, <2>7
    <3>2. \A u \in Owner : proc[u].op \in Release \cup {None}
      BY <1>2 DEF Types, ProcType
    <3>3. QED
      BY <1>3, <2>3, <2>7, <3>1, <3>2 DEF ReleaseInvariant, Begun
  <2>9. Sound(o, c, call[o], hub)
    BY <2>1, <2>3 DEF Sound, Booked, Legible, Effective
  <2>10. \A b \in Release : Sound(b, journal'[b], call[b], hub)
    BY <1>2, <2>7, <2>9
  <2>11. QED
    BY <1>1, <1>2, <2>6, <2>8, <2>10 DEF ReleaseInvariant
<1>7. QED
  BY <1>5, <1>6

\* What an adapter decides, for its release and for the others.
LEMMA DecidesKeep ==
  ASSUME ReleaseInvariant, NEW o \in Release, NEW state \in {"CONFIRMED", "REJECTED", "INVALID"},
         NEW v \in Nat, Decided(o, state, v), hub' \in HubType, Fenced(hub'),
         Aside(o, hub, hub'), Sound(o, journal[o], [state |-> state, value |-> v], hub')
  PROVE  ReleaseInvariant'
<1>1. /\ call' = [call EXCEPT ![o] = [state |-> state, value |-> v]] /\ UNCHANGED <<journal, proc>>
  BY DEF Decided
<1>2. Types /\ Fenced(hub) /\ \A b \in Release : Sound(b, journal[b], call[b], hub)
  BY DEF ReleaseInvariant
<1>3. /\ call' \in [Release -> CallType] /\ \A b \in Release \ {o} : call'[b] = call[b]
      /\ call'[o] = [state |-> state, value |-> v]
  BY <1>1, <1>2 DEF Types, CallType
<1>4. Types'
  BY <1>1, <1>2, <1>3 DEF Types, ProcType
<1>5. \A u \in Owner : Begun(proc[u])'
  BY <1>1 DEF ReleaseInvariant, Begun
<1>6. ASSUME NEW b \in Release \ {o} PROVE Sound(b, journal[b], call'[b], hub')
  <2>1. Stage(b, Effective(journal[b], call[b]), hub')
    BY <1>2, Bystander DEF Sound
  <2>2. QED
    BY <1>2, <1>3, <2>1 DEF Sound
<1>7. \A b \in Release : Sound(b, journal[b], call'[b], hub')
  BY <1>3, <1>6
<1>8. QED
  BY <1>1, <1>4, <1>5, <1>7 DEF ReleaseInvariant

\* A call that is out.
LEMMA OutIsAsked ==
  ASSUME ReleaseInvariant, NEW o \in Release, Out(o)
  PROVE  /\ Asked(o) /\ journal[o].phase \in Call /\ journal[o].phase # "NONE"
         /\ GoesOn(journal[o].phase)
<1>1. journal[o].phase \in Call
  BY DEF ReleaseInvariant, Sound, Booked, Out
<1>2. journal[o].phase # "NONE"
  BY <1>1 DEF Call, NormalCalls, RollbackCalls
<1>3. QED
  BY <1>1, <1>2, NotConfirmed, CallPlaces DEF Out

\* An adapter has done what it was asked for.
LEMMA ConfirmsKeeps ==
  ASSUME ReleaseInvariant, NEW o \in Release, Confirms(o)
  PROVE  ReleaseInvariant' /\ hub'.rows = hub.rows
<1>. DEFINE d == Adapter(o, journal[o].phase)
<1>1. Out(o) /\ d.can /\ hub' = d.hub /\ Decided(o, "CONFIRMED", d.receipt)
  BY DEF Confirms
<1>2. /\ Asked(o) /\ journal[o].phase \in Call /\ journal[o].phase # "NONE"
      /\ GoesOn(journal[o].phase)
  BY <1>1, OutIsAsked
<1>3. Answers(o, d)
  BY <1>1, <1>2, AdapterAnswers
<1>. HIDE DEF d
<1>4. /\ d.receipt \in Nat /\ hub' \in HubType /\ hub'.rows = hub.rows /\ Fenced(hub')
      /\ Aside(o, hub, hub') /\ Stage(o, Confirmed(journal[o], d.receipt), hub')
      /\ Fitting(journal[o], d.receipt)
  BY <1>1, <1>3 DEF Answers
<1>5. RelationsValid(Confirmed(journal[o], d.receipt)) /\ RelationsValid(journal[o])
  BY <1>2, <1>4, ConfirmedIsLegible DEF Asked
<1>. DEFINE a == [state |-> "CONFIRMED", value |-> d.receipt]
<1>6. a.state = "CONFIRMED" /\ Effective(journal[o], a) = Confirmed(journal[o], d.receipt)
  BY DEF Effective
<1>. HIDE DEF a
<1>7. Sound(o, journal[o], a, hub')
  BY <1>2, <1>4, <1>5, <1>6 DEF Sound, Booked, Legible
<1>8. QED
  BY <1>1, <1>4, <1>7, DecidesKeep DEF a

\* An adapter has refused, and may have left traces.
LEMMA RejectsKeeps ==
  ASSUME ReleaseInvariant, NEW o \in Release, Rejects(o)
  PROVE  ReleaseInvariant' /\ hub'.rows = hub.rows
<1>. DEFINE d == Adapter(o, journal[o].phase)
<1>1. /\ Out(o) /\ journal[o].phase # "PRE_SWAP_CLEANUP_INTENT" /\ Decided(o, "REJECTED", 0)
      /\ \/ hub' = hub
         \/ journal[o].phase \in MayLeaveTraces /\ d.can /\ hub' = d.hub
  BY DEF Rejects
<1>2. /\ Asked(o) /\ journal[o].phase \in Call /\ journal[o].phase # "NONE"
  BY <1>1, OutIsAsked
<1>3. d.can => Answers(o, d)
  BY <1>2, AdapterAnswers
<1>. HIDE DEF d
<1>4. /\ hub' \in HubType /\ hub'.rows = hub.rows /\ Fenced(hub') /\ Aside(o, hub, hub')
      /\ Stage(o, journal[o], hub')
  <2>1. CASE hub' = hub
    BY <1>2, <2>1 DEF Asked, Aside
  <2>2. CASE journal[o].phase \in MayLeaveTraces /\ d.can /\ hub' = d.hub
    BY <1>3, <2>2 DEF Answers
  <2>3. QED
    BY <1>1, <2>1, <2>2
<1>. DEFINE a == [state |-> "REJECTED", value |-> 0]
<1>5. a.state = "REJECTED" /\ Effective(journal[o], a) = journal[o]
  BY DEF Effective
<1>. HIDE DEF a
<1>6. Sound(o, journal[o], a, hub')
  BY <1>1, <1>2, <1>4, <1>5 DEF Sound, Booked, Legible, Asked
<1>7. QED
  BY <1>1, <1>4, <1>6, DecidesKeep DEF a

\* A final snapshot that does not fit its proof.
LEMMA SpoilsKeeps ==
  ASSUME ReleaseInvariant, NEW o \in Release, Spoils(o)
  PROVE  ReleaseInvariant' /\ hub'.rows = hub.rows
<1>1. /\ Out(o) /\ journal[o].phase = "FINAL_SNAPSHOT_INTENT" /\ Decided(o, "INVALID", 0)
      /\ hub' = hub
  BY DEF Spoils
<1>2. Asked(o) /\ journal[o].phase \in Call
  BY <1>1, OutIsAsked
<1>. DEFINE a == [state |-> "INVALID", value |-> 0]
<1>3. a.state = "INVALID" /\ Effective(journal[o], a) = journal[o]
  BY DEF Effective
<1>. HIDE DEF a
<1>4. Sound(o, journal[o], a, hub')
  BY <1>1, <1>2, <1>3 DEF Sound, Booked, Legible, Asked
<1>5. hub' \in HubType /\ Fenced(hub') /\ Aside(o, hub, hub')
  BY <1>1, <1>2 DEF Asked, Aside
<1>6. QED
  BY <1>1, <1>4, <1>5, DecidesKeep DEF a

----------------------------------------------------------------------------
(* The Hub by itself.                                                      *)

\* What the Hub does by itself, if it leaves every stage alone.
LEMMA HubKeeps ==
  ASSUME ReleaseInvariant, UNCHANGED <<journal, call, proc>>, hub' \in HubType, Fenced(hub'),
         \A o \in Release : \A e : Stage(o, e, hub) => Stage(o, e, hub')
  PROVE  ReleaseInvariant'
<1>1. Types' /\ \A w \in Owner : Begun(proc[w])'
  BY DEF ReleaseInvariant, Types, ProcType, Begun
<1>2. \A o \in Release : Sound(o, journal[o], call[o], hub')
  BY DEF ReleaseInvariant, Sound
<1>3. QED
  BY <1>1, <1>2 DEF ReleaseInvariant

\* A Hub writes when it serves, and then no release is under way.
LEMMA HubWritesKeeps ==
  ASSUME ReleaseInvariant, HubWrites
  PROVE  ReleaseInvariant' /\ hub'.rows >= hub.rows
<1>1. hub \in HubType /\ Fenced(hub) /\ hub.fence = None
  BY DEF ReleaseInvariant, Types, HubWrites, Fenced
<1>2. hub.rows + 1 \in Nat /\ hub.rows \in Nat
  BY <1>1 DEF HubType
<1>3. /\ hub' \in HubType /\ hub'.rows = hub.rows + 1
      /\ hub'.build = hub.build /\ hub'.state = hub.state /\ hub'.runtime = hub.runtime
      /\ hub'.mode = hub.mode /\ hub'.fence = hub.fence /\ hub'.last = hub.last
      /\ hub'.schema = hub.schema /\ hub'.bridges = hub.bridges
  BY <1>1, <1>2 DEF HubWrites, HubType
<1>4. \A build : ServesIn(hub', build) <=> ServesIn(hub, build)
  BY <1>3 DEF ServesIn
<1>5. Fenced(hub')
  BY <1>1, <1>3, <1>4 DEF Fenced
<1>6. ASSUME NEW o \in Release, NEW e, Stage(o, e, hub) PROVE Stage(o, e, hub')
  <2>1. Outcome(o, e, hub')
    BY <1>3, <1>4, <1>6 DEF Stage, Outcome
  <2>2. ~UnderWay(e)
    BY <1>1, <1>6, ReleaseConstants DEF Stage, Progress
  <2>3. e.phase \in PhasesOf(NormalPhases) => Rank[e.phase] \in 1 .. 30
    BY OnNormal
  <2>4. e.phase \in PhasesOf(RollbackPhases) => Rank[e.phase] \in 1 .. 13
    BY OnRollback
  <2>5. Progress(o, e, hub')
    BY <2>2, <2>3, <2>4 DEF Progress, UnderWay, Ahead, Back
  <2>6. QED
    BY <2>1, <2>5 DEF Stage
<1>7. QED
  BY <1>2, <1>3, <1>5, <1>6, HubKeeps DEF HubWrites

\* A Hub goes down under a fence only, and its release expects it.
LEMMA HubGoesDown ==
  ASSUME ReleaseInvariant, UNCHANGED <<journal, call, proc>>, hub.fence # None,
         hub' = [hub EXCEPT !.state = "STOPPED"]
  PROVE  ReleaseInvariant' /\ hub'.rows = hub.rows
<1>1. hub \in HubType /\ Fenced(hub)
  BY DEF ReleaseInvariant, Types
<1>2. /\ hub' \in HubType /\ hub'.rows = hub.rows /\ hub'.pointer = hub.pointer
      /\ hub'.build = hub.build /\ hub'.runtime = hub.runtime
      /\ hub'.mode = hub.mode /\ hub'.fence = hub.fence /\ hub'.last = hub.last
      /\ hub'.schema = hub.schema /\ hub'.bridges = hub.bridges
  BY <1>1 DEF HubType
<1>3. Fenced(hub')
  BY <1>1, <1>2 DEF Fenced
<1>4. ASSUME NEW o \in Release, NEW e, Stage(o, e, hub) PROVE Stage(o, e, hub')
  <2>1. Outcome(o, e, hub')
    BY <1>1, <1>2, <1>4 DEF Stage, Outcome, Fenced
  <2>2. Progress(o, e, hub')
    BY <1>2, <1>4 DEF Stage, Progress
  <2>3. QED
    BY <2>1, <2>2 DEF Stage
<1>5. QED
  BY <1>2, <1>3, <1>4, HubKeeps

\* A Hub that stops, or dies, in a maintenance.
LEMMA HubStopsKeeps ==
  ASSUME ReleaseInvariant, HubStops \/ HubDies
  PROVE  ReleaseInvariant' /\ hub'.rows = hub.rows
<1>1. hub.fence # None
  BY DEF ReleaseInvariant, Fenced, ServesIn, HubStops, HubDies
<1>2. UNCHANGED <<journal, call, proc>> /\ hub' = [hub EXCEPT !.state = "STOPPED"]
  BY DEF HubStops, HubDies
<1>3. QED
  BY <1>1, <1>2, HubGoesDown

----------------------------------------------------------------------------
(* The theorems.                                                           *)

\* Before anything is asked for.
LEMMA InitHolds == Init => ReleaseInvariant
<1>. SUFFICES ASSUME Init PROVE ReleaseInvariant
  OBVIOUS
<1>1. /\ hub \in HubType /\ hub.fence = None /\ hub.last = None /\ ServesIn(hub, hub.build)
      /\ hub.mode = "NORMAL"
  BY ReleaseConstants DEF Init, HubType, ServesIn
<1>2. Blank \in JournalType /\ Uncalled \in CallType /\ Blank.phase = "NONE"
  BY SomePhases DEF Blank, JournalType, Uncalled, CallType
<1>3. Types
  BY <1>1, <1>2, ReleaseConstants DEF Init, Types, ProcType, Resting
<1>4. \A w \in Owner : Begun(proc[w])
  BY DEF Init, Begun, Resting
<1>5. Fenced(hub)
  BY <1>1 DEF Fenced
<1>6. ASSUME NEW o \in Release PROVE Sound(o, Blank, Uncalled, hub)
  <2>1. Effective(Blank, Uncalled) = Blank
    BY DEF Effective, Uncalled
  <2>2. Booked(Blank, Uncalled) /\ Legible(Blank, Uncalled)
    BY <1>2 DEF Booked, Legible, Uncalled
  <2>3. "NONE" \notin PhasesOf(NormalPhases) \cup PhasesOf(RollbackPhases)
    BY NormalPlaces, RollbackPlaces
  <2>4. hub.last # o
    BY <1>1, ReleaseConstants
  <2>5. Outcome(o, Blank, hub)
    BY <1>2, <2>3, <2>4 DEF Outcome, Untouched, Deployed, TakenBack, Ahead, Back
  <2>6. Progress(o, Blank, hub)
    BY <1>2, <2>3 DEF Progress, UnderWay, Ahead, Back
  <2>7. QED
    BY <2>1, <2>2, <2>5, <2>6 DEF Sound, Stage
<1>7. QED
  BY <1>3, <1>4, <1>5, <1>6 DEF ReleaseInvariant, Init

\* One step per action.  Nothing a run does by itself touches the Hub.
LEMMA StepHolds ==
  ASSUME ReleaseInvariant, [Next]_vars
  PROVE  ReleaseInvariant' /\ hub'.rows >= hub.rows
<1>0. hub.rows \in Nat
  BY DEF ReleaseInvariant, Types, HubType
<1>1. ASSUME NEW w \in Owner, Loses(w) \/ LosesAnswer(w) \/ Crashes(w)
      PROVE  ReleaseInvariant' /\ hub'.rows >= hub.rows
  <2>1. Rests(w) /\ UNCHANGED <<journal, call, hub>>
    BY <1>1 DEF Loses, LosesAnswer, Crashes
  <2>2. QED
    BY <1>0, <2>1, RestsKeeps
<1>2. ASSUME NEW w \in Owner, NEW o \in Release, GivesUp(w, o) \/ Finishes(w, o)
      PROVE  ReleaseInvariant' /\ hub'.rows >= hub.rows
  <2>1. Rests(w) /\ UNCHANGED <<journal, call, hub>>
    BY <1>2 DEF GivesUp, Finishes
  <2>2. QED
    BY <1>0, <2>1, RestsKeeps
<1>3. ASSUME NEW w \in Owner, NEW o \in Release,
             \/ Moves(w, o) \/ Authorizes(w, o) \/ Revalidates(w, o) \/ ChecksStop(w, o)
             \/ ChecksSwap(w, o) \/ Takes(w, o)
      PROVE  ReleaseInvariant' /\ hub'.rows >= hub.rows
  <2>1. ReleaseInvariant'
    BY <1>3, MovesKeeps, AuthorizesKeeps, RevalidatesKeeps, ChecksStopKeeps, ChecksSwapKeeps,
       TakesKeeps
  <2>2. hub' = hub
    BY <1>3 DEF Moves, Authorizes, Revalidates, ChecksStop, ChecksSwap, Takes, Writes
  <2>3. QED
    BY <1>0, <2>1, <2>2
<1>4. ASSUME NEW w \in Owner, NEW o \in Release,
             Observes(w, o) \/ Calls(w, o) \/ Begin(w, o) \/ CleanupRejected(w, o)
      PROVE  ReleaseInvariant' /\ hub'.rows >= hub.rows
  <2>1. ReleaseInvariant'
    BY <1>4, ObservesKeeps, CallsKeeps, BeginKeeps, CleanupRejectedKeeps
  <2>2. hub' = hub
    BY <1>4 DEF Observes, Calls, Begin, CleanupRejected
  <2>3. QED
    BY <1>0, <2>1, <2>2
<1>5. ASSUME NEW o \in Release, Confirms(o) \/ Rejects(o) \/ Spoils(o)
      PROVE  ReleaseInvariant' /\ hub'.rows >= hub.rows
  BY <1>0, <1>5, ConfirmsKeeps, RejectsKeeps, SpoilsKeeps
<1>6. CASE Expires \/ Stalls \/ UNCHANGED vars
  <2>1. UNCHANGED <<journal, call, hub, proc>>
    BY <1>6 DEF Expires, Stalls, vars
  <2>2. DOMAIN proc' = Owner /\ \A w \in Owner : ProcType(proc'[w]) /\ proc'[w].op = proc[w].op
    BY <2>1 DEF ReleaseInvariant, Types
  <2>3. QED
    BY <1>0, <2>1, <2>2, BookkeepingKeeps
<1>7. CASE HubWrites \/ HubStops \/ HubDies
  BY <1>0, <1>7, HubWritesKeeps, HubStopsKeeps
<1>8. QED
  BY <1>1, <1>2, <1>3, <1>4, <1>5, <1>6, <1>7 DEF Next, ManagerStep, AdapterStep

\* Of the journals, the calls and the installation at every point of any
\* releases, run by any number of managers.
THEOREM ReleasesHold == Spec => []ReleaseInvariant
<1>1. ReleaseInvariant /\ [Next]_vars => ReleaseInvariant'
  BY StepHolds
<1>2. QED
  BY InitHolds, <1>1, PTL DEF Spec

\* No journal the manager writes is one it would refuse (transition,
\* journalRelationsValid).
THEOREM JournalsAreLegible == Spec => []JournalStaysLegible
<1>1. ReleaseInvariant => JournalStaysLegible
  BY DEF ReleaseInvariant, Sound, Legible, JournalStaysLegible
<1>2. QED
  BY ReleasesHold, <1>1, PTL

\* A Hub that takes requests is one build throughout (the swap, the migration,
\* the bridges and their undoing).
THEOREM OpenHubsAreConsistent == Spec => []OpenHubIsConsistent
<1>1. ReleaseInvariant => OpenHubIsConsistent
  BY DEF ReleaseInvariant, Fenced, ServesIn, OpenHubIsConsistent, Serves, Running
<1>2. QED
  BY ReleasesHold, <1>1, PTL

\* What a release reports at its end is how it left the installation.
THEOREM OutcomesAreTrue == Spec => []OutcomeIsTrue
<1>1. ASSUME ReleaseInvariant, NEW o \in Release
      PROVE  LET j == journal[o]  last == hub.last = o IN
             /\ j.phase = "COMPLETED" /\ last => Serves(To(o))
             /\ j.phase = "ROLLED_BACK" /\ last => Serves(From(o))
             /\ j.phase = "BLOCKED" /\ j.cleanupAt # None /\ last => Serves(From(o))
             /\ j.phase = "BLOCKED" /\ j.cleanupAt = None /\ j.failedAt \notin LeavesHubDown =>
                  ~last
  <2>1. journal[o].phase \in {"COMPLETED", "ROLLED_BACK", "BLOCKED"} => Stage(o, journal[o], hub)
    <3>1. journal[o].phase \in {"COMPLETED", "ROLLED_BACK", "BLOCKED"} =>
            journal[o].phase \notin Call
      BY DEF Call, NormalCalls, RollbackCalls
    <3>2. call[o].state = "CONFIRMED" => journal[o].phase \in Call
      BY <1>1 DEF ReleaseInvariant, Sound, Booked
    <3>3. QED
      BY <1>1, <3>1, <3>2, NotConfirmed
  <2>2. "COMPLETED" \in PhasesOf(NormalPhases) /\ "ROLLED_BACK" \in PhasesOf(RollbackPhases)
    BY NormalTable, RollbackTable DEF PhasesOf
  <2>3. \A build : ServesIn(hub, build) => Serves(build)
    BY DEF ServesIn, Serves, Running
  <2>4. journal[o].phase = "COMPLETED" => Deployed(journal[o])
    BY <2>2, Ranks DEF Deployed, Ahead
  <2>5. journal[o].phase = "ROLLED_BACK" => TakenBack(journal[o])
    BY <2>2, Ranks DEF TakenBack, Back
  <2>6. QED
    BY <2>1, <2>3, <2>4, <2>5 DEF Stage, Outcome, TakenBack, Untouched
<1>2. ReleaseInvariant => OutcomeIsTrue
  BY <1>1 DEF OutcomeIsTrue
<1>3. QED
  BY ReleasesHold, <1>2, PTL

\* Nothing takes back a row the Hub has accepted: a rollback restores the
\* snapshot that was made behind the fence, and it is still all there is.
THEOREM WritesAreKept == Spec => WritesSurvive
<1>1. ReleaseInvariant /\ [Next]_vars => [hub'.rows >= hub.rows]_vars
  BY StepHolds
<1>2. QED
  BY ReleasesHold, <1>1, PTL DEF Spec, WritesSurvive

----------------------------------------------------------------------------
(* Types.                                                                  *)

Sight ==
  [build : Build, stopped : BOOLEAN, runtime : Build, mode : {"NORMAL", "MAINTENANCE"},
   instance : Nat]
ProcRow == [op : Release \cup {None}, at : {"ready", "calling"}, saw : Sight \cup {None}]
LeaseRow == [op : Release \cup {None}, owner : Owner \cup {None}, live : BOOLEAN]

RunsTyped ==
  /\ proc \in [Owner -> ProcRow]
  /\ lease \in LeaseRow
  /\ faults \in 0 .. MaxFaults

\* Faults are bounded.
LEMMA FaultsCounted ==
  ASSUME faults \in 0 .. MaxFaults, faults' = faults \/ Fault
  PROVE  faults' \in 0 .. MaxFaults
BY ReleaseConstants DEF Fault

\* A run that ends has a type.
LEMMA RestsTyped ==
  ASSUME RunsTyped, NEW w \in Owner, Rests(w)
  PROVE  proc' \in [Owner -> ProcRow]
BY DEF RunsTyped, Rests, Resting, ProcRow

\* Runs, lease and faults keep their types.
LEMMA RunsStayTyped ==
  ASSUME ReleaseInvariant, RunsTyped, [Next]_vars
  PROVE  RunsTyped'
<1>1. ASSUME NEW w \in Owner, Loses(w) \/ LosesAnswer(w) \/ Crashes(w) PROVE RunsTyped'
  <2>1. Rests(w) /\ (faults' = faults \/ Fault)
    BY <1>1 DEF Loses, LosesAnswer, Crashes
  <2>2. lease' \in LeaseRow
    BY <1>1 DEF RunsTyped, LeaseRow, Loses, LosesAnswer, Crashes
  <2>3. QED
    BY <2>1, <2>2, RestsTyped, FaultsCounted DEF RunsTyped
<1>2. ASSUME NEW w \in Owner, NEW o \in Release, GivesUp(w, o) \/ Finishes(w, o) PROVE RunsTyped'
  <2>1. Rests(w) /\ (faults' = faults \/ Fault)
    BY <1>2 DEF GivesUp, Finishes
  <2>2. lease' = lease \/ lease' = Free
    BY <1>2 DEF GivesUp, Finishes
  <2>3. Free \in LeaseRow
    BY DEF Free, LeaseRow
  <2>4. QED
    BY <2>1, <2>2, <2>3, RestsTyped, FaultsCounted DEF RunsTyped
<1>3. ASSUME NEW w \in Owner, NEW o \in Release, NEW c, Writes(w, o, c) PROVE RunsTyped'
  BY <1>3 DEF RunsTyped, ProcRow, Writes
<1>4. ASSUME NEW w \in Owner, NEW o \in Release, Observes(w, o) PROVE RunsTyped'
  <2>1. [build |-> hub.build, stopped |-> hub.state = "STOPPED", runtime |-> hub.runtime,
         mode |-> hub.mode, instance |-> hub.instance] \in Sight
    BY DEF ReleaseInvariant, Types, HubType, Sight
  <2>2. QED
    BY <1>4, <2>1 DEF RunsTyped, ProcRow, Observes
<1>5. ASSUME NEW w \in Owner, NEW o \in Release, Calls(w, o) PROVE RunsTyped'
  BY <1>5 DEF RunsTyped, ProcRow, Calls
<1>6. ASSUME NEW w \in Owner, NEW o \in Release, Begin(w, o) PROVE RunsTyped'
  BY <1>6 DEF RunsTyped, ProcRow, LeaseRow, Begin, Resting
<1>7. ASSUME NEW o \in Release, Confirms(o) \/ Rejects(o) \/ Spoils(o) PROVE RunsTyped'
  BY <1>7, FaultsCounted DEF RunsTyped, Confirms, Rejects, Spoils, Decided
<1>8. CASE Expires \/ Stalls
  <2>1. lease' = [lease EXCEPT !.live = FALSE] /\ proc' = proc /\ (faults' = faults \/ Fault)
    BY <1>8 DEF Expires, Stalls
  <2>2. QED
    BY <2>1, FaultsCounted DEF RunsTyped, LeaseRow
<1>9. CASE HubWrites \/ HubStops \/ HubDies \/ UNCHANGED vars
  BY <1>9, FaultsCounted DEF RunsTyped, HubWrites, HubStops, HubDies, vars
<1>10. ASSUME NEW w \in Owner, NEW o \in Release,
              \/ Moves(w, o) \/ Authorizes(w, o) \/ Revalidates(w, o) \/ ChecksStop(w, o)
              \/ ChecksSwap(w, o) \/ Takes(w, o)
       PROVE  RunsTyped'
  <2>1. \E c : Writes(w, o, c)
    BY <1>10 DEF Moves, Authorizes, Revalidates, ChecksStop, ChecksSwap, Takes
  <2>2. QED
    BY <1>3, <2>1
<1>11. ASSUME NEW w \in Owner, NEW o \in Release, CleanupRejected(w, o) PROVE RunsTyped'
  BY <1>11, RestsTyped, FaultsCounted DEF RunsTyped, CleanupRejected
<1>12. QED
  BY <1>1, <1>2, <1>4, <1>5, <1>6, <1>7, <1>8, <1>9, <1>10, <1>11
     DEF Next, ManagerStep, AdapterStep

\* Types, and a call only where the journal makes one.
THEOREM ReleaseTypes == Spec => []TypeOK
<1>1. Init => RunsTyped
  BY ReleaseConstants DEF Init, RunsTyped, Free, Resting, LeaseRow, ProcRow
<1>2. ReleaseInvariant /\ RunsTyped /\ [Next]_vars => RunsTyped'
  BY RunsStayTyped
<1>3. ReleaseInvariant /\ RunsTyped => TypeOK
  <2>1. SUFFICES ASSUME ReleaseInvariant, RunsTyped PROVE TypeOK
    OBVIOUS
  <2>2. ASSUME NEW o \in Release
        PROVE  /\ journal[o].phase \in Phase
               /\ call[o].state \in {"none", "out", "CONFIRMED", "REJECTED", "INVALID"}
               /\ call[o].state # "none" => journal[o].phase \in Call
    BY <2>1 DEF ReleaseInvariant, Types, JournalType, CallType, Sound, Booked
  <2>3. lease.op \in Release \cup {None} /\ lease.owner \in Owner \cup {None}
    BY <2>1 DEF RunsTyped, LeaseRow
  <2>4. \A w \in Owner : proc[w].op \in Release \cup {None} /\ proc[w].at \in {"ready", "calling"}
    BY <2>1 DEF RunsTyped, ProcRow
  <2>5. hub.build \in Build /\ hub.runtime \in Build /\ hub.schema \in Build
    BY <2>1 DEF ReleaseInvariant, Types, HubType
  <2>6. QED
    BY <2>1, <2>2, <2>3, <2>4, <2>5 DEF TypeOK, RunsTyped
<1>4. QED
  BY ReleasesHold, <1>1, <1>2, <1>3, PTL DEF Spec
=============================================================================
