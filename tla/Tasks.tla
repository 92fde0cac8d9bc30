------------------------------- MODULE Tasks -------------------------------
(***************************************************************************)
(* The task board of a project: statuses, claims, hand-offs, and the        *)
(* presence of the sessions that hold claims.                              *)
(*                                                                         *)
(* A task is worked on by the session that claimed it.  A claim outlives    *)
(* its session: registration of a successor in the same lineage takes the   *)
(* unfinished tasks over, and a claim whose owner fell silent is marked     *)
(* stale, which lets others release it or take it over.                    *)
(*                                                                         *)
(* Source: apps/hub/src/services/store/tasks.ts, with the task part of     *)
(* registerSession, heartbeat and refreshDerivedPresence in sessions.ts.    *)
(* One store call is one SQLite transaction and one action; expectedVersion *)
(* compares with a value the caller read, so a call based on an outdated    *)
(* read is refused and is not an action.  Todo items are counted.  Progress *)
(* figures, titles, scopes and priorities are left out.                    *)
(***************************************************************************)
EXTENDS SessionLineages, FiniteSets

CONSTANTS
  Task,            \* task ids
  Agent,           \* agent ids
  AgentOf,         \* the agent a session id speaks for
  WorkerOf,        \* the agent a logical identity belongs to
  ReviewRequired,  \* the tasks with review_required
  DashboardActs,   \* whether the dashboard user acts for sessions too
  MaxTodos,        \* bound on the todo items of a task
  MaxLag           \* bound on the lag classes: 0, 1 > offlineAfter, 2 > staleClaimAfter

ASSUME TaskConstants ==
  /\ None \notin Task
  /\ AgentOf \in [Session -> Agent]
  /\ WorkerOf \in [Lineage -> Agent]
  /\ ReviewRequired \subseteq Task
  /\ DashboardActs \in BOOLEAN
  /\ MaxTodos \in Nat
  /\ MaxLag \in 0 .. 2

VARIABLES
  task,         \* tasks, with their dependencies and todo counts
  currentTask,  \* agent_sessions.current_task_id
  presence      \* derived OFFLINE, and how long the transport was silent

taskVars == <<task, currentTask, presence>>
boardVars == <<session, lineage, reservation, task, currentTask, presence>>

----------------------------------------------------------------------------

TaskStatus == {"BACKLOG", "READY", "CLAIMED", "IN_PROGRESS", "BLOCKED", "WAITING_FOR_PEER",
               "WAITING_FOR_USER", "REVIEW_PENDING", "IN_REVIEW", "CHANGES_REQUESTED",
               "APPROVED", "DONE", "CANCELLED"}

\* TASK_TRANSITIONS: what updateTask may do.  The other calls set the status
\* of their own accord.
Transitions ==
  [BACKLOG           |-> {"READY", "CANCELLED"},
   READY             |-> {"CLAIMED", "CANCELLED"},
   CLAIMED           |-> {"IN_PROGRESS", "READY", "CANCELLED"},
   IN_PROGRESS       |-> {"BLOCKED", "WAITING_FOR_PEER", "WAITING_FOR_USER", "REVIEW_PENDING", "CANCELLED"},
   BLOCKED           |-> {"IN_PROGRESS", "READY", "CANCELLED"},
   WAITING_FOR_PEER  |-> {"IN_PROGRESS", "REVIEW_PENDING", "CANCELLED"},
   WAITING_FOR_USER  |-> {"IN_PROGRESS", "CANCELLED"},
   REVIEW_PENDING    |-> {"IN_REVIEW", "CHANGES_REQUESTED", "APPROVED", "CANCELLED"},
   IN_REVIEW         |-> {"CHANGES_REQUESTED", "APPROVED"},
   CHANGES_REQUESTED |-> {"IN_PROGRESS", "REVIEW_PENDING"},
   APPROVED          |-> {"DONE"},
   DONE              |-> {},
   CANCELLED         |-> {}]

\* The statuses in which a task does not follow its owner to a successor.
Parked == {"BACKLOG", "READY", "APPROVED", "DONE", "CANCELLED"}

NoTask == [status |-> "ABSENT", owner |-> None, stale |-> FALSE, deps |-> {},
           todos |-> 0, incomplete |-> 0]

TaskRow ==
  [status : TaskStatus \cup {"ABSENT"}, owner : Session \cup {None}, stale : BOOLEAN,
   deps : SUBSET Task, todos : Nat, incomplete : Nat]

Created(t) == task[t].status # "ABSENT"

\* A session's ticket controls it while it is open; the dashboard user may
\* name any session.
Controls(s) == IsOpen(s) \/ (DashboardActs /\ Registered(s))

DependenciesDone(t) == \A d \in task[t].deps : task[d].status = "DONE"

Heard == [offline |-> FALSE, lag |-> 0]

BoardInit ==
  /\ LineageInit
  /\ task = [t \in Task |-> NoTask]
  /\ currentTask = [s \in Session |-> None]
  /\ presence = [s \in Session |-> Heard]

----------------------------------------------------------------------------

(* createTask: any status may be asked for; READY becomes BACKLOG while a   *)
(* dependency is open.                                                     *)
CreateTask(t, status, deps) ==
  /\ ~Created(t)
  /\ \A d \in deps : Created(d)
  /\ task' = [task EXCEPT ![t] =
       [NoTask EXCEPT
          !.status = IF status = "READY" /\ \E d \in deps : task[d].status # "DONE"
                     THEN "BACKLOG" ELSE status,
          !.deps = deps]]
  /\ UNCHANGED <<lineageVars, currentTask, presence>>

(* splitTask: the parent is blocked whatever its status was, and the        *)
(* children are ready.  (The call needs two children; those outside Task    *)
(* are not seen.)                                                          *)
SplitTask(s, p, children) ==
  /\ Controls(s)
  /\ Created(p)
  /\ children # {}
  /\ \A c \in children : ~Created(c) /\ (c \in ReviewRequired <=> p \in ReviewRequired)
  /\ task' = [t \in Task |->
       IF t = p THEN [task[p] EXCEPT !.status = "BLOCKED"]
       ELSE IF t \in children THEN [NoTask EXCEPT !.status = "READY"] ELSE task[t]]
  /\ UNCHANGED <<lineageVars, currentTask, presence>>

(* updateTask by any agent or user: the table decides, and DONE needs the   *)
(* completion gate.  The owner stays.                                      *)
UpdateTask(t, status, gateOpen) ==
  /\ Created(t)
  /\ status \in Transitions[task[t].status]
  /\ status = "DONE" => gateOpen
  /\ task' = [task EXCEPT ![t].status = status]
  /\ UNCHANGED <<lineageVars, currentTask, presence>>

\* Mutant: the stale mark of a claim is not looked at.
ClaimOverOwner(s, t) ==
  /\ Controls(s)
  /\ task[t].status \in {"READY", "BACKLOG"}
  /\ DependenciesDone(t)
  /\ task' = [task EXCEPT ![t] = [@ EXCEPT !.status = "CLAIMED", !.owner = s, !.stale = FALSE]]
  /\ currentTask' = [currentTask EXCEPT ![s] = t]
  /\ UNCHANGED <<lineageVars, presence>>

\* Mutant: a claim from the backlog is not held up by dependencies.
ClaimFromBacklog(s, t) ==
  /\ Controls(s)
  /\ task[t].status \in {"READY", "BACKLOG"}
  /\ task[t].status = "READY" => DependenciesDone(t)
  /\ task[t].owner # None => task[t].stale
  /\ task' = [task EXCEPT ![t] = [@ EXCEPT !.status = "CLAIMED", !.owner = s, !.stale = FALSE]]
  /\ currentTask' = [currentTask EXCEPT ![s] = t]
  /\ UNCHANGED <<lineageVars, presence>>

(* claimTask: an owned task only when the claim is stale (takeoverStale).   *)
ClaimTask(s, t) ==
  /\ Controls(s)
  /\ task[t].status \in {"READY", "BACKLOG"}
  /\ DependenciesDone(t)
  /\ task[t].owner # None => task[t].stale
  /\ task' = [task EXCEPT ![t] = [@ EXCEPT !.status = "CLAIMED", !.owner = s, !.stale = FALSE]]
  /\ currentTask' = [currentTask EXCEPT ![s] = t]
  /\ UNCHANGED <<lineageVars, presence>>

(* releaseTask: the owner, or anybody once the claim is stale; any status   *)
(* becomes READY.                                                          *)
ReleaseTask(s, t) ==
  /\ Controls(s)
  /\ Created(t)
  /\ task[t].owner = s \/ task[t].stale
  /\ task' = [task EXCEPT ![t] = [@ EXCEPT !.status = "READY", !.owner = None, !.stale = FALSE]]
  /\ currentTask' = IF task[t].owner = None THEN currentTask
                    ELSE [currentTask EXCEPT ![task[t].owner] = None]
  /\ UNCHANGED <<lineageVars, presence>>

(* handoffTask: the task waits for a peer, who is told by a message and     *)
(* named in waiting_for but does not become the owner.                     *)
HandoffTask(s, t) ==
  /\ IsOpen(s)
  /\ task[t].owner = s
  /\ task' = [task EXCEPT ![t] = [@ EXCEPT !.status = "WAITING_FOR_PEER", !.owner = None]]
  /\ currentTask' = [currentTask EXCEPT ![s] = None]
  /\ UNCHANGED <<lineageVars, presence>>

CreateTodo(t) ==
  /\ Created(t)
  /\ task[t].todos < MaxTodos
  /\ task' = [task EXCEPT ![t] = [@ EXCEPT !.todos = task[t].todos + 1,
                                          !.incomplete = task[t].incomplete + 1]]
  /\ UNCHANGED <<lineageVars, currentTask, presence>>

(* updateTodo: an item is finished (DONE or SKIPPED) or reopened.           *)
UpdateTodo(t, finished) ==
  /\ IF finished THEN task[t].incomplete > 0 ELSE task[t].incomplete < task[t].todos
  /\ task' = [task EXCEPT ![t].incomplete = IF finished THEN @ - 1 ELSE @ + 1]
  /\ UNCHANGED <<lineageVars, currentTask, presence>>

----------------------------------------------------------------------------
(* Presence.  Time passes for a session whose adapter is silent.            *)

FallSilent(s) ==
  /\ IsOpen(s)
  /\ presence[s].lag < MaxLag
  /\ presence' = [presence EXCEPT ![s].lag = @ + 1]
  /\ UNCHANGED <<lineageVars, task, currentTask>>

(* heartbeat: brings a session back; claims are not touched.                *)
Heartbeat(s) ==
  /\ IsOpen(s)
  /\ presence' = [presence EXCEPT ![s] = Heard]
  /\ UNCHANGED <<lineageVars, task, currentTask>>

(* refreshDerivedPresence, for one row: it is looked at until it is OFFLINE, *)
(* and its current task is marked stale if the limit has passed by then.    *)
RefreshPresence(s) ==
  LET t == currentTask[s] IN
  /\ IsOpen(s)
  /\ ~presence[s].offline
  /\ presence[s].lag > 0
  /\ presence' = [presence EXCEPT ![s].offline = TRUE]
  /\ task' = IF t # None /\ presence[s].lag = 2 THEN [task EXCEPT ![t].stale = TRUE] ELSE task
  /\ UNCHANGED <<lineageVars, currentTask>>

----------------------------------------------------------------------------
(* Sessions, with their part of the board.                                  *)

\* Mutant: tasks that wait for somebody are left behind.
UnfinishedButWaiting(p) ==
  {t \in Task : task[t].owner = p
     /\ task[t].status \notin Parked \cup {"WAITING_FOR_PEER", "WAITING_FOR_USER"}}

Unfinished(p) == {t \in Task : task[t].owner = p /\ task[t].status \notin Parked}

(* The task part of registerSession: the predecessor's unfinished tasks and *)
(* one of them as the current task go to the successor.                     *)
TransferTasks(p, s) ==
  LET moved == Unfinished(p) IN
  /\ task' = [t \in Task |->
       IF t \in moved THEN [task[t] EXCEPT !.owner = s, !.stale = FALSE] ELSE task[t]]
  /\ \E t \in IF moved = {} THEN {None} ELSE moved :
       currentTask' = [currentTask EXCEPT ![s] = t, ![p] = None]

RegisterWorker(s, l, r, expected) ==
  LET p == lineage[l].head IN
  /\ AgentOf[s] = WorkerOf[l]
  /\ RegisterIncarnation(s, l, r, expected)
  /\ IF p = None THEN UNCHANGED <<task, currentTask>> ELSE TransferTasks(p, s)
  /\ presence' = [presence EXCEPT ![s] = Heard]

\* CLOSED takes the place of the derived state.
CloseWorker(s) ==
  /\ CloseSession(s)
  /\ presence' = [presence EXCEPT ![s] = Heard]
  /\ UNCHANGED <<task, currentTask>>

WorkerStep ==
  \/ \E r \in Run, l \in Lineage : ReserveLaunch(r, l) /\ UNCHANGED taskVars
  \/ \E s \in Session, l \in Lineage, r \in Run \cup {None},
        expected \in Session \cup {None, Unspecified} :
       RegisterWorker(s, l, r, expected)
  \/ \E s \in Session : RegisterGeneric(s) /\ UNCHANGED taskVars
  \/ \E s \in Session : CloseWorker(s)

PresenceStep ==
  \/ \E s \in Session : FallSilent(s)
  \/ \E s \in Session : Heartbeat(s)
  \/ \E s \in Session : RefreshPresence(s)

\* Everything on the board but updateTask, whose gate depends on the reviews.
TaskStep ==
  \/ \E t \in Task, status \in TaskStatus, deps \in SUBSET Task : CreateTask(t, status, deps)
  \/ \E s \in Session, p \in Task, children \in SUBSET Task : SplitTask(s, p, children)
  \/ \E s \in Session, t \in Task : ClaimTask(s, t)
  \/ \E s \in Session, t \in Task : ReleaseTask(s, t)
  \/ \E s \in Session, t \in Task : HandoffTask(s, t)
  \/ \E t \in Task : CreateTodo(t)
  \/ \E t \in Task, finished \in BOOLEAN : UpdateTodo(t, finished)

\* A board without reviews: a task that needs one never passes the gate.
UpdateStep ==
  \E t \in Task, status \in TaskStatus :
    UpdateTask(t, status, task[t].incomplete = 0 /\ t \notin ReviewRequired)

BoardNext == WorkerStep \/ PresenceStep \/ TaskStep \/ UpdateStep

BoardSpec == BoardInit /\ [][BoardNext]_boardVars

----------------------------------------------------------------------------
(***************************************************************************)
(* Properties                                                              *)
(***************************************************************************)

BoardTypeOK ==
  /\ LineageTypeOK
  /\ task \in [Task -> TaskRow]
  /\ currentTask \in [Session -> Task \cup {None}]
  /\ presence \in [Session -> [offline : BOOLEAN, lag : 0 .. 2]]

\* A claim that is not stale is lost in no other way than to the worker's own
\* successor or by being given up: whoever claims, splits, releases or updates
\* meanwhile, the task never passes straight to a peer.
FreshClaimIsKept ==
  [][\A t \in Task :
       LET old == task[t].owner  new == task'[t].owner IN
       old # None /\ ~task[t].stale /\ new \notin {old, None} =>
         /\ session'[old].supersededBy = new
         /\ session[old].lineage # None
         /\ lineage'[session[old].lineage].head = new]_boardVars

\* No session gets hold of a task whose dependencies are unfinished, neither by
\* a claim nor with what it takes over from a predecessor that was not the
\* owner of it before.
ClaimsWaitForDependencies ==
  [][\A t \in Task :
       task[t].owner = None /\ task'[t].owner # None => DependenciesDone(t)]_boardVars

\* Replacement loses no work: what the old head was working on belongs to the
\* new one with a fresh claim, and the new head's current task is one of them.
ReplacementCarriesTheWork ==
  [][\A l \in Lineage :
       LET old == lineage[l].head  new == lineage'[l].head IN
       old # None /\ new # old =>
         /\ \A t \in Task : task[t].owner = old /\ task[t].status \notin Parked =>
              task'[t].owner = new /\ ~task'[t].stale
         /\ (\E t \in Task : task[t].owner = old /\ task[t].status \notin Parked) =>
              \E t \in Task : currentTask'[new] = t /\ task'[t].owner = new]_boardVars
=============================================================================
