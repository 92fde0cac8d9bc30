# TLA+ models of the Agent Hub

This directory specifies the parts of the Agent Hub in which ordering, ownership and
recovery are decided, model-checks them with TLC on small instances and proves the
central invariants with TLAPS for every size. Paths are relative to the repository
root (`src/` in `PROJECT.json`).

## 1. The system

Several coding agents work on one project on one machine. Each runs under an *adapter*
(a Codex bridge, a Claude channel, or hooks), and all adapters talk to one *Hub*: a
Node.js process with a SQLite database, a REST/MCP interface and a project WebSocket.

| Component | State it keeps | Operations | Hard behaviour | What makes it correct |
|---|---|---|---|---|
| Sessions and lineages (`store/sessions.ts`) | `agent_sessions`, `session_lineages`, `session_launch_reservations` | register, reserve a launch, close, heartbeat, derive presence | launchers and reconnecting adapters race for one worker; stale requests are replayed | one open incarnation per worker, the head moves only forward |
| Messages and surface permits (`store/messages.ts`) | recipients, permits, deliveries, acknowledgements, handoff rows | post, claim, begin/settle/reconcile a surface, receipts | unknown outcomes, replacement in mid-delivery, receipts out of order | a message is shown at most once; replacement is always possible |
| Tasks, todos, reviews (`store/tasks.ts`, `store/reviews.ts`) | tasks, todos, dependencies, reviews, findings | claim, release, split, hand off, request/begin/decide a review | a verdict arrives after the task was re-claimed; claims go stale | a reviewed task is DONE only through its gate |
| Mutations and events (`store/context.ts`, `events/event-bus.ts`) | idempotency keys, event log with a sequence per project | `mutate`, `appendEvent`, publish | nested mutations, failure after an event was appended | events are published once, after commit |
| Project socket and event pump (`websocket/project-socket.ts`, `claude-channel/src/ordered-event-pump.ts`) | subscription, overflow flag; cursor, queue | subscribe, replay, live event, resync | gaps, overflow, reconnects, crash between handling and cursor | every event is handled, in order, none skipped |
| Write intents (`store/write-intents.ts`) | intents, conflicts | declare, release, expire | overlapping declarations, expiry | a conflict is recorded for every overlap |
| Credential rotation (`hub/src/security`, `cli/src/credential-rotation.ts`) | database slots, external journal, credential files | prepare, stage, switch, install, commit, finish, reconcile | three stores and no common transaction; death between any two steps; a restored database | every rotation can be ended, forward or back |
| Session tickets (`security/session-tickets.ts`, both adapters) | tickets, renewal state | issue, renew, revoke | renewal racing replacement | a replaced session has no authority |
| Directives and authority (`store/directives.ts`, `authority*.ts`) | grants with versions, directives, an append-only log of authority events | grant, relay, delegate, supersede, revoke, record, complete | life cycle derived from log and clock; grants end under directives in delivery; the store and a trigger both judge | a directive stands only under terms in force, ends once, is completed by the last report in time |
| Codex bridge (`codex-bridge/src`) | queues, pushes and frames in process, checkpoint, credential drain | push, steer, inject, confirm, receipt, hydrate, cut over | a model call's outcome is unknown after a crash; a credential is replaced under it | permit before the turn, receipt after, nothing shown twice or forgotten |
| Hooks (`hooks/src`) | lock files, surface journal, ticket store | lock, journal, inject | several processes, no server, any may die | exclusion, stale owners are reaped |
| Release manager (`cli/src/atomic-release-manager.ts`) | journal of each release, a global lease | probe, stop, snapshot, swap, migrate, roll back, unlock | crash or lost answer at any call; two managers; rejection after the swap | an open Hub has one consistent build and database, users lose no write |
| Bridge supervision, installation (`cli/src`) | process records | start, stop, restart | a worker dies while it is replaced | one worker per binding |
| Dashboard, terminals, git, logs, insights | none that others depend on | - | - | - |

Components interact in three ways only: REST or MCP calls into the store (each call is one
synchronous function and one SQLite transaction), events published after such a
transaction, and, for the hooks and the CLI, files on disk.

## 2. Modules

| Module | Models | Uses |
|---|---|---|
| `SessionLineages` | succession: registration, launch reservations, close | - |
| `MessageSurfaces` | delivery ownership: recipients, permits, receipts, reconciliation, handoff on replacement | extends `SessionLineages` |
| `AtMostOnceSurface` | the abstract promise of a permit: a message is surfaced once, or its outcome stays in doubt | implemented by `MessageSurfaces` |
| `DurableFileLock` | the file lock of hook processes, one file-system call per step | - |
| `DurableFileLockClaims` | a statement of its comments the code does not keep | extends `DurableFileLock` |
| `Tasks` | the board: tasks, todo counts, dependencies, claims and how they go stale, presence, what a replacement takes over | extends `SessionLineages` |
| `Reviews` | revisions under review, findings, verdicts, the completion gate | extends `Tasks` |
| `TaskClaims` | a statement about reviews the code does not keep | extends `Reviews` |
| `OrderedDelivery` | the abstract promise of the event stream: at least once, in order, none skipped | implemented by `EventStream` |
| `EventStream` | event log, subscription and replay, overflow, the channel's socket, the event pump and its cursor | - |
| `Directives` | grants, directives and their log, delivery, receipts and results, the trigger that guards them | extends `MessageSurfaces` |
| `CodexDelivery` | the Codex bridge: frames, queues, permits, model calls, receipts, checkpoint, hydration, credential cutover | - |
| `CodexDeliveryClaims` | a statement of its comments the code does not keep | extends `CodexDelivery` |
| `CredentialRotation` | the journalled rotation of all credentials over database, journal and files | - |
| `AtomicRelease` | the release manager: tracks, lease, adapter calls and their answers, rollback, unlocking, the installation | - |
| `MC*` | the constants and the scope of the runs | extend their module |
| `*_proofs` | theorems of `SessionLineages`, `MessageSurfaces`, `Directives`, `Reviews` (and `Tasks`), `EventStream`, `DurableFileLock`, `CredentialRotation`, `CodexDelivery` and `AtomicRelease` | extend their module (those of `MessageSurfaces` stand in `Directives_proofs`) |

`Reviews` is the composition of succession, board and reviews: its `Next` is every step of
`Tasks` with the reviews' completion gate put into `UpdateTask`, and registration moves the
work *and* the review in hand. `MessageSurfaces` composes succession with delivery in the
same way, and `Directives` composes both with authority: every delivery step of a directive
is a step of `MessageSurfaces` conjoined with what it does to the log. The board and delivery
are not composed with each other: they share only the sessions, which both change by the
steps of `SessionLineages` alone (proved for both). `CodexDelivery` has its own small Hub, with
the permit `MessageSurfaces` promises, since it is about one session and one process.

### How state and actions correspond to the code

*Store modules.* A store call runs inside `mutate`, one better-sqlite3 transaction on a
single-threaded server, so it is one action: its guard is the conjunction of the checks
whose failure throws, its primed variables are the rows it writes. A call that fails
changes nothing and is not an action; a replay of an idempotency key returns the stored
answer and is not one either. A table is a function from identifier to row, or a set of
rows where the code only inserts; an event is kept only where later code reads it back
(`receipts`, `handoffs`, `reconciliations`). Timestamps, texts, versions and payloads are
left out.

`Tasks` keeps a todo list as the number of its items and of those unfinished, and presence
as the lag of the last heartbeat in three steps: fresh, long enough ago to be OFFLINE, long
enough ago for claims to go stale. A derived presence row is looked at only until it is
OFFLINE, so a claim goes stale only if the second limit has passed by that look; the claims
of a closed session never do. `DashboardActs` says whether the dashboard's user, who may
name any session, takes part in an instance.

*`EventStream`.* A mutation of the Hub is taken apart: `Emit` draws the next number of the project's
sequence inside the transaction, `Rollback` takes back the transaction or the savepoint of a nested
mutation whose error is caught, with the events of the buffer since its checkpoint, `Commit` ends the
outermost transaction, and `Publish` hands the events of the buffer to the sockets one by one. The Hub is
synchronous from the first event to the last publication, so it answers no subscription and no
page request meanwhile (`HubIdle`), while the adapter goes on; it may die anywhere (`HubEnds`). Store functions
that append without `mutate` publish after their own transaction and are the same four steps. The adapter gives way at every `await`, so
a frame in process (`job`) is a small program of its own: fetch a page, call the handler,
commit the cursor. Replacing the socket or stopping the pump does not stop the frame in
process, whose handler may still take effect (`OrphanEnds`). The wire is reliable while the
socket lasts, as a WebSocket is; losing frames is losing the socket (`Disconnect`) or an
overflow (`Send`, `Overflow`). A restart of the adapter (`Crash`) forgets the cursor.

*`DurableFileLock`.* There is no server here: every synchronous file-system call of a
process is one action and `pc` is the call it makes next. A file is named by the token its creator drew, in
`path`/`reap` (so a hard link is the same token in both) and `written` holds those whose content is complete.
A crash stops a process between any two calls and leaves nothing but its files.

*`Directives`.* A recipient row of `MessageSurfaces` is here a pair of directive and target
agent. The log of a directive is kept once for each recipient row, with the events of that
target and those of the directive as a whole; that is all the order anybody looks at. The life
cycle is not a variable but `Lifecycle`, read off log and clock as `lifecycleFor` does. Calls
that first write down an expiry do so in a transaction of its own, so `ReadDirective` and
`ReadGrant` are actions and the rest of such a call has `Refreshed` as guard. Whether an
instruction is within the scope, agents, actions and priority of its grant is the input `fits`;
keys, signatures, quotes and idempotency are left out. The trigger `authority_events_guard`
is not an action: `GuardAccepts` says what it demands, and `EveryFactPassesItsGuard` that
nothing the store appends is refused by it.

*`CodexDelivery`.* One Node.js process: every `await` is a place where its other tasks run, so a
push, the frame in process, the two queue drains, the deferred flush and the hydration are
fields of `mem` that hold where each of them is. A crash forgets `mem` and leaves the
`disk`. The model server is external. What the bridge reads of a call and what becomes of its text are apart: the
text may come to the thread before the answer (`CodexTakes`), or the answer first (`Answered`) and the
text later (`CodexTakesLate`) or never; the call may be rejected, its answer lost, or both lost with the
transport. Only a read of the thread (`Confirmed`) leads to a receipt. A turn begins with a wake
or by the user (`UserTurn`), and the bridge knows of it what the last notification said (`NoticeTurn`). The drain of the normal queue,
once begun, goes on from head to head without looking at the turn again (`going`). At most once rests on the Hub's permit and on the error codes that prove that
nothing was started (`bridge.ts:550`).

*`CredentialRotation`.* The coordinator may die before any step; a later call `reconcile`s from
what the three stores hold. The database may be replaced by an older copy while no coordinator
runs. The coordinator is exercised by its test against a fake database
(`packages/cli/test/credential-rotation.test.ts:168`); nothing wires it up in production
(`docs/known-limitations.md:200`), so the Hub functions of the same names stand behind it here.

*`AtomicRelease`.* One step of the manager is one phase of the journal, or one adapter call and
its recorded answer. The adapters are interfaces, whose fakes in
`packages/cli/test/atomic-release-manager.test.ts` (260-370, 375-905) were read for what they
do: a key is decided once, and rejected means that nothing was done, except where
`MayLeaveTraces` says otherwise. A cleanup before the swap that is rejected (`CleanupRejected`) leaves
the journal where it is and is asked for again by the next run. Nobody else starts the Hub while a release is under way.

The mutants in the modules (operators whose comment starts with "Mutant") are plausible
wrong versions of the definition below them; `PROJECT.json` pairs each with the property
that must catch it.

## 3. Runs

| Run | Instance | Shows |
|---|---|---|
| `message_surfaces` | 2 workers, 4 session ids; 3 launcher runs before the message is posted, 1 after; 1 message, 2 permits | one open head per worker, the head moves forward; exclusive permits, replacement never refused, confirmed deliveries recoverable, `AtMostOnceSurface` implemented |
| `directives` | 2 directives, a grant of 2 versions, a clock of 2 ticks, 3 sessions of 2 agents, 1 captured turn | a directive stands under its grant, ends once, is completed by the last report in time; store and trigger agree |
| `durable_file_lock` | 3 processes of which 2 may die, 2 lock files, fair | exclusion fails in no other way than two reapers overlapping; a dead owner's lock is reaped |
| `tasks` | 1 task, 3 sessions of which 2 share a lineage, the dashboard user, silence; or 2 tasks that may depend on each other and a reserved launch | a fresh claim is never taken away; a replacement carries the unfinished work; no task is claimed before its dependencies are done |
| `reviews` | 1 review-required task, 1 todo item, 2 revisions, 1 finding each, author and reviewer; or 1 revision and an author who is replaced | one revision under review, no approval over an open blocker, nothing judged is rewritten, DONE only through the gate, a review in hand is shown to whoever speaks for a party now |
| `event_stream` | log of 5, replay and page of 2, 4 failures (socket, session, handler, adapter, Hub, transaction), any number of overflows, fair | nothing skipped, everything handled in the end, `OrderedDelivery` implemented |
| `codex_delivery` | an interrupting and an important message, 2 troubles, fair | nothing is shown twice, receipts are true, nothing is forgotten, a retired credential is quiet, every message is settled |
| `credential_rotation` | 2 rotations, 3 slots, 2 deaths, 2 restored databases, fair | journal, database and files agree; every rotation ends; a forgotten commit is made again |
| `atomic_release` | 2 releases of one Hub to different builds, 1 fault, 1 user write, fair | an open Hub is consistent, outcomes are true, no write is lost, every release ends |
| `claim_*` | as `durable_file_lock`, `reviews`, `codex_delivery` | each finds a counterexample to a sentence of the documentation or of a comment (section 6) |

*Bounds.* Two permits per message are enough for a doubtful or aborted one to be followed by a
confirmed one; four session ids allow three successive replacements of one worker (the handoff of
an already handed-off permit) or two workers with a replacement each. Messages do not interact
except through the replacement of their owner, which treats each on its own; the launchers race
before the message is there, since a registration with a message moves the head in the same way.

In `directives` the scope has two parts. One is about authority: two directives (one supersedes
the other, both may stand under the grant), a grant that is modified once, terminated or runs out,
a clock that passes an expiry, and one session that issues. The other is about delivery: one
delegated directive for two agents; the Codex carrier meets every course of events with a
replacement of its session, the Claude carrier is delivered without a hitch, so that there is a
second target whose report may be the last or not. One fence per recipient suffices here, as what
a second permit may do is `message_surfaces`.

Three lock processes are needed for the reaper
overlap (the dead owner, two reapers, one of which then owns the lock). Two deaths let the
reaper of a dead owner die too, having linked its marker or not, and leave the rest to a third.
A second revision is what it takes to supersede, re-approve and reopen; one finding per
revision suffices because a verdict asks whether any is open. Two tasks give every shape of
dependency (none, one, both, and through a split). With replay and pages of two, a log of
five leaves a gap longer than a replay, a page that ends inside the gap and a last partial
page; four failures allow a rolled-back mutation, a death of the Hub in mid-publication and a crash in
the recovery from a failure in the recovery from another. Two messages of different priority fill both paths of the bridge, the queue and the
interrupting push, and meet in the turn, the cutover and the hydration; two troubles let one strike
in the recovery from the other. Two rotations are what a restored database can be behind; three slots
allow a rename sequence to be cut before, inside and after. Two releases compete for the lease; one
manager process is enough, because a process that has lost its lease can only find that out
(`Loses`), and a crash leaves the lease with an owner that is gone.

No bound is in a guard except `MaxFence`, `MaxVersion`, `MaxTime`, `MaxLocks`,
`MaxCrashes`, `MaxTodos`, `MaxLag`, `MaxRevision`, `MaxEvents`, `MaxFailures`, `MaxMessage`,
`MaxTroubles`, `MaxOps`, `MaxRestores`, `MaxFaults` and `MaxWrites`, each a CONSTANT.

*Fairness.* The store modules have none: their clients may stop at any time, and nothing
is promised about when they call. `DurableFileLock!FairSpec` has weak fairness of every
process step (a process that has not died executes its next synchronous call) and strong
fairness of finding an old enough lock stale, since a caller polls every 10 ms and the age
of an abandoned file only grows; its liveness property is conditional on a live process that
still wants a lock.
`EventStream!FairSpec` has weak fairness of `Connect` and `Attach` (the reconnect and reattach
timers fire), `Subscribe` (the Hub answers a subscription) and `PumpStep` (a page request or a
handler returns, and the next frame is taken), and of `Commit` and `Publish`: a mutation that has begun is
a synchronous function and ends. There is none of `Emit`: the liveness property
speaks of events once they are committed, whoever commits them. Failures of network, handlers and processes are
bounded by `MaxFailures`, since an adapter that fails for ever handles nothing; overflows
are not, because a subscription replays at least one event before it can overflow again.
`CodexDelivery!FairSpec` has weak fairness of the bridge's own tasks, each on its own: the push of a message (calls
return or time out), each queue's drain, the frames, the heartbeat's retry of receipts, the deferred flush; of
the end of a turn and of the supervisor that starts a dead bridge again. A notification of a turn
is strongly fair, since it stands in the stream of the app-server and is read in the end, although a turn that
came and went unseen withdraws it in the model. There is none of the model server
taking a call, of the user, or of a proof turning up in the thread. `EveryMessageIsSettled` names what the
bridge may be left with. A message may be `Stranded`: its socket is paused by an error that must not be
retried, or it, or the head of its own queue, has a permit whose grant or verdict was lost on the way, with no push under way and no
receipt to be written, so that only the thread or the next process can tell; a receipt that failed to be
written is no excuse, the heartbeat writes it again. Or the head of its own queue may be held for the end of
a turn while there is none (`AwaitsTurn`), since only the notification of an end releases it; where turns come and go
(`TurnsComeAndGo`), the second half of the property takes that excuse away. `CredentialRotation!FairSpec` has weak fairness of the
coordinator's steps and of its being called again; a rotation may stay unended where the database
was put back to before its switch or an earlier operation was never finished (`Overtaken`,
`HubInTheWay`). `AtomicRelease!Spec` has weak fairness of the manager, of the adapters' answers, of
the expiry of a lease nobody renews and of an unfinished release being run again.
`Directives` has none, as the store modules.

Deadlock checking is off where the system may rightly stop: identifiers, permits or lock
files of the instance run out.

## 4. Proofs

Type correctness and safety of `SessionLineages`, `MessageSurfaces`, `Directives`, `Reviews` (with
`Tasks`), `EventStream`, `DurableFileLock`, `CredentialRotation`, `CodexDelivery` and `AtomicRelease` are proved
for every number of sessions, workers, launchers, messages, directives, grants, tasks, findings, events,
processes, lock files, rotations, token slots, releases and managers, and for every bound, from the named
assumptions on the constants (`ConstantsDisjoint`, `SurfaceConstants`, `DirectiveConstants`,
`TaskConstants`, `ReviewConstants`, `StreamConstants`, `LockConstants`, `NoneIsNoToken`,
`RotationConstants`, `DeliveryConstants`, `ReleaseConstants`, `NoneIsNoPhase`), which TLC evaluates in the
runs. With that every invariant and every action property that a run checks is a theorem; what stays with
TLC is listed at the end of this section. The invariants of the longest proofs, `RotationInv`, `DeliveryInv` and
`ReleaseInvariant`, were model-checked on small instances before the proofs were begun.

*`SessionLineages_proofs`.* `LineageInv` strengthens the checked properties by three facts
they need to be inductive: rows never inserted are blank (or a registration could revive
one), a lineage without a head has incarnation 0, and an issued reservation stands behind
the fence with a generation above every generation that reached the head. Each action
preserves it (`RegisterInv`, `ReserveInv`, ...); `LineageSafety` and `LineageHistory`
follow.

*`MessageSurfaces`* (the first part of `Directives_proofs`, whose second part rests on it). `SurfaceInv` adds that fences are drawn from the recipient's
counter and never shared (`FencesDrawn`, `FencesDistinct`) and that owners were registered.
Two lemmas carry most of it: `QuietStep`, for every step that changes no session and only
settles permits, and `OnlyAbortedBehind`, that whoever may begin finds only aborted
permits. `ReplaceInv` is the hard case: succession and handoff in one transaction.
`SurfacesPreserveLineages` shows that the composed system implements `LineageSpec`, so the
lineage theorems hold of it too. `SurfacesImplementAtMostOnce` is the refinement: a message has one
live permit at most (`OneLivePermit`), so a step that settles it is `Withdraw`, `Doubt` or
`Surface`, a new permit is `Attempt`, a replacement is one `Doubt` of all messages whose active
permits move, and everything else is a stutter.

`CustodyInv` is about evidence. Besides `SurfaceInv` it says that a lineage has no incarnation number
twice (`IncarnationsDistinct`), that a permit has the incarnation of its owner, that a confirmed permit
has its delivery, its receipt and a surfaced recipient (`ConfirmedIsEvidenced`), and that whoever a live
permit is bound to owns it or has a handoff on record that says how it was inherited
(`Custody`). A registration re-establishes `Custody` for what it moves without relying on it, since it
writes the rows (`ReplaceCustody`); relying on it is the check before, which the invariant shows
to pass (`HeadHandsOver`). That check walks the rows back to the first predecessor by recursion. What the
walk reaches is proved from the least step at which it would go wrong instead of by
induction (`LeastOf`): every number below the head's has a session (`Reached`), the n-th step back is the one of
number incarnation - n (`StepsGoBack`), and the recursion has no other solution (`OneWalk`), so the chain is the
lineage up to that session (`ChainIs`).

*`Directives_proofs`*, second part. `AuthorityInv` is `SurfaceInv`, the types, and `GrantCovers`: an active
delegated directive stands under the newest version of a grant that has not ended and does not
expire before it. That is stronger than `DelegationStandsUnderItsGrant`, which speaks of the
clock's verdict now: without it a tick could end a grant and leave its directive
(`CoverStays`). Every delivery step is a step of `MessageSurfaces` (`DirectiveStepIsMessageStep`), so the
surface invariant and custody carry over; issuing, which posts several rows at once, is not, and has
lemmas of its own (`IssueKeepsSurfaces`, `CustodyUnderDirectives`). `AuthorityHistory` rests on one description
of all actions (`EveryResult`): a step appends terminal events to active directives only, or writes down an
expiry that the clock has decided already.

`FactsInv` adds the logs: who is registered is identified, nothing is reconciled, a confirmed permit has
its DELIVERED fact, and (`LogInv`) the rows of a directive end together, a directive not issued
has none, and it is completed exactly when each target has reported. Each step is followed twice: what it appends and
why the trigger takes it (`EveryFact`: `LogKeeps` and `FactsStep`), and what it does to sessions, handoffs
and permits (`EveryLedger`). A log only grows (`Extends`), which is what makes a fact once in it stay
an answer to the trigger's questions (`GuardAnswers`). The case with work in it is the last target's result, which
appends the completion to every row in the same step. `CarriersImplementAtMostOnce` and
`CarriersAreHandedOver` repeat the refinement and custody for the composed system.

*`Reviews_proofs`.* `ReviewInv` takes `LineageInv` and the types of board and reviews and adds
what the gate's invariants need: a task has no more revisions than the bound, a task not
created is untouched (or its creation could finish one with revisions behind it), and that a
DONE task with an owner or a revision stands on an approved one. The steps of the board that
do not finish a task keep its gate for one reason, stated once (`BoardStepInv`), and the steps
of a reviewer or author each rewrite one active row (`WritesReview`), from which `RowWritten`
and `WritesReviewInv` derive the invariant for all of them; `RequestReviewInv` is the hard case,
since it supersedes one row and appends another. `ReviewHistory` and `ReviewTodos` are action
properties from the same invariant, and `ReviewsPreserveLineages` carries the lineage theorems
over. `BoardInv` is the same for the board alone, whose action properties follow from one statement
about a step (`ClaimsStep`): an owner changes by the rules of a claim, a take-over or a release
(`GivenByRule`), or by a registration, which is shown to carry over exactly what its predecessor
held (`RegisterCarries`). `ReviewsTakeBoardSteps` makes them properties of the composed system as
well. `ReviewParties` needs more than it says (`PartyInv`): a review that is shown exists, the sessions of a lineage
speak for one agent, and only sessions of a lineage are ever replaced; the registration of a successor,
which passes a review on, is the case with work in it (`RegisterParty`).

*`DurableFileLock_proofs`.* `ExclusiveUnlessReapersOverlap` is not inductive: that a new owner does not
meet an old one depends on what a reaper has read before. `LockInv` says that whoever compares or
unlinks has seen a dead owner in the file it captured (`ReaperSawDead`), and that before the
first overlap there is one such reaper (`OneReaper`), the file it is about to unlink is still at the path
(`ReapedIsAtPath`) and so is the file of every process inside (`HeldIsAtPath`).

*`CredentialRotation_proofs`.* Every write of a rotation, its rollback, its reconciliation and
the restoration of a backup is shown to be one of five moves (`CopyMove`,
`DatabaseMove`, `JournalMove`, `FileMove`, `Begins`; `StepsMoveStores`), and each move keeps `StoreInv`:
database and backup follow the journal and are intact, the files follow the journal, and what the
database knows of the files before the journal does is true of them (`FilesFollowDatabase`).
`ModeFollowsJournal` says at which point of its procedure the coordinator may be; without it a step's
guard says too little to name its move. The restored backup is why the invariant speaks of a
database `d` and not of `db`: the copy has to satisfy all of it, and to know of no abort
that the database has not made (`CopyIsOlder`).

*`CodexDelivery_proofs`.* `DeliveryInv` says in four parts of each message: what the thread shows,
the wire carries and the permit says fit together (`Shown`: after an answer the text may still be
missing, and only a push that has read it in the thread stands before its receipt); who may push it has the permit, and every
push in memory is one the checkpoint knows (`Held`); what is exposed is reserved on disk and
remembered (`Reserves`); and behind the cursor a message without a permit is in some queue, deferred, being
pushed or about to be hydrated (`Keeps`). `Orderly` says how queues, frame and life cycle stand to each other. A step acts on
one message, and `Bystander` shows that it leaves the four parts of all others; then each step is
followed for its own message. `pushOnce` has many ways to end, which are treated once
(`EndsKeep`), whoever pushed: a frame, the queue's head, a deferred message or hydration
(`DispatchLocal`). A crash forgets memory, a restart rebuilds it from the checkpoint, and a cutover moves
the life cycle only when nothing is being pushed (`DeathKeeps`, `RestartKeeps`, `CutoverKeeps`). The proof
found an overlap of two guards in the model of a drained queue, which TLC had resolved in
the order they were written; they are an explicit order now, the code's.

*`AtomicRelease_proofs`.* The checked properties speak of the two ends of a release; `ReleaseInvariant`
speaks of every phase between. It gives each phase its place on its track (`NormalTable`,
`RollbackTable`, `CleanupTable`, `Ranks`) and says, for each place, which answers the journal has (`Legible`) and what of
them the installation shows: fence, build, schema, bridges, pointer, rows (`Stage`). What makes it inductive is
the journal it is said of. An adapter acts first and is heard later, if ever, so between the two the installation is
ahead of the journal by one answer; `Effective` is the journal with that answer counted from the moment it was given, and
`Stage` holds of it at all times, whichever run of the manager picks the answer up. Of each
adapter it is then shown that what it does to the installation is what its answer will say
(`ProbeCandidateAnswers` to `CleanupPreSwapAnswers`, together `AdapterAnswers`), and that a release other than
the one served last is none of its concern (`Bystander`). A rejection, a spoiled manifest or an expired stop leaves the track
where the journal still knows how to go on (`RejectedIsFine`, `BlocksKeep`); `StepHolds` collects the actions.
`WritesSurvive` looks as if it should fail, because a rollback writes the rows of a snapshot over the database:
it holds since that snapshot was taken behind the fence, and `Stage` carries that the rows are still those of the
snapshot until the fence is lifted (`RestoreSnapshotAnswers`).

*`EventStream_proofs`.* `StreamInv` adds four facts to the checked ones: the buffer ends with the event drawn last and has no gap, and in a
transaction it is what has been emitted since the last commit (`EmittedInOrder`); whatever is on the wire
and in the frame in process is committed (`CommittedOnly`); a finished handler has left its mark
on the event after the cursor (`JobIsCoherent`); and `EndIsKnown`: on a subscribed socket the end of
the log is reached, named by a frame on the wire or the one in process, or an overflow is on its way, or its event is still to be published. The last is what makes an idle adapter
caught up; it fails in the code's neighbours (a subscription that reports the end of its
replay, an ignored overflow). `StreamImplementsOrderedDelivery` maps each step to
`Append`, `Handle`, `Advance`, `Restart` or a stutter.

Only model-checked:

* liveness (`EveryEventIsHandled`, the liveness of `OrderedDelivery`, `AbandonedLockIsReaped`,
  `EveryMessageIsSettled`, `RotationEnds`, `ForgottenCommitIsRedone`, `ReleaseEnds`), which rests on
  fairness: out of the prover's reach;
* the three statements of comments and tests that the code does not keep (section 6), which TLC refutes.

## 5. Plan

Done: `SessionLineages`, `MessageSurfaces`, `AtMostOnceSurface`, `DurableFileLock`; `Tasks`, `Reviews`,
`EventStream` with `OrderedDelivery`; `CredentialRotation`, `CodexDelivery`, `AtomicRelease`;
`Directives`.

Next, in this order:

1. `BridgeRecovery`: the managed-bridge supervisor and the app-server recovery fuse, with probe
   generations and replayed commands.
2. `SessionTickets`: issue, renewal, replacement and revocation under the adapters' runtimes, refining
   "a session holds an active ticket exactly while it is open", which `MessageSurfaces` assumes.
3. The surface journal and its leases in the hooks, over `DurableFileLock`.
4. `WriteIntents`: overlap and expiry.
5. The Claude channel as a second client of `MessageSurfaces`.

Each comes with the proof of its safety, in the proof module of the component it extends.

## 6. Where the code and its documentation disagree

Three disagreements are runs that find a counterexample:

* `claim_one_caller_at_a_time`: two reapers of one dead owner's lock, between the comparison
  and the unlink of `durable-file-lock.ts:135`, let two callers in. The safety run shows that
  this overlap is the only way.
* `claim_no_finding_is_open_at_done`: a request for another revision leaves a blocking finding
  open on the one before, for ever, and the task is completed (`store/reviews.ts:229`).
* `claim_head_waits_for_its_receipt`: `bridge.ts:4878` keeps a surfaced head as the queue's commit
  barrier until its receipt is written, but the next drain finds its permit in flight, ends without a
  word, and the head is shifted (`bridge.ts:4900`); a later message may be surfaced and receipted first.

Others were met while the models were written. They are behaviour of the models too, and each
explains a condition in one of the checked properties:

* `createTask` inserts any status, DONE included (`store/tasks.ts:174`), so `DoneIsApproved` and
  `DoneHasNoTodosLeft` speak of tasks that somebody worked on.
* `releaseTask` and `splitTask` do not look at the status: a DONE or CANCELLED task is open again
  afterwards although `TASK_TRANSITIONS` has no way out (`store/tasks.ts:463`). Dependencies are
  therefore looked at again at each claim, which is what `ClaimsWaitForDependencies` relies on.
* A takeover leaves `current_task_id` of the old owner in place (`store/tasks.ts:421`), whose next
  silence marks the new owner's claim stale.
* `updateTask` back to READY keeps the owner, registration skips READY tasks, and a later update
  makes the task active under a session that was replaced (`store/sessions.ts:1766`).
* `postMessage` accepts a session that was superseded already; the message stays with it
  (`store/messages.ts:386`).
* A replacement rebinds the recipient of a permit that was committed first and marks the permit
  ambiguous (`store/sessions.ts:1568`).
* The receipt of a session that has closed is refused even while it still owns the recipient
  (`store/messages.ts:561`).
* A reap marker linked to a live process's half-written lock is cleared only when that process
  is gone (`durable-file-lock.ts:161`); `AbandonedLockIsReaped` speaks of dead owners.
* A pending revision is begun although its task was released, cancelled or claimed again meanwhile,
  and the task becomes IN_REVIEW (`store/reviews.ts:482`), against `docs/protocol.md`.
* A session that succeeds one which recorded PROCESSED of a directive can record neither its own
  PROCESSED (one per target, `0008:223`) nor a result (only the processor may,
  `store/directives.ts:2278`); the comment at `directives.ts:2241` expects it to. Such a directive
  is never COMPLETED.
* A directive whose owner is replaced between the push and DELIVERED stays AMBIGUOUS:
  reconciliation is refused for directives (`store/messages.ts:1562`).
* A turn whose first use is a supersession on the dashboard may still be relayed once
  (`store/directives.ts:1341`).
* The search of late receipts for a delivery before the end (`store/messages.ts:1804`) refuses
  nothing: a confirmed permit always has one.
* `authority-provenance.ts`, which only its test calls, refuses states the store produces: targets not
  bound yet (1190-1205), PROCESSED without ACKNOWLEDGED (1234-1240).
* A rotation whose Hub operation is DB_COMMITTED keeps the Hub's `prepare` closed until the Hub's own
  `reconcile` or `finishCleanup` has run, which the coordinator never calls; two coordinators are kept
  apart by nothing.
* A grant of a permit that is lost on its way leaves the permit ACTIVE and unknown to the bridge
  until the process is restarted; a push rejected on a frame pauses the socket until the next
  cutover or restart.
* A release that is BLOCKED after its stop receipt (`atomic-release-manager.ts:2737`) or over an invalid final
  snapshot manifest leaves the Hub stopped, its fence up and the supervisors paused, with no cleanup
  (`LeavesHubDown`); ROLLBACK_FAILED promises nothing.
* A subscription behind more than 5000 events replays only the first of them
  (`project-socket.ts:185`); `QuietMeansCaughtUp` holds because the pump reads the rest in pages.

## 7. Not modelled

Parsing, HTTP and MCP routing, terminals, git, logs, the dashboard and reports keep no
state that others rely on. SQLite's own recovery and the file system's atomic `link`,
`unlink`, `rename` and exclusive create are assumed. Subagent sessions, inbox listing and
broadcast fan-out are outside `MessageSurfaces`.

`Directives` leaves out authorizations, keys and signatures, the provenance read model, and
sessions without a ticket, who cannot act on a directive. An agent's proposal is delivered as ordinary
text in the same way as a signed directive. `CodexDelivery` models the default wake policy; directive-backed
and background messages, direct prompts, health, telemetry and the crash recovery of an idle
app-server are left out. The activation of the successor and the restart of the transport are one
step there (`Cutover`), since all owners of the old credential have ended before it and none is admitted until the drain
reopens; a call whose listener is gone (`late`) may take effect after it. `CredentialRotation` leaves out what the commit revokes besides the
slots (tickets, bindings, open reservations) and the dependents of an incident. `AtomicRelease` leaves out
timestamps, digests, security epochs and fingerprints, the subjects of a pause, the equality of the
supervisor's journal revision, and a second run of a release that has ended;
`runtime-lifecycle.ts`, `release-layout.ts`, `release-snapshot.ts` and `process-manager.ts`, of which its
adapters could be made, are not modelled. Write intents, session tickets, the recovery
fuse, the surface journal, the managed bridge processes and the CLI's ticket store have no model yet
(section 5); `PROJECT.json` lists them with status `not_modelled`.
