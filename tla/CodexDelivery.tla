---------------------------- MODULE CodexDelivery ----------------------------
(***************************************************************************)
(* How the Codex bridge gives the messages of one session to the model      *)
(* exactly once, or says that it does not know: the ordered frames of the   *)
(* project socket, the queues that wait for a turn, the surface permit, the *)
(* model call whose answer may be lost, the proof that the thread holds the *)
(* text, the receipt, and the checkpoint that survives the process; under   *)
(* crashes, transport restarts and credential cutovers.                    *)
(*                                                                         *)
(* Source: packages/codex-bridge/src/bridge.ts.  Every await is a place     *)
(* where other tasks of the process run: a push in progress, the frame in   *)
(* process, the two queue drains, the deferred flush and the hydration are  *)
(* tasks, each a field of mem.  Message n is the n-th event of the project  *)
(* and addressed to this session (claims against other adapters and the     *)
(* handoff between sessions are MessageSurfaces); directives, background    *)
(* messages, prompts, health and telemetry are left out.  A push whose      *)
(* socket was replaced before its permit is one whose Hub call failed.      *)
(***************************************************************************)
EXTENDS Integers, Sequences, FiniteSetsExt

CONSTANTS
  MaxMessage,  \* bound on the messages posted
  Interrupt,   \* those of priority INTERRUPT
  Important,   \* those of priority IMPORTANT; the others are NORMAL
  MaxTroubles  \* bound on lost answers, rejections, failed writes, lost sockets,
               \* dead processes and credential cutovers, together

Message == 1 .. MaxMessage
Queue == {"important", "normal"}

ASSUME DeliveryConstants ==
  /\ MaxMessage \in Nat /\ MaxTroubles \in Nat
  /\ Interrupt \subseteq Message /\ Important \subseteq Message
  /\ Interrupt \cap Important = {}

VARIABLES
  hub,     \* [posted, permit]: the event log and the surface permits
  codex,   \* [shown, turn, wire]: the thread and the calls to it
  disk,    \* [cursor, pending]: the operational checkpoint
  life,    \* the process and its credential drain
  mem,     \* what the process remembers
  spent    \* troubles so far

vars == <<hub, codex, disk, life, mem, spent>>

----------------------------------------------------------------------------
PermitState == {"NONE", "ACTIVE", "ABORTED", "AMBIGUOUS", "CONFIRMED"}

\* accepted: the text is in the thread and the answer on its way; late: nobody
\* listens any more, and the text may still come.
WireState == {"none", "sent", "accepted", "rejected", "late"}

\* starting and up: the drain is OPEN; draining and switching: DRAINING.
Life == {"down", "starting", "up", "draining", "switching"}

Resting == [at |-> "rest", how |-> "none"]
NoFrame == [m |-> 0, at |-> "none", live |-> FALSE]

\* The class fields of CodexBridge, as they are in a new process.
Fresh ==
  [turn |-> FALSE,                               \* activeTurnId
   told |-> FALSE,                               \* the last turn notification handled
   queue |-> [q \in Queue |-> <<>>],             \* importantQueue, normalQueue
   flush |-> [q \in Queue |-> 0],                \* the head a drain is pushing
   going |-> FALSE,                              \* flushNormal is due or in its loop
   frame |-> NoFrame,                            \* hubFrameTail
   socket |-> "off",
   target |-> 0,                                 \* currentSequence of the subscription
   push |-> [m \in Message |-> Resting],         \* pushesInFlight
   permits |-> {},                               \* surfacePermits
   waiting |-> {},                               \* pendingDeliveryStates
   doubt |-> {},                                 \* ambiguousMessageReasons
   held |-> {},                                  \* pausedAmbiguousMessages
   done |-> {},                                  \* deliveredMessageIds
   deferred |-> {}, deferring |-> 0,             \* deferredCredentialMessages
   hydrate |-> {}, hydrating |-> 0]

Init ==
  /\ hub = [posted |-> 0, permit |-> [m \in Message |-> "NONE"]]
  /\ codex = [shown |-> [m \in Message |-> 0], turn |-> FALSE,
              wire |-> [m \in Message |-> "none"]]
  /\ disk = [cursor |-> 0, pending |-> {}]
  /\ life = "down"
  /\ mem = Fresh
  /\ spent = 0

Fault ==
  /\ spent < MaxTroubles
  /\ spent' = spent + 1

Permit(m, state) == [hub EXCEPT !.permit[m] = state]

\* updateMessageSurface, whose failure is swallowed: the permit stays as it is.
Settles(m, state) ==
  \/ hub' = Permit(m, state) /\ UNCHANGED spent
  \/ hub' = hub /\ Fault

InQueue(me, m) == \E q \in Queue : \E i \in DOMAIN me.queue[q] : me.queue[q][i] = m

\* checkpointPendingMessageIds
CheckpointPending(m) ==
  \/ InQueue(mem, m)
  \/ m \in mem.waiting \cup mem.held \cup mem.doubt \cup mem.deferred \cup mem.permits

Running(me, m) == me.push[m].at # "rest"

Draining == life \in {"draining", "switching"}

----------------------------------------------------------------------------
(* The end of a push, for every task that waits for it.  out is "ok", or    *)
(* what it throws: "retry" (the Hub did not answer) or "fatal".            *)

(* flushNormal runs behind flushImportant and goes on from head to head;    *)
(* neither looks whether a turn has begun meanwhile.                        *)
StillGoing(me, q, more) ==
  me.going /\ IF q = "normal" THEN more ELSE me.queue["normal"] # <<>>

\* drainQueue after its push of the head.
Drained(me, q, m, out) ==
  LET popped == [me EXCEPT !.flush[q] = 0, !.queue[q] = Tail(@), !.held = @ \ {m},
                           !.going = StillGoing(me, q, Tail(me.queue[q]) # <<>>)]
      barrier == [me EXCEPT !.flush[q] = 0, !.held = @ \ {m},
                            !.going = StillGoing(me, q, FALSE)]
      paused == [me EXCEPT !.flush[q] = 0, !.held = @ \cup {m},
                           !.going = out = "ok" /\ StillGoing(me, q, FALSE)]
  IN  IF me.flush[q] # m THEN me
      ELSE IF m \in me.waiting THEN IF out = "ok" THEN popped ELSE barrier
      ELSE IF m \in me.done \cup me.doubt THEN popped ELSE paused

\* enqueueHubFrame's catch: only a failure the Hub may recover from reconnects.
FrameEnds(me, m, out) ==
  IF me.frame.m # m \/ me.frame.at # "push" THEN me
  ELSE IF out = "ok" THEN [me EXCEPT !.frame.at = "commit"]
  ELSE [me EXCEPT !.frame = NoFrame,
                  !.socket = IF ~me.frame.live THEN @
                             ELSE IF out = "retry" THEN "off" ELSE "paused"]

\* flushDeferredCredentialMessages keeps what threw.
DeferredEnds(me, m, out) ==
  IF me.deferring # m THEN me
  ELSE [me EXCEPT !.deferring = 0, !.deferred = IF out = "ok" THEN @ \ {m} ELSE @]

Ended(me, m, out) ==
  LET rested == [me EXCEPT !.push[m] = Resting,
                           !.hydrating = IF @ = m /\ out = "ok" THEN 0 ELSE @]
  IN  DeferredEnds(FrameEnds(Drained(Drained(rested, "important", m, out),
                                     "normal", m, out), m, out), m, out)

Ends(m, out) == mem' = Ended(mem, m, out)
EndsInDoubt(m, out) == mem' = Ended([mem EXCEPT !.doubt = @ \cup {m}], m, out)
EndsWithTransport(m) ==
  mem' = Ended([mem EXCEPT !.doubt = @ \cup {m}, !.turn = FALSE, !.told = FALSE], m, "ok")
EndsAborted(m, out) == mem' = Ended([mem EXCEPT !.permits = @ \ {m}], m, out)

----------------------------------------------------------------------------
(* The Hub, the user and Codex.                                            *)

Post ==
  /\ hub.posted < MaxMessage
  /\ hub' = [hub EXCEPT !.posted = @ + 1]
  /\ UNCHANGED <<codex, disk, life, mem, spent>>

\* sendUserText on a thread at rest, which the drain does not admit.
UserTurn ==
  /\ life = "up"
  /\ ~codex.turn /\ ~mem.turn
  /\ codex' = [codex EXCEPT !.turn = TRUE]
  /\ UNCHANGED <<hub, disk, life, mem, spent>>

TurnEnds ==
  /\ codex.turn
  /\ codex' = [codex EXCEPT !.turn = FALSE]
  /\ UNCHANGED <<hub, disk, life, mem, spent>>

\* The text comes to the thread; a steer only on a turn.
CodexTakes(m) ==
  /\ codex.wire[m] = "sent"
  /\ mem.push[m].how = "steer" => codex.turn
  /\ codex' = [codex EXCEPT !.wire[m] = "accepted", !.shown[m] = @ + 1,
                            !.turn = @ \/ mem.push[m].how = "wake"]
  /\ UNCHANGED <<hub, disk, life, mem, spent>>

\* A call takes effect that nobody listens to any more: its answer was read
\* before, or never will be.  If it was a wake, a turn begins.
CodexTakesLate(m) ==
  /\ codex.wire[m] = "late"
  /\ \E begins \in BOOLEAN :
       codex' = [codex EXCEPT !.wire[m] = "none", !.shown[m] = @ + 1, !.turn = @ \/ begins]
  /\ UNCHANGED <<hub, disk, life, mem, spent>>

\* A protocol error: nothing has happened.
CodexRejects(m) ==
  /\ codex.wire[m] = "sent"
  /\ \/ mem.push[m].how = "steer" /\ ~codex.turn /\ UNCHANGED spent
     \/ Fault
  /\ codex' = [codex EXCEPT !.wire[m] = "rejected"]
  /\ UNCHANGED <<hub, disk, life, mem>>

\* thread/read finds the text: only if it is there, and then sooner, later or never.
Found(m) == codex.shown[m] > 0

\* turn/started and turn/completed, which releases the head of each queue.
NoticeTurn ==
  /\ life # "down"
  /\ mem.told # codex.turn
  /\ mem' = [mem EXCEPT !.turn = codex.turn, !.told = codex.turn,
               !.going = @ \/ (~codex.turn /\ \E q \in Queue : mem.queue[q] # <<>>),
               !.held = IF codex.turn THEN @
                        ELSE @ \ {Head(mem.queue[q]) : q \in {r \in Queue : mem.queue[r] # <<>>}}]
  /\ UNCHANGED <<hub, codex, disk, life, spent>>

ItemCompleted ==
  /\ life # "down"
  /\ codex.turn /\ mem.turn
  /\ mem.queue["important"] # <<>>
  /\ Head(mem.queue["important"]) \in mem.held
  /\ mem' = [mem EXCEPT !.held = @ \ {Head(mem.queue["important"])}]
  /\ UNCHANGED <<hub, codex, disk, life, spent>>

----------------------------------------------------------------------------
(* A push: pushOnce over wake, steer and inject.                           *)

Begin(me, m, how) ==
  IF Running(me, m) THEN me
  ELSE [me EXCEPT !.push[m] =
          IF m \in me.waiting THEN [at |-> "receipt", how |-> "none"]
          ELSE [at |-> "begin", how |-> how]]

\* choosePushAction with the default wake policy.
QueueOf(m) == IF m \in Important THEN "important" ELSE "normal"
Action(me, m) ==
  IF ~me.turn THEN "wake" ELSE IF m \in Interrupt THEN "steer" ELSE "queue"

Enqueued(me, m) ==
  IF InQueue(me, m) THEN me ELSE [me EXCEPT !.queue[QueueOf(m)] = Append(@, m)]

\* The task has nothing to wait for: onMessageEvent returned at once.
AtOnce(me, m) ==
  \/ m \in me.done \/ Draining
  \/ Action(me, m) = "queue" /\ m \notin me.waiting /\ ~Running(me, m)

\* Mutant: a frame that arrives during a cutover is passed over.
NotedWhenOpen(me, m) == IF m \in me.done \/ Draining THEN me ELSE Enqueued(me, m)

\* onMessageEvent as far as it changes anything at once.
Noted(me, m) ==
  IF m \in me.done THEN me
  ELSE IF Draining THEN [me EXCEPT !.deferred = @ \cup {m}]
  ELSE Enqueued(me, m)

\* Mutant: a permit in doubt may be taken again.
BeginSurfaceAnyway(m) ==
  /\ mem.push[m].at = "begin"
  /\ IF hub.permit[m] \in {"NONE", "ABORTED", "AMBIGUOUS"}
     THEN /\ hub' = Permit(m, "ACTIVE")
          /\ mem' = [mem EXCEPT !.permits = @ \cup {m}, !.push[m] =
               [at |-> "prepare", how |-> IF @.how = "steer" /\ ~mem.turn THEN "wake" ELSE @.how]]
     ELSE hub' = hub /\ Ends(m, "ok")
  /\ UNCHANGED <<codex, disk, life, spent>>

\* acquireSurfacePermit; a steer without a turn is a wake.
BeginSurface(m) ==
  /\ mem.push[m].at = "begin"
  /\ IF hub.permit[m] \in {"NONE", "ABORTED"}
     THEN /\ hub' = Permit(m, "ACTIVE")
          /\ mem' = [mem EXCEPT !.permits = @ \cup {m}, !.push[m] =
               [at |-> "prepare", how |-> IF @.how = "steer" /\ ~mem.turn THEN "wake" ELSE @.how]]
     ELSE hub' = hub /\ Ends(m, "ok")
  /\ UNCHANGED <<codex, disk, life, spent>>

\* The Hub does not answer, before or after it issued the permit.
BeginSurfaceFails(m) ==
  /\ mem.push[m].at = "begin"
  /\ Fault
  /\ \/ hub' = hub
     \/ hub.permit[m] \in {"NONE", "ABORTED"} /\ hub' = Permit(m, "ACTIVE")
  /\ Ends(m, "retry")
  /\ UNCHANGED <<codex, disk, life>>

\* prepareSyntheticPrompt, then the call.
Send(m) ==
  /\ mem.push[m].at = "prepare"
  /\ codex' = [codex EXCEPT !.wire[m] = "sent"]
  /\ mem' = [mem EXCEPT !.push[m].at = "sent"]
  /\ UNCHANGED <<hub, disk, life, spent>>

PrepareFails(m) ==
  /\ mem.push[m].at = "prepare"
  /\ Fault
  /\ \/ hub' = Permit(m, "ABORTED") /\ EndsAborted(m, "retry")
     \/ hub' = hub /\ Ends(m, "retry")
  /\ UNCHANGED <<codex, disk, life>>

\* What becomes of a call that nobody listens to any more.
Unheard(w) == IF w \in {"sent", "late"} THEN "late" ELSE "none"

(* The answer is read, which proves nothing: if the text is not in the      *)
(* thread, it comes later or never (the incident of bridge.ts:3666).       *)
Answered(m) ==
  /\ mem.push[m].at = "sent"
  /\ \/ codex.wire[m] = "accepted"
     \/ codex.wire[m] = "sent" /\ (mem.push[m].how = "steer" => codex.turn)
  /\ codex' = [codex EXCEPT !.wire[m] = Unheard(@)]
  /\ mem' = [mem EXCEPT !.push[m] = [at |-> "poll", how |-> "none"]]
  /\ UNCHANGED <<hub, disk, life, spent>>

\* A rejected steer is injected under the permit it has; what else is rejected ends.
Rejected(m) ==
  /\ mem.push[m].at = "sent"
  /\ codex.wire[m] = "rejected"
  /\ codex' = [codex EXCEPT !.wire[m] = "none"]
  /\ IF mem.push[m].how = "steer"
     THEN /\ mem' = [mem EXCEPT !.turn = FALSE,
                                !.push[m] = [at |-> "prepare", how |-> "inject"]]
          /\ UNCHANGED <<hub, spent>>
     ELSE \/ hub' = Permit(m, "ABORTED") /\ EndsAborted(m, "fatal") /\ UNCHANGED spent
          \/ hub' = hub /\ Ends(m, "fatal") /\ Fault
  /\ UNCHANGED <<disk, life>>

\* restartTransport: the child dies with its turn and every call on it.
Restarted(wire) ==
  [codex EXCEPT !.turn = FALSE,
     !.wire = [m \in Message |-> IF wire[m] = "sent" THEN "late" ELSE wire[m]]]

(* A timeout or a closed stream replaces the transport; an error that proves *)
(* nothing leaves it.                                                       *)
AnswerLost(m) ==
  LET gone == [codex.wire EXCEPT ![m] = Unheard(@)]
  IN  /\ mem.push[m].at = "sent"
      /\ \/ /\ codex.wire[m] \in {"late", "none"}
            /\ hub' = Permit(m, "AMBIGUOUS")
            /\ codex' = Restarted(gone)
            /\ EndsWithTransport(m)
            /\ UNCHANGED spent
         \/ /\ codex.wire[m] \in {"sent", "accepted"}
            /\ Fault
            /\ hub' \in {hub, Permit(m, "AMBIGUOUS")}
            /\ \/ codex' = Restarted(gone) /\ EndsWithTransport(m)
               \/ codex' = [codex EXCEPT !.wire = gone] /\ EndsInDoubt(m, "fatal")
      /\ UNCHANGED <<disk, life>>

\* Mutant: a call that was answered is delivered.
ConfirmedOnAnswer(m) ==
  /\ mem.push[m].at = "poll"
  /\ mem' = [mem EXCEPT !.push[m].at = "receipt",
               !.waiting = @ \cup {m}, !.doubt = @ \ {m}, !.held = @ \ {m}]
  /\ UNCHANGED <<hub, codex, disk, life, spent>>

\* awaitClientMessage and pollThreadForMessage: only the thread confirms.
Confirmed(m) ==
  /\ mem.push[m].at = "poll"
  /\ Found(m)
  /\ mem' = [mem EXCEPT !.push[m].at = "receipt",
               !.waiting = @ \cup {m}, !.doubt = @ \ {m}, !.held = @ \ {m}]
  /\ UNCHANGED <<hub, codex, disk, life, spent>>

Unconfirmed(m) ==
  /\ mem.push[m].at = "poll"
  /\ Settles(m, "AMBIGUOUS")
  /\ EndsInDoubt(m, "ok")
  /\ UNCHANGED <<codex, disk, life>>

\* markDelivered: the receipt at the Hub, then the checkpoint.
Receipt(m) ==
  /\ mem.push[m].at = "receipt"
  /\ hub' = Permit(m, "CONFIRMED")
  /\ mem' = [mem EXCEPT !.push[m].at = "settle"]
  /\ UNCHANGED <<codex, disk, life, spent>>

ReceiptSettles(m) ==
  /\ mem.push[m].at = "settle"
  /\ disk' = [disk EXCEPT !.pending = @ \ {m}]
  /\ mem' = Ended([mem EXCEPT !.waiting = @ \ {m}, !.permits = @ \ {m},
                              !.done = @ \cup {m}, !.doubt = @ \ {m}], m, "ok")
  /\ UNCHANGED <<hub, codex, life, spent>>

ReceiptFails(m) ==
  /\ mem.push[m].at = "receipt"
  /\ Fault
  /\ hub' \in {hub, Permit(m, "CONFIRMED")}
  /\ Ends(m, "retry")
  /\ UNCHANGED <<codex, disk, life>>

----------------------------------------------------------------------------
(* Frames of the project socket, one at a time.                            *)

\* connectSocket, after the reconnect delay.
Connect ==
  /\ life \in {"up", "switching"}
  /\ mem.socket = "off"
  /\ mem' = [mem EXCEPT !.socket = "live", !.target = IF life = "switching" THEN hub.posted ELSE 0]
  /\ UNCHANGED <<hub, codex, disk, life, spent>>

Disconnect ==
  /\ mem.socket = "live"
  /\ Fault
  /\ mem' = [mem EXCEPT !.socket = "off", !.frame.live = FALSE]
  /\ UNCHANGED <<hub, codex, disk, life>>

\* Mutant: the checkpoint is not written ahead.
TakeFrameBare(m) ==
  /\ life \in {"up", "switching"}
  /\ mem.socket = "live"
  /\ mem.frame = NoFrame
  /\ m = disk.cursor + 1
  /\ m <= hub.posted
  /\ mem' = [mem EXCEPT !.frame = [m |-> m, at |-> "taken", live |-> TRUE]]
  /\ UNCHANGED <<hub, codex, disk, life, spent>>

\* preflightCheckpointMessage and reservePendingMessage: written ahead.
TakeFrame(m) ==
  /\ life \in {"up", "switching"}
  /\ mem.socket = "live"
  /\ mem.frame = NoFrame
  /\ m = disk.cursor + 1
  /\ m <= hub.posted
  /\ disk' = [disk EXCEPT !.pending = @ \cup {m}]
  /\ mem' = [mem EXCEPT !.frame = [m |-> m, at |-> "taken", live |-> TRUE]]
  /\ UNCHANGED <<hub, codex, life, spent>>

DispatchFrame(m) ==
  /\ mem.frame.m = m
  /\ mem.frame.at = "taken"
  /\ mem' = IF AtOnce(mem, m)
            THEN [Noted(mem, m) EXCEPT !.frame.at = "commit"]
            ELSE [Begin(mem, m, Action(mem, m)) EXCEPT !.frame.at = "push"]
  /\ UNCHANGED <<hub, codex, disk, life, spent>>

\* commitEventSequence, unless the socket was replaced meanwhile.
CommitFrame(m) ==
  /\ mem.frame.m = m
  /\ mem.frame.at = "commit"
  /\ IF mem.frame.live
     THEN /\ disk' = [cursor |-> m, pending |-> disk.pending \cup
                        (IF CheckpointPending(m) THEN {m} ELSE {})]
          /\ mem' = [mem EXCEPT !.frame.at = "settle"]
     ELSE /\ mem' = [mem EXCEPT !.frame = NoFrame]
          /\ UNCHANGED disk
  /\ UNCHANGED <<hub, codex, life, spent>>

\* settlePendingMessage, if nothing of the message is left to do.
SettleFrame(m) ==
  /\ mem.frame.m = m
  /\ mem.frame.at = "settle"
  /\ disk' = IF CheckpointPending(m) THEN disk ELSE [disk EXCEPT !.pending = @ \ {m}]
  /\ mem' = [mem EXCEPT !.frame = NoFrame]
  /\ UNCHANGED <<hub, codex, life, spent>>

----------------------------------------------------------------------------
(* The queues, the deferred messages and the heartbeat.                    *)

\* flushImportant steers or injects, flushNormal injects; a held head waits.  A
\* new flush of the normal queue needs a thread at rest, the next head does not.
DrainQueue(q) ==
  /\ life \in {"starting", "up"}
  /\ mem.flush[q] = 0
  /\ mem.queue[q] # <<>>
  /\ q = "normal" => ~mem.turn \/ mem.going
  /\ LET m == Head(mem.queue[q])
         how == IF q = "important" /\ mem.turn THEN "steer" ELSE "inject"
     IN  IF m \in mem.done
         THEN mem' = [mem EXCEPT !.queue[q] = Tail(@), !.held = @ \ {m},
                                 !.going = StillGoing(mem, q, Tail(mem.queue[q]) # <<>>)]
         ELSE /\ m \notin mem.held
              /\ mem' = [mem EXCEPT !.flush[q] = m, !.going = @ \/ q = "normal",
                           !.push[m] = IF Running(mem, m) THEN @
                                       ELSE [at |-> "begin", how |-> how]]
  /\ UNCHANGED <<hub, codex, disk, life, spent>>

\* flushDeferredCredentialMessages, in the order of the messages.
FlushDeferred ==
  /\ life = "up"
  /\ mem.deferring = 0
  /\ mem.deferred # {}
  /\ LET m == Min(mem.deferred)
     IN  mem' = IF AtOnce(mem, m)
                THEN [Noted(mem, m) EXCEPT !.deferred = @ \ {m}]
                ELSE [Begin(mem, m, Action(mem, m)) EXCEPT !.deferring = m]
  /\ UNCHANGED <<hub, codex, disk, life, spent>>

\* Mutant: only the drain retries a receipt, the heartbeat does not.
RetryReceiptInDrain(m) ==
  /\ life = "draining"
  /\ m \in mem.waiting
  /\ ~Running(mem, m)
  /\ mem' = [mem EXCEPT !.push[m] = [at |-> "receipt", how |-> "none"]]
  /\ UNCHANGED <<hub, codex, disk, life, spent>>

\* flushPendingDeliveryStates
RetryReceipt(m) ==
  /\ life \in {"up", "draining"}
  /\ m \in mem.waiting
  /\ ~Running(mem, m)
  /\ mem' = [mem EXCEPT !.push[m] = [at |-> "receipt", how |-> "none"]]
  /\ UNCHANGED <<hub, codex, disk, life, spent>>

\* reconcilePendingMessages: the thread has come to hold it.
Reconcile(m) ==
  /\ life = "up"
  /\ m \in mem.doubt \cap mem.permits
  /\ Found(m)
  /\ ~Running(mem, m)
  /\ mem' = [mem EXCEPT !.push[m] = [at |-> "receipt", how |-> "none"],
                        !.waiting = @ \cup {m}]
  /\ UNCHANGED <<hub, codex, disk, life, spent>>

----------------------------------------------------------------------------
(* Credential cutover.                                                     *)

BeginDrain ==
  /\ life = "up"
  /\ Fault
  /\ life' = "draining"
  /\ mem' = [mem EXCEPT !.socket = "off", !.frame.live = FALSE]
  /\ UNCHANGED <<hub, codex, disk>>

\* loadRecipientUnsettledMessages (DELIVERED ones included), reserved as a whole.
Unsettled == 1 .. hub.posted
Reserved == [disk EXCEPT !.pending = @ \cup Unsettled]

\* Mutant: what is still in flight is left to the successor.
QuietEnough == ~mem.turn /\ mem.waiting = {}

(* awaitCredentialSafePoint, awaitCredentialEpochDrain: every owner of the  *)
(* old credential has ended and what it leaves is in doubt at the Hub; then *)
(* the successor is activated and the transport restarted.                 *)
Quiet ==
  /\ ~mem.turn
  /\ \A m \in Message : ~Running(mem, m)
  /\ mem.waiting = {}

Cutover ==
  /\ life = "draining"
  /\ Quiet
  /\ hub' = [hub EXCEPT !.permit = [m \in Message |->
               IF m \in mem.permits /\ @[m] = "ACTIVE" THEN "AMBIGUOUS" ELSE @[m]]]
  /\ codex' = Restarted(codex.wire)
  /\ life' = "switching"
  /\ disk' = Reserved
  /\ mem' = [mem EXCEPT !.hydrate = Unsettled, !.told = FALSE]
  /\ UNCHANGED spent

\* The subscription has caught up, and the drain reopens.
Reopen ==
  /\ life = "switching"
  /\ mem.hydrate = {}
  /\ mem.socket = "live"
  /\ mem.frame = NoFrame
  /\ disk.cursor >= mem.target
  /\ life' = "up"
  /\ UNCHANGED <<hub, codex, disk, mem, spent>>

----------------------------------------------------------------------------
(* The process dies, and its successor recovers.                           *)

Deserted == [m \in Message |-> Unheard(codex.wire[m])]

Crash ==
  /\ life # "down"
  /\ Fault
  /\ life' = "down"
  /\ mem' = Fresh
  /\ codex' = [codex EXCEPT !.wire = Deserted]
  /\ UNCHANGED <<hub, disk>>

\* Registration hands the open permits over in doubt (Replace of MessageSurfaces).
Restart ==
  /\ life = "down"
  /\ hub' = [hub EXCEPT !.permit = [m \in Message |->
               IF @[m] = "ACTIVE" THEN "AMBIGUOUS" ELSE @[m]]]
  /\ life' = "starting"
  /\ disk' = Reserved
  /\ mem' = [Fresh EXCEPT !.hydrate = Unsettled]
  /\ UNCHANGED <<codex, spent>>

Recovered(m) ==
  [mem EXCEPT !.done = @ \cup {m}, !.permits = @ \ {m}, !.waiting = @ \ {m},
              !.doubt = @ \ {m}, !.held = @ \ {m}, !.hydrate = @ \ {m}]

(* hydrateOperationalPendingMessages: a receipt is final, a permit in doubt *)
(* is settled by the thread or left, and only a message without one is      *)
(* dispatched.                                                             *)
Hydrate(m) ==
  /\ life \in {"starting", "switching"}
  /\ mem.hydrating = 0
  /\ mem.hydrate # {} /\ m = Min(mem.hydrate)
  /\ \/ /\ \/ hub.permit[m] = "CONFIRMED"
           \/ hub.permit[m] = "AMBIGUOUS" /\ Found(m)
        /\ hub' = Permit(m, "CONFIRMED")
        /\ disk' = [disk EXCEPT !.pending = @ \ {m}]
        /\ mem' = Recovered(m)
     \/ /\ hub.permit[m] \in {"ACTIVE", "AMBIGUOUS"}
        /\ mem' = [mem EXCEPT !.doubt = @ \cup {m}, !.hydrate = @ \ {m}]
        /\ UNCHANGED <<hub, disk>>
     \/ /\ hub.permit[m] \in {"NONE", "ABORTED"}
        /\ mem' = IF AtOnce(mem, m)
                  THEN [Noted(mem, m) EXCEPT !.hydrate = @ \ {m}]
                  ELSE [Begin(mem, m, Action(mem, m)) EXCEPT !.hydrating = m,
                                                              !.hydrate = @ \ {m}]
        /\ UNCHANGED <<hub, disk>>
  /\ UNCHANGED <<codex, life, spent>>

Started ==
  /\ life = "starting"
  /\ mem.hydrate = {} /\ mem.hydrating = 0
  /\ life' = "up"
  /\ UNCHANGED <<hub, codex, disk, mem, spent>>

\* initialize has thrown, and the process exits.
StartFails ==
  /\ life = "starting"
  /\ mem.hydrating # 0 /\ ~Running(mem, mem.hydrating)
  /\ life' = "down"
  /\ mem' = Fresh
  /\ codex' = [codex EXCEPT !.wire = Deserted]
  /\ UNCHANGED <<hub, disk, spent>>

----------------------------------------------------------------------------

PushStep(m) ==
  \/ BeginSurface(m) \/ BeginSurfaceFails(m) \/ Send(m) \/ PrepareFails(m)
  \/ CodexTakes(m) \/ CodexRejects(m) \/ Answered(m) \/ AnswerLost(m) \/ Rejected(m)
  \/ Confirmed(m) \/ Unconfirmed(m) \/ Receipt(m) \/ ReceiptSettles(m) \/ ReceiptFails(m)

FrameStep(m) ==
  TakeFrame(m) \/ DispatchFrame(m) \/ CommitFrame(m) \/ SettleFrame(m)

Cutting == Cutover \/ Reopen
Recovering == Restart \/ Started \/ StartFails \/ \E m \in Message : Hydrate(m)

Next ==
  \/ Post \/ UserTurn \/ TurnEnds \/ NoticeTurn \/ ItemCompleted
  \/ Connect \/ Disconnect \/ FlushDeferred \/ BeginDrain \/ Crash
  \/ Cutting \/ Recovering
  \/ \E q \in Queue : DrainQueue(q)
  \/ \E m \in Message :
       \/ PushStep(m) \/ FrameStep(m) \/ RetryReceipt(m) \/ Reconcile(m)
       \/ CodexTakesLate(m)

Spec == Init /\ [][Next]_vars

(* Codex answers or the request times out, timers fire, a turn ends and is   *)
(* notified, the supervisor starts a dead bridge again.                    *)
FairSpec ==
  /\ Spec
  /\ \A m \in Message : WF_vars(PushStep(m))
  /\ \A q \in Queue : WF_vars(DrainQueue(q))
  /\ WF_vars(\E m \in Message : FrameStep(m)) /\ WF_vars(\E m \in Message : RetryReceipt(m))
  /\ WF_vars(TurnEnds) /\ SF_vars(NoticeTurn) /\ WF_vars(Connect) /\ WF_vars(FlushDeferred)
  /\ WF_vars(Cutting \/ Recovering)

----------------------------------------------------------------------------
TypeOK ==
  /\ hub.posted \in 0 .. MaxMessage
  /\ hub.permit \in [Message -> PermitState]
  /\ codex.wire \in [Message -> WireState]
  /\ disk.cursor \in 0 .. MaxMessage /\ disk.pending \subseteq Message
  /\ life \in Life

(* Whatever is lost, rejected, retried, deferred or recovered by another    *)
(* process, no message is put before the model twice.                      *)
SurfacedAtMostOnce == \A m \in Message : codex.shown[m] <= 1

(* A receipt says what happened: the incident of three deliveries recorded  *)
(* for turns that never started (bridge.ts:3661).                          *)
ReceiptMeansSurfaced == \A m \in Message : hub.permit[m] = "CONFIRMED" => codex.shown[m] = 1

(* Written ahead: a message that may be before the model and has no receipt *)
(* is in the checkpoint, so that any later process asks what became of it.  *)
ExposedIsCheckpointed ==
  \A m \in Message :
    (codex.shown[m] > 0 \/ codex.wire[m] # "none") /\ hub.permit[m] # "CONFIRMED"
      => m \in disk.pending

(* The cursor never leaves a message behind that nobody has: once it is     *)
(* passed, a message without a permit is in a queue, deferred, being pushed *)
(* or about to be hydrated.                                                *)
NothingIsForgotten ==
  life \in {"up", "draining"} =>
    \A m \in 1 .. disk.cursor : hub.permit[m] \in {"NONE", "ABORTED"} =>
      \/ InQueue(mem, m) \/ m \in mem.deferred \/ Running(mem, m) \/ mem.frame.m = m

(* No model call of the old credential is open once the successor is        *)
(* activated, whatever queue, deferred message or hydration could make one. *)
RetiredEpochIsQuiet ==
  life = "switching" => \A m \in Message : codex.wire[m] \notin {"sent", "accepted"}

Settled(m) == hub.permit[m] \in {"CONFIRMED", "AMBIGUOUS"}

\* The message at the head of the queue that m waits in.
HeadOf(m) ==
  {Head(mem.queue[q]) : q \in {r \in Queue : \E i \in DOMAIN mem.queue[r] : mem.queue[r][i] = m}}

(* The grant of the permit or the verdict on it was lost: no push goes      *)
(* further and no receipt is to be written; the thread may still prove the  *)
(* message, or the next process asks.                                      *)
OutOfHands(m) ==
  hub.permit[m] = "ACTIVE" /\ mem.push[m].at \in {"rest", "begin"} /\ m \notin mem.waiting

\* What the bridge itself cannot move on; a paused socket is one with an error
\* that must not be retried.
Stranded(m) == mem.socket = "paused" \/ \E k \in HeadOf(m) \cup {m} : OutOfHands(k)

\* The head of its queue is held for the end of a turn, and there is no turn.
AwaitsTurn(m) == ~codex.turn /\ ~mem.turn /\ HeadOf(m) \cap mem.held # {}

TurnsComeAndGo == []<>mem.told /\ []<>~mem.told

(* Again and again there is a moment at which every message is confirmed,   *)
(* known to be in doubt, or halted: stranded, or held while there is no     *)
(* turn; and where turns come and go, being held is no excuse.              *)
EveryMessageIsSettled ==
  /\ []<>(\A m \in 1 .. hub.posted : Settled(m) \/ Stranded(m) \/ AwaitsTurn(m))
  /\ TurnsComeAndGo => []<>(\A m \in 1 .. hub.posted : Settled(m) \/ Stranded(m))
=============================================================================
