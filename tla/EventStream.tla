---------------------------- MODULE EventStream ----------------------------
(***************************************************************************)
(* The way of a project's events from the Hub's log to an adapter.          *)
(*                                                                         *)
(* The Hub numbers events as a mutation emits them and publishes them, once *)
(* the outermost transaction has committed, one by one to the sockets       *)
(* subscribed to the project.  A socket replays a bounded part of the log   *)
(* when it subscribes and gives up with resync_required when the peer does  *)
(* not keep up.  The Claude channel passes the frames of its current        *)
(* socket, one at a time, to the event pump, which closes gaps by reading   *)
(* pages of the log and moves its cursor behind each handled event.         *)
(*                                                                         *)
(* Source: apps/hub/src/services/store/context.ts, events/event-bus.ts,     *)
(* websocket/project-socket.ts; packages/claude-channel/src/channel.ts and  *)
(* ordered-event-pump.ts.  The Hub gives way nowhere between the first event *)
(* of a mutation and the last publication, so it answers nobody meanwhile,  *)
(* but the adapter goes on; the adapter gives way at every await.  How many *)
(* bytes a socket may buffer is left out: it may overflow whenever a frame  *)
(* is under way.                                                           *)
(***************************************************************************)
EXTENDS Naturals, Sequences

CONSTANTS
  MaxEvents,    \* bound on the log
  MaxFailures,  \* bound on failures of the network, a handler or a process
  ReplayLimit,  \* events replayed on subscription (5000)
  PageSize      \* events read by one page request (5000)

ASSUME StreamConstants ==
  /\ MaxEvents \in Nat
  /\ MaxFailures \in Nat
  /\ ReplayLimit \in Nat \ {0}
  /\ PageSize \in Nat \ {0}

VARIABLES
  log,        \* events 1 .. log are committed
  drawn,      \* projects.current_sequence, in the open transaction if there is one
  buffer,     \* activeMutationEvents: events emitted and not published yet
  socket,     \* the adapter's current socket, Hub side included
  wire,       \* frames sent on it and not taken yet
  attached,   \* whether the channel has a Hub session and a running pump
  cursor,     \* lastSequence, which is the pump's currentSequence
  highWater,  \* highWaterSequence
  job,        \* the frame being processed
  handled,    \* events whose handler took effect
  failures

vars == <<log, drawn, buffer, socket, wire, attached, cursor, highWater, job, handled, failures>>

----------------------------------------------------------------------------

Smaller(a, b) == IF a < b THEN a ELSE b
Larger(a, b)  == IF a > b THEN a ELSE b

NoSocket == [state |-> "NONE", asked |-> 0, listening |-> FALSE]

\* A frame in process: catch up to target, then handle the live event, if any.
\* page is the last event fetched; done says that the next event was handled
\* and only its commit is missing.  A job may outlive its socket and its pump.
NoJob == [target |-> 0, live |-> 0, page |-> 0, done |-> FALSE, socket |-> FALSE, pump |-> FALSE]

Job == [target : Nat, live : Nat, page : Nat, done : BOOLEAN, socket : BOOLEAN, pump : BOOLEAN]

EventFrame(n) == [type |-> "event", sequence |-> n]
Subscribed(n) == [type |-> "subscribed", sequence |-> n]
Resync        == [type |-> "resync_required", sequence |-> 0]

Frame == [type : {"event", "subscribed", "resync_required"}, sequence : Nat]

Busy == job # NoJob

Init ==
  /\ log = 0
  /\ drawn = 0
  /\ buffer = <<>>
  /\ socket = NoSocket
  /\ wire = <<>>
  /\ attached = TRUE
  /\ cursor = 0
  /\ highWater = 0
  /\ job = NoJob
  /\ handled = {}
  /\ failures = 0

----------------------------------------------------------------------------
(* The Hub.                                                                *)

(* send to a subscribed socket: the frame, or the overflow that ends the    *)
(* subscription.                                                           *)
Send(frame) ==
  \/ /\ wire' = Append(wire, frame)
     /\ UNCHANGED socket
  \/ /\ wire # <<>>
     /\ wire' = Append(wire, Resync)
     /\ socket' = [socket EXCEPT !.listening = FALSE]

Mutating   == drawn > log
Publishing == ~Mutating /\ buffer # <<>>
HubIdle    == ~Mutating /\ buffer = <<>>

adapter == <<attached, cursor, highWater, job, handled>>

(* emit: the event takes the next number, in the mutation's transaction or  *)
(* in one nested in it.                                                     *)
Emit ==
  /\ ~Publishing
  /\ drawn < MaxEvents
  /\ drawn' = drawn + 1
  /\ buffer' = Append(buffer, drawn + 1)
  /\ UNCHANGED <<log, socket, wire, adapter, failures>>

\* Mutant: what was emitted in the transaction stays in the buffer.
RollbackKeepsEvents ==
  /\ Mutating
  /\ failures < MaxFailures
  /\ drawn' \in log .. drawn - 1
  /\ failures' = failures + 1
  /\ UNCHANGED <<log, buffer, socket, wire, adapter>>

(* mutate, catch: the mutation, or one nested in it whose error the outer   *)
(* one catches, is rolled back and the events since its checkpoint with it. *)
Rollback ==
  /\ Mutating
  /\ failures < MaxFailures
  /\ \E kept \in log .. drawn - 1 :
       /\ drawn' = kept
       /\ buffer' = SubSeq(buffer, 1, kept - log)
  /\ failures' = failures + 1
  /\ UNCHANGED <<log, socket, wire, adapter>>

(* mutate: the outermost transaction commits.                               *)
Commit ==
  /\ Mutating
  /\ log' = drawn
  /\ UNCHANGED <<drawn, buffer, socket, wire, adapter, failures>>

(* mutate: after the commit, the next event to the subscribers.             *)
Publish ==
  /\ Publishing
  /\ IF socket.listening THEN Send(EventFrame(Head(buffer))) ELSE UNCHANGED <<wire, socket>>
  /\ buffer' = Tail(buffer)
  /\ UNCHANGED <<log, drawn, adapter, failures>>

(* Any other frame, a ping or an acknowledgement, may find the buffer full. *)
Overflow ==
  /\ HubIdle
  /\ socket.listening
  /\ wire # <<>>
  /\ wire' = Append(wire, Resync)
  /\ socket' = [socket EXCEPT !.listening = FALSE]
  /\ UNCHANGED <<log, drawn, buffer, adapter, failures>>

\* Mutant: the subscription reports the end of the replay.
SubscribeToReplay ==
  LET last == Smaller(log, socket.asked + ReplayLimit)
      replay == [i \in 1 .. last - socket.asked |-> EventFrame(socket.asked + i)] IN
  /\ HubIdle
  /\ socket.state = "CONNECTING"
  /\ wire' = Append(replay, Subscribed(last))
  /\ socket' = [socket EXCEPT !.state = "SUBSCRIBED", !.listening = TRUE]
  /\ UNCHANGED <<log, drawn, buffer, adapter, failures>>

(* subscribe: replay, then listen, then tell the current sequence.  The     *)
(* replay may overflow after its first frame and then ends the attempt; so  *)
(* may the closing frame.                                                  *)
Subscribe ==
  LET last == Smaller(log, socket.asked + ReplayLimit)
      replay == [i \in 1 .. last - socket.asked |-> EventFrame(socket.asked + i)] IN
  /\ HubIdle
  /\ socket.state = "CONNECTING"
  /\ \/ /\ wire' = Append(replay, Subscribed(log))
        /\ socket' = [socket EXCEPT !.state = "SUBSCRIBED", !.listening = TRUE]
     \/ \E k \in DOMAIN replay :
          /\ wire' = Append(SubSeq(replay, 1, k), Resync)
          /\ socket' = [socket EXCEPT !.state = "SUBSCRIBED"]
  /\ UNCHANGED <<log, drawn, buffer, adapter, failures>>

----------------------------------------------------------------------------
(* The channel's socket.                                                   *)

(* connectSocket, at once or by the reconnect timer.                        *)
Connect ==
  /\ attached
  /\ socket.state = "NONE"
  /\ socket' = [state |-> "CONNECTING", asked |-> cursor, listening |-> FALSE]
  /\ UNCHANGED <<log, drawn, buffer, wire, attached, cursor, highWater, job, handled, failures>>

\* Frames of a socket that is no longer current are not looked at; the one in
\* process goes on.
DropSocket ==
  /\ socket' = NoSocket
  /\ wire' = <<>>

Left(j) == IF j = NoJob THEN NoJob ELSE [j EXCEPT !.socket = FALSE]
Orphaned(j) == IF j = NoJob THEN NoJob ELSE [j EXCEPT !.socket = FALSE, !.pump = FALSE]

(* The socket closes: the network fails or the CONTROL ticket is rotated.   *)
Disconnect ==
  /\ socket.state # "NONE"
  /\ failures < MaxFailures
  /\ DropSocket
  /\ job' = Left(job)
  /\ failures' = failures + 1
  /\ UNCHANGED <<log, drawn, buffer, attached, cursor, highWater, handled>>

(* The Hub's process ends, with the transaction and the publications it was *)
(* in the middle of.                                                        *)
HubEnds ==
  /\ failures < MaxFailures
  /\ DropSocket
  /\ job' = Left(job)
  /\ drawn' = log
  /\ buffer' = <<>>
  /\ failures' = failures + 1
  /\ UNCHANGED <<log, attached, cursor, highWater, handled>>

(* stopHubSession: the pump is stopped and the socket closed.               *)
Detach ==
  /\ attached
  /\ failures < MaxFailures
  /\ DropSocket
  /\ attached' = FALSE
  /\ job' = Orphaned(job)
  /\ failures' = failures + 1
  /\ UNCHANGED <<log, drawn, buffer, cursor, highWater, handled>>

\* Mutant: the new pump resumes behind the last event heard of.
AttachAtHighWater ==
  /\ ~attached
  /\ attached' = TRUE
  /\ cursor' = highWater
  /\ UNCHANGED <<log, drawn, buffer, socket, wire, highWater, job, handled, failures>>

(* startHubSession by the reattach timer: a new pump starts at the cursor.  *)
Attach ==
  /\ ~attached
  /\ attached' = TRUE
  /\ highWater' = cursor
  /\ UNCHANGED <<log, drawn, buffer, socket, wire, cursor, job, handled, failures>>

(* The adapter's process ends; the next one knows no cursor.                *)
Crash ==
  /\ failures < MaxFailures
  /\ DropSocket
  /\ attached' = FALSE
  /\ cursor' = 0
  /\ highWater' = 0
  /\ job' = NoJob
  /\ failures' = failures + 1
  /\ UNCHANGED <<log, drawn, buffer, handled>>

----------------------------------------------------------------------------
(* The event pump.  socketFrameTail lets one frame at a time in.            *)

(* processFrame of an event: the gap before it is closed first.             *)
TakeEvent ==
  LET n == Head(wire).sequence IN
  /\ ~Busy /\ wire # <<>> /\ Head(wire).type = "event"
  /\ highWater' = Larger(highWater, n)
  /\ job' = IF n <= cursor THEN NoJob
            ELSE [NoJob EXCEPT !.target = n - 1, !.live = n, !.page = cursor,
                               !.socket = TRUE, !.pump = TRUE]
  /\ wire' = Tail(wire)
  /\ UNCHANGED <<log, drawn, buffer, socket, attached, cursor, handled, failures>>

(* processFrame of subscribed.                                              *)
TakeSubscribed ==
  LET high == Larger(highWater, Head(wire).sequence) IN
  /\ ~Busy /\ wire # <<>> /\ Head(wire).type = "subscribed"
  /\ highWater' = high
  /\ job' = IF high <= cursor THEN NoJob
            ELSE [NoJob EXCEPT !.target = high, !.page = cursor, !.socket = TRUE, !.pump = TRUE]
  /\ wire' = Tail(wire)
  /\ UNCHANGED <<log, drawn, buffer, socket, attached, cursor, handled, failures>>

\* Mutant: an overflow is ignored.
IgnoreResync ==
  /\ ~Busy /\ wire # <<>> /\ Head(wire).type = "resync_required"
  /\ wire' = Tail(wire)
  /\ UNCHANGED <<log, drawn, buffer, socket, attached, cursor, highWater, job, handled, failures>>

(* resync_required without a sequence is a gap, and the socket is replaced. *)
TakeResync ==
  /\ ~Busy /\ wire # <<>> /\ Head(wire).type = "resync_required"
  /\ DropSocket
  /\ UNCHANGED <<log, drawn, buffer, adapter, failures>>

(* catchUpTo: one page.  (Only events the Hub has committed are asked for,  *)
(* so a page is never empty: TargetIsCommitted.)                            *)
FetchPage ==
  /\ HubIdle
  /\ Busy /\ job.pump /\ ~job.done
  /\ cursor < job.target
  /\ cursor >= job.page
  /\ job' = [job EXCEPT !.page = Smaller(log, cursor + PageSize)]
  /\ UNCHANGED <<log, drawn, buffer, socket, wire, attached, cursor, highWater, handled, failures>>

\* The next event is at hand: from the page, or it is the live one.
AtHand ==
  \/ cursor < job.target /\ cursor < job.page
  \/ cursor >= job.target /\ job.live = cursor + 1

(* handleEvent.                                                            *)
HandleEvent ==
  /\ Busy /\ job.pump /\ ~job.done
  /\ AtHand
  /\ handled' = handled \cup {cursor + 1}
  /\ job' = [job EXCEPT !.done = TRUE]
  /\ UNCHANGED <<log, drawn, buffer, socket, wire, attached, cursor, highWater, failures>>

(* commitCursor, unless the pump was stopped meanwhile.                     *)
CommitCursor ==
  /\ Busy /\ job.pump
  /\ job.done
  /\ cursor' = cursor + 1
  /\ job' = [job EXCEPT !.done = FALSE]
  /\ UNCHANGED <<log, drawn, buffer, socket, wire, attached, highWater, handled, failures>>

FinishFrame ==
  /\ Busy /\ job.pump /\ ~job.done
  /\ cursor >= job.target
  /\ job.live <= cursor
  /\ job' = NoJob
  /\ UNCHANGED <<log, drawn, buffer, socket, wire, attached, cursor, highWater, handled, failures>>

(* A page request or the handler fails, the latter before or after its      *)
(* effect.  If the frame's socket is still the current one, a retryable     *)
(* failure replaces it and any other ends the session.                     *)
FrameFails ==
  /\ Busy /\ job.pump
  /\ failures < MaxFailures
  /\ job' = NoJob
  /\ IF job.socket THEN DropSocket /\ attached' \in BOOLEAN
     ELSE UNCHANGED <<socket, wire, attached>>
  /\ failures' = failures + 1
  /\ UNCHANGED <<log, drawn, buffer, cursor, highWater, handled>>

(* The frame of a stopped pump ends without a commit; its handler may have  *)
(* been under way.                                                         *)
OrphanEnds ==
  /\ Busy /\ ~job.pump
  /\ job' = NoJob
  /\ \/ UNCHANGED handled
     \/ AtHand /\ handled' = handled \cup {cursor + 1}
  /\ UNCHANGED <<log, drawn, buffer, socket, wire, attached, cursor, highWater, failures>>

PumpStep ==
  \/ TakeEvent \/ TakeSubscribed \/ TakeResync
  \/ FetchPage \/ HandleEvent \/ CommitCursor \/ FinishFrame \/ OrphanEnds

Mutation == Emit \/ Rollback \/ Commit \/ Publish

Failure == Overflow \/ Disconnect \/ HubEnds \/ Detach \/ Crash \/ FrameFails

Next == Mutation \/ Subscribe \/ Connect \/ Attach \/ PumpStep \/ Failure

Spec == Init /\ [][Next]_vars

\* A mutation ends and its events are published, both timers fire, the Hub
\* answers, and a handler returns in the end.
FairSpec ==
  /\ Spec
  /\ WF_vars(Commit)
  /\ WF_vars(Publish)
  /\ WF_vars(Attach)
  /\ WF_vars(Connect)
  /\ WF_vars(Subscribe)
  /\ WF_vars(PumpStep)

----------------------------------------------------------------------------
(***************************************************************************)
(* Properties                                                              *)
(***************************************************************************)

TypeOK ==
  /\ log \in Nat /\ drawn \in Nat /\ buffer \in Seq(Nat)
  /\ cursor \in Nat /\ highWater \in Nat /\ failures \in 0 .. MaxFailures
  /\ socket \in [state : {"NONE", "CONNECTING", "SUBSCRIBED"}, asked : Nat, listening : BOOLEAN]
  /\ wire \in Seq(Frame)
  /\ attached \in BOOLEAN
  /\ job \in Job
  /\ handled \in SUBSET (1 .. log)

\* An event the cursor has passed was handled: no failure between a handler
\* and its commit, no overflow and no replacement of socket, pump or process
\* makes the adapter skip one.
NoEventSkipped == 1 .. cursor \subseteq handled

\* The adapter asks the Hub for committed events only, so that a page is never
\* empty and a gap never declared where there is none.
TargetIsCommitted ==
  /\ cursor <= log
  /\ Busy => job.target <= log /\ job.live <= log

\* An adapter that has nothing to do has nothing left to do: once it is
\* subscribed, everything committed is published and every frame is processed,
\* it has handled the whole log.
QuietMeansCaughtUp ==
  socket.state = "SUBSCRIBED" /\ ~Publishing /\ wire = <<>> /\ ~Busy => cursor = log

\* Every event is handled and passed in the end, whatever overflows.
EveryEventIsHandled == \A n \in 1 .. MaxEvents : log >= n ~> cursor >= n

OD == INSTANCE OrderedDelivery

\* The stream implements at-least-once delivery in order, of committed events
\* only: an event of a mutation that is not committed yet, or was rolled back,
\* is handled by nobody.
ImplementsOrderedDelivery == OD!Spec
=============================================================================
