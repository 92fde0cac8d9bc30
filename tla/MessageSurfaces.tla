-------------------------- MODULE MessageSurfaces --------------------------
(***************************************************************************)
(* Delivery ownership of messages in the Hub store: recipients, surface    *)
(* permits, receipts, and what session replacement does to them.           *)
(*                                                                         *)
(* A message reaches a model at most once if every adapter takes a surface *)
(* permit (a row of message_surface_attempts) before it shows the message, *)
(* and the Hub never issues a second permit unless the first is proven     *)
(* ABORTED.  An unknown outcome is AMBIGUOUS and stays so until evidence   *)
(* confirms it.                                                            *)
(*                                                                         *)
(* Source: apps/hub/src/services/store/messages.ts and the handoff part of *)
(* registerSession in sessions.ts.  One store call is one SQLite           *)
(* transaction and one action.  All sessions here are of one agent and one *)
(* project, and a message has one recipient row for that agent: the Hub's  *)
(* queries never relate rows of two agents, and rows fanned out to several *)
(* explicit sessions are selected by session.  Messages are ordinary ones  *)
(* (no message_directive_links row).  A caller holds an active ticket      *)
(* exactly while its session is open.                                      *)
(***************************************************************************)
EXTENDS SessionLineages, FiniteSets

CONSTANTS
  Message,        \* message ids
  ThreadLineage,  \* lineages identified by an external thread
  MaxFence        \* bound on the permits taken for one message

ASSUME SurfaceConstants ==
  /\ None \notin Message
  /\ ThreadLineage \subseteq Lineage
  /\ MaxFence \in Nat

VARIABLES
  recipient,       \* message_recipients: [posted, bound, state, fence]
  attempts,        \* message_surface_attempts
  deliveries,      \* message_deliveries in state DELIVERED: <<message, session>>
  acks,            \* message_acks: <<message, session>>
  receipts,        \* message.<state> events naming a permit: <<message, session, fence>>
  handoffs,        \* message.surface.*_handoff events and message_surface_handoffs rows
  reconciliations  \* message.surface.reconciled events: <<message, fence, session>>

evidence == <<deliveries, acks, receipts>>
surfaceVars == <<recipient, attempts, deliveries, acks, receipts, handoffs, reconciliations>>
vars == <<session, lineage, reservation, recipient, attempts, deliveries, acks,
          receipts, handoffs, reconciliations>>

----------------------------------------------------------------------------

Unresolved == {"ACTIVE", "AMBIGUOUS"}
Surfaced   == {"DELIVERED", "ACKNOWLEDGED", "PROCESSED", "RESPONDED"}
Downstream == {"ACKNOWLEDGED", "PROCESSED", "RESPONDED"}
Finished   == {"PROCESSED", "RESPONDED"}  \* EXPIRED is tested for but never written

\* The recipient states that follow a replaced session to its successor.
Transferable == {"PENDING", "DELIVERED", "ACKNOWLEDGED", "FAILED"}

Rank == [PENDING |-> 0, DELIVERED |-> 1, ACKNOWLEDGED |-> 2, PROCESSED |-> 3, RESPONDED |-> 4]

\* order.indexOf is -1 for FAILED, so a failed recipient accepts any state.
Regressive(m, st) ==
  /\ recipient[m].state # "FAILED"
  /\ Rank[st] < Rank[recipient[m].state]

RecipientRow ==
  [posted : BOOLEAN, bound : Session \cup {None},
   state : Surfaced \cup {"PENDING", "FAILED"}, fence : Nat]

AttemptRow ==
  [msg : Message, owner : Session, incarnation : Nat, fence : Nat,
   state : Unresolved \cup {"CONFIRMED", "ABORTED"}]

HandoffRow ==
  [kind : {"ambiguous", "confirmed", "reconciled"}, msg : Message, fence : Nat, to : Session]

UnresolvedOf(m) == {a \in attempts : a.msg = m /\ a.state \in Unresolved}
ConfirmedOf(m)  == {a \in attempts : a.msg = m /\ a.state = "CONFIRMED"}

Resolve(a, st) == (attempts \ {a}) \cup {[a EXCEPT !.state = st]}

SameLineage(a, s) ==
  /\ session[s].lineage # None
  /\ session[a.owner].lineage = session[s].lineage

HandedTo(s, kind, a) == [kind |-> kind, msg |-> a.msg, fence |-> a.fence, to |-> s] \in handoffs

----------------------------------------------------------------------------
(* findConfirmedSurfaceRecovery: the confirmed permit a session may build   *)
(* on, its own or one inherited from a predecessor.                        *)
Recoverable(m, s) ==
  {a \in ConfirmedOf(m) : recipient[m].bound = s /\ (a.owner = s \/ SameLineage(a, s))}

\* The receipt of the surface is durable: its delivery row and its event.
Evidenced(a) ==
  /\ recipient[a.msg].fence = a.fence
  /\ session[a.owner].incarnation = a.incarnation
  /\ <<a.msg, a.owner>> \in deliveries
  /\ <<a.msg, a.owner, a.fence>> \in receipts

\* Mutant: a reconciliation entitles only the session that performed it.
InheritedDirectly(a, s) ==
  \/ HandedTo(s, "confirmed", a)
  \/ <<a.msg, a.fence, s>> \in reconciliations

\* What entitles session s to a permit that another incarnation confirmed.
Inherited(a, s) ==
  \/ HandedTo(s, "confirmed", a)
  \/ <<a.msg, a.fence, s>> \in reconciliations
  \/ HandedTo(s, "reconciled", a)

RecoverySucceeds(m, s) ==
  \E a \in Recoverable(m, s) :
    /\ Recoverable(m, s) = {a}
    /\ recipient[m].state \in Surfaced
    /\ Evidenced(a)
    /\ \/ a.owner = s
       \/ /\ session[a.owner].incarnation < session[s].incarnation
          /\ Inherited(a, s)

----------------------------------------------------------------------------
(* postMessage: an agent-wide recipient, or one pinned to a session that    *)
(* exists, open or not.                                                    *)
PostMessage(m, target) ==
  /\ ~recipient[m].posted
  /\ target # None => Registered(target)
  /\ recipient' = [recipient EXCEPT ![m] = [@ EXCEPT !.posted = TRUE, !.bound = target]]
  /\ UNCHANGED <<session, lineage, reservation, attempts, evidence, handoffs, reconciliations>>

\* Mutant: a row that is bound to a peer can be claimed as well.
ClaimAnyRecipient(s, m) ==
  /\ IsOpen(s)
  /\ recipient[m].posted
  /\ recipient[m].state \notin Finished
  /\ recipient' = [recipient EXCEPT ![m].bound = s]
  /\ UNCHANGED <<session, lineage, reservation, attempts, evidence, handoffs, reconciliations>>

(* claimMessageRecipient of an agent-wide row (an exact one is returned as  *)
(* it is).                                                                 *)
ClaimRecipient(s, m) ==
  /\ IsOpen(s)
  /\ recipient[m].posted
  /\ recipient[m].bound = None
  /\ recipient[m].state \notin Finished
  /\ recipient' = [recipient EXCEPT ![m].bound = s]
  /\ UNCHANGED <<session, lineage, reservation, attempts, evidence, handoffs, reconciliations>>

(* beginMessageSurface.  The recipient is the caller's own row or an        *)
(* unfinished agent-wide one, nothing confirmed or unresolved is in the    *)
(* way, and this session has not surfaced the message before.              *)
SurfacedBy(s, m) == <<m, s>> \in deliveries \cup acks

\* Mutant: a permit is issued beside an unresolved one.
MayBeginBeside(s, m) ==
  /\ IsCurrent(s)
  /\ recipient[m].posted
  /\ recipient[m].bound \in {s, None}
  /\ Recoverable(m, s) = {}
  /\ recipient[m].state \notin Finished
  /\ recipient[m].state \in {"DELIVERED", "ACKNOWLEDGED"} => ~SurfacedBy(s, m)

MayBegin(s, m) ==
  /\ IsCurrent(s)
  /\ recipient[m].posted
  /\ recipient[m].bound \in {s, None}
  /\ Recoverable(m, s) = {}
  /\ recipient[m].state \notin Finished
  /\ recipient[m].state \in {"DELIVERED", "ACKNOWLEDGED"} => ~SurfacedBy(s, m)
  /\ UnresolvedOf(m) = {}

BeginSurface(s, m) ==
  /\ MayBegin(s, m)
  /\ recipient[m].fence < MaxFence
  /\ recipient' = [recipient EXCEPT ![m] = [@ EXCEPT !.bound = s, !.fence = recipient[m].fence + 1]]
  /\ attempts' = attempts \cup
       {[msg |-> m, owner |-> s, incarnation |-> session[s].incarnation,
         fence |-> recipient[m].fence + 1, state |-> "ACTIVE"]}
  /\ UNCHANGED <<session, lineage, reservation, evidence, handoffs, reconciliations>>

\* The session that owns what s settles: its lineage's head, or s itself.
\* (For an open s they are the same, by OnlyHeadIsOpen.)
HolderAfter(s) ==
  LET l == session[s].lineage IN
  IF l # None /\ lineage[l].head # None THEN lineage[l].head ELSE s

(* updateMessageSurface: the owner gives up an active permit, proven unused *)
(* or with an unknown outcome.  A proven abort hands the recipient to the   *)
(* lineage head.                                                           *)
ReleaseTo(s, m) ==
  IF recipient[m].bound = s
  THEN [recipient EXCEPT ![m].bound = HolderAfter(s)] ELSE recipient

SettleSurface(s, a, outcome) ==
  /\ IsOpen(s)
  /\ a.owner = s
  /\ a.state = "ACTIVE"
  /\ outcome \in {"ABORTED", "AMBIGUOUS"}
  /\ attempts' = Resolve(a, outcome)
  /\ recipient' = IF outcome = "ABORTED" THEN ReleaseTo(s, a.msg) ELSE recipient
  /\ UNCHANGED <<session, lineage, reservation, evidence, handoffs, reconciliations>>

\* Mutant: the rebuilt receipt names the reconciler, not the permit's owner.
ReconcileAsSelf(s, a) ==
  LET m == a.msg IN
  /\ IsCurrent(s)
  /\ a.state = "AMBIGUOUS"
  /\ recipient[m].bound = s
  /\ recipient[m].fence = a.fence
  /\ recipient[m].state \in Transferable
  /\ session[s].lineage \in ThreadLineage
  /\ SameLineage(a, s)
  /\ attempts' = Resolve(a, "CONFIRMED")
  /\ recipient' = [recipient EXCEPT ![m].state = IF @ \in {"PENDING", "FAILED"} THEN "DELIVERED" ELSE @]
  /\ deliveries' = deliveries \cup {<<m, s>>}
  /\ receipts' = receipts \cup {<<m, s, a.fence>>}
  /\ reconciliations' = reconciliations \cup {<<m, a.fence, s>>}
  /\ UNCHANGED <<session, lineage, reservation, acks, handoffs>>

(* reconcileOrdinaryMessageSurface: the current session found the message   *)
(* in the thread it shares with the owner of an ambiguous permit.          *)
ReconcileSurface(s, a) ==
  LET m == a.msg IN
  /\ IsCurrent(s)
  /\ a.state = "AMBIGUOUS"
  /\ recipient[m].bound = s
  /\ recipient[m].fence = a.fence
  /\ recipient[m].state \in Transferable
  /\ session[s].lineage \in ThreadLineage
  /\ session[a.owner].incarnation = a.incarnation
  /\ \/ a.owner = s
     \/ SameLineage(a, s) /\ session[a.owner].incarnation < session[s].incarnation
  /\ attempts' = Resolve(a, "CONFIRMED")
  /\ recipient' = [recipient EXCEPT ![m].state = IF @ \in {"PENDING", "FAILED"} THEN "DELIVERED" ELSE @]
  /\ deliveries' = deliveries \cup {<<m, a.owner>>}
  /\ receipts' = receipts \cup {<<m, a.owner, a.fence>>}
  /\ reconciliations' = reconciliations \cup {<<m, a.fence, s>>}
  /\ UNCHANGED <<session, lineage, reservation, acks, handoffs>>

----------------------------------------------------------------------------
(* updateMessageState, by the kind of receipt.  A confirmed DELIVERED and a *)
(* late FAILED are answered without any change and are not actions.         *)

SetState(m, holder, st) ==
  recipient' = [recipient EXCEPT ![m] =
    [@ EXCEPT !.bound = holder, !.state = IF Regressive(m, st) THEN recipient[m].state ELSE st]]

\* DELIVERED with the exact permit and fence confirms it.
ConfirmDelivery(s, a) ==
  /\ IsOpen(s)
  /\ a.owner = s
  /\ a.state \in Unresolved
  /\ recipient[a.msg].bound = s
  /\ SetState(a.msg, HolderAfter(s), "DELIVERED")
  /\ attempts' = Resolve(a, "CONFIRMED")
  /\ deliveries' = deliveries \cup {<<a.msg, s>>}
  /\ receipts' = receipts \cup {<<a.msg, s, a.fence>>}
  /\ UNCHANGED <<session, lineage, reservation, acks, handoffs, reconciliations>>

\* A later receipt that names a confirmed permit, the caller's or a recovered one.
ReceiptWithPermit(s, a, st) ==
  /\ IsOpen(s)
  /\ st \in Downstream
  /\ a.state = "CONFIRMED"
  /\ recipient[a.msg].bound = s
  /\ a.owner = s \/ (a \in Recoverable(a.msg, s) /\ RecoverySucceeds(a.msg, s))
  /\ SetState(a.msg, s, st)
  /\ receipts' = receipts \cup {<<a.msg, s, a.fence>>}
  /\ acks' = acks \cup {<<a.msg, s>>}
  /\ UNCHANGED <<session, lineage, reservation, attempts, deliveries, handoffs, reconciliations>>

\* The compatibility /delivered path, open only while no permit is unresolved.
DeliverWithoutPermit(s, m) ==
  /\ IsOpen(s)
  /\ recipient[m].posted
  /\ recipient[m].bound \in {s, None}
  /\ UnresolvedOf(m) = {}
  /\ ~Regressive(m, "DELIVERED")
  /\ SetState(m, s, "DELIVERED")
  /\ deliveries' = deliveries \cup {<<m, s>>}
  /\ UNCHANGED <<session, lineage, reservation, attempts, acks, receipts, handoffs, reconciliations>>

\* FAILED is recorded until something was delivered, and settles no permit.
FailDelivery(s, m) ==
  /\ IsOpen(s)
  /\ recipient[m].posted
  /\ recipient[m].bound \in {s, None}
  /\ recipient[m].state \notin Surfaced
  /\ recipient' = [recipient EXCEPT ![m] = [@ EXCEPT !.bound = s, !.state = "FAILED"]]
  /\ UNCHANGED <<session, lineage, reservation, attempts, evidence, handoffs, reconciliations>>

\* A receipt without a permit is proof of delivery when the caller holds the
\* unresolved permit; another session's unresolved permit refuses it.
ReceiptWithoutPermit(s, m, st) ==
  LET own == {a \in UnresolvedOf(m) : a.owner = s} IN
  /\ IsOpen(s)
  /\ st \in Downstream
  /\ recipient[m].posted
  /\ recipient[m].bound \in {s, None}
  /\ UnresolvedOf(m) = own
  /\ own = {} => ~Regressive(m, st)
  /\ SetState(m, IF own = {} THEN s ELSE HolderAfter(s), st)
  /\ attempts' = (attempts \ own) \cup {[a EXCEPT !.state = "CONFIRMED"] : a \in own}
  /\ deliveries' = deliveries \cup {<<m, s>> : a \in own}
  /\ receipts' = receipts \cup {<<m, s, a.fence>> : a \in own}
  /\ acks' = acks \cup {<<m, s>>}
  /\ UNCHANGED <<session, lineage, reservation, handoffs, reconciliations>>

----------------------------------------------------------------------------
(* The handoff part of registerSession: what the predecessor p still owns   *)
(* goes to the successor, or the whole registration is refused.            *)

MovingFrom(p) == {m \in Message : recipient[m].bound = p /\ recipient[m].state \in Transferable}

\* The predecessors of p, found by walking the rows back to the first one.
PredecessorChain(p) ==
  LET walk[n \in Nat] ==
        IF n = 0 THEN p
        ELSE IF walk[n - 1] = None THEN None ELSE session[walk[n - 1]].predecessor
  IN {walk[n] : n \in 0 .. session[p].incarnation} \ {None}

ChainIsWalkable(p) ==
  \A q \in PredecessorChain(p) : session[q].predecessor # None =>
    /\ session[q].predecessor \in PredecessorChain(p)
    /\ session[session[q].predecessor].incarnation = session[q].incarnation - 1

UnresolvedHandoffValid(p, a) ==
  /\ UnresolvedOf(a.msg) = {a}
  /\ a.owner \in PredecessorChain(p)
  /\ session[a.owner].incarnation = a.incarnation
  /\ recipient[a.msg].fence = a.fence

\* The chain of custody of a permit that p holds but did not confirm itself.
ReconciledCustody(p, a) ==
  \/ HandedTo(p, "ambiguous", a) /\ <<a.msg, a.fence, p>> \in reconciliations
  \/ HandedTo(p, "reconciled", a)

DirectCustody(p, a) == a.owner = p \/ HandedTo(p, "confirmed", a)

ConfirmedHandoffValid(p, a) ==
  /\ ConfirmedOf(a.msg) = {a}
  /\ UnresolvedOf(a.msg) = {}
  /\ SameLineage(a, p)
  /\ session[a.owner].incarnation <= session[p].incarnation
  /\ recipient[a.msg].state \in {"DELIVERED", "ACKNOWLEDGED"}
  /\ Evidenced(a)
  /\ DirectCustody(p, a) \/ ReconciledCustody(p, a)

HandoffValid(p) ==
  /\ ChainIsWalkable(p)
  /\ \A m \in MovingFrom(p) :
       /\ \A a \in UnresolvedOf(m) : UnresolvedHandoffValid(p, a)
       /\ \A a \in ConfirmedOf(m) : ConfirmedHandoffValid(p, a)

HandoffKind(p, a) ==
  IF a.state \in Unresolved THEN "ambiguous"
  ELSE IF DirectCustody(p, a) THEN "confirmed" ELSE "reconciled"

TransferSurfaces(p, s) ==
  LET moving == MovingFrom(p)
      held   == {a \in attempts : a.msg \in moving /\ a.state # "ABORTED"}
  IN
  /\ recipient' = [m \in Message |->
       IF m \in moving THEN [recipient[m] EXCEPT !.bound = s] ELSE recipient[m]]
  /\ attempts' = {IF a \in held /\ a.state = "ACTIVE"
                  THEN [a EXCEPT !.state = "AMBIGUOUS"] ELSE a : a \in attempts}
  /\ handoffs' = handoffs \cup
       {[kind |-> HandoffKind(p, a), msg |-> a.msg, fence |-> a.fence, to |-> s] : a \in held}

(* registerSession of an identified primary: succession and handoff in one  *)
(* transaction.                                                            *)
RegisterSession(s, l, r, expected) ==
  LET p == lineage[l].head IN
  /\ RegisterIncarnation(s, l, r, expected)
  /\ IF p = None
     THEN UNCHANGED <<recipient, attempts, handoffs>>
     ELSE HandoffValid(p) /\ TransferSurfaces(p, s)
  /\ UNCHANGED <<evidence, reconciliations>>

----------------------------------------------------------------------------

Init ==
  /\ LineageInit
  /\ recipient = [m \in Message |->
       [posted |-> FALSE, bound |-> None, state |-> "PENDING", fence |-> 0]]
  /\ attempts = {} /\ deliveries = {} /\ acks = {} /\ receipts = {}
  /\ handoffs = {} /\ reconciliations = {}

SessionStep ==
  \/ \E r \in Run, l \in Lineage : ReserveLaunch(r, l) /\ UNCHANGED surfaceVars
  \/ \E s \in Session, l \in Lineage, r \in Run \cup {None},
        expected \in Session \cup {None, Unspecified} :
       RegisterSession(s, l, r, expected)
  \/ \E s \in Session : RegisterGeneric(s) /\ UNCHANGED surfaceVars
  \/ \E s \in Session : CloseSession(s) /\ UNCHANGED surfaceVars

RecipientStep ==
  \/ \E m \in Message, target \in Session \cup {None} : PostMessage(m, target)
  \/ \E s \in Session, m \in Message : ClaimRecipient(s, m)
  \/ \E s \in Session, m \in Message : DeliverWithoutPermit(s, m)
  \/ \E s \in Session, m \in Message : FailDelivery(s, m)
  \/ \E s \in Session, m \in Message, st \in Downstream : ReceiptWithoutPermit(s, m, st)

PermitStep ==
  \/ \E s \in Session, m \in Message : BeginSurface(s, m)
  \/ \E s \in Session, a \in attempts, outcome \in {"ABORTED", "AMBIGUOUS"} :
       SettleSurface(s, a, outcome)
  \/ \E s \in Session, a \in attempts : ReconcileSurface(s, a)
  \/ \E s \in Session, a \in attempts : ConfirmDelivery(s, a)
  \/ \E s \in Session, a \in attempts, st \in Downstream : ReceiptWithPermit(s, a, st)

Next == SessionStep \/ RecipientStep \/ PermitStep

Spec == Init /\ [][Next]_vars

----------------------------------------------------------------------------
(***************************************************************************)
(* Properties                                                              *)
(***************************************************************************)

TypeOK ==
  /\ LineageTypeOK
  /\ recipient \in [Message -> RecipientRow]
  /\ attempts \subseteq AttemptRow
  /\ deliveries \subseteq Message \X Session
  /\ acks \subseteq Message \X Session
  /\ receipts \subseteq Message \X Session \X Nat
  /\ handoffs \subseteq HandoffRow
  /\ reconciliations \subseteq Message \X Nat \X Session

\* At most once: a permit is issued only after every earlier permit of the
\* message was proven ABORTED, whoever held them and however often the session
\* was replaced in between.
OnlyAbortedIsRetried ==
  \A a, b \in attempts : a.msg = b.msg /\ a.fence < b.fence => a.state = "ABORTED"

\* The permit that counts is the newest one: an unresolved or confirmed permit
\* carries the recipient's current fence, and its message is bound to the
\* owner or to the owner's lineage.
LivePermitIsCurrent ==
  \A a \in attempts : a.state # "ABORTED" =>
    LET b == recipient[a.msg].bound IN
    /\ a.fence = recipient[a.msg].fence
    /\ b # None
    /\ b = a.owner \/ SameLineage(a, b)

\* Replacement is never refused for lack of evidence: whatever happened before,
\* what the lineage's head owns can be handed to a successor
\* (SESSION_SURFACE_HANDOFF_INVALID is unreachable).
HandoffAlwaysPossible ==
  \A l \in Lineage : lineage[l].head # None => HandoffValid(lineage[l].head)

\* A confirmed delivery survives any number of replacements: the current
\* session that inherited it can always rebuild the receipt
\* (AUTHORITY_DELIVERY_RECOVERY_RECEIPT_MISSING is unreachable).
ConfirmedIsRecoverable ==
  \A s \in Session, m \in Message :
    IsCurrent(s) /\ Recoverable(m, s) # {} => RecoverySucceeds(m, s)

----------------------------------------------------------------------------
(* The permits of a message, seen as the attempts AtMostOnceSurface speaks  *)
(* of.                                                                     *)
PhaseOf(m) ==
  LET live == {a.state : a \in {b \in attempts : b.msg = m /\ b.state # "ABORTED"}} IN
  IF live = {} THEN "idle"
  ELSE IF live = {"ACTIVE"} THEN "attempting"
  ELSE IF live = {"AMBIGUOUS"} THEN "doubtful"
  ELSE IF live = {"CONFIRMED"} THEN "surfaced" ELSE "several"

AtMostOnce == INSTANCE AtMostOnceSurface
  WITH phase <- [m \in Message |-> PhaseOf(m)],
       tries <- [m \in Message |-> recipient[m].fence]

\* The Hub keeps the promise: every permit issued, settled, reconciled, put in
\* doubt by a replacement or confirmed by a receipt is one step of
\* AtMostOnceSurface, and nothing else the Hub does touches the promise.
ImplementsAtMostOnce == AtMostOnce!AbstractSpec
=============================================================================
