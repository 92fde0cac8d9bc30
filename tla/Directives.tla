----------------------------- MODULE Directives -----------------------------
(***************************************************************************)
(* User directives in the Hub store: who may issue one, under which grant, *)
(* how long it stays ACTIVE, and what its targets record about it.         *)
(*                                                                         *)
(* A directive is carried by a message with one agent-wide recipient per   *)
(* target agent, which the adapters deliver under the surface permits of   *)
(* MessageSurfaces.  Its life cycle is not a column: it is read off an     *)
(* append-only table of authority events, and off the clock.               *)
(*                                                                         *)
(* Source: apps/hub/src/services/store/directives.ts, the directive parts  *)
(* of messages.ts, and the triggers of migrations 0008 and 0011.  A message *)
(* of MessageSurfaces is here one recipient row <<directive, agent>>.       *)
(* Adapters act with session tickets, which only identified sessions get.  *)
(* Texts, signatures, scopes and idempotency keys are left out: whether an *)
(* instruction keeps within the terms of its grant is an input.  The calls *)
(* that first write down an expiry (materialize...) do so in a transaction *)
(* of its own: the actions ReadDirective and ReadGrant, which then must    *)
(* have happened before the rest of the call (Refreshed).                  *)
(***************************************************************************)
EXTENDS MessageSurfaces, Sequences

CONSTANTS
  Directive,     \* directive ids
  Agent,         \* the clients: codex, claude
  SessionAgent,  \* the agent of each session
  LineageAgent,  \* the agent of each logical worker
  Turn,          \* captured user turns
  TurnClient,    \* the client that captured each turn
  Grant,         \* delegation grant ids
  MaxVersion,    \* bound on the versions of a grant
  MaxTime        \* bound on the clock

ASSUME DirectiveConstants ==
  /\ Message = Directive \X Agent /\ Agent # {}
  /\ SessionAgent \in [Session -> Agent]
  /\ LineageAgent \in [Lineage -> Agent]
  /\ TurnClient \in [Turn -> Agent]
  /\ None \notin Directive \cup Turn \cup Grant
  /\ MaxVersion \in Nat \ {0} /\ MaxTime \in Nat

VARIABLES
  directive,  \* authority_directives; None until issued
  log,        \* authority_events after ISSUED, for each recipient row: those of
              \* its target and those of the directive as a whole
  grant,      \* delegation_grants with their newest version and terminal event
  now         \* the clock

authorityVars == <<directive, log, grant, now>>
allVars == <<session, lineage, reservation, recipient, attempts, deliveries, acks,
             receipts, handoffs, reconciliations, directive, log, grant, now>>

----------------------------------------------------------------------------

Terminal == {"SUPERSEDED", "REVOKED", "COMPLETED", "EXPIRED"}

\* No expiry, or one the clock does not reach.
Never == MaxTime + 1
Future == {t \in 1 .. Never : t > now}

DirectiveRow ==
  [authority : {"USER_ATTESTED", "USER_DELEGATED", "AGENT_PROPOSAL"},
   turn : Turn \cup {None}, audience : (SUBSET Agent) \ {{}},
   grant : Grant \cup {None}, version : 0 .. MaxVersion, expires : 0 .. Never,
   supersedes : Directive \cup {None}]

GrantRow ==
  [version : 0 .. MaxVersion, expires : 0 .. Never, ended : {None, "TERMINATED", "EXPIRED"}]

EventRow ==
  [kind : Terminal \cup {"DELIVERED", "ACKNOWLEDGED", "PROCESSED", "RESULT_RECORDED"},
   by : Session \cup {None}, fence : Nat]

Event(kind, s, fence) == [kind |-> kind, by |-> s, fence |-> fence]

Issued(d) == directive[d] # None

\* terminalEvent: the events that end a directive (at most one, as checked).
Closings(d) ==
  {k \in Terminal : \E m \in Message : m[1] = d /\ \E i \in DOMAIN log[m] : log[m][i].kind = k}

(* lifecycleFor: written down, or else derived from the clock. *)
Lifecycle(d) ==
  IF Closings(d) # {} THEN CHOOSE k \in Closings(d) : TRUE
  ELSE IF directive[d].expires <= now THEN "EXPIRED" ELSE "ACTIVE"

Active(d) == Issued(d) /\ Lifecycle(d) = "ACTIVE"

\* An expiry that has passed has been written down.
Refreshed(d) == directive[d].expires <= now => Closings(d) # {}

\* The same event for every recipient row of the directives in ds.
Close(ds, kind) ==
  log' = [m \in Message |-> IF m[1] \in ds THEN Append(log[m], Event(kind, None, 0)) ELSE log[m]]

Recorded(m, kind) == \E i \in DOMAIN log[m] : log[m][i].kind = kind

\* Entry i of a recipient row's log comes before the end of its directive.
InTime(m, i) == \A j \in 1 .. i : log[m][j].kind \notin Terminal

----------------------------------------------------------------------------
(* Grants. *)

GrantStatus(g) ==
  IF grant[g].ended # None THEN grant[g].ended
  ELSE IF grant[g].expires <= now THEN "EXPIRED" ELSE "ACTIVE"

GrantRefreshed(g) == grant[g].expires <= now => grant[g].ended # None

Delegated(g) == {d \in Directive : Issued(d) /\ directive[d].grant = g}

CreateDelegationGrant(g, expires) ==
  /\ grant[g].version = 0
  /\ expires \in Future
  /\ grant' = [grant EXCEPT ![g] = [version |-> 1, expires |-> expires, ended |-> None]]
  /\ UNCHANGED <<surfaceVars, lineageVars, directive, log, now>>

(* modifyDelegationGrant: a new version, and every active directive issued  *)
(* under the old one is revoked.                                           *)
ModifyDelegationGrant(g, expires) ==
  /\ grant[g].version \in 1 .. MaxVersion - 1
  /\ GrantRefreshed(g) /\ GrantStatus(g) = "ACTIVE"
  /\ expires \in Future
  /\ grant' = [grant EXCEPT ![g] = [grant[g] EXCEPT !.version = @ + 1, !.expires = expires]]
  /\ Close({d \in Delegated(g) : Active(d)}, "REVOKED")
  /\ UNCHANGED <<surfaceVars, lineageVars, directive, now>>

TerminateDelegationGrant(g) ==
  /\ grant[g].version > 0
  /\ GrantRefreshed(g) /\ GrantStatus(g) = "ACTIVE"
  /\ grant' = [grant EXCEPT ![g].ended = "TERMINATED"]
  /\ Close({d \in Delegated(g) : Active(d)}, "REVOKED")
  /\ UNCHANGED <<surfaceVars, lineageVars, directive, now>>

(* materializeDelegationExpiry: the expiry of a grant is written down, for  *)
(* it and for every directive under it that has no terminal event.         *)
ReadGrant(g) ==
  /\ grant[g].version > 0
  /\ ~GrantRefreshed(g)
  /\ grant' = [grant EXCEPT ![g].ended = "EXPIRED"]
  /\ Close({d \in Delegated(g) : Closings(d) = {}}, "EXPIRED")
  /\ UNCHANGED <<surfaceVars, lineageVars, directive, now>>

----------------------------------------------------------------------------
(* Issuing.  issueDirective inserts the directive, its carrier message and  *)
(* one agent-wide recipient per target.                                    *)

Issue(d, row) ==
  /\ ~Issued(d)
  /\ directive' = [directive EXCEPT ![d] = row]
  /\ recipient' = [m \in Message |->
       IF m[1] = d /\ m[2] \in row.audience
       THEN [recipient[m] EXCEPT !.posted = TRUE] ELSE recipient[m]]
  /\ UNCHANGED <<lineageVars, attempts, evidence, handoffs, reconciliations, grant, now>>

UserDirective(t, audience, old) ==
  [authority |-> "USER_ATTESTED", turn |-> t, audience |-> audience,
   grant |-> None, version |-> 0, expires |-> Never, supersedes |-> old]

(* relayUserDirective: the client that captured a turn relays it, signed if *)
(* it quotes the whole turn, and once only.                                *)
SignedRelay(t) ==
  \E d \in Directive : /\ Issued(d)
                       /\ directive[d].turn = t
                       /\ directive[d].authority = "USER_ATTESTED"
                       /\ directive[d].supersedes = None

RelayUserDirective(s, d, t, audience, whole) ==
  /\ IsOpen(s) /\ SessionAgent[s] = TurnClient[t]
  /\ ~SignedRelay(t)
  /\ Issue(d, IF whole THEN UserDirective(t, audience, None)
              ELSE [UserDirective(t, audience, None) EXCEPT !.authority = "AGENT_PROPOSAL"])
  /\ UNCHANGED log

\* Mutant: a directive that has ended may be superseded.
SupersedeAny(old, d, t, audience) ==
  /\ Issued(old)
  /\ Issue(d, UserDirective(t, audience, old))
  /\ Close({old}, "SUPERSEDED")

(* supersedeUserDirective: on the dashboard, a directive that is still      *)
(* active is replaced by a whole captured turn.                            *)
SupersedeUserDirective(old, d, t, audience) ==
  /\ Active(old)
  /\ Issue(d, UserDirective(t, audience, old))
  /\ Close({old}, "SUPERSEDED")

\* Mutant: a requested expiry is not compared with the grant's.
TermsIgnoringLifetime(g, fits, requested) ==
  GrantStatus(g) = "ACTIVE" /\ fits

(* The grant covers the instruction: it is in force, its agents, scope,     *)
(* action and priority include the instruction's (fits), and it does not   *)
(* end before the instruction does.                                        *)
WithinTerms(g, fits, requested) ==
  /\ GrantStatus(g) = "ACTIVE"
  /\ fits
  /\ requested # None => requested <= grant[g].expires

DelegatedRow(g, audience, requested) ==
  [authority |-> "USER_DELEGATED", turn |-> None, audience |-> audience,
   grant |-> g, version |-> grant[g].version,
   expires |-> IF requested = None THEN grant[g].expires ELSE requested, supersedes |-> None]

ProposalRow(audience, requested) ==
  [authority |-> "AGENT_PROPOSAL", turn |-> None, audience |-> audience,
   grant |-> None, version |-> 0,
   expires |-> IF requested = None THEN Never ELSE requested, supersedes |-> None]

(* delegateInstruction: within the terms of the grant the user's authority, *)
(* otherwise a proposal.                                                   *)
DelegateInstruction(s, d, g, audience, fits, requested) ==
  /\ IsOpen(s)
  /\ grant[g].version > 0 /\ GrantRefreshed(g)
  /\ Issue(d, IF WithinTerms(g, fits, requested)
              THEN DelegatedRow(g, audience, requested) ELSE ProposalRow(audience, requested))
  /\ UNCHANGED log

(* revokeDirective *)
RevokeDirective(d) ==
  /\ Active(d)
  /\ Close({d}, "REVOKED")
  /\ UNCHANGED <<surfaceVars, lineageVars, directive, grant, now>>

(* materializeDirectiveExpiry *)
ReadDirective(d) ==
  /\ Issued(d)
  /\ ~Refreshed(d)
  /\ Close({d}, "EXPIRED")
  /\ UNCHANGED <<surfaceVars, lineageVars, directive, grant, now>>

Tick ==
  /\ now < MaxTime
  /\ now' = now + 1
  /\ UNCHANGED <<surfaceVars, lineageVars, directive, log, grant>>

----------------------------------------------------------------------------
(* Delivery: the calls of MessageSurfaces by a session of the target, with  *)
(* what they do for a carrier message.                                     *)

IsTarget(s, m) == SessionAgent[s] = m[2]

(* assertAuthorityMessageActive, in claimMessageRecipient and              *)
(* beginMessageSurface.                                                    *)
ClaimCarrier(s, m) ==
  /\ IsTarget(s, m) /\ Active(m[1])
  /\ ClaimRecipient(s, m)
  /\ UNCHANGED authorityVars

BeginCarrier(s, m) ==
  /\ IsTarget(s, m) /\ Active(m[1])
  /\ BeginSurface(s, m)
  /\ UNCHANGED authorityVars

FailCarrier(s, m) ==
  /\ IsTarget(s, m) /\ Issued(m[1]) /\ Refreshed(m[1])
  /\ FailDelivery(s, m)
  /\ UNCHANGED authorityVars

RecordDelivery(s, a) ==
  LET m == a.msg IN
  /\ Active(m[1])
  /\ ConfirmDelivery(s, a)
  /\ log' = [log EXCEPT ![m] = Append(@, Event("DELIVERED", s, a.fence))]
  /\ UNCHANGED <<directive, grant, now>>

\* A delivery that was recorded before the directive ended.
DeliveredInTime(m, a) ==
  \E i \in DOMAIN log[m] : log[m][i] = Event("DELIVERED", a.owner, a.fence) /\ InTime(m, i)

(* What updateMessageState accepts for a directive that is active, and      *)
(* after it has ended: receipts of a delivery that precedes the end.       *)
MayRecord(m, a) ==
  /\ Refreshed(m[1])
  /\ Active(m[1]) \/ (a.state = "CONFIRMED" /\ DeliveredInTime(m, a))

\* RESPONDED is a state of the message only, and each fact is recorded once.
FactOf(st) == IF st = "RESPONDED" THEN {} ELSE {st}

(* ACKNOWLEDGED, PROCESSED or RESPONDED under a confirmed permit, the       *)
(* caller's own or an inherited one.                                       *)
RecordReceipt(s, a, st) ==
  LET m == a.msg IN
  /\ MayRecord(m, a)
  /\ \A k \in FactOf(st) : ~Recorded(m, k)
  /\ ReceiptWithPermit(s, a, st)
  /\ log' = [log EXCEPT ![m] =
       IF FactOf(st) = {} THEN @ ELSE Append(@, Event(st, s, a.fence))]
  /\ UNCHANGED <<directive, grant, now>>

\* Mutant: the receipt that proves the delivery does not record it.
ReceiptWithoutDelivery(s, a, st) ==
  LET m == a.msg IN
  /\ a.state \in Unresolved /\ a.owner = s
  /\ MayRecord(m, a)
  /\ \A k \in FactOf(st) : ~Recorded(m, k)
  /\ ReceiptWithoutPermit(s, m, st)
  /\ log' = [log EXCEPT ![m] = IF FactOf(st) = {} THEN @ ELSE Append(@, Event(st, s, a.fence))]
  /\ UNCHANGED <<directive, grant, now>>

(* The same under the caller's own unresolved permit, which an ordinary     *)
(* message does not allow to be named: it proves the delivery, and both    *)
(* are recorded.                                                           *)
ReceiptConfirmsPermit(s, a, st) ==
  LET m == a.msg
      delivered == Append(log[m], Event("DELIVERED", s, a.fence))
  IN
  /\ a.state \in Unresolved /\ a.owner = s
  /\ MayRecord(m, a)
  /\ \A k \in FactOf(st) : ~Recorded(m, k)
  /\ ReceiptWithoutPermit(s, m, st)
  /\ log' = [log EXCEPT ![m] =
       IF FactOf(st) = {} THEN delivered ELSE Append(delivered, Event(st, s, a.fence))]
  /\ UNCHANGED <<directive, grant, now>>

\* The entry with which session s processed the directive.
ProcessedBy(s, m) == {i \in DOMAIN log[m] : log[m][i].kind = "PROCESSED" /\ log[m][i].by = s}

\* Mutant: a late result counts towards completion.
CompletesAlways(d, m) ==
  \A g \in directive[d].audience \ {m[2]} : Recorded(<<d, g>>, "RESULT_RECORDED")

\* The result of m's target is the last one of an active directive.
Completes(d, m) ==
  /\ Active(d)
  /\ \A g \in directive[d].audience \ {m[2]} : Recorded(<<d, g>>, "RESULT_RECORDED")

(* recordExecutionResult: once per target, by the session that processed    *)
(* the directive, and before its end or for processing before its end.     *)
RecordExecutionResult(s, d) ==
  LET m == <<d, SessionAgent[s]>>
      reported == [log EXCEPT ![m] = Append(@, Event("RESULT_RECORDED", s, 0))]
  IN
  /\ IsOpen(s)
  /\ Issued(d) /\ Refreshed(d)
  /\ m[2] \in directive[d].audience
  /\ ~Recorded(m, "RESULT_RECORDED")
  /\ \E i \in ProcessedBy(s, m) : (Active(d) \/ InTime(m, i))
  /\ log' = IF Completes(d, m)
            THEN [n \in Message |->
                   IF n[1] = d THEN Append(reported[n], Event("COMPLETED", s, 0)) ELSE reported[n]]
            ELSE reported
  /\ UNCHANGED <<surfaceVars, lineageVars, directive, grant, now>>

----------------------------------------------------------------------------

DirectiveInit ==
  /\ Init
  /\ directive = [d \in Directive |-> None]
  /\ log = [m \in Message |-> <<>>]
  /\ grant = [g \in Grant |-> [version |-> 0, expires |-> 0, ended |-> None]]
  /\ now = 0

SessionNext ==
  \/ \E s \in Session, l \in Lineage :
       /\ SessionAgent[s] = LineageAgent[l]
       /\ RegisterSession(s, l, None, Unspecified)
       /\ UNCHANGED authorityVars
  \/ \E s \in Session : CloseSession(s) /\ UNCHANGED surfaceVars /\ UNCHANGED authorityVars

GrantNext ==
  \/ \E g \in Grant, t \in Future : CreateDelegationGrant(g, t) \/ ModifyDelegationGrant(g, t)
  \/ \E g \in Grant : TerminateDelegationGrant(g) \/ ReadGrant(g)

IssueNext ==
  \E d \in Directive, audience \in (SUBSET Agent) \ {{}} :
    \/ \E s \in Session, t \in Turn, whole \in BOOLEAN :
         RelayUserDirective(s, d, t, audience, whole)
    \/ \E old \in Directive, t \in Turn : SupersedeUserDirective(old, d, t, audience)
    \/ \E s \in Session, g \in Grant, fits \in BOOLEAN, requested \in Future \cup {None} :
         DelegateInstruction(s, d, g, audience, fits, requested)

LifeNext == Tick \/ \E d \in Directive : RevokeDirective(d) \/ ReadDirective(d)

DeliveryNext ==
  \/ \E s \in Session, m \in Message : ClaimCarrier(s, m) \/ BeginCarrier(s, m) \/ FailCarrier(s, m)
  \/ \E s \in Session, a \in attempts :
       \/ RecordDelivery(s, a)
       \/ \E outcome \in {"ABORTED", "AMBIGUOUS"} :
            SettleSurface(s, a, outcome) /\ UNCHANGED authorityVars
       \/ \E st \in Downstream : RecordReceipt(s, a, st) \/ ReceiptConfirmsPermit(s, a, st)
  \/ \E s \in Session, d \in Directive : RecordExecutionResult(s, d)

DirectiveNext == SessionNext \/ GrantNext \/ IssueNext \/ LifeNext \/ DeliveryNext

DirectiveSpec == DirectiveInit /\ [][DirectiveNext]_allVars

----------------------------------------------------------------------------
(* What the database demands of an authority event before it takes it: the  *)
(* trigger authority_events_guard, evaluated inside the transaction.       *)

\* A terminal event: there is none yet, and COMPLETED has all results.
EndBacked(m, i) ==
  /\ InTime(m, i - 1)
  /\ log[m][i].kind = "COMPLETED" =>
       \A g \in directive[m[1]].audience : Recorded(<<m[1], g>>, "RESULT_RECORDED")

\* Who may speak of a permit: its owner, of later receipts an heir as well.
MaySpeak(s, kind, a) ==
  \/ a.owner = s
  \/ kind # "DELIVERED" /\ HandedTo(s, "confirmed", a)

\* The delivery a later receipt rests on.
DeliveredAt(m, a, i) ==
  {j \in 1 .. i - 1 : log[m][j] = Event("DELIVERED", a.owner, a.fence)}

\* A receipt: confirmed permit, current recipient at the head of its lineage,
\* and after the end of the directive only for a delivery before it.
ReceiptBacked(m, i) ==
  LET e == log[m][i] IN
  \E a \in ConfirmedOf(m) :
    /\ a.fence = e.fence /\ recipient[m].fence = a.fence
    /\ recipient[m].bound = e.by
    /\ session[e.by].lineage # None
    /\ lineage[session[e.by].lineage].head = e.by
    /\ MaySpeak(e.by, e.kind, a)
    /\ e.kind # "DELIVERED" => DeliveredAt(m, a, i) # {}
    /\ InTime(m, i) \/ \E j \in DeliveredAt(m, a, i) : InTime(m, j)

\* A result: the same session processed the directive, before its end.
ResultBacked(m, i) ==
  \E j \in ProcessedBy(log[m][i].by, m) : j < i /\ InTime(m, j)

GuardAccepts(m, i) ==
  CASE log[m][i].kind \in Terminal -> EndBacked(m, i)
    [] log[m][i].kind = "RESULT_RECORDED" -> ResultBacked(m, i)
    [] OTHER -> ReceiptBacked(m, i)

----------------------------------------------------------------------------
(***************************************************************************)
(* Properties                                                              *)
(***************************************************************************)

DirectiveTypeOK ==
  /\ directive \in [Directive -> DirectiveRow \cup {None}]
  /\ log \in [Message -> Seq(EventRow)]
  /\ grant \in [Grant -> GrantRow]
  /\ now \in 0 .. MaxTime

\* An instruction that carries the user's delegated authority and is still
\* active stands under the very grant version it was signed with, and that
\* version is in force: whatever was modified, terminated or has run out, by a
\* call or by the clock, took the directive with it.  (The refusal
\* DELEGATION_INACTIVE of buildAuthorityDeliveryCandidate is unreachable.)
DelegationStandsUnderItsGrant ==
  \A d \in Directive : Active(d) /\ directive[d].grant # None =>
    /\ GrantStatus(directive[d].grant) = "ACTIVE"
    /\ grant[directive[d].grant].version = directive[d].version

\* docs/protocol.md:252: nothing restores authority to a directive that is not
\* active.  It ends once and in one way, also when the clock ended it before
\* anybody wrote that down, and no late receipt or result changes how.
LifecycleIsFinal ==
  [][\A d \in Directive : Issued(d) /\ ~Active(d) =>
       Issued(d)' /\ Lifecycle(d)' = Lifecycle(d)]_allVars

\* The checks of the store and those of the database agree: no event that the
\* store has decided to append is refused by authority_events_guard, which
\* would abort a transaction that has settled a permit and a recipient.
EveryFactPassesItsGuard ==
  [][\A m \in Message : \A i \in DOMAIN log'[m] :
       i > Len(log[m]) => GuardAccepts(m, i)']_allVars

\* A directive is completed exactly when every target reported a result before
\* it ended otherwise; results that come later are kept and complete nothing.
CompletedExactlyWhenAllReported ==
  \A d \in Directive : Issued(d) =>
    ("COMPLETED" \in Closings(d) <=>
       \A g \in directive[d].audience : \E i \in DOMAIN log[<<d, g>>] :
         log[<<d, g>>][i].kind = "RESULT_RECORDED" /\ InTime(<<d, g>>, i))

=============================================================================
