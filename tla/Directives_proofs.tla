------------------------- MODULE Directives_proofs -------------------------
(***************************************************************************)
(* Proofs about the way messages are shown and directives are carried out. *)
(* First MessageSurfaces, for any number of sessions, workers, messages    *)
(* and permits; then Directives, which extends it, for any number of       *)
(* directives, agents and grants, and for every length of the log.         *)
(***************************************************************************)
EXTENDS Directives, SessionLineages_proofs, WellFoundedInduction

----------------------------------------------------------------------------
(* MessageSurfaces.                                                        *)

\* A permit's fence was drawn from its recipient, no two permits of a message
\* share one, and only posted recipients and registered sessions are in use.
FencesDrawn ==
  \A a \in attempts : 1 <= a.fence /\ a.fence <= recipient[a.msg].fence

FencesDistinct ==
  \A a, b \in attempts : a.msg = b.msg /\ a.fence = b.fence => a = b

KnownSessions ==
  /\ \A a \in attempts : Registered(a.owner)
  /\ \A m \in Message : recipient[m].bound # None =>
       recipient[m].posted /\ Registered(recipient[m].bound)

PermitInv == FencesDrawn /\ FencesDistinct /\ KnownSessions /\ LivePermitIsCurrent

SurfaceInv == LineageInv /\ TypeOK /\ PermitInv

\* The permits change state only the way outcomes may: an active one in any
\* way, an ambiguous one to confirmed; g maps each to what becomes of it.
Settles(g) ==
  /\ g \in [attempts -> AttemptRow]
  /\ attempts' = {g[y] : y \in attempts}
  /\ \A y \in attempts :
       /\ g[y].msg = y.msg /\ g[y].fence = y.fence /\ g[y].owner = y.owner
       /\ g[y].incarnation = y.incarnation
       /\ \/ g[y].state = y.state
          \/ y.state = "ACTIVE"
          \/ y.state = "AMBIGUOUS" /\ g[y].state = "CONFIRMED"

\* Recipients keep their fence, and their session once they have one.
KeepsHolders ==
  \A m \in Message :
    /\ recipient'[m].fence = recipient[m].fence
    /\ recipient[m].bound # None => recipient'[m].bound = recipient[m].bound
    /\ recipient'[m].bound # None => recipient'[m].posted /\ Registered(recipient'[m].bound)

----------------------------------------------------------------------------

LEMMA QuietStep ==
  ASSUME SurfaceInv, TypeOK', session' = session, KeepsHolders, NEW g, Settles(g)
  PROVE  PermitInv'
<1>0. /\ TypeOK /\ FencesDrawn /\ FencesDistinct /\ KnownSessions /\ LivePermitIsCurrent
  BY DEF SurfaceInv, PermitInv
<1>1. ASSUME NEW x \in attempts'
      PROVE  \E y \in attempts :
               /\ x = g[y] /\ x.msg = y.msg /\ x.fence = y.fence /\ x.owner = y.owner
               /\ x.state # "ABORTED" => y.state # "ABORTED"
  BY DEF Settles
<1>2. \A y \in attempts : y.msg \in Message /\ y.owner \in Session /\ y.fence \in Nat
  BY <1>0 DEF TypeOK, AttemptRow
<1>3. FencesDrawn'
  BY <1>0, <1>1, <1>2 DEF FencesDrawn, KeepsHolders
<1>4. FencesDistinct'
  BY <1>0, <1>1 DEF FencesDistinct
<1>5. KnownSessions'
  BY <1>0, <1>1, <1>2 DEF KnownSessions, KeepsHolders, Registered
<1>6. LivePermitIsCurrent'
  <2> SUFFICES ASSUME NEW x \in attempts', x.state # "ABORTED"
               PROVE  LET b == recipient'[x.msg].bound IN
                      /\ x.fence = recipient'[x.msg].fence
                      /\ b # None
                      /\ b = x.owner \/ (session[b].lineage # None
                                         /\ session[x.owner].lineage = session[b].lineage)
    BY DEF LivePermitIsCurrent, SameLineage
  <2>1. PICK y \in attempts : /\ x.msg = y.msg /\ x.fence = y.fence /\ x.owner = y.owner
                              /\ y.state # "ABORTED"
    BY <1>1
  <2>2. QED
    BY <1>0, <1>2, <2>1 DEF LivePermitIsCurrent, SameLineage, KeepsHolders
<1>7. QED
  BY <1>3, <1>4, <1>5, <1>6 DEF PermitInv

LEMMA SettledRows == ASSUME NEW g, Settles(g) PROVE attempts' \subseteq AttemptRow
BY DEF Settles

\* Settling one permit, as the actions write it.
LEMMA ResolveSettles ==
  ASSUME TypeOK, FencesDistinct, NEW a \in attempts, NEW st \in {"ACTIVE", "AMBIGUOUS", "CONFIRMED", "ABORTED"},
         attempts' = Resolve(a, st),
         a.state = "ACTIVE" \/ (a.state = "AMBIGUOUS" /\ st = "CONFIRMED")
  PROVE  Settles([y \in attempts |-> IF y = a THEN [a EXCEPT !.state = st] ELSE y])
<1> DEFINE g == [y \in attempts |-> IF y = a THEN [a EXCEPT !.state = st] ELSE y]
<1>1. /\ [a EXCEPT !.state = st] \in AttemptRow
      /\ [a EXCEPT !.state = st].msg = a.msg /\ [a EXCEPT !.state = st].fence = a.fence
      /\ [a EXCEPT !.state = st].owner = a.owner
      /\ [a EXCEPT !.state = st].incarnation = a.incarnation
      /\ [a EXCEPT !.state = st].state = st
  BY DEF TypeOK, AttemptRow, Unresolved
<1>2. g \in [attempts -> AttemptRow]
  BY <1>1 DEF TypeOK
<1>3. attempts' = {g[y] : y \in attempts}
  BY DEF Resolve
<1>4. \A y \in attempts :
       /\ g[y].msg = y.msg /\ g[y].fence = y.fence /\ g[y].owner = y.owner
       /\ g[y].incarnation = y.incarnation
       /\ \/ g[y].state = y.state
          \/ y.state = "ACTIVE"
          \/ y.state = "AMBIGUOUS" /\ g[y].state = "CONFIRMED"
  BY <1>1
<1>5. QED
  BY <1>2, <1>3, <1>4 DEF Settles

\* A step that leaves the permits alone settles them trivially.
LEMMA IdleSettles ==
  ASSUME TypeOK, attempts' = attempts
  PROVE  Settles([y \in attempts |-> y])
BY DEF Settles, TypeOK

\* An open session is its lineage's head, so what it settles stays with it.
LEMMA HolderIsSelf ==
  ASSUME LineageInv, NEW s \in Session, IsOpen(s)
  PROVE  HolderAfter(s) = s /\ Registered(s)
BY DEF LineageInv, OnlyHeadIsOpen, HolderAfter, IsOpen, Registered

----------------------------------------------------------------------------
(* One lemma per action that writes recipients or permits. *)

LEMMA PostInv ==
  ASSUME SurfaceInv, NEW m \in Message, NEW target \in Session \cup {None},
         PostMessage(m, target)
  PROVE  TypeOK' /\ PermitInv'
<1>0. TypeOK /\ FencesDistinct /\ LivePermitIsCurrent
  BY DEF SurfaceInv, PermitInv
<1>1. TypeOK'
  BY <1>0 DEF TypeOK, PostMessage, RecipientRow, evidence, LineageTypeOK
<1>2. recipient[m].bound = None
  BY DEF PostMessage, SurfaceInv, PermitInv, KnownSessions
<1>3. KeepsHolders
  BY <1>0, <1>2 DEF KeepsHolders, PostMessage, TypeOK, RecipientRow, SurfaceInv, PermitInv,
                    KnownSessions
<1>4. QED
  BY <1>0, <1>1, <1>3, IdleSettles, QuietStep DEF PostMessage

LEMMA ClaimInv ==
  ASSUME SurfaceInv, NEW s \in Session, NEW m \in Message, ClaimRecipient(s, m)
  PROVE  TypeOK' /\ PermitInv'
<1>0. TypeOK
  BY DEF SurfaceInv
<1>1. TypeOK'
  BY <1>0 DEF TypeOK, ClaimRecipient, RecipientRow, evidence, LineageTypeOK
<1>2. KeepsHolders
  BY <1>0 DEF KeepsHolders, ClaimRecipient, TypeOK, RecipientRow, SurfaceInv, PermitInv,
              KnownSessions, IsOpen, Registered
<1>3. QED
  BY <1>0, <1>1, <1>2, IdleSettles, QuietStep DEF ClaimRecipient

LEMMA FailInv ==
  ASSUME SurfaceInv, NEW s \in Session, NEW m \in Message, FailDelivery(s, m)
  PROVE  TypeOK' /\ PermitInv'
<1>0. TypeOK
  BY DEF SurfaceInv
<1>1. TypeOK'
  BY <1>0 DEF TypeOK, FailDelivery, RecipientRow, evidence, LineageTypeOK
<1>2. KeepsHolders
  BY <1>0 DEF KeepsHolders, FailDelivery, TypeOK, RecipientRow, SurfaceInv, PermitInv,
              KnownSessions, IsOpen, Registered
<1>3. QED
  BY <1>0, <1>1, <1>2, IdleSettles, QuietStep DEF FailDelivery

\* What SetState writes for an open session that holds, or may take, the row.
LEMMA SetStateEffect ==
  ASSUME SurfaceInv, NEW s \in Session, NEW m \in Message, NEW st \in Surfaced,
         IsOpen(s), session' = session, recipient[m].posted, recipient[m].bound \in {s, None},
         SetState(m, s, st)
  PROVE  recipient' \in [Message -> RecipientRow] /\ KeepsHolders
<1> DEFINE row == [recipient[m] EXCEPT !.bound = s,
                     !.state = IF Regressive(m, st) THEN recipient[m].state ELSE st]
<1>0. TypeOK /\ KnownSessions /\ recipient[m] \in RecipientRow
  BY DEF SurfaceInv, PermitInv, TypeOK
<1>1. row \in RecipientRow /\ row.bound = s /\ row.fence = recipient[m].fence /\ row.posted
  BY <1>0 DEF RecipientRow
<1>2. recipient' = [recipient EXCEPT ![m] = row]
  BY DEF SetState
<1>3. recipient' \in [Message -> RecipientRow]
  BY <1>0, <1>1, <1>2 DEF TypeOK
<1>4. recipient'[m] = row /\ \A n \in Message \ {m} : recipient'[n] = recipient[n]
  BY <1>0, <1>2 DEF TypeOK
<1>5. KeepsHolders
  <2>1. session'[s].connection # "ABSENT"
    BY DEF IsOpen
  <2>2. \A n \in Message \ {m} : recipient[n].bound # None =>
          recipient[n].posted /\ session'[recipient[n].bound].connection # "ABSENT"
    BY <1>0 DEF KnownSessions, Registered
  <2>3. /\ recipient'[m].fence = recipient[m].fence
        /\ recipient'[m].bound = s
        /\ recipient'[m].posted
    BY <1>1, <1>4
  <2> SUFFICES ASSUME NEW n \in Message
               PROVE  /\ recipient'[n].fence = recipient[n].fence
                      /\ recipient[n].bound # None => recipient'[n].bound = recipient[n].bound
                      /\ recipient'[n].bound # None =>
                           /\ recipient'[n].posted
                           /\ session'[recipient'[n].bound].connection # "ABSENT"
    BY DEF KeepsHolders, Registered
  <2>4. CASE n = m
    BY <2>1, <2>3, <2>4
  <2>5. CASE n # m
    <3>1. recipient'[n] = recipient[n]
      BY <1>4, <2>5
    <3>2. QED
      BY <2>2, <2>5, <3>1
  <2>6. QED
    BY <2>4, <2>5
<1>6. QED
  BY <1>3, <1>5

LEMMA DeliverInv ==
  ASSUME SurfaceInv, NEW s \in Session, NEW m \in Message, DeliverWithoutPermit(s, m)
  PROVE  TypeOK' /\ PermitInv'
<1>0. TypeOK
  BY DEF SurfaceInv
<1>1. recipient' \in [Message -> RecipientRow] /\ KeepsHolders
  BY SetStateEffect DEF DeliverWithoutPermit, Surfaced
<1>2. TypeOK'
  BY <1>0, <1>1 DEF TypeOK, DeliverWithoutPermit, LineageTypeOK
<1>3. QED
  BY <1>0, <1>1, <1>2, IdleSettles, QuietStep DEF DeliverWithoutPermit

LEMMA ReceiptWithPermitInv ==
  ASSUME SurfaceInv, NEW s \in Session, NEW a \in attempts, NEW st \in Downstream,
         ReceiptWithPermit(s, a, st)
  PROVE  TypeOK' /\ PermitInv'
<1>0. TypeOK /\ a.msg \in Message /\ a.fence \in Nat
  BY DEF SurfaceInv, TypeOK, AttemptRow
<1>1. recipient[a.msg].posted
  BY <1>0, ConstantsDisjoint DEF SurfaceInv, PermitInv, KnownSessions, ReceiptWithPermit
<1>2. recipient' \in [Message -> RecipientRow] /\ KeepsHolders
  BY <1>0, <1>1, SetStateEffect DEF ReceiptWithPermit, Surfaced, Downstream
<1>3. TypeOK'
  BY <1>0, <1>2 DEF TypeOK, ReceiptWithPermit, LineageTypeOK
<1>4. QED
  BY <1>0, <1>2, <1>3, IdleSettles, QuietStep DEF ReceiptWithPermit

LEMMA ConfirmInv ==
  ASSUME SurfaceInv, NEW s \in Session, NEW a \in attempts, ConfirmDelivery(s, a)
  PROVE  TypeOK' /\ PermitInv'
<1>0. /\ TypeOK /\ FencesDistinct /\ a.msg \in Message /\ a.fence \in Nat
      /\ HolderAfter(s) = s /\ recipient[a.msg].posted
  <2>1. TypeOK /\ FencesDistinct /\ a.msg \in Message /\ a.fence \in Nat
    BY DEF SurfaceInv, PermitInv, TypeOK, AttemptRow
  <2>2. HolderAfter(s) = s
    BY HolderIsSelf DEF ConfirmDelivery, SurfaceInv
  <2>3. recipient[a.msg].posted
    BY <2>1, ConstantsDisjoint DEF SurfaceInv, PermitInv, KnownSessions, ConfirmDelivery
  <2>4. QED
    BY <2>1, <2>2, <2>3
<1>1. recipient' \in [Message -> RecipientRow] /\ KeepsHolders
  BY <1>0, SetStateEffect DEF ConfirmDelivery, Surfaced
<1>2. \E g : Settles(g)
  BY <1>0, ResolveSettles DEF ConfirmDelivery, Unresolved
<1>3. attempts' \subseteq AttemptRow
  BY <1>2, SettledRows
<1>4. TypeOK'
  BY <1>0, <1>1, <1>3 DEF TypeOK, ConfirmDelivery, LineageTypeOK
<1>5. QED
  BY <1>1, <1>2, <1>4, QuietStep DEF ConfirmDelivery

LEMMA ReceiptWithoutPermitInv ==
  ASSUME SurfaceInv, NEW s \in Session, NEW m \in Message, NEW st \in Downstream,
         ReceiptWithoutPermit(s, m, st)
  PROVE  TypeOK' /\ PermitInv'
<1> DEFINE own == {a \in UnresolvedOf(m) : a.owner = s}
           g == [y \in attempts |-> IF y \in own THEN [y EXCEPT !.state = "CONFIRMED"] ELSE y]
<1>0. /\ TypeOK /\ HolderAfter(s) = s
      /\ attempts' = (attempts \ own) \cup {[a EXCEPT !.state = "CONFIRMED"] : a \in own}
      /\ \A a \in own : a \in attempts /\ a.msg = m /\ a.fence \in Nat /\ a.state \in Unresolved
  <2>1. TypeOK /\ HolderAfter(s) = s
    BY HolderIsSelf DEF SurfaceInv, ReceiptWithoutPermit
  <2>2. attempts' = (attempts \ own) \cup {[a EXCEPT !.state = "CONFIRMED"] : a \in own}
    BY DEF ReceiptWithoutPermit
  <2>3. \A a \in own : a \in attempts /\ a.msg = m /\ a.fence \in Nat /\ a.state \in Unresolved
    BY <2>1 DEF UnresolvedOf, TypeOK, AttemptRow
  <2>4. QED
    BY <2>1, <2>2, <2>3
<1>1. recipient' \in [Message -> RecipientRow] /\ KeepsHolders
  <2>1. SetState(m, s, st)
    BY <1>0 DEF ReceiptWithoutPermit
  <2>2. st \in Surfaced
    BY DEF Surfaced, Downstream
  <2>3. QED
    BY <2>1, <2>2, SetStateEffect DEF ReceiptWithoutPermit
<1>2. \A y \in attempts :
        /\ g[y] \in AttemptRow
        /\ g[y].msg = y.msg /\ g[y].fence = y.fence /\ g[y].owner = y.owner
        /\ g[y].incarnation = y.incarnation
        /\ g[y].state = y.state \/ (y \in own /\ g[y].state = "CONFIRMED")
  BY <1>0 DEF TypeOK, AttemptRow
<1>3. attempts' = {g[y] : y \in attempts}
  BY <1>0
<1>4. Settles(g)
  BY <1>0, <1>2, <1>3 DEF Settles, Unresolved
<1>5. attempts' \subseteq AttemptRow
  BY <1>4, SettledRows
<1>6. deliveries' \subseteq Message \X Session
  BY <1>0 DEF ReceiptWithoutPermit, TypeOK
<1>7. receipts' \subseteq Message \X Session \X Nat
  <2>1. receipts' = receipts \cup {<<m, s, a.fence>> : a \in own}
    BY DEF ReceiptWithoutPermit
  <2>2. QED
    BY <1>0, <2>1 DEF TypeOK
<1>8. TypeOK'
  BY <1>0, <1>1, <1>5, <1>6, <1>7 DEF TypeOK, ReceiptWithoutPermit, LineageTypeOK
<1>9. QED
  BY <1>1, <1>4, <1>8, QuietStep DEF ReceiptWithoutPermit

LEMMA SettleInv ==
  ASSUME SurfaceInv, NEW s \in Session, NEW a \in attempts,
         NEW outcome \in {"ABORTED", "AMBIGUOUS"}, SettleSurface(s, a, outcome)
  PROVE  TypeOK' /\ PermitInv'
<1>0. /\ TypeOK /\ FencesDistinct /\ KnownSessions /\ a.msg \in Message
  BY DEF SurfaceInv, PermitInv, TypeOK, AttemptRow
<1>1. recipient' = recipient
  <2>1. HolderAfter(s) = s
    BY HolderIsSelf DEF SurfaceInv, SettleSurface
  <2>2. recipient[a.msg].bound = s => [recipient EXCEPT ![a.msg].bound = s] = recipient
    BY <1>0 DEF TypeOK, RecipientRow
  <2>3. QED
    BY <2>1, <2>2 DEF SettleSurface, ReleaseTo
<1>2. \E g : Settles(g)
  BY <1>0, ResolveSettles DEF SettleSurface
<1>3. attempts' \subseteq AttemptRow
  BY <1>2, SettledRows
<1>4. TypeOK'
  BY <1>0, <1>1, <1>3 DEF TypeOK, SettleSurface, evidence, LineageTypeOK
<1>5. KeepsHolders
  BY <1>0, <1>1 DEF KeepsHolders, KnownSessions, SettleSurface, Registered
<1>6. QED
  BY <1>2, <1>4, <1>5, QuietStep DEF SettleSurface

LEMMA ReconcileInv ==
  ASSUME SurfaceInv, NEW s \in Session, NEW a \in attempts, ReconcileSurface(s, a)
  PROVE  TypeOK' /\ PermitInv'
<1> DEFINE m == a.msg
           st == IF recipient[m].state \in {"PENDING", "FAILED"} THEN "DELIVERED"
                 ELSE recipient[m].state
<1>0. /\ TypeOK /\ FencesDistinct /\ KnownSessions /\ m \in Message /\ a.fence \in Nat
      /\ a.owner \in Session
  BY DEF SurfaceInv, PermitInv, TypeOK, AttemptRow
<1>1. recipient' = [recipient EXCEPT ![m].state = st]
  BY DEF ReconcileSurface
<1>2. [recipient[m] EXCEPT !.state = st] \in RecipientRow
  BY <1>0 DEF TypeOK, RecipientRow, Surfaced
<1>3. recipient' \in [Message -> RecipientRow]
  BY <1>0, <1>1, <1>2 DEF TypeOK
<1>4. \A n \in Message : /\ recipient'[n].fence = recipient[n].fence
                         /\ recipient'[n].bound = recipient[n].bound
                         /\ recipient'[n].posted = recipient[n].posted
  BY <1>0, <1>1 DEF TypeOK, RecipientRow
<1>5. KeepsHolders
  BY <1>0, <1>4 DEF KeepsHolders, KnownSessions, ReconcileSurface, Registered
<1>6. \E g : Settles(g)
  BY <1>0, ResolveSettles DEF ReconcileSurface
<1>7. attempts' \subseteq AttemptRow
  BY <1>6, SettledRows
<1>8. TypeOK'
  BY <1>0, <1>3, <1>7 DEF TypeOK, ReconcileSurface, LineageTypeOK
<1>9. QED
  BY <1>5, <1>6, <1>8, QuietStep DEF ReconcileSurface

\* A new permit: the guards leave only aborted permits behind it, for a
\* confirmed one is either the caller's to recover or bound elsewhere.
LEMMA OnlyAbortedBehind ==
  ASSUME SurfaceInv, NEW s \in Session, NEW m \in Message, MayBegin(s, m),
         NEW a \in attempts, a.msg = m
  PROVE  a.state = "ABORTED"
<1>0. LivePermitIsCurrent /\ a \in AttemptRow
  BY DEF SurfaceInv, PermitInv, TypeOK
<1>1. a.state \notin Unresolved
  BY DEF MayBegin, UnresolvedOf
<1>2. a.state # "CONFIRMED"
  <2> SUFFICES ASSUME a.state = "CONFIRMED" PROVE FALSE
    OBVIOUS
  <2>1. recipient[m].bound = s /\ (a.owner = s \/ SameLineage(a, s))
    BY <1>0 DEF LivePermitIsCurrent, MayBegin
  <2>2. a \in Recoverable(m, s)
    BY <2>1 DEF Recoverable, ConfirmedOf
  <2>3. QED
    BY <2>2 DEF MayBegin
<1>3. QED
  BY <1>0, <1>1, <1>2 DEF AttemptRow, Unresolved

LEMMA BeginInv ==
  ASSUME SurfaceInv, NEW s \in Session, NEW m \in Message, BeginSurface(s, m)
  PROVE  TypeOK' /\ PermitInv'
<1> DEFINE fence == recipient[m].fence + 1
           row == [recipient[m] EXCEPT !.bound = s, !.fence = fence]
           new == [msg |-> m, owner |-> s, incarnation |-> session[s].incarnation,
                   fence |-> fence, state |-> "ACTIVE"]
<1>0. /\ TypeOK /\ FencesDrawn /\ FencesDistinct /\ KnownSessions /\ LivePermitIsCurrent
      /\ recipient[m] \in RecipientRow /\ session[s] \in SessionRow
  BY DEF SurfaceInv, PermitInv, TypeOK, LineageTypeOK
<1>1. /\ MayBegin(s, m) /\ attempts' = attempts \cup {new}
      /\ recipient' = [recipient EXCEPT ![m] = row]
      /\ session' = session
  BY DEF BeginSurface
<1>2. recipient[m].fence \in Nat /\ fence \in Nat /\ fence > recipient[m].fence /\ 1 <= fence
  BY <1>0 DEF RecipientRow
<1>3. row \in RecipientRow /\ row.bound = s /\ row.fence = fence /\ row.posted = recipient[m].posted
  BY <1>0, <1>2 DEF RecipientRow
<1>4. new \in AttemptRow
  BY <1>0, <1>2 DEF AttemptRow, SessionRow, Unresolved
<1>5. /\ recipient'[m] = row /\ \A n \in Message \ {m} : recipient'[n] = recipient[n]
      /\ recipient' \in [Message -> RecipientRow]
  BY <1>0, <1>1, <1>3 DEF TypeOK
<1>6. \A a \in attempts : /\ a.msg \in Message /\ a.owner \in Session /\ a.fence \in Nat
                          /\ 1 <= a.fence /\ a.fence <= recipient[a.msg].fence
                          /\ a.msg = m => a.state = "ABORTED" /\ a.fence < fence
  BY <1>0, <1>1, <1>2, OnlyAbortedBehind DEF TypeOK, AttemptRow, FencesDrawn
<1>7. TypeOK'
  BY <1>0, <1>1, <1>4, <1>5 DEF TypeOK, BeginSurface, evidence, LineageTypeOK
<1>8. FencesDrawn'
  <2> SUFFICES ASSUME NEW a \in attempts'
               PROVE  1 <= a.fence /\ a.fence <= recipient'[a.msg].fence
    BY DEF FencesDrawn
  <2>1. CASE a = new
    <3>1. a.msg = m /\ a.fence = fence /\ recipient'[m].fence = fence
      BY <1>3, <1>5, <2>1
    <3>2. QED
      BY <1>2, <3>1
  <2>2. CASE a \in attempts /\ a.msg = m
    <3>1. recipient'[m].fence = fence /\ a.fence < fence /\ 1 <= a.fence /\ a.fence \in Nat
      BY <1>3, <1>5, <1>6, <2>2
    <3>2. QED
      BY <1>2, <2>2, <3>1
  <2>3. CASE a \in attempts /\ a.msg # m
    BY <1>5, <1>6, <2>3
  <2>4. QED
    BY <1>1, <2>1, <2>2, <2>3
<1>9. FencesDistinct'
  <2> SUFFICES ASSUME NEW a \in attempts', NEW b \in attempts', a.msg = b.msg, a.fence = b.fence
               PROVE  a = b
    BY DEF FencesDistinct
  <2>1. CASE a \in attempts /\ b \in attempts
    BY <1>0, <2>1 DEF FencesDistinct
  <2>2. CASE a = new /\ b \in attempts
    BY <1>2, <1>6, <2>2
  <2>3. CASE b = new /\ a \in attempts
    BY <1>2, <1>6, <2>3
  <2>4. QED
    BY <1>1, <2>1, <2>2, <2>3
<1>10. Registered(s) /\ recipient[m].posted
  BY <1>1 DEF MayBegin, IsCurrent, IsOpen, Registered
<1>11. KnownSessions'
  <2>1. ASSUME NEW a \in attempts' PROVE Registered(a.owner)'
    BY <1>0, <1>1, <1>10 DEF KnownSessions, Registered
  <2>2. ASSUME NEW n \in Message, recipient'[n].bound # None
        PROVE  recipient'[n].posted /\ Registered(recipient'[n].bound)
    <3>1. CASE n = m
      <4>1. recipient'[n].bound = s /\ recipient'[n].posted = recipient[m].posted
        BY <1>3, <1>5, <3>1
      <4>2. QED
        BY <1>1, <1>10, <4>1 DEF Registered
    <3>2. CASE n # m
      BY <1>0, <1>1, <1>5, <2>2, <3>2 DEF KnownSessions, Registered
    <3>3. QED
      BY <3>1, <3>2
  <2>3. QED
    BY <1>1, <2>1, <2>2 DEF KnownSessions, Registered
<1>12. LivePermitIsCurrent'
  <2> SUFFICES ASSUME NEW a \in attempts', a.state # "ABORTED"
               PROVE  LET b == recipient'[a.msg].bound IN
                      /\ a.fence = recipient'[a.msg].fence
                      /\ b # None
                      /\ b = a.owner \/ (session[b].lineage # None
                                         /\ session[a.owner].lineage = session[b].lineage)
    BY <1>1 DEF LivePermitIsCurrent, SameLineage
  <2>1. CASE a = new
    BY <1>3, <1>5, <2>1, ConstantsDisjoint
  <2>2. CASE a \in attempts
    <3>1. a.msg # m /\ recipient'[a.msg] = recipient[a.msg]
      BY <1>5, <1>6, <2>2
    <3>2. QED
      BY <1>0, <2>2, <3>1 DEF LivePermitIsCurrent, SameLineage
  <2>3. QED
    BY <1>1, <2>1, <2>2
<1>13. QED
  BY <1>7, <1>8, <1>9, <1>11, <1>12 DEF PermitInv

\* Replacement: the rows that move go to the successor in the same lineage,
\* and active permits behind them fall in doubt.
LEMMA ReplaceInv ==
  ASSUME SurfaceInv, NEW s \in Session, NEW l \in Lineage, NEW r \in Run \cup {None},
         NEW expected, RegisterSession(s, l, r, expected), LineageTypeOK'
  PROVE  TypeOK' /\ PermitInv'
<1> USE ConstantsDisjoint
<1> DEFINE p == lineage[l].head
           moving == MovingFrom(p)
           held == {a \in attempts : a.msg \in moving /\ a.state # "ABORTED"}
           g == [a \in attempts |-> IF a \in held /\ a.state = "ACTIVE"
                                    THEN [a EXCEPT !.state = "AMBIGUOUS"] ELSE a]
<1>0. /\ TypeOK /\ FencesDrawn /\ FencesDistinct /\ KnownSessions /\ LivePermitIsCurrent
      /\ LineageTypeOK /\ ChainIsContiguous
  BY DEF SurfaceInv, PermitInv, LineageInv
<1>1. WritesSessions(s, l) /\ ~Registered(s)
  BY <1>0, SessionEffect DEF RegisterSession, RegisterIncarnation
<1>2. \A q \in Session : Registered(q) => /\ q # s
                                         /\ session'[q].lineage = session[q].lineage
                                         /\ session'[q].connection # "ABSENT"
  BY <1>1 DEF WritesSessions, Registered
<1>3. p # None => session[p].lineage = l
  BY <1>0 DEF ChainIsContiguous
<1>4. /\ \A m \in Message : recipient'[m] =
           IF p # None /\ m \in moving THEN [recipient[m] EXCEPT !.bound = s] ELSE recipient[m]
      /\ recipient' \in [Message -> RecipientRow]
  <2>1. CASE p = None
    BY <1>0, <2>1 DEF RegisterSession, TypeOK
  <2>2. CASE p # None
    <3>1. recipient' = [m \in Message |->
            IF m \in moving THEN [recipient[m] EXCEPT !.bound = s] ELSE recipient[m]]
      BY <2>2 DEF RegisterSession, TransferSurfaces
    <3>2. \A m \in Message : [recipient[m] EXCEPT !.bound = s] \in RecipientRow
      BY <1>0 DEF TypeOK, RecipientRow
    <3>3. QED
      BY <1>0, <2>2, <3>1, <3>2 DEF TypeOK
  <2>3. QED
    BY <2>1, <2>2
<1>5. \A m \in Message :
        /\ recipient'[m].fence = recipient[m].fence
        /\ recipient'[m].posted = recipient[m].posted
        /\ recipient'[m].bound = IF p # None /\ m \in moving THEN s ELSE recipient[m].bound
  BY <1>0, <1>4 DEF TypeOK, RecipientRow
<1>6. \A m \in moving : m \in Message /\ recipient[m].bound = p
  BY DEF MovingFrom
<1>7. /\ g \in [attempts -> AttemptRow]
      /\ \A a \in attempts : /\ g[a].msg = a.msg /\ g[a].fence = a.fence /\ g[a].owner = a.owner
                             /\ g[a].state # "ABORTED" => a.state # "ABORTED"
  <2>1. \A a \in attempts :
          /\ [a EXCEPT !.state = "AMBIGUOUS"] \in AttemptRow
          /\ [a EXCEPT !.state = "AMBIGUOUS"].msg = a.msg
          /\ [a EXCEPT !.state = "AMBIGUOUS"].fence = a.fence
          /\ [a EXCEPT !.state = "AMBIGUOUS"].owner = a.owner
    BY <1>0 DEF TypeOK, AttemptRow, Unresolved
  <2>2. QED
    BY <1>0, <2>1 DEF TypeOK
<1>8. \A x \in attempts' : /\ x \in AttemptRow
                          /\ \E a \in attempts : x = g[a] \/ x = a
  BY <1>0, <1>7 DEF RegisterSession, TransferSurfaces, TypeOK
<1>9. \A x \in attempts' : \E a \in attempts :
        /\ x.msg = a.msg /\ x.fence = a.fence /\ x.owner = a.owner
        /\ x.state # "ABORTED" => a.state # "ABORTED"
        /\ attempts' = attempts => x = a
        /\ attempts' # attempts => x = g[a]
  <2>1. CASE p = None
    BY <2>1 DEF RegisterSession
  <2>2. CASE p # None
    <3>1. attempts' = {g[a] : a \in attempts}
      BY <2>2 DEF RegisterSession, TransferSurfaces
    <3>2. \A x \in attempts' : \E a \in attempts : x = g[a]
      BY <3>1
    <3>3. CASE attempts' = attempts
      BY <3>3
    <3>4. CASE attempts' # attempts
      <4> SUFFICES ASSUME NEW x \in attempts'
                   PROVE  \E a \in attempts :
                            /\ x.msg = a.msg /\ x.fence = a.fence /\ x.owner = a.owner
                            /\ x.state # "ABORTED" => a.state # "ABORTED"
                            /\ x = g[a]
        BY <3>4
      <4>1. PICK a \in attempts : x = g[a]
        BY <3>2
      <4>2. QED
        BY <1>7, <4>1
    <3>5. QED
      BY <3>3, <3>4
  <2>3. QED
    BY <2>1, <2>2
<1>10. handoffs' \subseteq HandoffRow
  <2>1. CASE p = None
    BY <1>0, <2>1 DEF RegisterSession, TypeOK
  <2>2. CASE p # None
    <3>1. \A a \in held :
            [kind |-> HandoffKind(p, a), msg |-> a.msg, fence |-> a.fence, to |-> s] \in HandoffRow
      BY <1>0 DEF HandoffKind, HandoffRow, TypeOK, AttemptRow
    <3>2. QED
      BY <1>0, <2>2, <3>1 DEF RegisterSession, TransferSurfaces, TypeOK
  <2>3. QED
    BY <2>1, <2>2
<1>11. TypeOK'
  BY <1>0, <1>4, <1>8, <1>10 DEF TypeOK, RegisterSession, evidence
<1>12. FencesDrawn' /\ FencesDistinct'
  <2>1. FencesDrawn'
    BY <1>0, <1>5, <1>9 DEF FencesDrawn, TypeOK, AttemptRow
  <2>2. FencesDistinct'
    BY <1>0, <1>9 DEF FencesDistinct
  <2>3. QED
    BY <2>1, <2>2
<1>13. KnownSessions'
  <2>1. session'[s].connection # "ABSENT"
    BY <1>1 DEF WritesSessions
  <2>2. ASSUME NEW x \in attempts' PROVE session'[x.owner].connection # "ABSENT"
    <3>1. PICK a \in attempts : x.owner = a.owner
      BY <1>9
    <3>2. a.owner \in Session /\ Registered(a.owner)
      BY <1>0 DEF KnownSessions, TypeOK, AttemptRow
    <3>3. QED
      BY <1>2, <3>1, <3>2
  <2>3. ASSUME NEW m \in Message, recipient'[m].bound # None
        PROVE  recipient'[m].posted /\ session'[recipient'[m].bound].connection # "ABSENT"
    <3>1. recipient[m].bound # None /\ recipient[m].bound \in Session
      BY <1>0, <1>5, <1>6, <2>3 DEF TypeOK, RecipientRow
    <3>2. recipient[m].posted /\ Registered(recipient[m].bound)
      BY <1>0, <3>1 DEF KnownSessions
    <3>3. recipient'[m].posted
      BY <1>5, <3>2
    <3>4. QED
      BY <1>2, <1>5, <2>1, <3>1, <3>2, <3>3
  <2>4. QED
    BY <2>2, <2>3 DEF KnownSessions, Registered
<1>14. LivePermitIsCurrent'
  <2> SUFFICES ASSUME NEW x \in attempts', x.state # "ABORTED"
               PROVE  LET b == recipient'[x.msg].bound IN
                      /\ x.fence = recipient'[x.msg].fence
                      /\ b # None
                      /\ b = x.owner \/ (session'[b].lineage # None
                                         /\ session'[x.owner].lineage = session'[b].lineage)
    BY DEF LivePermitIsCurrent, SameLineage
  <2>1. PICK a \in attempts : /\ x.msg = a.msg /\ x.fence = a.fence /\ x.owner = a.owner
                              /\ a.state # "ABORTED"
    BY <1>9
  <2> DEFINE b == recipient[a.msg].bound
  <2>2. /\ a.msg \in Message /\ a.owner \in Session /\ Registered(a.owner)
        /\ a.fence = recipient[a.msg].fence /\ b \in Session /\ b # None /\ Registered(b)
        /\ b = a.owner \/ (session[b].lineage # None
                            /\ session[a.owner].lineage = session[b].lineage)
    BY <1>0 , <2>1 DEF LivePermitIsCurrent, SameLineage, KnownSessions, TypeOK, AttemptRow,
                       RecipientRow
  <2>3. /\ session'[b].lineage = session[b].lineage
        /\ session'[a.owner].lineage = session[a.owner].lineage
    BY <1>2, <2>2
  <2>4. CASE p # None /\ a.msg \in moving
    <3>1. b = p /\ session[a.owner].lineage = l
      BY <1>3, <1>6, <2>2, <2>4
    <3>2. session'[s].lineage = l /\ l # None /\ s # None
      BY <1>1 DEF WritesSessions
    <3>3. QED
      BY <1>5, <2>1, <2>2, <2>3, <2>4, <3>1, <3>2
  <2>5. CASE ~(p # None /\ a.msg \in moving)
    BY <1>5, <2>1, <2>2, <2>3, <2>5
  <2>6. QED
    BY <2>4, <2>5
<1>15. QED
  BY <1>11, <1>12, <1>13, <1>14 DEF PermitInv

----------------------------------------------------------------------------
(* The invariant of the whole specification. *)

\* A step of the composition is a step of SessionLineages or leaves it alone.
LEMMA StepIsLineageStep == [Next]_vars => [LineageNext]_lineageVars
<1> SUFFICES ASSUME [Next]_vars PROVE LineageNext \/ UNCHANGED lineageVars
  OBVIOUS
<1>1. CASE UNCHANGED vars
  BY <1>1 DEF vars, lineageVars
<1>2. CASE SessionStep
  BY <1>2 DEF SessionStep, LineageNext, RegisterSession
<1>3. CASE RecipientStep
  BY <1>3 DEF RecipientStep, PostMessage, ClaimRecipient, DeliverWithoutPermit, FailDelivery,
     ReceiptWithoutPermit, lineageVars
<1>4. CASE PermitStep
  BY <1>4 DEF PermitStep, BeginSurface, SettleSurface, ReconcileSurface, ConfirmDelivery,
     ReceiptWithPermit, lineageVars
<1>5. QED
  BY <1>1, <1>2, <1>3, <1>4 DEF Next

\* Steps of sessions that touch neither recipients nor permits keep what was
\* known about the sessions those refer to.
LEMMA SessionOnlyInv ==
  ASSUME SurfaceInv, LineageTypeOK', UNCHANGED surfaceVars,
         \A q \in Session : Registered(q) => /\ session'[q].lineage = session[q].lineage
                                            /\ session'[q].connection # "ABSENT"
  PROVE  TypeOK' /\ PermitInv'
<1>0. /\ TypeOK /\ FencesDrawn /\ FencesDistinct /\ KnownSessions /\ LivePermitIsCurrent
      /\ recipient' = recipient /\ attempts' = attempts
  BY DEF SurfaceInv, PermitInv, surfaceVars
<1>1. TypeOK'
  BY <1>0 DEF TypeOK, surfaceVars
<1>2. FencesDrawn' /\ FencesDistinct'
  BY <1>0 DEF FencesDrawn, FencesDistinct
<1>3. KnownSessions'
  <2>1. \A a \in attempts : a.owner \in Session
    BY <1>0 DEF TypeOK, AttemptRow
  <2>2. \A m \in Message : recipient[m].bound # None => recipient[m].bound \in Session
    BY <1>0 DEF TypeOK, RecipientRow
  <2>3. QED
    BY <1>0, <2>1, <2>2 DEF KnownSessions, Registered
<1>4. LivePermitIsCurrent'
  <2> SUFFICES ASSUME NEW a \in attempts, a.state # "ABORTED"
               PROVE  LET b == recipient[a.msg].bound IN
                      /\ a.fence = recipient[a.msg].fence
                      /\ b # None
                      /\ b = a.owner \/ (session'[b].lineage # None
                                         /\ session'[a.owner].lineage = session'[b].lineage)
    BY <1>0 DEF LivePermitIsCurrent, SameLineage
  <2>1. /\ a.msg \in Message /\ a.owner \in Session /\ Registered(a.owner)
        /\ recipient[a.msg].bound # None
    BY <1>0 DEF KnownSessions, LivePermitIsCurrent, TypeOK, AttemptRow
  <2>2. recipient[a.msg].bound \in Session /\ Registered(recipient[a.msg].bound)
    BY <1>0, <2>1 DEF KnownSessions, TypeOK, RecipientRow
  <2>3. QED
    BY <1>0, <2>1, <2>2 DEF LivePermitIsCurrent, SameLineage
<1>5. QED
  BY <1>1, <1>2, <1>3, <1>4 DEF PermitInv

LEMMA SurfaceInitInv == Init => SurfaceInv
<1> SUFFICES ASSUME Init PROVE SurfaceInv
  OBVIOUS
<1>1. LineageInv
  BY LineageInitInv DEF Init
<1>2. TypeOK
  BY <1>1 DEF Init, TypeOK, LineageInv, RecipientRow
<1>3. PermitInv
  BY DEF Init, PermitInv, FencesDrawn, FencesDistinct, KnownSessions, LivePermitIsCurrent
<1>4. QED
  BY <1>1, <1>2, <1>3 DEF SurfaceInv

LEMMA SurfaceNextInv == SurfaceInv /\ [Next]_vars => SurfaceInv'
<1> SUFFICES ASSUME SurfaceInv, [Next]_vars PROVE SurfaceInv'
  OBVIOUS
<1>1. LineageInv' /\ LineageTypeOK' /\ LineageTypeOK
  BY StepIsLineageStep, LineageNextInv DEF SurfaceInv, LineageInv
<1>2. SUFFICES TypeOK' /\ PermitInv'
  BY <1>1 DEF SurfaceInv
\* What a step has to do to the sessions if it leaves the message plane alone.
<1>3. ASSUME UNCHANGED surfaceVars,
             \A q \in Session : Registered(q) => /\ session'[q].lineage = session[q].lineage
                                                /\ session'[q].connection # "ABSENT"
      PROVE  TypeOK' /\ PermitInv'
  BY <1>1, <1>3, SessionOnlyInv
<1>4. CASE UNCHANGED vars
  <2>1. UNCHANGED surfaceVars
    BY <1>4 DEF vars, surfaceVars
  <2>2. \A q \in Session : Registered(q) => /\ session'[q].lineage = session[q].lineage
                                           /\ session'[q].connection # "ABSENT"
    BY <1>4 DEF vars, Registered
  <2>3. QED
    BY <2>1, <2>2, <1>3
<1>5. CASE SessionStep
  <2>1. ASSUME NEW r \in Run, NEW l \in Lineage, ReserveLaunch(r, l), UNCHANGED surfaceVars
        PROVE  TypeOK' /\ PermitInv'
    <3>1. \A q \in Session : Registered(q) => /\ session'[q].lineage = session[q].lineage
                                             /\ session'[q].connection # "ABSENT"
      BY <2>1 DEF ReserveLaunch, Registered
    <3>2. QED
      BY <2>1, <3>1, <1>3
  <2>2. ASSUME NEW s \in Session, NEW l \in Lineage, NEW r \in Run \cup {None},
               NEW expected \in Session \cup {None, Unspecified},
               RegisterSession(s, l, r, expected)
        PROVE  TypeOK' /\ PermitInv'
    BY <1>1, <2>2, ReplaceInv
  <2>3. ASSUME NEW s \in Session, RegisterGeneric(s), UNCHANGED surfaceVars
        PROVE  TypeOK' /\ PermitInv'
    <3>1. \A q \in Session : Registered(q) => /\ session'[q].lineage = session[q].lineage
                                             /\ session'[q].connection # "ABSENT"
      BY <1>1, <2>3 DEF RegisterGeneric, Registered, LineageTypeOK
    <3>2. QED
      BY <2>3, <3>1, <1>3
  <2>4. ASSUME NEW s \in Session, CloseSession(s), UNCHANGED surfaceVars
        PROVE  TypeOK' /\ PermitInv'
    <3>1. \A q \in Session : Registered(q) => /\ session'[q].lineage = session[q].lineage
                                             /\ session'[q].connection # "ABSENT"
      BY <1>1, <2>4 DEF CloseSession, Registered, LineageTypeOK, SessionRow
    <3>2. QED
      BY <2>4, <3>1, <1>3
  <2>5. QED
    BY <1>5, <2>1, <2>2, <2>3, <2>4 DEF SessionStep
<1>6. CASE RecipientStep
  BY <1>1, <1>6, PostInv, ClaimInv, DeliverInv, FailInv, ReceiptWithoutPermitInv
  DEF RecipientStep, SurfaceInv
<1>7. CASE PermitStep
  BY <1>1, <1>7, BeginInv, SettleInv, ReconcileInv, ConfirmInv, ReceiptWithPermitInv
  DEF PermitStep, SurfaceInv
<1>8. QED
  BY <1>4, <1>5, <1>6, <1>7 DEF Next

\* Every reachable state of any instance satisfies the inductive invariant.
THEOREM SurfaceInvariant == Spec => []SurfaceInv
  BY SurfaceInitInv, SurfaceNextInv, PTL DEF Spec

\* Two permits of one message: the older one was proven unused.  This is the
\* at-most-once delivery the permits exist for.
LEMMA OlderIsAborted == SurfaceInv => OnlyAbortedIsRetried
<1> SUFFICES ASSUME SurfaceInv, NEW a \in attempts, NEW b \in attempts,
                    a.msg = b.msg, a.fence < b.fence, a.state # "ABORTED"
             PROVE  FALSE
  BY DEF OnlyAbortedIsRetried
<1>1. a.fence = recipient[a.msg].fence /\ b.fence <= recipient[a.msg].fence
  BY DEF SurfaceInv, PermitInv, LivePermitIsCurrent, FencesDrawn
<1>2. a.fence \in Nat /\ b.fence \in Nat
  BY DEF SurfaceInv, TypeOK, AttemptRow
<1>3. QED
  BY <1>1, <1>2

\* Types, at-most-once permits and their currency, for any instance.
THEOREM SurfaceSafety == Spec => [](TypeOK /\ OnlyAbortedIsRetried /\ LivePermitIsCurrent)
<1>1. SurfaceInv => TypeOK /\ OnlyAbortedIsRetried /\ LivePermitIsCurrent
  BY OlderIsAborted DEF SurfaceInv, PermitInv
<1>2. QED
  BY <1>1, SurfaceInvariant, PTL

\* The message plane never disturbs the succession of sessions: seen through
\* its session variables, every behaviour is one of SessionLineages, so its
\* theorems carry over.
THEOREM SurfacesPreserveLineages == Spec => LineageSpec
<1>1. Init => LineageInit
  BY DEF Init
<1>2. QED
  BY <1>1, StepIsLineageStep, PTL DEF Spec, LineageSpec


----------------------------------------------------------------------------
(* The refinement: what the Hub does to the permits of a message, seen as   *)
(* one attempt at a time.                                                  *)

LiveStates(m) == {a.state : a \in {b \in attempts : b.msg = m /\ b.state # "ABORTED"}}

\* PhaseOf, by the states of the live permits.
NameOf(live) ==
  IF live = {} THEN "idle"
  ELSE IF live = {"ACTIVE"} THEN "attempting"
  ELSE IF live = {"AMBIGUOUS"} THEN "doubtful"
  ELSE IF live = {"CONFIRMED"} THEN "surfaced" ELSE "several"

LEMMA PhaseNames ==
  \A m : PhaseOf(m) = NameOf(LiveStates(m)) /\ PhaseOf(m)' = NameOf(LiveStates(m)')
BY DEF PhaseOf, NameOf, LiveStates

LEMMA Names ==
  /\ NameOf({}) = "idle"
  /\ NameOf({"ACTIVE"}) = "attempting"
  /\ NameOf({"AMBIGUOUS"}) = "doubtful"
  /\ NameOf({"CONFIRMED"}) = "surfaced"
<1>1. {"ACTIVE"} # {} /\ {"AMBIGUOUS"} # {} /\ {"CONFIRMED"} # {}
  OBVIOUS
<1>2. {"ACTIVE"} # {"AMBIGUOUS"} /\ {"ACTIVE"} # {"CONFIRMED"} /\ {"AMBIGUOUS"} # {"CONFIRMED"}
  OBVIOUS
<1>3. QED
  BY <1>1, <1>2 DEF NameOf

\* A message has one live permit at most: it has the recipient's fence.
LEMMA OneLivePermit ==
  ASSUME SurfaceInv, NEW a \in attempts, a.state # "ABORTED"
  PROVE  /\ \A b \in attempts : b.msg = a.msg /\ b.state # "ABORTED" => b = a
         /\ LiveStates(a.msg) = {a.state}
<1>1. \A b \in attempts : b.msg = a.msg /\ b.state # "ABORTED" => b = a
  BY DEF SurfaceInv, PermitInv, LivePermitIsCurrent, FencesDistinct
<1>2. LiveStates(a.msg) = {a.state}
  BY <1>1 DEF LiveStates
<1>3. QED
  BY <1>1, <1>2

\* The step of AtMostOnceSurface that a step of the Hub is, by what it does to
\* the live permits: nothing, or one of its four actions.
FencesStay == [m \in Message |-> recipient'[m].fence] = [m \in Message |-> recipient[m].fence]

LEMMA StutterRefines ==
  ASSUME FencesStay, \A m \in Message : LiveStates(m)' = LiveStates(m)
  PROVE  [AtMostOnce!AbstractNext]_(AtMostOnce!abstractVars)
<1>1. [m \in Message |-> PhaseOf(m)]' = [m \in Message |-> PhaseOf(m)]
  BY PhaseNames
<1>2. QED
  BY <1>1 DEF FencesStay, AtMostOnce!abstractVars

\* Only the phase of message m changes, to ph.
LEMMA OnePhase ==
  ASSUME NEW m \in Message, NEW ph, PhaseOf(m)' = ph,
         \A n \in Message \ {m} : LiveStates(n)' = LiveStates(n)
  PROVE  [n \in Message |-> PhaseOf(n)]' = [[n \in Message |-> PhaseOf(n)] EXCEPT ![m] = ph]
<1>1. \A n \in Message \ {m} : PhaseOf(n)' = PhaseOf(n)
  BY PhaseNames
<1>2. QED
  BY <1>1

LEMMA ResolveRefines ==
  ASSUME SurfaceInv, FencesStay, NEW a \in attempts,
         NEW st \in {"AMBIGUOUS", "CONFIRMED", "ABORTED"}, attempts' = Resolve(a, st),
         a.state = "ACTIVE" \/ (a.state = "AMBIGUOUS" /\ st = "CONFIRMED")
  PROVE  [AtMostOnce!AbstractNext]_(AtMostOnce!abstractVars)
<1> DEFINE m == a.msg
           b == [a EXCEPT !.state = st]
<1>1. a \in AttemptRow /\ m \in Message
  BY DEF SurfaceInv, TypeOK, AttemptRow
<1>2. b.msg = m /\ b.state = st
  BY <1>1 DEF AttemptRow
<1>3. attempts' = (attempts \ {a}) \cup {b}
  BY DEF Resolve
<1>4. \A c \in attempts : c.msg = m /\ c.state # "ABORTED" => c = a
  BY OneLivePermit
<1>5. LiveStates(m) = {a.state}
  BY OneLivePermit
<1> HIDE DEF b
<1>6. \A n \in Message \ {m} : LiveStates(n)' = LiveStates(n)
  BY <1>2, <1>3 DEF LiveStates
<1>7. LiveStates(m)' = IF st = "ABORTED" THEN {} ELSE {st}
  <2>1. CASE st = "ABORTED"
    <3>1. {c \in attempts' : c.msg = m /\ c.state # "ABORTED"} = {}
      BY <1>2, <1>3, <1>4, <2>1
    <3>2. QED
      BY <2>1, <3>1 DEF LiveStates
  <2>2. CASE st # "ABORTED"
    <3>1. {c \in attempts' : c.msg = m /\ c.state # "ABORTED"} = {b}
      BY <1>2, <1>3, <1>4, <2>2
    <3>2. QED
      BY <1>2, <2>2, <3>1 DEF LiveStates
  <2>3. QED
    BY <2>1, <2>2
<1>8. PhaseOf(m) = NameOf({a.state}) /\ PhaseOf(m)' = NameOf(IF st = "ABORTED" THEN {} ELSE {st})
  BY <1>5, <1>7, PhaseNames
<1> DEFINE phase == [n \in Message |-> PhaseOf(n)]
<1>9. phase[m] = PhaseOf(m) /\ phase' = [phase EXCEPT ![m] = PhaseOf(m)']
  BY <1>1, <1>6, OnePhase
<1>10. CASE st = "ABORTED"
  <2>1. PhaseOf(m) = "attempting" /\ PhaseOf(m)' = "idle"
    BY <1>8, <1>10, Names
  <2>2. AtMostOnce!Withdraw(m)
    BY <1>9, <2>1 DEF AtMostOnce!Withdraw, FencesStay
  <2>3. QED
    BY <1>1, <2>2 DEF AtMostOnce!AbstractNext
<1>11. CASE st = "CONFIRMED"
  <2>1. PhaseOf(m) \in {"attempting", "doubtful"} /\ PhaseOf(m)' = "surfaced"
    BY <1>8, <1>11, Names
  <2>2. AtMostOnce!Surface(m)
    BY <1>9, <2>1 DEF AtMostOnce!Surface, FencesStay
  <2>3. QED
    BY <1>1, <2>2 DEF AtMostOnce!AbstractNext
<1>12. CASE st = "AMBIGUOUS"
  <2>1. PhaseOf(m) = "attempting" /\ PhaseOf(m)' = "doubtful"
    BY <1>8, <1>12, Names
  <2>2. phase' = [n \in Message |-> IF n \in {m} THEN "doubtful" ELSE phase[n]]
    BY <1>9, <2>1
  <2>3. AtMostOnce!Doubt({m})
    BY <1>1, <1>9, <2>1, <2>2 DEF AtMostOnce!Doubt, FencesStay
  <2>4. QED
    BY <1>1, <2>3 DEF AtMostOnce!AbstractNext
<1>13. QED
  BY <1>10, <1>11, <1>12

\* A new permit: the message has no live one, and one try more.
LEMMA BeginRefines ==
  ASSUME SurfaceInv, NEW s \in Session, NEW m \in Message, BeginSurface(s, m)
  PROVE  AtMostOnce!AbstractNext
<1> DEFINE fence == recipient[m].fence + 1
           new == [msg |-> m, owner |-> s, incarnation |-> session[s].incarnation,
                   fence |-> fence, state |-> "ACTIVE"]
           row == [recipient[m] EXCEPT !.bound = s, !.fence = fence]
           phase == [n \in Message |-> PhaseOf(n)]
           tries == [n \in Message |-> recipient[n].fence]
<1>1. /\ MayBegin(s, m) /\ attempts' = attempts \cup {new}
      /\ recipient' = [recipient EXCEPT ![m] = row]
  BY DEF BeginSurface
<1>2. recipient[m] \in RecipientRow /\ row.fence = fence
  BY DEF SurfaceInv, TypeOK, RecipientRow
<1>3. new.msg = m /\ new.state = "ACTIVE"
  OBVIOUS
<1>4. \A a \in attempts : a.msg = m => a.state = "ABORTED"
  BY <1>1, OnlyAbortedBehind
<1> HIDE DEF new, row
<1>5. LiveStates(m) = {}
  BY <1>4 DEF LiveStates
<1>6. LiveStates(m)' = {"ACTIVE"}
  <2>1. {c \in attempts' : c.msg = m /\ c.state # "ABORTED"} = {new}
    BY <1>1, <1>3, <1>4
  <2>2. QED
    BY <1>3, <2>1 DEF LiveStates
<1>7. \A n \in Message \ {m} : LiveStates(n)' = LiveStates(n)
  BY <1>1, <1>3 DEF LiveStates
<1>8. PhaseOf(m) = "idle" /\ PhaseOf(m)' = "attempting"
  BY <1>5, <1>6, Names, PhaseNames
<1>9. phase[m] = "idle" /\ phase' = [phase EXCEPT ![m] = "attempting"]
  BY <1>7, <1>8, OnePhase
<1>10. tries' = [tries EXCEPT ![m] = @ + 1]
  BY <1>1, <1>2 DEF SurfaceInv, TypeOK
<1>11. AtMostOnce!Attempt(m)
  BY <1>9, <1>10 DEF AtMostOnce!Attempt
<1>12. QED
  BY <1>11 DEF AtMostOnce!AbstractNext

\* A replacement puts in doubt what was active behind the rows that move.
LEMMA ReplaceRefines ==
  ASSUME SurfaceInv, NEW s \in Session, NEW p \in Session, TransferSurfaces(p, s)
  PROVE  AtMostOnce!AbstractNext
<1> DEFINE moving == MovingFrom(p)
           held == {a \in attempts : a.msg \in moving /\ a.state # "ABORTED"}
           g == [a \in attempts |-> IF a \in held /\ a.state = "ACTIVE"
                                    THEN [a EXCEPT !.state = "AMBIGUOUS"] ELSE a]
           ms == {m \in moving : LiveStates(m) = {"ACTIVE"}}
           phase == [n \in Message |-> PhaseOf(n)]
<1>1. attempts' = {g[a] : a \in attempts}
  BY DEF TransferSurfaces
<1>2. FencesStay
  <2>1. \A m \in Message : recipient'[m].fence = recipient[m].fence
    BY DEF TransferSurfaces, SurfaceInv, TypeOK, RecipientRow
  <2>2. QED
    BY <2>1 DEF FencesStay
<1>3. \A a \in attempts :
        /\ g[a].msg = a.msg
        /\ g[a].state = IF a.msg \in moving /\ a.state = "ACTIVE" THEN "AMBIGUOUS" ELSE a.state
  BY DEF SurfaceInv, TypeOK, AttemptRow
<1>4. \A m \in Message :
        LiveStates(m)' = {g[a].state : a \in {b \in attempts : b.msg = m /\ b.state # "ABORTED"}}
  <2> HIDE DEF g, moving
  <2> SUFFICES ASSUME NEW m \in Message
               PROVE  LiveStates(m)' =
                        {g[a].state : a \in {b \in attempts : b.msg = m /\ b.state # "ABORTED"}}
    OBVIOUS
  <2>1. \A a \in attempts : g[a].state # "ABORTED" <=> a.state # "ABORTED"
    BY <1>3
  <2>2. \A x : x \in LiveStates(m)' <=>
               \E a \in attempts : a.msg = m /\ a.state # "ABORTED" /\ x = g[a].state
    BY <1>1, <1>3, <2>1 DEF LiveStates
  <2> DEFINE images == {g[a].state : a \in {b \in attempts : b.msg = m /\ b.state # "ABORTED"}}
  <2>3. \A x : x \in images <=> \E a \in attempts : a.msg = m /\ a.state # "ABORTED" /\ x = g[a].state
    OBVIOUS
  <2>4. LiveStates(m)' = {c.state : c \in {b \in attempts' : b.msg = m /\ b.state # "ABORTED"}}
    BY DEF LiveStates
  <2>5. \A x : x \in LiveStates(m)' <=> x \in images
    BY <2>2, <2>3
  <2>6. LiveStates(m)' = images
    <3> HIDE DEF images
    <3>1. QED
      BY <2>4, <2>5
  <2>7. QED
    BY <2>6
<1> HIDE DEF g
<1>5. ASSUME NEW m \in Message
      PROVE  LiveStates(m)' = IF m \in ms THEN {"AMBIGUOUS"} ELSE LiveStates(m)
  <2>1. CASE LiveStates(m) = {}
    <3>1. {b \in attempts : b.msg = m /\ b.state # "ABORTED"} = {}
      BY <2>1 DEF LiveStates
    <3>2. QED
      BY <1>4, <2>1, <3>1
  <2>2. CASE LiveStates(m) # {}
    <3>1. PICK a \in attempts : a.msg = m /\ a.state # "ABORTED"
      BY <2>2 DEF LiveStates
    <3>2. /\ {b \in attempts : b.msg = m /\ b.state # "ABORTED"} = {a}
          /\ LiveStates(m) = {a.state}
      BY <3>1, OneLivePermit
    <3>3. LiveStates(m)' = {g[a].state}
      BY <1>4, <3>2
    <3>4. m \in ms <=> m \in moving /\ a.state = "ACTIVE"
      BY <3>2
    <3>5. QED
      BY <1>3, <3>1, <3>2, <3>3, <3>4
  <2>3. QED
    BY <2>1, <2>2
<1>6. \A m \in Message : PhaseOf(m)' = IF m \in ms THEN "doubtful" ELSE PhaseOf(m)
  BY <1>5, Names, PhaseNames
<1>7. ms \subseteq Message /\ \A m \in ms : PhaseOf(m) = "attempting"
  BY Names, PhaseNames DEF MovingFrom
<1> HIDE DEF ms
<1>8. phase' = [n \in Message |-> IF n \in ms THEN "doubtful" ELSE phase[n]]
  BY <1>6
<1>9. AtMostOnce!Doubt(ms)
  BY <1>2, <1>7, <1>8 DEF AtMostOnce!Doubt, FencesStay
<1>10. QED
  BY <1>7, <1>9 DEF AtMostOnce!AbstractNext

\* Every other step keeps the fences, and what it settles is one permit.
LEMMA RecipientRefines ==
  ASSUME SurfaceInv, RecipientStep
  PROVE  [AtMostOnce!AbstractNext]_(AtMostOnce!abstractVars)
<1> USE DEF SurfaceInv, TypeOK, RecipientRow
<1>1. ASSUME NEW m \in Message, NEW target \in Session \cup {None}, PostMessage(m, target)
      PROVE  FencesStay /\ attempts' = attempts
  <2>1. \A n \in Message : recipient'[n].fence = recipient[n].fence
    BY <1>1 DEF PostMessage
  <2>2. QED
    BY <1>1, <2>1 DEF FencesStay, PostMessage
<1>2. ASSUME NEW s \in Session, NEW m \in Message, ClaimRecipient(s, m)
      PROVE  FencesStay /\ attempts' = attempts
  <2>1. \A n \in Message : recipient'[n].fence = recipient[n].fence
    BY <1>2 DEF ClaimRecipient
  <2>2. QED
    BY <1>2, <2>1 DEF FencesStay, ClaimRecipient
<1>3. ASSUME NEW s \in Session, NEW m \in Message, FailDelivery(s, m)
      PROVE  FencesStay /\ attempts' = attempts
  <2>1. \A n \in Message : recipient'[n].fence = recipient[n].fence
    BY <1>3 DEF FailDelivery
  <2>2. QED
    BY <1>3, <2>1 DEF FencesStay, FailDelivery
<1>4. ASSUME NEW s \in Session, NEW m \in Message, DeliverWithoutPermit(s, m)
      PROVE  FencesStay /\ attempts' = attempts
  <2>1. \A n \in Message : recipient'[n].fence = recipient[n].fence
    BY <1>4 DEF DeliverWithoutPermit, SetState
  <2>2. QED
    BY <1>4, <2>1 DEF FencesStay, DeliverWithoutPermit
<1>5. ASSUME attempts' = attempts, FencesStay
      PROVE  [AtMostOnce!AbstractNext]_(AtMostOnce!abstractVars)
  BY <1>5, StutterRefines DEF LiveStates
<1>6. ASSUME NEW s \in Session, NEW m \in Message, NEW st \in Downstream,
             ReceiptWithoutPermit(s, m, st)
      PROVE  [AtMostOnce!AbstractNext]_(AtMostOnce!abstractVars)
  <2> DEFINE own == {a \in UnresolvedOf(m) : a.owner = s}
  <2>1. \A n \in Message : recipient'[n].fence = recipient[n].fence
    BY <1>6 DEF ReceiptWithoutPermit, SetState
  <2>2. FencesStay
    BY <2>1 DEF FencesStay
  <2>3. attempts' = (attempts \ own) \cup {[a EXCEPT !.state = "CONFIRMED"] : a \in own}
    BY <1>6 DEF ReceiptWithoutPermit
  <2>4. CASE own = {}
    <3>1. attempts' = attempts
      BY <2>3, <2>4
    <3>2. QED
      BY <1>5, <2>2, <3>1
  <2>5. CASE own # {}
    <3>1. PICK a \in own : TRUE
      BY <2>5
    <3>2. a \in attempts /\ a.state \in Unresolved /\ a.msg = m
      BY DEF UnresolvedOf
    <3>3. own = {a}
      BY <3>2, OneLivePermit DEF UnresolvedOf, Unresolved
    <3>4. attempts' = Resolve(a, "CONFIRMED")
      <4> HIDE DEF own
      <4>1. QED
        BY <2>3, <3>3 DEF Resolve
    <3>5. QED
      BY <2>2, <3>2, <3>4, ResolveRefines DEF Unresolved
  <2>6. QED
    BY <2>4, <2>5
<1>7. QED
  BY <1>1, <1>2, <1>3, <1>4, <1>5, <1>6 DEF RecipientStep

LEMMA PermitRefines ==
  ASSUME SurfaceInv, PermitStep
  PROVE  [AtMostOnce!AbstractNext]_(AtMostOnce!abstractVars)
<1> USE DEF SurfaceInv, TypeOK, RecipientRow
<1>0. \A a \in attempts : a.msg \in Message
  BY DEF AttemptRow
<1>1. ASSUME NEW s \in Session, NEW m \in Message, BeginSurface(s, m)
      PROVE  AtMostOnce!AbstractNext
  BY <1>1, BeginRefines
<1>2. ASSUME NEW s \in Session, NEW a \in attempts, NEW outcome \in {"ABORTED", "AMBIGUOUS"},
             SettleSurface(s, a, outcome)
      PROVE  [AtMostOnce!AbstractNext]_(AtMostOnce!abstractVars)
  <2>1. \A n \in Message : recipient'[n].fence = recipient[n].fence
    BY <1>0, <1>2 DEF SettleSurface, ReleaseTo
  <2>2. FencesStay
    BY <2>1 DEF FencesStay
  <2>3. QED
    BY <1>2, <2>2, ResolveRefines DEF SettleSurface
<1>3. ASSUME NEW s \in Session, NEW a \in attempts, ReconcileSurface(s, a)
      PROVE  [AtMostOnce!AbstractNext]_(AtMostOnce!abstractVars)
  <2>1. \A n \in Message : recipient'[n].fence = recipient[n].fence
    BY <1>0, <1>3 DEF ReconcileSurface
  <2>2. FencesStay
    BY <2>1 DEF FencesStay
  <2>3. QED
    BY <1>3, <2>2, ResolveRefines DEF ReconcileSurface
<1>4. ASSUME NEW s \in Session, NEW a \in attempts, ConfirmDelivery(s, a)
      PROVE  [AtMostOnce!AbstractNext]_(AtMostOnce!abstractVars)
  <2>1. \A n \in Message : recipient'[n].fence = recipient[n].fence
    BY <1>0, <1>4 DEF ConfirmDelivery, SetState
  <2>2. FencesStay
    BY <2>1 DEF FencesStay
  <2>3. QED
    BY <1>4, <2>2, ResolveRefines DEF ConfirmDelivery, Unresolved
<1>5. ASSUME NEW s \in Session, NEW a \in attempts, NEW st \in Downstream,
             ReceiptWithPermit(s, a, st)
      PROVE  [AtMostOnce!AbstractNext]_(AtMostOnce!abstractVars)
  <2>1. \A n \in Message : recipient'[n].fence = recipient[n].fence
    BY <1>0, <1>5 DEF ReceiptWithPermit, SetState
  <2>2. FencesStay /\ attempts' = attempts
    BY <1>5, <2>1 DEF FencesStay, ReceiptWithPermit
  <2>3. QED
    BY <2>2, StutterRefines DEF LiveStates
<1>6. QED
  BY <1>1, <1>2, <1>3, <1>4, <1>5 DEF PermitStep

LEMMA SurfaceStepRefines ==
  SurfaceInv /\ [Next]_vars => [AtMostOnce!AbstractNext]_(AtMostOnce!abstractVars)
<1> SUFFICES ASSUME SurfaceInv, [Next]_vars
             PROVE  [AtMostOnce!AbstractNext]_(AtMostOnce!abstractVars)
  OBVIOUS
<1>1. ASSUME UNCHANGED <<recipient, attempts>>
      PROVE  [AtMostOnce!AbstractNext]_(AtMostOnce!abstractVars)
  BY <1>1, StutterRefines DEF LiveStates, FencesStay
<1>2. ASSUME NEW s \in Session, NEW l \in Lineage, NEW r \in Run \cup {None},
             NEW expected \in Session \cup {None, Unspecified}, RegisterSession(s, l, r, expected)
      PROVE  [AtMostOnce!AbstractNext]_(AtMostOnce!abstractVars)
  <2>1. CASE lineage[l].head = None
    BY <1>1, <1>2, <2>1 DEF RegisterSession
  <2>2. CASE lineage[l].head # None
    <3>1. lineage[l].head \in Session
      BY <2>2 DEF SurfaceInv, TypeOK, LineageTypeOK, LineageRow
    <3>2. QED
      BY <1>2, <2>2, <3>1, ReplaceRefines DEF RegisterSession
  <2>3. QED
    BY <2>1, <2>2
<1>3. CASE SessionStep
  BY <1>1, <1>2, <1>3 DEF SessionStep, surfaceVars
<1>4. CASE UNCHANGED vars
  BY <1>1, <1>4 DEF vars
<1>5. QED
  BY <1>3, <1>4, RecipientRefines, PermitRefines DEF Next

\* The Hub keeps the promise of AtMostOnceSurface for any number of messages,
\* sessions and permits: whatever issues, settles, reconciles, inherits or
\* confirms a permit is one of its steps or changes nothing it speaks of.
THEOREM SurfacesImplementAtMostOnce == Spec => ImplementsAtMostOnce
<1>1. Init => AtMostOnce!AbstractInit
  BY PhaseNames, Names DEF Init, LiveStates, AtMostOnce!AbstractInit
<1>2. SurfaceInv /\ [Next]_vars => [AtMostOnce!AbstractNext]_(AtMostOnce!abstractVars)
  BY SurfaceStepRefines
<1>3. QED
  BY <1>1, <1>2, SurfaceInvariant, PTL DEF Spec, ImplementsAtMostOnce, AtMostOnce!AbstractSpec

----------------------------------------------------------------------------
(* What the handoff walks over.  The walk along the predecessors is defined *)
(* by recursion, and is described here by what it reaches: the incarnations *)
(* of a lineage are numbered, so its n-th step is the session of number    *)
(* incarnation - n.                                                        *)

IncarnationsDistinct ==
  \A s, t \in Session :
    session[s].lineage # None /\ session[s].lineage = session[t].lineage
      /\ session[s].incarnation = session[t].incarnation => s = t

Forebears(p) ==
  {q \in Session : /\ session[q].lineage = session[p].lineage
                   /\ session[q].incarnation <= session[p].incarnation}

LEMMA LeastOf ==
  ASSUME NEW S, S \subseteq Nat, S # {}
  PROVE  \E n \in S : \A m \in S : n <= m
<1> DEFINE R == OpToRel(<, Nat)
<1>1. IsWellFoundedOn(R, Nat)
  BY NatLessThanWellFounded
<1>2. \A x, y \in Nat : x < y => <<x, y>> \in R
  BY DEF OpToRel
<1> HIDE DEF R
<1>3. PICK x \in S : \A y \in S : ~(<<y, x>> \in R)
  BY <1>1, WFMin
<1>4. ASSUME NEW y \in S PROVE x <= y
  <2>1. x \in Nat /\ y \in Nat /\ ~(y < x)
    BY <1>2, <1>3
  <2>2. QED
    BY <2>1
<1>5. QED
  BY <1>4

LEMMA Numbered ==
  ASSUME LineageInv, NEW q \in Session, session[q].lineage # None
  PROVE  /\ session[q].incarnation \in Nat /\ session[q].incarnation >= 1
         /\ session[q].predecessor \in Session \cup {None}
         /\ IF session[q].incarnation = 1 THEN session[q].predecessor = None
            ELSE /\ session[q].predecessor \in Session
                 /\ session[session[q].predecessor].lineage = session[q].lineage
                 /\ session[session[q].predecessor].incarnation = session[q].incarnation - 1
<1> DEFINE p == session[q].predecessor
<1>1. p \in Session \cup {None} /\ session[q].incarnation \in Nat /\ session[q].lineage \in Lineage
  BY DEF LineageInv, LineageTypeOK, SessionRow
<1>2. /\ session[q].incarnation >= 1
      /\ IF p = None THEN session[q].incarnation = 1
         ELSE /\ session[p].lineage = session[q].lineage
              /\ session[p].incarnation = session[q].incarnation - 1
  BY <1>1 DEF LineageInv, ChainIsContiguous
<1>3. p # None => session[q].incarnation # 1
  <2> SUFFICES ASSUME p # None, session[q].incarnation = 1 PROVE FALSE
    OBVIOUS
  <2>1. p \in Session /\ session[p].lineage # None /\ session[p].incarnation = 0
    BY <1>1, <1>2
  <2>2. session[p].incarnation \in 1 .. lineage[session[p].lineage].headIncarnation
    BY <2>1 DEF LineageInv, ChainIsContiguous
  <2>3. QED
    BY <2>1, <2>2
<1>4. QED
  BY <1>1, <1>2, <1>3

LEMMA Reached ==
  ASSUME LineageInv, NEW p \in Session, session[p].lineage # None
  PROVE  \A n \in 0 .. session[p].incarnation - 1 :
           \E q \in Session : /\ session[q].lineage = session[p].lineage
                              /\ session[q].incarnation = session[p].incarnation - n
<1> DEFINE At(n) == \E q \in Session : /\ session[q].lineage = session[p].lineage
                                       /\ session[q].incarnation = session[p].incarnation - n
           Missing == {n \in 0 .. session[p].incarnation - 1 : ~At(n)}
<1>1. session[p].incarnation \in Nat /\ session[p].incarnation >= 1
  BY Numbered
<1>2. SUFFICES ASSUME Missing # {} PROVE FALSE
  OBVIOUS
<1>3. PICK n \in Missing : \A m \in Missing : n <= m
  <2>1. Missing \subseteq Nat
    BY <1>1
  <2> HIDE DEF Missing
  <2>2. QED
    BY <1>2, <2>1, LeastOf
<1>4. n \in Nat /\ n <= session[p].incarnation - 1 /\ ~At(n)
  BY <1>1
<1>5. n # 0
  BY <1>1, <1>4
<1>6. n - 1 \notin Missing /\ n - 1 \in 0 .. session[p].incarnation - 1
  BY <1>1, <1>3, <1>4, <1>5
<1>7. PICK q \in Session : /\ session[q].lineage = session[p].lineage
                           /\ session[q].incarnation = session[p].incarnation - (n - 1)
  BY <1>6
<1>8. session[q].incarnation # 1 /\ session[q].incarnation - 1 = session[p].incarnation - n
  BY <1>1, <1>4, <1>7
<1>9. At(n)
  BY <1>7, <1>8, Numbered
<1>10. QED
  BY <1>4, <1>9

StepBack(p, n) ==
  IF n < session[p].incarnation
  THEN CHOOSE q \in Session : /\ session[q].lineage = session[p].lineage
                              /\ session[q].incarnation = session[p].incarnation - n
  ELSE None

LEMMA StepBackIs ==
  ASSUME LineageInv, IncarnationsDistinct, NEW p \in Session, session[p].lineage # None,
         NEW n \in Nat, n < session[p].incarnation
  PROVE  /\ StepBack(p, n) \in Session
         /\ session[StepBack(p, n)].lineage = session[p].lineage
         /\ session[StepBack(p, n)].incarnation = session[p].incarnation - n
         /\ \A q \in Session : /\ session[q].lineage = session[p].lineage
                               /\ session[q].incarnation = session[p].incarnation - n
                               => q = StepBack(p, n)
<1>1. session[p].incarnation \in Nat
  BY Numbered
<1>2. \E q \in Session : /\ session[q].lineage = session[p].lineage
                         /\ session[q].incarnation = session[p].incarnation - n
  BY <1>1, Reached
<1>3. /\ StepBack(p, n) \in Session
      /\ session[StepBack(p, n)].lineage = session[p].lineage
      /\ session[StepBack(p, n)].incarnation = session[p].incarnation - n
  BY <1>2 DEF StepBack
<1>4. QED
  BY <1>3 DEF IncarnationsDistinct

Onward(p, f, n) ==
  IF n = 0 THEN p ELSE IF f[n - 1] = None THEN None ELSE session[f[n - 1]].predecessor

LEMMA StepsGoBack ==
  ASSUME LineageInv, IncarnationsDistinct, NEW p \in Session, session[p].lineage # None
  PROVE  \A n \in Nat : StepBack(p, n) = Onward(p, [k \in Nat |-> StepBack(p, k)], n)
<1> DEFINE f == [k \in Nat |-> StepBack(p, k)]
<1> SUFFICES ASSUME NEW n \in Nat PROVE StepBack(p, n) = Onward(p, f, n)
  OBVIOUS
<1>0. session[p].incarnation \in Nat /\ session[p].incarnation >= 1
  BY Numbered
<1>1. CASE n = 0
  <2>1. p = StepBack(p, 0)
    BY <1>0, StepBackIs
  <2>2. QED
    BY <1>1, <2>1 DEF Onward
<1>2. CASE n # 0 /\ n - 1 >= session[p].incarnation
  <2>1. n - 1 \in Nat /\ StepBack(p, n) = None /\ f[n - 1] = None
    BY <1>0, <1>2 DEF StepBack
  <2>2. QED
    BY <1>2, <2>1 DEF Onward
<1>3. CASE n # 0 /\ n - 1 < session[p].incarnation
  <2> DEFINE q == StepBack(p, n - 1)
  <2>1. n - 1 \in Nat /\ f[n - 1] = q
    BY <1>3
  <2>2. /\ q \in Session /\ session[q].lineage = session[p].lineage
        /\ session[q].incarnation = session[p].incarnation - (n - 1)
    BY <1>3, <2>1, StepBackIs
  <2>3. q # None
    BY <2>2, ConstantsDisjoint
  <2> HIDE DEF q, f
  <2>4. Onward(p, f, n) = session[q].predecessor
    BY <1>3, <2>1, <2>3 DEF Onward
  <2>5. CASE n = session[p].incarnation
    <3>1. session[q].incarnation = 1
      BY <1>0, <2>2, <2>5
    <3>2. session[q].predecessor = None
      BY <2>2, <3>1, Numbered
    <3>3. StepBack(p, n) = None
      BY <1>0, <2>5 DEF StepBack
    <3>4. QED
      BY <2>4, <3>2, <3>3
  <2>6. CASE n # session[p].incarnation
    <3>1. n < session[p].incarnation
      BY <1>0, <1>3, <2>6
    <3>2. session[q].incarnation # 1 /\ session[q].incarnation - 1 = session[p].incarnation - n
      BY <1>0, <2>2, <3>1
    <3> DEFINE r == session[q].predecessor
    <3>3. /\ r \in Session /\ session[r].lineage = session[p].lineage
          /\ session[r].incarnation = session[p].incarnation - n
      BY <2>2, <3>2, Numbered
    <3> HIDE DEF r
    <3>4. r = StepBack(p, n)
      BY <3>1, <3>3, StepBackIs
    <3>5. QED
      BY <2>4, <3>4 DEF r
  <2>7. QED
    BY <2>5, <2>6
<1>4. QED
  BY <1>0, <1>1, <1>2, <1>3

\* The recursion has one solution.
LEMMA OneWalk ==
  ASSUME LineageInv, IncarnationsDistinct, NEW p \in Session, session[p].lineage # None,
         NEW f, f = [n \in Nat |-> Onward(p, f, n)]
  PROVE  \A n \in Nat : f[n] = StepBack(p, n)
<1> DEFINE g == [k \in Nat |-> StepBack(p, k)]
           Off == {n \in Nat : f[n] # StepBack(p, n)}
<1>1. SUFFICES ASSUME Off # {} PROVE FALSE
  OBVIOUS
<1>2. PICK n \in Off : \A m \in Off : n <= m
  <2>1. Off \subseteq Nat
    OBVIOUS
  <2> HIDE DEF Off
  <2>2. QED
    BY <1>1, <2>1, LeastOf
<1>3. n \in Nat /\ f[n] # StepBack(p, n)
  OBVIOUS
<1>4. f[n] = Onward(p, f, n) /\ StepBack(p, n) = Onward(p, g, n)
  BY <1>3, StepsGoBack
<1>5. CASE n = 0
  BY <1>3, <1>4, <1>5 DEF Onward
<1>6. CASE n # 0
  <2>1. n - 1 \in Nat /\ n - 1 \notin Off
    BY <1>2, <1>3, <1>6
  <2>2. f[n - 1] = g[n - 1]
    BY <2>1
  <2> HIDE DEF g
  <2>3. QED
    BY <1>3, <1>4, <1>6, <2>2 DEF Onward
<1>7. QED
  BY <1>5, <1>6

\* The chain of p: its lineage, up to p.
LEMMA ChainIs ==
  ASSUME LineageInv, IncarnationsDistinct, NEW p \in Session, session[p].lineage # None
  PROVE  PredecessorChain(p) = Forebears(p)
<1> DEFINE g == [k \in Nat |-> StepBack(p, k)]
           walk[n \in Nat] ==
             IF n = 0 THEN p
             ELSE IF walk[n - 1] = None THEN None ELSE session[walk[n - 1]].predecessor
<1>0. session[p].incarnation \in Nat /\ session[p].incarnation >= 1
  BY Numbered
<1>1. PredecessorChain(p) = {walk[n] : n \in 0 .. session[p].incarnation} \ {None}
  BY DEF PredecessorChain
<1>2. g = [n \in Nat |-> Onward(p, g, n)]
  BY StepsGoBack
<1>3. \E f : f = [n \in Nat |-> Onward(p, f, n)]
  <2> HIDE DEF g
  <2>1. QED
    BY <1>2
<1>4. walk = [n \in Nat |-> Onward(p, walk, n)]
  BY <1>3 DEF Onward
<1> HIDE DEF walk
<1>5. \A n \in Nat : walk[n] = StepBack(p, n)
  BY <1>4, OneWalk
<1>6. ASSUME NEW q \in PredecessorChain(p) PROVE q \in Forebears(p)
  <2>1. PICK n \in 0 .. session[p].incarnation : q = walk[n] /\ q # None
    BY <1>1
  <2>2. n \in Nat /\ q = StepBack(p, n) /\ n < session[p].incarnation
    <3>1. n \in Nat /\ q = StepBack(p, n) /\ StepBack(p, n) # None
      BY <1>0, <1>5, <2>1
    <3>2. QED
      BY <3>1 DEF StepBack
  <2>3. /\ q \in Session /\ session[q].lineage = session[p].lineage
        /\ session[q].incarnation = session[p].incarnation - n
    BY <2>2, StepBackIs
  <2>4. QED
    BY <1>0, <2>2, <2>3 DEF Forebears
<1>7. ASSUME NEW q \in Forebears(p) PROVE q \in PredecessorChain(p)
  <2>1. /\ q \in Session /\ session[q].lineage = session[p].lineage
        /\ session[q].incarnation <= session[p].incarnation
    BY DEF Forebears
  <2>2. session[q].incarnation \in Nat /\ session[q].incarnation >= 1
    BY <2>1, Numbered
  <2> DEFINE n == session[p].incarnation - session[q].incarnation
  <2>3. n \in Nat /\ n < session[p].incarnation /\ session[q].incarnation = session[p].incarnation - n
    BY <1>0, <2>1, <2>2
  <2> HIDE DEF n
  <2>4. q = StepBack(p, n)
    BY <2>1, <2>3, StepBackIs
  <2>5. n \in 0 .. session[p].incarnation /\ q = walk[n] /\ q # None
    BY <1>0, <1>5, <2>1, <2>3, <2>4, ConstantsDisjoint
  <2>6. QED
    BY <1>1, <2>5
<1>8. QED
  BY <1>6, <1>7

\* So the check of the chain always passes.
LEMMA ChainWalks ==
  ASSUME LineageInv, IncarnationsDistinct, NEW p \in Session, session[p].lineage # None
  PROVE  ChainIsWalkable(p)
<1> SUFFICES ASSUME NEW q \in Forebears(p), session[q].predecessor # None
             PROVE  /\ session[q].predecessor \in Forebears(p)
                    /\ session[session[q].predecessor].incarnation = session[q].incarnation - 1
  BY ChainIs DEF ChainIsWalkable
<1>1. /\ q \in Session /\ session[q].lineage = session[p].lineage
      /\ session[q].incarnation <= session[p].incarnation
  BY DEF Forebears
<1> DEFINE r == session[q].predecessor
<1>2. /\ session[q].incarnation \in Nat /\ session[p].incarnation \in Nat
      /\ r \in Session /\ session[r].lineage = session[q].lineage
      /\ session[r].incarnation = session[q].incarnation - 1
  BY <1>1, Numbered
<1>3. QED
  BY <1>1, <1>2 DEF Forebears

----------------------------------------------------------------------------
(* Custody.  Whoever a live permit's message is bound to can show how it    *)
(* came by it: it owns the permit, or a handoff to it is on record, and    *)
(* what it reconciled itself is on record too.  A confirmed permit has its *)
(* delivery and its receipt.                                               *)

HandoffTo(kind, a, b) == [kind |-> kind, msg |-> a.msg, fence |-> a.fence, to |-> b]

Accounted(a, b, rows, found) ==
  /\ a.state \in Unresolved => b = a.owner \/ HandoffTo("ambiguous", a, b) \in rows
  /\ a.state = "CONFIRMED" =>
       \/ b = a.owner
       \/ HandoffTo("confirmed", a, b) \in rows
       \/ HandoffTo("reconciled", a, b) \in rows
       \/ HandoffTo("ambiguous", a, b) \in rows /\ <<a.msg, a.fence, b>> \in found

Custody ==
  \A a \in attempts : Accounted(a, recipient[a.msg].bound, handoffs, reconciliations)

OwnersAreKnown ==
  \A a \in attempts : session[a.owner].incarnation = a.incarnation

Receipted(a, st, delivered, noted) ==
  a.state = "CONFIRMED" => /\ st \in Surfaced
                           /\ <<a.msg, a.owner>> \in delivered
                           /\ <<a.msg, a.owner, a.fence>> \in noted

ConfirmedIsEvidenced ==
  \A a \in attempts : Receipted(a, recipient[a.msg].state, deliveries, receipts)

HeldInv == OwnersAreKnown /\ ConfirmedIsEvidenced /\ Custody

CustodyInv == SurfaceInv /\ IncarnationsDistinct /\ HeldInv

LEMMA DistinctStep ==
  ASSUME LineageInv, IncarnationsDistinct, [LineageNext]_lineageVars
  PROVE  IncarnationsDistinct'
<1>1. CASE \A q \in Session : /\ session'[q].lineage = session[q].lineage
                              /\ session'[q].incarnation = session[q].incarnation
  BY <1>1 DEF IncarnationsDistinct
<1>2. ASSUME NEW s \in Session, NEW l \in Lineage, NEW r \in Run \cup {None},
             NEW expected, RegisterIncarnation(s, l, r, expected)
      PROVE  IncarnationsDistinct'
  <2>1. WritesSessions(s, l)
    BY <1>2, SessionEffect DEF RegisterIncarnation, LineageInv
  <2>2. lineage[l].headIncarnation \in Nat
    BY DEF LineageInv, LineageTypeOK, LineageRow
  <2>3. ASSUME NEW q \in Session \ {s}, session'[q].lineage = l
        PROVE  session'[q].incarnation # session'[s].incarnation
    <3>1. session[q].lineage = l /\ l # None /\ session'[q].incarnation = session[q].incarnation
      BY <2>1, <2>3, ConstantsDisjoint DEF WritesSessions
    <3>2. session[q].incarnation \in 1 .. lineage[l].headIncarnation
      BY <3>1 DEF LineageInv, ChainIsContiguous
    <3>3. QED
      BY <2>1, <2>2, <3>1, <3>2 DEF WritesSessions
  <2>4. QED
    BY <2>1, <2>3 DEF IncarnationsDistinct, WritesSessions
<1>3. ASSUME NEW s \in Session, RegisterGeneric(s)
      PROVE  IncarnationsDistinct'
  <2>1. /\ \A q \in Session \ {s} : session'[q] = session[q]
        /\ session'[s].lineage = None
    BY <1>3 DEF RegisterGeneric, LineageInv, LineageTypeOK, NoSession
  <2>2. QED
    BY <2>1 DEF IncarnationsDistinct
<1>4. ASSUME NEW s \in Session, CloseSession(s)
      PROVE  IncarnationsDistinct'
  BY <1>1, <1>4 DEF CloseSession, LineageInv, LineageTypeOK, SessionRow
<1>5. CASE session' = session
  BY <1>1, <1>5
<1>6. QED
  BY <1>2, <1>3, <1>4, <1>5 DEF LineageNext, ReserveLaunch, lineageVars

\* A step that binds nothing anew and settles permits only on evidence.
Witnessed(g) ==
  /\ deliveries \subseteq deliveries' /\ receipts \subseteq receipts'
  /\ handoffs \subseteq handoffs' /\ reconciliations \subseteq reconciliations'
  /\ \A m \in Message : recipient[m].state \in Surfaced => recipient'[m].state \in Surfaced
  /\ \A y \in attempts : y.state # "CONFIRMED" /\ g[y].state = "CONFIRMED" =>
       /\ recipient'[y.msg].state \in Surfaced
       /\ <<y.msg, y.owner>> \in deliveries'
       /\ <<y.msg, y.owner, y.fence>> \in receipts'
       /\ \/ recipient[y.msg].bound = y.owner
          \/ <<y.msg, y.fence, recipient[y.msg].bound>> \in reconciliations'

LEMMA CustodyQuiet ==
  ASSUME CustodyInv, session' = session, KeepsHolders, NEW g, Settles(g), Witnessed(g)
  PROVE  HeldInv'
<1>0. /\ TypeOK /\ LivePermitIsCurrent /\ OwnersAreKnown /\ ConfirmedIsEvidenced /\ Custody
      /\ \A y \in attempts : y.msg \in Message /\ y.state \in Unresolved \cup {"CONFIRMED", "ABORTED"}
  BY DEF CustodyInv, SurfaceInv, PermitInv, HeldInv, TypeOK, AttemptRow
<1>1. ASSUME NEW x \in attempts'
      PROVE  /\ session'[x.owner].incarnation = x.incarnation
             /\ Receipted(x, recipient'[x.msg].state, deliveries', receipts')
             /\ Accounted(x, recipient'[x.msg].bound, handoffs', reconciliations')
  <2>1. PICK y \in attempts : x = g[y]
    BY DEF Settles
  <2>2. /\ x.msg = y.msg /\ x.fence = y.fence /\ x.owner = y.owner /\ x.incarnation = y.incarnation
        /\ \/ x.state = y.state
           \/ y.state = "ACTIVE"
           \/ y.state = "AMBIGUOUS" /\ x.state = "CONFIRMED"
    BY <2>1 DEF Settles
  <2>3. session'[x.owner].incarnation = x.incarnation
    BY <1>0, <2>2 DEF OwnersAreKnown
  <2>4. Receipted(x, recipient'[x.msg].state, deliveries', receipts')
    <3>1. CASE y.state = "CONFIRMED"
      BY <1>0, <2>2, <3>1 DEF ConfirmedIsEvidenced, Receipted, Witnessed
    <3>2. CASE y.state # "CONFIRMED" /\ x.state = "CONFIRMED"
      BY <2>1, <2>2, <3>2 DEF Receipted, Witnessed
    <3>3. CASE x.state # "CONFIRMED"
      BY <3>3 DEF Receipted
    <3>4. QED
      BY <3>1, <3>2, <3>3
  <2>5. Accounted(x, recipient'[x.msg].bound, handoffs', reconciliations')
    <3>1. CASE y.state = "ABORTED"
      BY <2>2, <3>1 DEF Accounted, Unresolved
    <3>2. CASE y.state # "ABORTED"
      <4>1. recipient'[x.msg].bound = recipient[y.msg].bound
        BY <1>0, <2>2, <3>2 DEF LivePermitIsCurrent, KeepsHolders
      <4> DEFINE b == recipient[y.msg].bound
      <4>2. Accounted(y, b, handoffs, reconciliations)
        BY <1>0 DEF Custody
      <4>3. y.state # "CONFIRMED" /\ x.state = "CONFIRMED" =>
              b = y.owner \/ <<y.msg, y.fence, b>> \in reconciliations'
        BY <2>1 DEF Witnessed
      <4> HIDE DEF b
      <4>4. /\ handoffs \subseteq handoffs' /\ reconciliations \subseteq reconciliations'
            /\ \A kind : HandoffTo(kind, x, b) = HandoffTo(kind, y, b)
        BY <2>2 DEF Witnessed, HandoffTo
      <4>5. Accounted(x, b, handoffs', reconciliations')
        <5>1. CASE x.state \in Unresolved
          <6>1. y.state \in Unresolved
            BY <2>2, <5>1 DEF Unresolved
          <6>2. b = x.owner \/ HandoffTo("ambiguous", x, b) \in handoffs'
            BY <2>2, <4>2, <4>4, <6>1 DEF Accounted
          <6>3. QED
            BY <5>1, <6>2 DEF Accounted, Unresolved
        <5>2. CASE x.state = "CONFIRMED" /\ y.state = "CONFIRMED"
          BY <2>2, <4>2, <4>4, <5>2 DEF Accounted, Unresolved
        <5>3. CASE x.state = "CONFIRMED" /\ y.state # "CONFIRMED"
          <6>1. y.state \in Unresolved
            BY <1>0, <3>2, <5>3
          <6>2. b = y.owner \/ (HandoffTo("ambiguous", x, b) \in handoffs'
                                /\ <<x.msg, x.fence, b>> \in reconciliations')
            BY <2>2, <4>2, <4>3, <4>4, <5>3, <6>1 DEF Accounted
          <6>3. QED
            BY <2>2, <5>3, <6>2 DEF Accounted, Unresolved
        <5>4. QED
          BY <5>1, <5>2, <5>3 DEF Accounted
      <4>6. QED
        BY <4>1, <4>5 DEF b
    <3>3. QED
      BY <3>1, <3>2
  <2>6. QED
    BY <2>3, <2>4, <2>5
<1>2. QED
  BY <1>1 DEF HeldInv, OwnersAreKnown, ConfirmedIsEvidenced, Custody

LEMMA Watching ==
  ASSUME SurfaceInv
  PROVE  /\ TypeOK /\ FencesDistinct /\ KnownSessions /\ LivePermitIsCurrent
         /\ recipient \in [Message -> RecipientRow]
         /\ \A a \in attempts : a \in AttemptRow /\ a.msg \in Message /\ a.owner \in Session
         /\ None \notin Session
BY ConstantsDisjoint DEF SurfaceInv, PermitInv, TypeOK, AttemptRow

\* A regressive receipt leaves the state, and any other is of the surfaced ones.
LEMMA StateStaysSurfaced ==
  ASSUME SurfaceInv, NEW s, NEW m \in Message, NEW st \in Surfaced, SetState(m, s, st)
  PROVE  /\ \A n \in Message : recipient[n].state \in Surfaced => recipient'[n].state \in Surfaced
         /\ recipient'[m].state \in Surfaced
<1> DEFINE row == [recipient[m] EXCEPT !.bound = s,
                     !.state = IF Regressive(m, st) THEN recipient[m].state ELSE st]
<1>1. recipient \in [Message -> RecipientRow] /\ recipient[m] \in RecipientRow
  BY Watching
<1>2. row.state = IF Regressive(m, st) THEN recipient[m].state ELSE st
  BY <1>1 DEF RecipientRow
<1>3. row.state \in Surfaced
  <2>1. CASE Regressive(m, st)
    <3>1. recipient[m].state # "PENDING"
      BY <2>1 DEF Regressive, Rank, Surfaced
    <3>2. QED
      BY <1>1, <1>2, <2>1, <3>1 DEF Regressive, RecipientRow
  <2>2. CASE ~Regressive(m, st)
    BY <1>2, <2>2
  <2>3. QED
    BY <2>1, <2>2
<1> HIDE DEF row
<1>4. recipient' = [recipient EXCEPT ![m] = row]
  BY DEF SetState, row
<1>5. recipient'[m] = row /\ \A n \in Message \ {m} : recipient'[n] = recipient[n]
  BY <1>1, <1>4
<1>6. QED
  BY <1>3, <1>5

\* The steps that only move a recipient.
LEMMA IdleCustody ==
  ASSUME CustodyInv, session' = session, KeepsHolders, attempts' = attempts,
         deliveries \subseteq deliveries', receipts \subseteq receipts',
         UNCHANGED <<handoffs, reconciliations>>,
         \A m \in Message : recipient[m].state \in Surfaced => recipient'[m].state \in Surfaced
  PROVE  HeldInv'
<1> DEFINE g == [y \in attempts |-> y]
<1>1. Settles(g)
  BY IdleSettles DEF CustodyInv, SurfaceInv
<1>2. Witnessed(g)
  BY DEF Witnessed
<1> HIDE DEF g
<1>3. QED
  BY <1>1, <1>2, CustodyQuiet

LEMMA PostCustody ==
  ASSUME CustodyInv, NEW m \in Message, NEW target \in Session \cup {None},
         PostMessage(m, target)
  PROVE  HeldInv'
<1>0. KnownSessions /\ recipient \in [Message -> RecipientRow]
  BY Watching DEF CustodyInv
<1>1. recipient[m].bound = None
  BY <1>0 DEF PostMessage, KnownSessions
<1>2. KeepsHolders
  BY <1>0, <1>1 DEF KeepsHolders, PostMessage, RecipientRow, KnownSessions, Registered
<1>3. \A n \in Message : recipient'[n].state = recipient[n].state
  BY <1>0 DEF PostMessage, RecipientRow
<1>4. QED
  BY <1>2, <1>3, IdleCustody DEF PostMessage, evidence

LEMMA RecipientCustody ==
  ASSUME CustodyInv, NEW s \in Session, NEW m \in Message,
         ClaimRecipient(s, m) \/ FailDelivery(s, m)
  PROVE  HeldInv'
<1>0. KnownSessions /\ recipient \in [Message -> RecipientRow]
  BY Watching DEF CustodyInv
<1>1. CASE ClaimRecipient(s, m)
  <2>1. KeepsHolders
    BY <1>0, <1>1 DEF KeepsHolders, ClaimRecipient, RecipientRow, KnownSessions, IsOpen, Registered
  <2>2. \A n \in Message : recipient'[n].state = recipient[n].state
    BY <1>0, <1>1 DEF ClaimRecipient, RecipientRow
  <2>3. QED
    BY <1>1, <2>1, <2>2, IdleCustody DEF ClaimRecipient, evidence
<1>2. CASE FailDelivery(s, m)
  <2>1. KeepsHolders
    BY <1>0, <1>2 DEF KeepsHolders, FailDelivery, RecipientRow, KnownSessions, IsOpen, Registered
  <2>2. \A n \in Message : recipient[n].state \in Surfaced => recipient'[n].state = recipient[n].state
    BY <1>0, <1>2 DEF FailDelivery, RecipientRow
  <2>3. QED
    BY <1>2, <2>1, <2>2, IdleCustody DEF FailDelivery, evidence
<1>3. QED
  BY <1>1, <1>2

LEMMA DeliverCustody ==
  ASSUME CustodyInv, NEW s \in Session, NEW m \in Message, DeliverWithoutPermit(s, m)
  PROVE  HeldInv'
<1>0. SurfaceInv /\ "DELIVERED" \in Surfaced
  BY DEF CustodyInv, Surfaced
<1>1. KeepsHolders
  BY <1>0, SetStateEffect DEF DeliverWithoutPermit
<1>2. \A n \in Message : recipient[n].state \in Surfaced => recipient'[n].state \in Surfaced
  BY <1>0, StateStaysSurfaced DEF DeliverWithoutPermit
<1>3. QED
  BY <1>1, <1>2, IdleCustody DEF DeliverWithoutPermit

LEMMA ReceiptWithPermitCustody ==
  ASSUME CustodyInv, NEW s \in Session, NEW a \in attempts, NEW st \in Downstream,
         ReceiptWithPermit(s, a, st)
  PROVE  HeldInv'
<1>0. SurfaceInv /\ st \in Surfaced /\ a.msg \in Message /\ recipient[a.msg].posted
  <2>1. SurfaceInv /\ KnownSessions /\ a.msg \in Message
    BY Watching DEF CustodyInv
  <2>2. QED
    BY <2>1, ConstantsDisjoint DEF Surfaced, Downstream, KnownSessions, ReceiptWithPermit
<1>1. KeepsHolders
  BY <1>0, SetStateEffect DEF ReceiptWithPermit
<1>2. \A n \in Message : recipient[n].state \in Surfaced => recipient'[n].state \in Surfaced
  BY <1>0, StateStaysSurfaced DEF ReceiptWithPermit
<1>3. QED
  BY <1>1, <1>2, IdleCustody DEF ReceiptWithPermit

\* Settling one permit, as the actions write it.
LEMMA ResolveCustody ==
  ASSUME CustodyInv, session' = session, KeepsHolders, NEW a \in attempts,
         NEW st \in {"AMBIGUOUS", "CONFIRMED", "ABORTED"}, attempts' = Resolve(a, st),
         a.state = "ACTIVE" \/ (a.state = "AMBIGUOUS" /\ st = "CONFIRMED"),
         deliveries \subseteq deliveries', receipts \subseteq receipts',
         handoffs \subseteq handoffs', reconciliations \subseteq reconciliations',
         \A m \in Message : recipient[m].state \in Surfaced => recipient'[m].state \in Surfaced,
         st = "CONFIRMED" =>
           /\ recipient'[a.msg].state \in Surfaced
           /\ <<a.msg, a.owner>> \in deliveries'
           /\ <<a.msg, a.owner, a.fence>> \in receipts'
           /\ \/ recipient[a.msg].bound = a.owner
              \/ <<a.msg, a.fence, recipient[a.msg].bound>> \in reconciliations'
  PROVE  HeldInv'
<1> DEFINE g == [y \in attempts |-> IF y = a THEN [a EXCEPT !.state = st] ELSE y]
<1>0. TypeOK /\ FencesDistinct /\ a \in AttemptRow
  BY Watching DEF CustodyInv
<1>1. Settles(g)
  BY <1>0, ResolveSettles
<1>2. ASSUME NEW y \in attempts, y.state # "CONFIRMED", g[y].state = "CONFIRMED"
      PROVE  y = a /\ st = "CONFIRMED"
  BY <1>0, <1>2 DEF AttemptRow
<1>3. Witnessed(g)
  <2> HIDE DEF g
  <2>1. QED
    BY <1>2 DEF Witnessed
<1> HIDE DEF g
<1>4. QED
  BY <1>1, <1>3, CustodyQuiet

LEMMA SettleCustody ==
  ASSUME CustodyInv, NEW s \in Session, NEW a \in attempts,
         NEW outcome \in {"ABORTED", "AMBIGUOUS"}, SettleSurface(s, a, outcome)
  PROVE  HeldInv'
<1>0. /\ SurfaceInv /\ KnownSessions /\ recipient \in [Message -> RecipientRow]
      /\ a.msg \in Message
  BY Watching DEF CustodyInv
<1>1. recipient' = recipient
  <2>1. HolderAfter(s) = s
    BY <1>0, HolderIsSelf DEF SurfaceInv, SettleSurface
  <2>2. recipient[a.msg].bound = s => [recipient EXCEPT ![a.msg].bound = s] = recipient
    BY <1>0 DEF RecipientRow
  <2>3. QED
    BY <2>1, <2>2 DEF SettleSurface, ReleaseTo
<1>2. KeepsHolders
  BY <1>0, <1>1 DEF KeepsHolders, KnownSessions, SettleSurface, Registered
<1>3. QED
  BY <1>1, <1>2, ResolveCustody DEF SettleSurface, evidence

LEMMA ReconcileCustody ==
  ASSUME CustodyInv, NEW s \in Session, NEW a \in attempts, ReconcileSurface(s, a)
  PROVE  HeldInv'
<1> DEFINE m == a.msg
           st == IF recipient[m].state \in {"PENDING", "FAILED"} THEN "DELIVERED"
                 ELSE recipient[m].state
<1>0. /\ KnownSessions /\ recipient \in [Message -> RecipientRow] /\ m \in Message
  BY Watching DEF CustodyInv
<1>1. recipient' = [recipient EXCEPT ![m].state = st]
  BY DEF ReconcileSurface
<1>2. st \in Surfaced
  BY <1>0 DEF RecipientRow, Surfaced
<1>3. \A n \in Message : /\ recipient'[n].fence = recipient[n].fence
                         /\ recipient'[n].bound = recipient[n].bound
                         /\ recipient'[n].posted = recipient[n].posted
                         /\ recipient'[n].state = IF n = m THEN st ELSE recipient[n].state
  BY <1>0, <1>1 DEF RecipientRow
<1>4. KeepsHolders
  BY <1>0, <1>3 DEF KeepsHolders, KnownSessions, ReconcileSurface, Registered
<1>5. /\ \A n \in Message : recipient[n].state \in Surfaced => recipient'[n].state \in Surfaced
      /\ recipient'[m].state \in Surfaced
  BY <1>0, <1>2, <1>3
<1>6. QED
  BY <1>4, <1>5, ResolveCustody DEF ReconcileSurface

LEMMA ConfirmCustody ==
  ASSUME CustodyInv, NEW s \in Session, NEW a \in attempts, ConfirmDelivery(s, a)
  PROVE  HeldInv'
<1>0. /\ SurfaceInv /\ a.msg \in Message /\ HolderAfter(s) = s /\ recipient[a.msg].posted
      /\ "DELIVERED" \in Surfaced
  <2>1. SurfaceInv /\ KnownSessions /\ a.msg \in Message /\ None \notin Session
    BY Watching DEF CustodyInv
  <2>2. HolderAfter(s) = s
    BY <2>1, HolderIsSelf DEF ConfirmDelivery, SurfaceInv
  <2>3. recipient[a.msg].posted
    BY <2>1 DEF KnownSessions, ConfirmDelivery
  <2>4. QED
    BY <2>1, <2>2, <2>3 DEF Surfaced
<1>1. KeepsHolders
  BY <1>0, SetStateEffect DEF ConfirmDelivery
<1>2. /\ \A n \in Message : recipient[n].state \in Surfaced => recipient'[n].state \in Surfaced
      /\ recipient'[a.msg].state \in Surfaced
  BY <1>0, StateStaysSurfaced DEF ConfirmDelivery
<1>3. QED
  BY <1>1, <1>2, ResolveCustody DEF ConfirmDelivery, Unresolved

LEMMA ReceiptWithoutPermitCustody ==
  ASSUME CustodyInv, NEW s \in Session, NEW m \in Message, NEW st \in Downstream,
         ReceiptWithoutPermit(s, m, st)
  PROVE  HeldInv'
<1> DEFINE own == {a \in UnresolvedOf(m) : a.owner = s}
           g == [y \in attempts |-> IF y \in own THEN [y EXCEPT !.state = "CONFIRMED"] ELSE y]
<1>0. /\ SurfaceInv /\ TypeOK /\ LivePermitIsCurrent /\ HolderAfter(s) = s
      /\ \A a \in attempts : a \in AttemptRow
      /\ recipient[m].posted /\ recipient[m].bound \in {s, None} /\ st \in Surfaced
  <2>1. SurfaceInv /\ TypeOK /\ LivePermitIsCurrent /\ \A a \in attempts : a \in AttemptRow
    BY Watching DEF CustodyInv
  <2>2. HolderAfter(s) = s
    BY <2>1, HolderIsSelf DEF SurfaceInv, ReceiptWithoutPermit
  <2>3. QED
    BY <2>1, <2>2 DEF ReceiptWithoutPermit, Surfaced, Downstream
<1>1. SetState(m, s, st)
  BY <1>0 DEF ReceiptWithoutPermit
<1>2. KeepsHolders
  BY <1>0, <1>1, SetStateEffect DEF ReceiptWithoutPermit
<1>3. /\ \A n \in Message : recipient[n].state \in Surfaced => recipient'[n].state \in Surfaced
      /\ recipient'[m].state \in Surfaced
  BY <1>0, <1>1, StateStaysSurfaced
<1>4. \A a \in own : /\ a \in attempts /\ a.msg = m /\ a.owner = s /\ a.state \in Unresolved
                     /\ recipient[m].bound = s
  BY <1>0 DEF UnresolvedOf, LivePermitIsCurrent, Unresolved
<1>5. /\ attempts' = (attempts \ own) \cup {[a EXCEPT !.state = "CONFIRMED"] : a \in own}
      /\ deliveries' = deliveries \cup {<<m, s>> : a \in own}
      /\ receipts' = receipts \cup {<<m, s, a.fence>> : a \in own}
      /\ UNCHANGED <<session, handoffs, reconciliations>>
  BY DEF ReceiptWithoutPermit
<1> HIDE DEF own
<1>6. \A y \in attempts :
        /\ g[y] \in AttemptRow
        /\ g[y].msg = y.msg /\ g[y].fence = y.fence /\ g[y].owner = y.owner
        /\ g[y].incarnation = y.incarnation
        /\ y \notin own => g[y].state = y.state
        /\ y \in own => g[y].state = "CONFIRMED"
  BY <1>0 DEF AttemptRow
<1>7. attempts' = {g[y] : y \in attempts} /\ g \in [attempts -> AttemptRow]
  BY <1>4, <1>5, <1>6
<1> HIDE DEF g
<1>8. Settles(g)
  BY <1>4, <1>6, <1>7 DEF Settles, Unresolved
<1>9. ASSUME NEW y \in attempts, y.state # "CONFIRMED", g[y].state = "CONFIRMED"
      PROVE  /\ recipient'[y.msg].state \in Surfaced
             /\ <<y.msg, y.owner>> \in deliveries'
             /\ <<y.msg, y.owner, y.fence>> \in receipts'
             /\ recipient[y.msg].bound = y.owner
  <2>1. y \in own
    BY <1>6, <1>9
  <2>2. QED
    BY <1>3, <1>4, <1>5, <2>1
<1>10. Witnessed(g)
  BY <1>3, <1>5, <1>9 DEF Witnessed
<1>11. QED
  BY <1>2, <1>5, <1>8, <1>10, CustodyQuiet

LEMMA BeginCustody ==
  ASSUME CustodyInv, NEW s \in Session, NEW m \in Message, BeginSurface(s, m)
  PROVE  HeldInv'
<1> DEFINE new == [msg |-> m, owner |-> s, incarnation |-> session[s].incarnation,
                   fence |-> recipient[m].fence + 1, state |-> "ACTIVE"]
           row == [recipient[m] EXCEPT !.bound = s, !.fence = recipient[m].fence + 1]
<1>0. /\ SurfaceInv /\ OwnersAreKnown /\ ConfirmedIsEvidenced /\ Custody
      /\ recipient \in [Message -> RecipientRow] /\ recipient[m] \in RecipientRow
  BY Watching DEF CustodyInv, HeldInv
<1>1. /\ MayBegin(s, m) /\ attempts' = attempts \cup {new}
      /\ recipient' = [recipient EXCEPT ![m] = row]
      /\ UNCHANGED <<session, deliveries, receipts, handoffs, reconciliations>>
  BY DEF BeginSurface, evidence
<1>2. /\ new.msg = m /\ new.owner = s /\ new.incarnation = session[s].incarnation
      /\ new.state = "ACTIVE"
  OBVIOUS
<1>3. row.bound = s
  BY <1>0 DEF RecipientRow
<1>4. \A a \in attempts : a.msg = m => a.state = "ABORTED"
  BY <1>0, <1>1, OnlyAbortedBehind
<1> HIDE DEF new, row
<1>5. recipient'[m] = row /\ \A n \in Message \ {m} : recipient'[n] = recipient[n]
  BY <1>0, <1>1
<1>6. ASSUME NEW x \in attempts'
      PROVE  /\ session'[x.owner].incarnation = x.incarnation
             /\ Receipted(x, recipient'[x.msg].state, deliveries', receipts')
             /\ Accounted(x, recipient'[x.msg].bound, handoffs', reconciliations')
  <2>1. CASE x = new
    BY <1>1, <1>2, <1>3, <1>5, <2>1 DEF Receipted, Accounted
  <2>2. CASE x \in attempts /\ x.msg = m
    BY <1>0, <1>1, <1>4, <2>2 DEF Receipted, Accounted, Unresolved, OwnersAreKnown
  <2>3. CASE x \in attempts /\ x.msg # m
    <3>1. recipient'[x.msg] = recipient[x.msg]
      BY <1>0, <1>5, <2>3, Watching
    <3>2. QED
      BY <1>0, <1>1, <2>3, <3>1 DEF OwnersAreKnown, ConfirmedIsEvidenced, Custody
  <2>4. QED
    BY <1>1, <2>1, <2>2, <2>3
<1>7. QED
  BY <1>6 DEF HeldInv, OwnersAreKnown, ConfirmedIsEvidenced, Custody

\* A replacement records a handoff for every live permit whose message moves,
\* of the kind that says how the predecessor came by it.
LEMMA ReplaceCustody ==
  ASSUME CustodyInv, NEW s \in Session, NEW l \in Lineage, NEW r \in Run \cup {None},
         NEW expected, RegisterSession(s, l, r, expected)
  PROVE  HeldInv'
<1> DEFINE p == lineage[l].head
           moving == MovingFrom(p)
           held == {a \in attempts : a.msg \in moving /\ a.state # "ABORTED"}
           g == [a \in attempts |-> IF a \in held /\ a.state = "ACTIVE"
                                    THEN [a EXCEPT !.state = "AMBIGUOUS"] ELSE a]
<1>0. /\ SurfaceInv /\ LineageTypeOK /\ OwnersAreKnown /\ ConfirmedIsEvidenced /\ Custody
      /\ KnownSessions /\ recipient \in [Message -> RecipientRow]
      /\ \A a \in attempts : a \in AttemptRow /\ a.msg \in Message /\ a.owner \in Session
  BY Watching DEF CustodyInv, HeldInv, TypeOK
<1>1. WritesSessions(s, l) /\ ~Registered(s)
  BY <1>0, SessionEffect DEF RegisterSession, RegisterIncarnation
<1>2. \A a \in attempts : session'[a.owner].incarnation = a.incarnation
  BY <1>0, <1>1 DEF WritesSessions, KnownSessions, OwnersAreKnown
<1>3. UNCHANGED <<deliveries, receipts, reconciliations>>
  BY DEF RegisterSession, evidence
<1>4. CASE p = None
  <2>1. UNCHANGED <<recipient, attempts, handoffs>>
    BY <1>4 DEF RegisterSession
  <2>2. QED
    BY <1>0, <1>2, <1>3, <2>1 DEF HeldInv, OwnersAreKnown, ConfirmedIsEvidenced, Custody
<1>5. CASE p # None
  <2>1. TransferSurfaces(p, s)
    BY <1>5 DEF RegisterSession
  <2>2. \A m \in Message : /\ recipient'[m].state = recipient[m].state
                           /\ recipient'[m].bound = IF m \in moving THEN s ELSE recipient[m].bound
    BY <1>0, <2>1 DEF TransferSurfaces, RecipientRow
  <2>3. attempts' = {g[a] : a \in attempts}
    BY <2>1 DEF TransferSurfaces
  <2>4. \A a \in attempts :
          /\ g[a].msg = a.msg /\ g[a].fence = a.fence /\ g[a].owner = a.owner
          /\ g[a].incarnation = a.incarnation
          /\ g[a].state = IF a.msg \in moving /\ a.state = "ACTIVE" THEN "AMBIGUOUS" ELSE a.state
    BY <1>0 DEF AttemptRow
  <2>5. /\ handoffs \subseteq handoffs'
        /\ \A a \in attempts : a.msg \in moving /\ a.state # "ABORTED" =>
             HandoffTo(HandoffKind(p, a), a, s) \in handoffs'
    BY <2>1 DEF TransferSurfaces, HandoffTo
  <2> HIDE DEF g, moving
  <2>6. ASSUME NEW x \in attempts'
        PROVE  /\ session'[x.owner].incarnation = x.incarnation
               /\ Receipted(x, recipient'[x.msg].state, deliveries', receipts')
               /\ Accounted(x, recipient'[x.msg].bound, handoffs', reconciliations')
    <3>1. PICK a \in attempts : x = g[a]
      BY <2>3
    <3>2. /\ x.msg = a.msg /\ x.fence = a.fence /\ x.owner = a.owner
          /\ x.incarnation = a.incarnation /\ a.msg \in Message
          /\ x.state = IF a.msg \in moving /\ a.state = "ACTIVE" THEN "AMBIGUOUS" ELSE a.state
      BY <1>0, <2>4, <3>1
    <3>3. \A kind, b : HandoffTo(kind, x, b) = HandoffTo(kind, a, b)
      BY <3>2 DEF HandoffTo
    <3>4. session'[x.owner].incarnation = x.incarnation
      BY <1>2, <3>2
    <3>5. Receipted(x, recipient'[x.msg].state, deliveries', receipts')
      BY <1>0, <1>3, <2>2, <3>2 DEF ConfirmedIsEvidenced, Receipted
    <3>6. CASE a.msg \notin moving
      <4>1. recipient'[x.msg].bound = recipient[a.msg].bound /\ x.state = a.state
        BY <2>2, <3>2, <3>6
      <4>2. Accounted(a, recipient[a.msg].bound, handoffs, reconciliations)
        BY <1>0 DEF Custody
      <4>3. Accounted(x, recipient[a.msg].bound, handoffs', reconciliations')
        BY <1>3, <2>5, <3>2, <3>3, <4>1, <4>2 DEF Accounted
      <4>4. QED
        BY <3>4, <3>5, <4>1, <4>3
    <3>7. CASE a.msg \in moving
      <4>1. recipient'[x.msg].bound = s
        BY <2>2, <3>2, <3>7
      <4>2. a.state # "ABORTED" => HandoffTo(HandoffKind(p, a), x, s) \in handoffs'
        BY <2>5, <3>3, <3>7
      <4>3. /\ x.state \in Unresolved => a.state \in Unresolved
            /\ x.state = "CONFIRMED" => a.state = "CONFIRMED"
        BY <3>2 DEF Unresolved
      <4>4. Accounted(x, s, handoffs', reconciliations')
        BY <4>2, <4>3 DEF Accounted, HandoffKind, Unresolved
      <4>5. QED
        BY <3>4, <3>5, <4>1, <4>4
    <3>8. QED
      BY <3>6, <3>7
  <2>7. QED
    BY <2>6 DEF HeldInv, OwnersAreKnown, ConfirmedIsEvidenced, Custody
<1>6. QED
  BY <1>4, <1>5

LEMMA SessionCustody ==
  ASSUME CustodyInv, UNCHANGED surfaceVars,
         \A q \in Session : Registered(q) => session'[q].incarnation = session[q].incarnation
  PROVE  HeldInv'
<1>1. /\ OwnersAreKnown /\ ConfirmedIsEvidenced /\ Custody /\ KnownSessions
      /\ \A a \in attempts : a.owner \in Session
  BY Watching DEF CustodyInv, HeldInv
<1>2. QED
  BY <1>1 DEF surfaceVars, HeldInv, OwnersAreKnown, ConfirmedIsEvidenced, Custody, KnownSessions

LEMMA CustodyStep == CustodyInv /\ [Next]_vars => CustodyInv'
<1> SUFFICES ASSUME CustodyInv, [Next]_vars PROVE CustodyInv'
  OBVIOUS
<1>1. SurfaceInv' /\ LineageInv /\ LineageTypeOK
  BY SurfaceNextInv DEF CustodyInv, SurfaceInv, LineageInv
<1>2. IncarnationsDistinct'
  BY <1>1, StepIsLineageStep, DistinctStep DEF CustodyInv
<1> SUFFICES HeldInv'
  BY <1>1, <1>2 DEF CustodyInv
<1>3. CASE SessionStep
  <2>1. ASSUME NEW s \in Session, RegisterGeneric(s), UNCHANGED surfaceVars
        PROVE  HeldInv'
    <3>1. \A q \in Session : Registered(q) => session'[q].incarnation = session[q].incarnation
      BY <1>1, <2>1 DEF RegisterGeneric, LineageTypeOK
    <3>2. QED
      BY <2>1, <3>1, SessionCustody
  <2>2. ASSUME NEW s \in Session, CloseSession(s), UNCHANGED surfaceVars
        PROVE  HeldInv'
    <3>1. \A q \in Session : Registered(q) => session'[q].incarnation = session[q].incarnation
      BY <1>1, <2>2 DEF CloseSession, LineageTypeOK, SessionRow
    <3>2. QED
      BY <2>2, <3>1, SessionCustody
  <2>3. ASSUME NEW r \in Run, NEW l \in Lineage, ReserveLaunch(r, l), UNCHANGED surfaceVars
        PROVE  HeldInv'
    BY <2>3, SessionCustody DEF ReserveLaunch
  <2>4. QED
    BY <1>3, <2>1, <2>2, <2>3, ReplaceCustody DEF SessionStep
<1>4. CASE RecipientStep
  <2>1. ASSUME NEW m \in Message, NEW target \in Session \cup {None}, PostMessage(m, target)
        PROVE  HeldInv'
    BY <2>1, PostCustody
  <2>2. ASSUME NEW s \in Session, NEW m \in Message, ClaimRecipient(s, m) \/ FailDelivery(s, m)
        PROVE  HeldInv'
    BY <2>2, RecipientCustody
  <2>3. QED
    BY <1>4, <2>1, <2>2, DeliverCustody, ReceiptWithoutPermitCustody DEF RecipientStep
<1>5. CASE PermitStep
  BY <1>5, BeginCustody, SettleCustody, ReconcileCustody, ConfirmCustody, ReceiptWithPermitCustody
     DEF PermitStep
<1>6. CASE UNCHANGED vars
  <2>1. UNCHANGED surfaceVars /\ session' = session
    BY <1>6 DEF vars, surfaceVars
  <2>2. QED
    BY <2>1, SessionCustody
<1>7. QED
  BY <1>3, <1>4, <1>5, <1>6 DEF Next

\* Every reachable state of any instance can account for its live permits.
THEOREM CustodyInvariant == Spec => []CustodyInv
<1>1. Init => CustodyInv
  BY SurfaceInitInv DEF Init, LineageInit, NoSession, CustodyInv, IncarnationsDistinct, HeldInv,
     OwnersAreKnown, ConfirmedIsEvidenced, Custody
<1>2. CustodyInv /\ [Next]_vars => CustodyInv'
  BY CustodyStep
<1>3. QED
  BY <1>1, <1>2, PTL DEF Spec

\* What a head holds: permits of its own lineage, no later than itself, and
\* one live permit for each message.
LEMMA HeadHolds ==
  ASSUME CustodyInv, NEW l \in Lineage, NEW p, p = lineage[l].head, p # None,
         NEW a \in attempts, a.state # "ABORTED", recipient[a.msg].bound = p
  PROVE  /\ p \in Session /\ session[p].lineage = l /\ l # None
         /\ a.owner \in Forebears(p) /\ SameLineage(a, p)
         /\ recipient[a.msg].fence = a.fence
         /\ session[a.owner].incarnation = a.incarnation
<1>1. /\ SurfaceInv /\ LineageInv /\ LivePermitIsCurrent /\ OwnersAreKnown
      /\ a.msg \in Message /\ a.owner \in Session /\ None \notin Session
  BY Watching DEF CustodyInv, SurfaceInv, HeldInv
<1>2. /\ p \in Session /\ session[p].lineage = l
      /\ session[p].incarnation = lineage[l].headIncarnation
  BY <1>1 DEF LineageInv, LineageTypeOK, LineageRow, ChainIsContiguous
<1>3. l # None
  BY ConstantsDisjoint
<1>4. session[a.owner].lineage = l
  BY <1>1, <1>2 DEF LivePermitIsCurrent, SameLineage
<1>5. session[a.owner].incarnation \in 1 .. lineage[l].headIncarnation
  BY <1>1, <1>3, <1>4 DEF LineageInv, ChainIsContiguous
<1>6. lineage[l].headIncarnation \in Nat
  BY <1>1 DEF LineageInv, LineageTypeOK, LineageRow
<1>7. a.owner \in Forebears(p)
  BY <1>1, <1>2, <1>4, <1>5, <1>6 DEF Forebears
<1>8. SameLineage(a, p)
  BY <1>2, <1>3, <1>4 DEF SameLineage
<1>9. QED
  BY <1>1, <1>2, <1>3, <1>7, <1>8 DEF LivePermitIsCurrent, OwnersAreKnown

LEMMA HeadHandsOver ==
  ASSUME CustodyInv, NEW l \in Lineage, lineage[l].head # None
  PROVE  HandoffValid(lineage[l].head)
<1> DEFINE p == lineage[l].head
<1>1. SurfaceInv /\ LineageInv /\ IncarnationsDistinct /\ ConfirmedIsEvidenced /\ Custody
  BY DEF CustodyInv, SurfaceInv, HeldInv
<1>2. p \in Session /\ session[p].lineage = l /\ l # None
  BY <1>1, ConstantsDisjoint DEF LineageInv, LineageTypeOK, LineageRow, ChainIsContiguous
<1>3. ChainIsWalkable(p)
  BY <1>1, <1>2, ChainWalks
<1>4. PredecessorChain(p) = Forebears(p)
  BY <1>1, <1>2, ChainIs
<1>5. ASSUME NEW m \in MovingFrom(p), NEW a \in UnresolvedOf(m)
      PROVE  UnresolvedHandoffValid(p, a)
  <2>1. a \in attempts /\ a.msg = m /\ a.state \in Unresolved /\ recipient[m].bound = p
    BY DEF UnresolvedOf, MovingFrom
  <2>2. a.state # "ABORTED"
    BY <2>1 DEF Unresolved
  <2>3. \A c \in attempts : c.msg = m /\ c.state # "ABORTED" => c = a
    BY <1>1, <2>1, <2>2, OneLivePermit
  <2>4. UnresolvedOf(m) = {a}
    BY <2>1, <2>3 DEF UnresolvedOf, Unresolved
  <2>5. /\ a.owner \in Forebears(p) /\ recipient[m].fence = a.fence
        /\ session[a.owner].incarnation = a.incarnation
    BY <2>1, <2>2, HeadHolds
  <2>6. QED
    BY <1>4, <2>1, <2>4, <2>5 DEF UnresolvedHandoffValid
<1>6. ASSUME NEW m \in MovingFrom(p), NEW a \in ConfirmedOf(m)
      PROVE  ConfirmedHandoffValid(p, a)
  <2>1. /\ a \in attempts /\ a.msg = m /\ a.state = "CONFIRMED" /\ recipient[m].bound = p
        /\ recipient[m].state \in Transferable
    BY DEF ConfirmedOf, MovingFrom
  <2>2. \A c \in attempts : c.msg = m /\ c.state # "ABORTED" => c = a
    BY <1>1, <2>1, OneLivePermit
  <2>3. ConfirmedOf(m) = {a} /\ UnresolvedOf(m) = {}
    BY <2>1, <2>2 DEF ConfirmedOf, UnresolvedOf, Unresolved
  <2>4. /\ a.owner \in Forebears(p) /\ SameLineage(a, p) /\ recipient[m].fence = a.fence
        /\ session[a.owner].incarnation = a.incarnation
    BY <2>1, HeadHolds
  <2>5. Receipted(a, recipient[m].state, deliveries, receipts)
    BY <1>1, <2>1 DEF ConfirmedIsEvidenced
  <2>6. Evidenced(a) /\ recipient[m].state \in {"DELIVERED", "ACKNOWLEDGED"}
    BY <2>1, <2>4, <2>5 DEF Evidenced, Receipted, Transferable, Surfaced
  <2>7. Accounted(a, p, handoffs, reconciliations)
    BY <1>1, <2>1 DEF Custody
  <2>8. DirectCustody(p, a) \/ ReconciledCustody(p, a)
    BY <2>1, <2>7 DEF Accounted, DirectCustody, ReconciledCustody, HandedTo, HandoffTo
  <2>9. session[a.owner].incarnation <= session[p].incarnation
    BY <2>4 DEF Forebears
  <2>10. QED
    BY <2>1, <2>3, <2>4, <2>6, <2>8, <2>9 DEF ConfirmedHandoffValid
<1>7. ASSUME NEW m \in MovingFrom(p)
      PROVE  /\ \A a \in UnresolvedOf(m) : UnresolvedHandoffValid(p, a)
             /\ \A a \in ConfirmedOf(m) : ConfirmedHandoffValid(p, a)
  BY <1>5, <1>6
<1>8. QED
  BY <1>3, <1>7 DEF HandoffValid

LEMMA HeadRecovers ==
  ASSUME CustodyInv, NEW s \in Session, NEW m \in Message, IsCurrent(s), Recoverable(m, s) # {}
  PROVE  RecoverySucceeds(m, s)
<1>1. /\ SurfaceInv /\ LineageInv /\ IncarnationsDistinct /\ ConfirmedIsEvidenced /\ Custody
      /\ OwnersAreKnown /\ LivePermitIsCurrent
  BY Watching DEF CustodyInv, SurfaceInv, HeldInv
<1>2. PICK a \in Recoverable(m, s) : TRUE
  OBVIOUS
<1>3. /\ a \in attempts /\ a.msg = m /\ a.state = "CONFIRMED" /\ recipient[m].bound = s
      /\ a.owner = s \/ SameLineage(a, s)
      /\ a.owner \in Session
  BY Watching DEF CustodyInv, Recoverable, ConfirmedOf
<1>4. \A c \in attempts : c.msg = m /\ c.state # "ABORTED" => c = a
  BY <1>1, <1>3, OneLivePermit
<1>5. Recoverable(m, s) = {a}
  BY <1>3, <1>4 DEF Recoverable, ConfirmedOf
<1>6. Receipted(a, recipient[m].state, deliveries, receipts)
  BY <1>1, <1>3 DEF ConfirmedIsEvidenced
<1>7. Evidenced(a) /\ recipient[m].state \in Surfaced
  BY <1>1, <1>3, <1>6 DEF Evidenced, Receipted, LivePermitIsCurrent, OwnersAreKnown
<1>8. CASE a.owner = s
  BY <1>5, <1>7, <1>8 DEF RecoverySucceeds
<1>9. CASE a.owner # s
  <2> DEFINE l == session[s].lineage
  <2>1. l # None /\ session[a.owner].lineage = l /\ lineage[l].head = s
    BY <1>3, <1>9 DEF SameLineage, IsCurrent
  <2>2. l \in Lineage /\ lineage[l].headIncarnation \in Nat
    BY <1>1, <2>1 DEF LineageInv, LineageTypeOK, SessionRow, LineageRow
  <2>3. s # None
    BY ConstantsDisjoint
  <2>4. session[s].incarnation = lineage[l].headIncarnation
    BY <1>1, <2>1, <2>2, <2>3 DEF LineageInv, ChainIsContiguous
  <2>5. session[a.owner].incarnation \in 1 .. lineage[l].headIncarnation
    BY <1>1, <1>3, <1>9, <2>1 DEF LineageInv, ChainIsContiguous
  <2>6. session[a.owner].incarnation # session[s].incarnation
    BY <1>1, <1>3, <1>9, <2>1 DEF IncarnationsDistinct
  <2>7. session[a.owner].incarnation < session[s].incarnation
    BY <2>2, <2>4, <2>5, <2>6
  <2>8. Accounted(a, s, handoffs, reconciliations)
    BY <1>1, <1>3 DEF Custody
  <2>9. Inherited(a, s)
    BY <1>3, <1>9, <2>8 DEF Accounted, Inherited, HandedTo, HandoffTo
  <2>10. QED
    BY <1>5, <1>7, <2>7, <2>9 DEF RecoverySucceeds
<1>10. QED
  BY <1>8, <1>9

\* No replacement is refused for lack of evidence, in any instance: whatever
\* permits the head of a lineage holds, the check of registerSession passes.
THEOREM HandoffNeverRefused == Spec => []HandoffAlwaysPossible
<1>1. CustodyInv => HandoffAlwaysPossible
  BY HeadHandsOver DEF HandoffAlwaysPossible
<1>2. QED
  BY <1>1, CustodyInvariant, PTL

\* A confirmed delivery is recoverable after any number of replacements, in
\* any instance: the current session finds one permit, its receipt, and what
\* entitles it to them.
THEOREM RecoveryNeverFails == Spec => []ConfirmedIsRecoverable
<1>1. CustodyInv => ConfirmedIsRecoverable
  BY HeadRecovers DEF ConfirmedIsRecoverable
<1>2. QED
  BY <1>1, CustodyInvariant, PTL

----------------------------------------------------------------------------
(* Directives.                                                             *)

\* What an active delegated directive owes to its grant, without the clock.
GrantCovers ==
  \A d \in Directive : Active(d) /\ directive[d].grant # None =>
    LET g == directive[d].grant IN
    /\ g \in Grant
    /\ grant[g].version = directive[d].version /\ grant[g].version > 0
    /\ grant[g].ended = None
    /\ directive[d].expires <= grant[g].expires

AuthorityInv == SurfaceInv /\ DirectiveTypeOK /\ GrantCovers

\* The events of a log, and the step that ends the directives in ds as kind.
KindsIn(q) == {q[i].kind : i \in DOMAIN q}

Ends(ds, kind) ==
  \A d \in Directive : Closings(d)' = IF d \in ds THEN Closings(d) \cup {kind} ELSE Closings(d)

\* What any step may do: end active directives, or write an expiry down.
Lawful(ds, kind) ==
  /\ kind \in Terminal
  /\ Ends(ds, kind)
  /\ \A d \in ds : \/ Active(d)
                   \/ Closings(d) = {} /\ directive[d].expires <= now /\ kind = "EXPIRED"

KeepsRows == \A d \in Directive : Issued(d) => directive'[d] = directive[d]

----------------------------------------------------------------------------
(* The log. *)

LEMMA AppendKinds ==
  ASSUME NEW q \in Seq(EventRow), NEW e \in EventRow
  PROVE  Append(q, e) \in Seq(EventRow) /\ KindsIn(Append(q, e)) = KindsIn(q) \cup {e.kind}
<1>1. /\ Append(q, e) \in Seq(EventRow)
      /\ DOMAIN q = 1 .. Len(q) /\ DOMAIN Append(q, e) = 1 .. Len(q) + 1 /\ Len(q) \in Nat
      /\ Append(q, e)[Len(q) + 1] = e
      /\ \A i \in 1 .. Len(q) : Append(q, e)[i] = q[i]
  OBVIOUS
<1>2. \A i \in DOMAIN Append(q, e) : i \in DOMAIN q \/ i = Len(q) + 1
  BY <1>1
<1>3. ASSUME NEW k \in KindsIn(Append(q, e)) PROVE k \in KindsIn(q) \cup {e.kind}
  BY <1>1, <1>2 DEF KindsIn
<1>4. ASSUME NEW k \in KindsIn(q) \cup {e.kind} PROVE k \in KindsIn(Append(q, e))
  BY <1>1 DEF KindsIn
<1>5. QED
  BY <1>1, <1>3, <1>4

LEMMA ClosingsAreKinds ==
  ASSUME NEW d \in Directive
  PROVE  /\ Closings(d) = {k \in Terminal : \E m \in Message : m[1] = d /\ k \in KindsIn(log[m])}
         /\ Closings(d)' = {k \in Terminal : \E m \in Message : m[1] = d /\ k \in KindsIn(log'[m])}
BY DEF Closings, KindsIn

LEMMA CloseEnds ==
  ASSUME DirectiveTypeOK, NEW ds, NEW kind \in Terminal, Close(ds, kind)
  PROVE  log' \in [Message -> Seq(EventRow)] /\ Ends(ds, kind)
<1>1. Event(kind, None, 0) \in EventRow /\ Event(kind, None, 0).kind = kind
  BY DEF Event, EventRow
<1>2. \A m \in Message :
        /\ log'[m] \in Seq(EventRow)
        /\ KindsIn(log'[m]) = IF m[1] \in ds THEN KindsIn(log[m]) \cup {kind} ELSE KindsIn(log[m])
  BY <1>1, AppendKinds DEF Close, DirectiveTypeOK
<1>3. log' \in [Message -> Seq(EventRow)]
  BY <1>2 DEF Close
<1>4. ASSUME NEW d \in Directive
      PROVE  Closings(d)' = IF d \in ds THEN Closings(d) \cup {kind} ELSE Closings(d)
  <2>1. PICK g \in Agent : TRUE
    BY DirectiveConstants
  <2>2. <<d, g>> \in Message /\ <<d, g>>[1] = d
    BY DirectiveConstants
  <2>3. CASE d \in ds
    <3>1. \A m \in Message : m[1] = d => KindsIn(log'[m]) = KindsIn(log[m]) \cup {kind}
      BY <1>2, <2>3
    <3>2. kind \in Closings(d)'
      BY <3>1, <2>2, ClosingsAreKinds
    <3>3. \A k \in Closings(d) : k \in Closings(d)'
      BY <3>1, ClosingsAreKinds
    <3>4. \A k \in Closings(d)' : k \in Closings(d) \cup {kind}
      BY <3>1, ClosingsAreKinds
    <3>5. QED
      BY <2>3, <3>2, <3>3, <3>4
  <2>4. CASE d \notin ds
    <3>1. \A m \in Message : m[1] = d => KindsIn(log'[m]) = KindsIn(log[m])
      BY <1>2, <2>4
    <3>2. \A k : k \in Closings(d)' <=> k \in Closings(d)
      BY <3>1, ClosingsAreKinds
    <3>3. QED
      BY <2>4, <3>2 DEF Closings
  <2>5. QED
    BY <2>3, <2>4
<1>5. QED
  BY <1>3, <1>4 DEF Ends

\* A step that adds no terminal event ends nothing.
LEMMA SpeakEnds ==
  ASSUME \A m \in Message : \A k \in Terminal : k \in KindsIn(log'[m]) <=> k \in KindsIn(log[m])
  PROVE  Lawful({}, "EXPIRED")
<1>1. ASSUME NEW d \in Directive PROVE Closings(d)' = Closings(d)
  <2>1. \A k : k \in Closings(d)' <=> k \in Closings(d)
    BY ClosingsAreKinds
  <2>2. QED
    BY <2>1 DEF Closings
<1>2. QED
  BY <1>1 DEF Lawful, Ends, Terminal

\* The life cycle without its choice: at most one answer is possible.
LEMMA ActiveMeans ==
  ASSUME DirectiveTypeOK, DirectiveTypeOK', NEW d \in Directive
  PROVE  /\ Active(d) <=> Issued(d) /\ Closings(d) = {} /\ now < directive[d].expires
         /\ Active(d)' <=> Issued(d)' /\ Closings(d)' = {} /\ now' < directive'[d].expires
<1>1. /\ Closings(d) # {} => Lifecycle(d) # "ACTIVE"
      /\ Closings(d)' # {} => Lifecycle(d)' # "ACTIVE"
  <2>1. Closings(d) \subseteq Terminal /\ Closings(d)' \subseteq Terminal /\ "ACTIVE" \notin Terminal
    BY DEF Closings, Terminal
  <2>2. QED
    BY <2>1 DEF Lifecycle
<1>2. /\ Issued(d) => directive[d].expires \in Nat /\ now \in Nat
      /\ Issued(d)' => directive'[d].expires \in Nat /\ now' \in Nat
  BY DirectiveConstants DEF DirectiveTypeOK, DirectiveRow, Issued, Never
<1>3. QED
  BY <1>1, <1>2 DEF Active, Lifecycle

----------------------------------------------------------------------------
(* The message plane under directives: their deliveries are its own steps, *)
(* only the issue of a carrier, which posts several rows at once, is not.  *)

LEMMA DirectiveStepIsMessageStep ==
  SurfaceInv /\ [DirectiveNext]_allVars => [Next]_vars \/ IssueNext
<1> SUFFICES ASSUME SurfaceInv, [DirectiveNext]_allVars, ~IssueNext PROVE [Next]_vars
  OBVIOUS
<1>1. CASE UNCHANGED allVars
  BY <1>1 DEF allVars, vars
<1>2. CASE SessionNext
  <2>1. ASSUME NEW s \in Session, NEW l \in Lineage, RegisterSession(s, l, None, Unspecified)
        PROVE  Next
    BY <2>1 DEF Next, SessionStep
  <2>2. ASSUME NEW s \in Session, CloseSession(s), UNCHANGED surfaceVars
        PROVE  Next
    BY <2>2 DEF Next, SessionStep
  <2>3. QED
    BY <1>2, <2>1, <2>2 DEF SessionNext
<1>3. CASE GrantNext
  BY <1>3 DEF GrantNext, CreateDelegationGrant, ModifyDelegationGrant, TerminateDelegationGrant,
              ReadGrant, surfaceVars, lineageVars, vars
<1>4. CASE LifeNext
  BY <1>4 DEF LifeNext, Tick, RevokeDirective, ReadDirective, surfaceVars, lineageVars, vars
<1>5. CASE DeliveryNext
  <2>1. ASSUME NEW s \in Session, NEW m \in Message,
               ClaimCarrier(s, m) \/ BeginCarrier(s, m) \/ FailCarrier(s, m)
        PROVE  Next
    BY <2>1 DEF ClaimCarrier, BeginCarrier, FailCarrier, Next, RecipientStep, PermitStep
  <2>2. ASSUME NEW s \in Session, NEW a \in attempts, RecordDelivery(s, a)
        PROVE  Next
    BY <2>2 DEF RecordDelivery, Next, PermitStep
  <2>3. ASSUME NEW s \in Session, NEW a \in attempts,
               NEW outcome \in {"ABORTED", "AMBIGUOUS"}, SettleSurface(s, a, outcome)
        PROVE  Next
    BY <2>3 DEF Next, PermitStep
  <2>4. ASSUME NEW s \in Session, NEW a \in attempts, NEW st \in Downstream,
               RecordReceipt(s, a, st)
        PROVE  Next
    BY <2>4 DEF RecordReceipt, Next, PermitStep
  <2>5. ASSUME NEW s \in Session, NEW a \in attempts, NEW st \in Downstream,
               ReceiptConfirmsPermit(s, a, st)
        PROVE  Next
    <3>1. a.msg \in Message
      BY <2>5 DEF SurfaceInv, TypeOK, AttemptRow
    <3>2. QED
      BY <2>5, <3>1 DEF ReceiptConfirmsPermit, Next, RecipientStep
  <2>6. ASSUME NEW s \in Session, NEW d \in Directive, RecordExecutionResult(s, d)
        PROVE  UNCHANGED vars
    BY <2>6 DEF RecordExecutionResult, surfaceVars, lineageVars, vars
  <2>7. QED
    BY <1>5, <2>1, <2>2, <2>3, <2>4, <2>5, <2>6 DEF DeliveryNext
<1>6. QED
  BY <1>1, <1>2, <1>3, <1>4, <1>5 DEF DirectiveNext

LEMMA IssueKeepsSurfaces ==
  ASSUME SurfaceInv, NEW d \in Directive, NEW row, Issue(d, row)
  PROVE  SurfaceInv'
<1>0. TypeOK
  BY DEF SurfaceInv
<1>1. LineageInv' /\ session' = session /\ lineage' = lineage /\ reservation' = reservation
  <2>1. UNCHANGED lineageVars
    BY DEF Issue
  <2>2. QED
    BY <2>1, LineageNextInv DEF SurfaceInv, lineageVars
<1>2. TypeOK'
  BY <1>0, <1>1 DEF TypeOK, Issue, RecipientRow, evidence, LineageTypeOK, LineageInv
<1>3. KeepsHolders
  BY <1>0 DEF KeepsHolders, Issue, TypeOK, RecipientRow, SurfaceInv, PermitInv, KnownSessions
<1>4. PermitInv'
  BY <1>0, <1>1, <1>2, <1>3, IdleSettles, QuietStep DEF Issue
<1>5. QED
  BY <1>1, <1>2, <1>4 DEF SurfaceInv

LEMMA SurfacesUnderDirectives ==
  SurfaceInv /\ [DirectiveNext]_allVars => SurfaceInv'
<1> SUFFICES ASSUME SurfaceInv, [DirectiveNext]_allVars PROVE SurfaceInv'
  OBVIOUS
<1>1. CASE [Next]_vars
  BY <1>1, SurfaceNextInv
<1>2. CASE IssueNext
  <2>1. \E d \in Directive : \E row : Issue(d, row)
    BY <1>2 DEF IssueNext, RelayUserDirective, SupersedeUserDirective, DelegateInstruction
  <2>2. QED
    BY <2>1, IssueKeepsSurfaces
<1>3. QED
  BY <1>1, <1>2, DirectiveStepIsMessageStep

----------------------------------------------------------------------------
(* One lemma per kind of step: it keeps the types, ends directives only in  *)
(* a lawful way, and leaves the grants covering what is still active.       *)

Result(ds, kind) ==
  DirectiveTypeOK' /\ GrantCovers' /\ KeepsRows /\ Lawful(ds, kind) /\ now <= now'

\* What was delegated and is active, where neither it nor its grant changed.
LEMMA CoverStays ==
  ASSUME DirectiveTypeOK, DirectiveTypeOK', GrantCovers, NEW ds, NEW kind, Ends(ds, kind),
         NEW d \in Directive, Active(d)', directive'[d] = directive[d], now <= now',
         directive[d].grant # None
  PROVE  /\ Active(d) /\ d \notin ds
         /\ directive[d].grant \in Grant
         /\ grant[directive[d].grant].version = directive[d].version
         /\ grant[directive[d].grant].version > 0
         /\ grant[directive[d].grant].ended = None
         /\ directive[d].expires <= grant[directive[d].grant].expires
<1>1. /\ Issued(d) /\ Closings(d)' = {} /\ now' < directive[d].expires
  BY ActiveMeans DEF Issued
<1>2. Closings(d) = {} /\ d \notin ds
  BY <1>1 DEF Ends
<1>3. now \in Nat /\ now' \in Nat /\ directive[d].expires \in Nat
  BY <1>1, DirectiveConstants DEF DirectiveTypeOK, DirectiveRow, Issued, Never
<1>4. Active(d)
  BY <1>1, <1>2, <1>3, ActiveMeans
<1>5. QED
  BY <1>2, <1>4 DEF GrantCovers

LEMMA SpeakResult ==
  ASSUME DirectiveTypeOK, GrantCovers, UNCHANGED <<directive, grant, now>>,
         log' \in [Message -> Seq(EventRow)], NEW ds, NEW kind, Lawful(ds, kind)
  PROVE  Result(ds, kind)
<1>1. DirectiveTypeOK'
  BY DEF DirectiveTypeOK
<1>2. GrantCovers'
  <2> SUFFICES ASSUME NEW d \in Directive, Active(d)', directive[d].grant # None
               PROVE  LET g == directive[d].grant IN
                      /\ g \in Grant
                      /\ grant[g].version = directive[d].version /\ grant[g].version > 0
                      /\ grant[g].ended = None
                      /\ directive[d].expires <= grant[g].expires
    BY DEF GrantCovers
  <2>1. now <= now'
    BY DEF DirectiveTypeOK
  <2>2. QED
    BY <1>1, <2>1, CoverStays DEF Lawful
<1>3. QED
  BY <1>1, <1>2 DEF Result, KeepsRows, DirectiveTypeOK

\* A directive ended by a call of its own, or by writing its expiry down.
LEMMA CloseOneResult ==
  ASSUME DirectiveTypeOK, GrantCovers, UNCHANGED <<directive, grant, now>>,
         NEW d \in Directive, NEW kind \in Terminal, Close({d}, kind),
         Active(d) \/ (Closings(d) = {} /\ directive[d].expires <= now /\ kind = "EXPIRED")
  PROVE  Result({d}, kind)
<1>1. Lawful({d}, kind) /\ log' \in [Message -> Seq(EventRow)]
  BY CloseEnds DEF Lawful
<1>2. QED
  BY <1>1, SpeakResult

LEMMA TickResult ==
  ASSUME DirectiveTypeOK, GrantCovers, Tick
  PROVE  Result({}, "EXPIRED")
<1>1. DirectiveTypeOK' /\ now <= now' /\ UNCHANGED <<directive, log, grant>>
  BY DirectiveConstants DEF Tick, DirectiveTypeOK
<1>2. Lawful({}, "EXPIRED")
  BY <1>1, SpeakEnds
<1>3. GrantCovers'
  BY <1>1, <1>2, CoverStays DEF GrantCovers, Lawful
<1>4. QED
  BY <1>1, <1>2, <1>3 DEF Result, KeepsRows

\* Steps that change grant g only: whatever stands under it is ended or kept.
LEMMA GrantResult ==
  ASSUME DirectiveTypeOK, GrantCovers, UNCHANGED <<directive, now>>, NEW g \in Grant,
         NEW row \in GrantRow, grant' = [grant EXCEPT ![g] = row],
         NEW ds, NEW kind, Lawful(ds, kind), log' \in [Message -> Seq(EventRow)],
         \A d \in Delegated(g) : Active(d) => d \in ds \/ grant[g].version = 0
  PROVE  Result(ds, kind)
<1>1. DirectiveTypeOK'
  BY DEF DirectiveTypeOK
<1>2. now <= now'
  BY DEF DirectiveTypeOK
<1>3. GrantCovers'
  <2> SUFFICES ASSUME NEW d \in Directive, Active(d)', directive[d].grant # None
               PROVE  LET h == directive[d].grant IN
                      /\ h \in Grant
                      /\ grant'[h].version = directive[d].version /\ grant'[h].version > 0
                      /\ grant'[h].ended = None
                      /\ directive[d].expires <= grant'[h].expires
    BY DEF GrantCovers
  <2>1. /\ Active(d) /\ d \notin ds
        /\ directive[d].grant \in Grant
        /\ grant[directive[d].grant].version = directive[d].version
        /\ grant[directive[d].grant].version > 0
        /\ grant[directive[d].grant].ended = None
        /\ directive[d].expires <= grant[directive[d].grant].expires
    BY <1>1, <1>2, CoverStays DEF Lawful
  <2>2. directive[d].grant # g
    <3>1. SUFFICES ASSUME directive[d].grant = g PROVE FALSE
      OBVIOUS
    <3>2. d \in Delegated(g)
      BY <2>1, <3>1 DEF Delegated, Active
    <3>3. QED
      BY <2>1, <3>1, <3>2
  <2>3. grant'[directive[d].grant] = grant[directive[d].grant]
    BY <2>1, <2>2 DEF DirectiveTypeOK
  <2>4. QED
    BY <2>1, <2>3
<1>4. QED
  BY <1>1, <1>2, <1>3 DEF Result, KeepsRows

LEMMA CreateGrantResult ==
  ASSUME DirectiveTypeOK, GrantCovers, NEW g \in Grant, NEW t \in Future,
         CreateDelegationGrant(g, t)
  PROVE  \E ds, kind : Result(ds, kind)
<1> DEFINE row == [version |-> 1, expires |-> t, ended |-> None]
<1>1. Lawful({}, "EXPIRED")
  BY SpeakEnds DEF CreateDelegationGrant
<1>2. row \in GrantRow
  BY DirectiveConstants DEF GrantRow, Future, Never
<1>3. log' \in [Message -> Seq(EventRow)] /\ grant[g].version = 0
  BY DEF CreateDelegationGrant, DirectiveTypeOK
<1>4. Result({}, "EXPIRED")
  BY <1>1, <1>2, <1>3, GrantResult DEF CreateDelegationGrant
<1>5. QED
  BY <1>4

LEMMA ModifyGrantResult ==
  ASSUME DirectiveTypeOK, GrantCovers, NEW g \in Grant, NEW t \in Future,
         ModifyDelegationGrant(g, t)
  PROVE  \E ds, kind : Result(ds, kind)
<1> DEFINE row == [grant[g] EXCEPT !.version = @ + 1, !.expires = t]
           ds  == {d \in Delegated(g) : Active(d)}
<1>1. log' \in [Message -> Seq(EventRow)] /\ Lawful(ds, "REVOKED")
  BY CloseEnds DEF ModifyDelegationGrant, Lawful, Terminal
<1>2. grant[g] \in GrantRow
  BY DEF DirectiveTypeOK
<1>3. grant[g].version + 1 \in 0 .. MaxVersion /\ t \in 0 .. Never
  BY <1>2, DirectiveConstants DEF GrantRow, Future, Never, ModifyDelegationGrant
<1>4. row \in GrantRow
  BY <1>2, <1>3 DEF GrantRow
<1>5. /\ grant' = [grant EXCEPT ![g] = row]
      /\ UNCHANGED <<directive, now>>
  BY DEF ModifyDelegationGrant
<1>6. \A d \in Delegated(g) : Active(d) => d \in ds
  OBVIOUS
<1>7. Result(ds, "REVOKED")
  <2> HIDE DEF row, ds
  <2>1. QED
    BY <1>1, <1>4, <1>5, <1>6, GrantResult
<1>8. QED
  BY <1>7

LEMMA TerminateGrantResult ==
  ASSUME DirectiveTypeOK, GrantCovers, NEW g \in Grant, TerminateDelegationGrant(g)
  PROVE  \E ds, kind : Result(ds, kind)
<1> DEFINE row == [grant[g] EXCEPT !.ended = "TERMINATED"]
           ds  == {d \in Delegated(g) : Active(d)}
<1>1. log' \in [Message -> Seq(EventRow)] /\ Lawful(ds, "REVOKED")
  BY CloseEnds DEF TerminateDelegationGrant, Lawful, Terminal
<1>2. row \in GrantRow
  BY DEF DirectiveTypeOK, GrantRow
<1>3. /\ grant' = [grant EXCEPT ![g] = row]
      /\ UNCHANGED <<directive, now>>
  BY DEF TerminateDelegationGrant, DirectiveTypeOK
<1>4. \A d \in Delegated(g) : Active(d) => d \in ds
  OBVIOUS
<1>5. Result(ds, "REVOKED")
  <2> HIDE DEF row, ds
  <2>1. QED
    BY <1>1, <1>2, <1>3, <1>4, GrantResult
<1>6. QED
  BY <1>5

\* When a grant's expiry is written down, no directive under it is active any
\* more: it ended with the grant or before it.
LEMMA ReadGrantResult ==
  ASSUME DirectiveTypeOK, GrantCovers, NEW g \in Grant, ReadGrant(g)
  PROVE  \E ds, kind : Result(ds, kind)
<1> DEFINE row == [grant[g] EXCEPT !.ended = "EXPIRED"]
           ds  == {d \in Delegated(g) : Closings(d) = {}}
<1>1. log' \in [Message -> Seq(EventRow)] /\ Ends(ds, "EXPIRED")
  BY CloseEnds DEF ReadGrant, Terminal
<1>2. Lawful(ds, "EXPIRED")
  <2> SUFFICES ASSUME NEW d \in ds, ~Active(d) PROVE directive[d].expires <= now
    BY <1>1 DEF Lawful, Terminal
  <2>1. QED
    BY DEF Delegated, Active, Lifecycle
<1>3. row \in GrantRow
  BY DEF DirectiveTypeOK, GrantRow
<1>4. grant' = [grant EXCEPT ![g] = row]
  BY DEF ReadGrant, DirectiveTypeOK
<1>5. \A d \in Delegated(g) : Active(d) => d \in ds
  BY DEF Active, Lifecycle, Closings, Terminal
<1>6. QED
  BY <1>1, <1>2, <1>3, <1>4, <1>5, GrantResult DEF ReadGrant

----------------------------------------------------------------------------
(* Issuing. *)

\* A row that names a grant is within it.
WithinGrant(row) ==
  row.grant # None =>
    /\ row.grant \in Grant
    /\ grant[row.grant].version = row.version /\ grant[row.grant].version > 0
    /\ grant[row.grant].ended = None
    /\ row.expires <= grant[row.grant].expires

LEMMA IssueResult ==
  ASSUME DirectiveTypeOK, GrantCovers, NEW d \in Directive, NEW row \in DirectiveRow,
         Issue(d, row), WithinGrant(row), NEW ds, NEW kind, Lawful(ds, kind),
         log' \in [Message -> Seq(EventRow)]
  PROVE  Result(ds, kind)
<1>1. /\ ~Issued(d) /\ directive' = [directive EXCEPT ![d] = row]
      /\ grant' = grant /\ now' = now
  BY DEF Issue
<1>2. DirectiveTypeOK'
  BY <1>1 DEF DirectiveTypeOK
<1>3. KeepsRows
  BY <1>1 DEF KeepsRows, DirectiveTypeOK
<1>4. now <= now'
  BY <1>1 DEF DirectiveTypeOK
<1>5. GrantCovers'
  <2> SUFFICES ASSUME NEW e \in Directive, Active(e)', directive'[e].grant # None
               PROVE  LET h == directive'[e].grant IN
                      /\ h \in Grant
                      /\ grant[h].version = directive'[e].version /\ grant[h].version > 0
                      /\ grant[h].ended = None
                      /\ directive'[e].expires <= grant[h].expires
    BY <1>1 DEF GrantCovers
  <2>1. CASE e = d
    BY <1>1, <2>1 DEF DirectiveTypeOK, WithinGrant
  <2>2. CASE e # d
    <3>1. directive'[e] = directive[e]
      BY <1>1, <2>2 DEF DirectiveTypeOK
    <3>2. QED
      BY <1>2, <1>4, <3>1, CoverStays DEF Lawful
  <2>3. QED
    BY <2>1, <2>2
<1>6. QED
  BY <1>2, <1>3, <1>4, <1>5 DEF Result

LEMMA UserRows ==
  ASSUME NEW t \in Turn, NEW audience \in (SUBSET Agent) \ {{}}, NEW old \in Directive \cup {None}
  PROVE  /\ UserDirective(t, audience, old) \in DirectiveRow
         /\ [UserDirective(t, audience, old) EXCEPT !.authority = "AGENT_PROPOSAL"] \in DirectiveRow
         /\ UserDirective(t, audience, old).grant = None
BY DirectiveConstants DEF UserDirective, DirectiveRow, Never

LEMMA RelayResult ==
  ASSUME DirectiveTypeOK, GrantCovers, NEW s \in Session, NEW d \in Directive, NEW t \in Turn,
         NEW audience \in (SUBSET Agent) \ {{}}, NEW whole \in BOOLEAN,
         RelayUserDirective(s, d, t, audience, whole)
  PROVE  \E ds, kind : Result(ds, kind)
<1>1. log' = log
  BY DEF RelayUserDirective
<1>2. Lawful({}, "EXPIRED") /\ log' \in [Message -> Seq(EventRow)]
  BY <1>1, SpeakEnds DEF DirectiveTypeOK
<1>3. PICK row \in DirectiveRow : Issue(d, row) /\ row.grant = None
  BY UserRows DEF RelayUserDirective, UserDirective
<1>4. Result({}, "EXPIRED")
  BY <1>2, <1>3, IssueResult DEF WithinGrant
<1>5. QED
  BY <1>4

LEMMA SupersedeResult ==
  ASSUME DirectiveTypeOK, GrantCovers, NEW old \in Directive, NEW d \in Directive, NEW t \in Turn,
         NEW audience \in (SUBSET Agent) \ {{}}, SupersedeUserDirective(old, d, t, audience)
  PROVE  \E ds, kind : Result(ds, kind)
<1>1. Lawful({old}, "SUPERSEDED") /\ log' \in [Message -> Seq(EventRow)]
  BY CloseEnds DEF SupersedeUserDirective, Lawful, Terminal
<1>2. PICK row \in DirectiveRow : Issue(d, row) /\ row.grant = None
  BY UserRows DEF SupersedeUserDirective
<1>3. Result({old}, "SUPERSEDED")
  BY <1>1, <1>2, IssueResult DEF WithinGrant
<1>4. QED
  BY <1>3

LEMMA DelegateResult ==
  ASSUME DirectiveTypeOK, GrantCovers, NEW s \in Session, NEW d \in Directive, NEW g \in Grant,
         NEW audience \in (SUBSET Agent) \ {{}}, NEW fits \in BOOLEAN,
         NEW requested \in Future \cup {None},
         DelegateInstruction(s, d, g, audience, fits, requested)
  PROVE  \E ds, kind : Result(ds, kind)
<1>1. log' = log
  BY DEF DelegateInstruction
<1>2. Lawful({}, "EXPIRED") /\ log' \in [Message -> Seq(EventRow)]
  BY <1>1, SpeakEnds DEF DirectiveTypeOK
<1>3. grant[g] \in GrantRow /\ grant[g].version > 0
  BY DEF DirectiveTypeOK, DelegateInstruction
<1>4. requested # None => requested \in 0 .. Never
  BY DirectiveConstants DEF Future, Never
<1>5. CASE WithinTerms(g, fits, requested)
  <2> DEFINE row == DelegatedRow(g, audience, requested)
  <2>1. row \in DirectiveRow
    BY <1>3, <1>4, DirectiveConstants DEF DelegatedRow, DirectiveRow, GrantRow
  <2>2. WithinGrant(row)
    BY <1>3, <1>5, DirectiveConstants
    DEF WithinGrant, DelegatedRow, WithinTerms, GrantStatus, GrantRow
  <2>3. Issue(d, row)
    BY <1>5 DEF DelegateInstruction
  <2>4. Result({}, "EXPIRED")
    BY <1>2, <2>1, <2>2, <2>3, IssueResult
  <2>5. QED
    BY <2>4
<1>6. CASE ~WithinTerms(g, fits, requested)
  <2> DEFINE row == ProposalRow(audience, requested)
  <2>1. row \in DirectiveRow /\ row.grant = None
    <3>1. Never \in 0 .. Never /\ 0 \in 0 .. MaxVersion
      BY DirectiveConstants DEF Never
    <3>2. PICK t \in 0 .. Never : t = IF requested = None THEN Never ELSE requested
      BY <1>4, <3>1
    <3>3. QED
      BY <3>1, <3>2 DEF ProposalRow, DirectiveRow
  <2>2. Issue(d, row)
    BY <1>6 DEF DelegateInstruction
  <2>3. Result({}, "EXPIRED")
    BY <1>2, <2>1, <2>2, IssueResult DEF WithinGrant
  <2>4. QED
    BY <2>3
<1>7. QED
  BY <1>5, <1>6

----------------------------------------------------------------------------
(* What the targets record. *)

\* One more event in row m of the log.
LEMMA SayKinds ==
  ASSUME DirectiveTypeOK, NEW m \in Message, NEW e \in EventRow,
         log' = [log EXCEPT ![m] = Append(@, e)]
  PROVE  /\ log' \in [Message -> Seq(EventRow)]
         /\ KindsIn(log'[m]) = KindsIn(log[m]) \cup {e.kind}
         /\ \A n \in Message : n # m => log'[n] = log[n]
<1>1. /\ Append(log[m], e) \in Seq(EventRow)
      /\ KindsIn(Append(log[m], e)) = KindsIn(log[m]) \cup {e.kind}
  BY AppendKinds DEF DirectiveTypeOK
<1>2. QED
  BY <1>1 DEF DirectiveTypeOK

LEMMA SayResult ==
  ASSUME DirectiveTypeOK, GrantCovers, UNCHANGED <<directive, grant, now>>,
         NEW m \in Message, NEW e \in EventRow, e.kind \notin Terminal,
         log' = [log EXCEPT ![m] = Append(@, e)]
  PROVE  \E ds, kind : Result(ds, kind)
<1>1. log' \in [Message -> Seq(EventRow)]
  BY SayKinds
<1>2. /\ KindsIn(log'[m]) = KindsIn(log[m]) \cup {e.kind}
      /\ \A n \in Message : n # m => log'[n] = log[n]
  BY SayKinds
<1>3. \A n \in Message : \A k \in Terminal : k \in KindsIn(log'[n]) <=> k \in KindsIn(log[n])
  BY <1>2
<1>4. Result({}, "EXPIRED")
  BY <1>1, <1>3, SpeakEnds, SpeakResult
<1>5. QED
  BY <1>4

LEMMA IdleResult ==
  ASSUME DirectiveTypeOK, GrantCovers, UNCHANGED authorityVars
  PROVE  \E ds, kind : Result(ds, kind)
<1>1. UNCHANGED <<directive, grant, now>> /\ log' = log /\ log' \in [Message -> Seq(EventRow)]
  BY DEF authorityVars, DirectiveTypeOK
<1>2. Result({}, "EXPIRED")
  BY <1>1, SpeakEnds, SpeakResult
<1>3. QED
  BY <1>2

\* The permits name rows and sessions, and a fact is not an ending.
LEMMA FactRows ==
  ASSUME SurfaceInv, NEW a \in attempts, NEW s \in Session,
         NEW k \in {"DELIVERED", "ACKNOWLEDGED", "PROCESSED", "RESULT_RECORDED"}
  PROVE  /\ a.msg \in Message
         /\ Event(k, s, a.fence) \in EventRow /\ Event(k, s, a.fence).kind \notin Terminal
BY DEF SurfaceInv, TypeOK, AttemptRow, Event, EventRow, Terminal

LEMMA RecordDeliveryResult ==
  ASSUME SurfaceInv, DirectiveTypeOK, GrantCovers, NEW s \in Session, NEW a \in attempts,
         RecordDelivery(s, a)
  PROVE  \E ds, kind : Result(ds, kind)
BY FactRows, SayResult DEF RecordDelivery

LEMMA RecordReceiptResult ==
  ASSUME SurfaceInv, DirectiveTypeOK, GrantCovers, NEW s \in Session, NEW a \in attempts,
         NEW st \in Downstream, RecordReceipt(s, a, st)
  PROVE  \E ds, kind : Result(ds, kind)
<1>1. CASE st = "RESPONDED"
  <2>1. UNCHANGED authorityVars
    BY <1>1 DEF RecordReceipt, FactOf, authorityVars, DirectiveTypeOK
  <2>2. QED
    BY <2>1, IdleResult
<1>2. CASE st # "RESPONDED"
  <2>1. st \in {"ACKNOWLEDGED", "PROCESSED"} /\ FactOf(st) # {}
    BY <1>2 DEF Downstream, FactOf
  <2>2. QED
    BY <2>1, FactRows, SayResult DEF RecordReceipt
<1>3. QED
  BY <1>1, <1>2

LEMMA ReceiptConfirmsResult ==
  ASSUME SurfaceInv, DirectiveTypeOK, GrantCovers, NEW s \in Session, NEW a \in attempts,
         NEW st \in Downstream, ReceiptConfirmsPermit(s, a, st)
  PROVE  \E ds, kind : Result(ds, kind)
<1> DEFINE e == Event("DELIVERED", s, a.fence)
           m == a.msg
           delivered == Append(log[m], e)
<1>1. m \in Message /\ e \in EventRow /\ e.kind \notin Terminal
  BY FactRows
<1>2. delivered \in Seq(EventRow) /\ KindsIn(delivered) = KindsIn(log[m]) \cup {e.kind}
  BY <1>1, AppendKinds DEF DirectiveTypeOK
<1>3. CASE st = "RESPONDED"
  <2>1. log' = [log EXCEPT ![m] = Append(@, e)] /\ UNCHANGED <<directive, grant, now>>
    BY <1>1, <1>3 DEF ReceiptConfirmsPermit, FactOf, DirectiveTypeOK
  <2>2. QED
    BY <1>1, <2>1, SayResult
<1>4. CASE st # "RESPONDED"
  <2> DEFINE f == Event(st, s, a.fence)
  <2>1. f \in EventRow /\ f.kind \notin Terminal
    BY <1>4, FactRows DEF Downstream
  <2>2. /\ Append(delivered, f) \in Seq(EventRow)
        /\ KindsIn(Append(delivered, f)) = KindsIn(log[m]) \cup {e.kind, f.kind}
    <3> HIDE DEF delivered, e, f
    <3>1. /\ Append(delivered, f) \in Seq(EventRow)
          /\ KindsIn(Append(delivered, f)) = KindsIn(delivered) \cup {f.kind}
      BY <1>2, <2>1, AppendKinds
    <3>2. QED
      BY <1>2, <3>1
  <2>3. log' = [log EXCEPT ![m] = Append(delivered, f)] /\ UNCHANGED <<directive, grant, now>>
    BY <1>4 DEF ReceiptConfirmsPermit, FactOf
  <2>4. /\ log' \in [Message -> Seq(EventRow)]
        /\ \A n \in Message :
             \A k \in Terminal : k \in KindsIn(log'[n]) <=> k \in KindsIn(log[n])
    <3> HIDE DEF delivered, e, f
    <3>1. QED
      BY <1>1, <2>1, <2>2, <2>3 DEF DirectiveTypeOK
  <2>5. Result({}, "EXPIRED")
    BY <2>3, <2>4, SpeakEnds, SpeakResult
  <2>6. QED
    BY <2>5
<1>5. QED
  BY <1>3, <1>4

\* The last result of an active directive ends it, any other result ends nothing.
LEMMA ExecutionResult ==
  ASSUME DirectiveTypeOK, GrantCovers, NEW s \in Session, NEW d \in Directive,
         RecordExecutionResult(s, d)
  PROVE  \E ds, kind : Result(ds, kind)
<1> DEFINE m == <<d, SessionAgent[s]>>
           e == Event("RESULT_RECORDED", s, 0)
           c == Event("COMPLETED", s, 0)
           reported == [log EXCEPT ![m] = Append(@, e)]
<1>1. /\ m \in Message
      /\ e \in EventRow /\ e.kind \notin Terminal
      /\ c \in EventRow /\ c.kind = "COMPLETED"
  BY DirectiveConstants DEF Event, EventRow, Terminal
<1>2. UNCHANGED <<directive, grant, now>>
  BY DEF RecordExecutionResult
<1>3. CASE ~Completes(d, m)
  <2>1. log' = reported
    BY <1>3 DEF RecordExecutionResult
  <2>2. QED
    BY <1>1, <1>2, <2>1, SayResult
<1>4. CASE Completes(d, m)
  <2>1. log' = [n \in Message |-> IF n[1] = d THEN Append(reported[n], c) ELSE reported[n]]
    BY <1>4 DEF RecordExecutionResult
  <2>2. /\ Append(log[m], e) \in Seq(EventRow)
        /\ KindsIn(Append(log[m], e)) = KindsIn(log[m]) \cup {e.kind}
    BY <1>1, AppendKinds DEF DirectiveTypeOK
  <2>3. /\ reported \in [Message -> Seq(EventRow)]
        /\ \A n \in Message : \A k \in Terminal :
             k \in KindsIn(reported[n]) <=> k \in KindsIn(log[n])
    <3> HIDE DEF m, e
    <3>1. QED
      BY <1>1, <2>2 DEF DirectiveTypeOK
  <2>4. \A n \in Message :
          /\ Append(reported[n], c) \in Seq(EventRow)
          /\ KindsIn(Append(reported[n], c)) = KindsIn(reported[n]) \cup {"COMPLETED"}
    <3> HIDE DEF m, e, c, reported
    <3>1. QED
      BY <1>1, <2>3, AppendKinds
  <2>5. /\ log' \in [Message -> Seq(EventRow)]
        /\ \A n \in Message : \A k \in Terminal :
             k \in KindsIn(log'[n]) <=> k \in KindsIn(log[n]) \/ (n[1] = d /\ k = "COMPLETED")
    <3> HIDE DEF m, e, c, reported
    <3>1. QED
      BY <2>1, <2>3, <2>4
  <2>6. Ends({d}, "COMPLETED")
    <3> SUFFICES ASSUME NEW x \in Directive
                 PROVE  Closings(x)' = IF x \in {d} THEN Closings(x) \cup {"COMPLETED"} ELSE Closings(x)
      BY DEF Ends
    <3>1. CASE x # d
      <4>1. \A k : k \in Closings(x)' <=> k \in Closings(x)
        BY <2>5, <3>1, ClosingsAreKinds
      <4>2. QED
        BY <3>1, <4>1 DEF Closings
    <3>2. CASE x = d
      <4>1. m[1] = d
        OBVIOUS
      <4>2. "COMPLETED" \in Closings(d)'
        <5> HIDE DEF m, e, c, reported
        <5>1. QED
          BY <1>1, <2>5, <4>1, ClosingsAreKinds DEF Terminal
      <4>3. \A k : k \in Closings(d)' <=> k \in Closings(d) \/ k = "COMPLETED"
        BY <2>5, <4>2, ClosingsAreKinds
      <4>4. QED
        BY <3>2, <4>3 DEF Closings
    <3>3. QED
      BY <3>1, <3>2
  <2>7. Lawful({d}, "COMPLETED")
    BY <1>4, <2>6 DEF Lawful, Completes, Terminal
  <2>8. Result({d}, "COMPLETED")
    BY <1>2, <2>5, <2>7, SpeakResult
  <2>9. QED
    BY <2>8
<1>5. QED
  BY <1>3, <1>4

----------------------------------------------------------------------------

LEMMA EveryResult ==
  ASSUME AuthorityInv, [DirectiveNext]_allVars
  PROVE  \E ds, kind : Result(ds, kind)
<1>0. SurfaceInv /\ DirectiveTypeOK /\ GrantCovers
  BY DEF AuthorityInv
<1>1. CASE UNCHANGED authorityVars
  BY <1>0, <1>1, IdleResult
<1>2. CASE GrantNext
  BY <1>0, <1>2, CreateGrantResult, ModifyGrantResult, TerminateGrantResult, ReadGrantResult
  DEF GrantNext
<1>3. CASE IssueNext
  <2>1. PICK d \in Directive, audience \in (SUBSET Agent) \ {{}} :
          \/ \E s \in Session, t \in Turn, whole \in BOOLEAN :
               RelayUserDirective(s, d, t, audience, whole)
          \/ \E old \in Directive, t \in Turn : SupersedeUserDirective(old, d, t, audience)
          \/ \E s \in Session, g \in Grant, fits \in BOOLEAN, requested \in Future \cup {None} :
               DelegateInstruction(s, d, g, audience, fits, requested)
    BY <1>3 DEF IssueNext
  <2>2. ASSUME NEW s \in Session, NEW t \in Turn, NEW whole \in BOOLEAN,
               RelayUserDirective(s, d, t, audience, whole)
        PROVE  \E ds, kind : Result(ds, kind)
    BY <1>0, <2>2, RelayResult
  <2>3. ASSUME NEW old \in Directive, NEW t \in Turn, SupersedeUserDirective(old, d, t, audience)
        PROVE  \E ds, kind : Result(ds, kind)
    BY <1>0, <2>3, SupersedeResult
  <2>4. ASSUME NEW s \in Session, NEW g \in Grant, NEW fits \in BOOLEAN,
               NEW requested \in Future \cup {None},
               DelegateInstruction(s, d, g, audience, fits, requested)
        PROVE  \E ds, kind : Result(ds, kind)
    BY <1>0, <2>4, DelegateResult
  <2>5. QED
    BY <2>1, <2>2, <2>3, <2>4
<1>4. CASE LifeNext
  <2>1. CASE Tick
    BY <1>0, <2>1, TickResult
  <2>2. ASSUME NEW d \in Directive, RevokeDirective(d) PROVE \E ds, kind : Result(ds, kind)
    <3>1. Result({d}, "REVOKED")
      BY <1>0, <2>2, CloseOneResult DEF RevokeDirective, Terminal
    <3>2. QED
      BY <3>1
  <2>3. ASSUME NEW d \in Directive, ReadDirective(d) PROVE \E ds, kind : Result(ds, kind)
    <3>1. Result({d}, "EXPIRED")
      BY <1>0, <2>3, CloseOneResult DEF ReadDirective, Refreshed, Terminal
    <3>2. QED
      BY <3>1
  <2>4. QED
    BY <1>4, <2>1, <2>2, <2>3 DEF LifeNext
<1>5. CASE DeliveryNext
  <2>1. ASSUME NEW s \in Session, NEW m \in Message,
               ClaimCarrier(s, m) \/ BeginCarrier(s, m) \/ FailCarrier(s, m)
        PROVE  UNCHANGED authorityVars
    BY <2>1 DEF ClaimCarrier, BeginCarrier, FailCarrier
  <2>2. ASSUME NEW s \in Session, NEW a \in attempts, RecordDelivery(s, a)
        PROVE  \E ds, kind : Result(ds, kind)
    BY <1>0, <2>2, RecordDeliveryResult
  <2>3. ASSUME NEW s \in Session, NEW a \in attempts, NEW st \in Downstream,
               RecordReceipt(s, a, st) \/ ReceiptConfirmsPermit(s, a, st)
        PROVE  \E ds, kind : Result(ds, kind)
    BY <1>0, <2>3, RecordReceiptResult, ReceiptConfirmsResult
  <2>4. ASSUME NEW s \in Session, NEW d \in Directive, RecordExecutionResult(s, d)
        PROVE  \E ds, kind : Result(ds, kind)
    BY <1>0, <2>4, ExecutionResult
  <2>5. QED
    BY <1>1, <1>5, <2>1, <2>2, <2>3, <2>4 DEF DeliveryNext
<1>6. SessionNext \/ UNCHANGED allVars => UNCHANGED authorityVars
  BY DEF SessionNext, allVars, authorityVars
<1>7. QED
  BY <1>1, <1>2, <1>3, <1>4, <1>5, <1>6 DEF DirectiveNext

LEMMA AuthorityInitInv == DirectiveInit => AuthorityInv
<1> SUFFICES ASSUME DirectiveInit PROVE AuthorityInv
  OBVIOUS
<1>1. SurfaceInv
  BY SurfaceInitInv DEF DirectiveInit
<1>2. DirectiveTypeOK
  BY DirectiveConstants DEF DirectiveInit, DirectiveTypeOK, GrantRow, Never
<1>3. GrantCovers
  BY DEF DirectiveInit, GrantCovers, Active, Issued
<1>4. QED
  BY <1>1, <1>2, <1>3 DEF AuthorityInv

LEMMA AuthorityNextInv == AuthorityInv /\ [DirectiveNext]_allVars => AuthorityInv'
BY SurfacesUnderDirectives, EveryResult DEF AuthorityInv, Result

\* Whatever is reachable: types, the permits of the carriers, and the grants.
THEOREM AuthorityInvariant == DirectiveSpec => []AuthorityInv
  BY AuthorityInitInv, AuthorityNextInv, PTL DEF DirectiveSpec

\* For any number of directives and grants: an active delegated directive
\* stands under its grant, and its carrier is surfaced at most once.
THEOREM AuthoritySafety ==
  DirectiveSpec => [](DirectiveTypeOK /\ DelegationStandsUnderItsGrant /\ OnlyAbortedIsRetried)
<1>1. AuthorityInv => DelegationStandsUnderItsGrant
  <2> SUFFICES ASSUME AuthorityInv, NEW d \in Directive, Active(d), directive[d].grant # None
               PROVE  /\ GrantStatus(directive[d].grant) = "ACTIVE"
                      /\ grant[directive[d].grant].version = directive[d].version
    BY DEF DelegationStandsUnderItsGrant
  <2> DEFINE g == directive[d].grant
  <2>1. /\ g \in Grant /\ grant[g].version = directive[d].version
        /\ grant[g].ended = None /\ directive[d].expires <= grant[g].expires
    BY DEF AuthorityInv, GrantCovers
  <2>2. ~(directive[d].expires <= now) /\ directive[d] # None
    BY DEF Active, Issued, Lifecycle, Closings, Terminal
  <2>3. directive[d].expires \in Nat /\ grant[g].expires \in Nat /\ now \in Nat
    BY <2>1, <2>2, DirectiveConstants
    DEF AuthorityInv, DirectiveTypeOK, DirectiveRow, GrantRow, Never
  <2>4. QED
    BY <2>1, <2>2, <2>3 DEF GrantStatus
<1>2. AuthorityInv => DirectiveTypeOK /\ OnlyAbortedIsRetried
  BY OlderIsAborted DEF AuthorityInv
<1>3. QED
  BY <1>1, <1>2, AuthorityInvariant, PTL

\* A directive ends once and in one way, for ever: nothing brings it back and
\* nothing rewrites how it ended, whether or not the end was written down.
THEOREM AuthorityHistory == DirectiveSpec => LifecycleIsFinal
<1> DEFINE Kept == \A d \in Directive : Issued(d) /\ ~Active(d) =>
                     Issued(d)' /\ Lifecycle(d)' = Lifecycle(d)
<1>1. AuthorityInv /\ [DirectiveNext]_allVars => Kept
  <2> SUFFICES ASSUME AuthorityInv, [DirectiveNext]_allVars,
                      NEW d \in Directive, Issued(d), ~Active(d)
               PROVE  Issued(d)' /\ Lifecycle(d)' = Lifecycle(d)
    OBVIOUS
  <2>1. PICK ds, kind : Result(ds, kind)
    BY EveryResult
  <2>2. directive'[d] = directive[d] /\ Issued(d)'
    BY <2>1 DEF Result, KeepsRows, Issued
  <2>3. Closings(d)' = IF d \in ds THEN Closings(d) \cup {kind} ELSE Closings(d)
    BY <2>1 DEF Result, Lawful, Ends
  <2>4. d \in ds => Closings(d) = {} /\ kind = "EXPIRED"
    BY <2>1 DEF Result, Lawful
  <2>5. CASE Closings(d) # {}
    BY <2>2, <2>3, <2>4, <2>5 DEF Lifecycle
  <2>6. CASE Closings(d) = {}
    <3>1. directive[d].expires <= now /\ Lifecycle(d) = "EXPIRED"
      BY <2>6 DEF Active, Lifecycle
    <3>2. directive'[d].expires <= now'
      <4>1. directive[d].expires \in Nat /\ now \in Nat /\ now' \in Nat /\ now <= now'
        BY <2>1, DirectiveConstants
        DEF Result, AuthorityInv, DirectiveTypeOK, DirectiveRow, Issued, Never
      <4>2. QED
        BY <2>2, <3>1, <4>1
    <3>3. Closings(d)' = {} \/ Closings(d)' = {"EXPIRED"}
      BY <2>3, <2>4, <2>6
    <3>4. QED
      BY <2>2, <3>1, <3>2, <3>3 DEF Lifecycle
  <2>7. QED
    BY <2>5, <2>6
<1>2. QED
  BY <1>1, AuthorityInvariant, PTL DEF DirectiveSpec, LifecycleIsFinal


----------------------------------------------------------------------------
(* What the guards of the database rest on, and when a directive is        *)
(* completed.                                                              *)

Receipts == {"DELIVERED", "ACKNOWLEDGED", "PROCESSED"}

\* Carriers are delivered to identified sessions only, nothing is reconciled,
\* and a confirmed permit has its delivery in the log.
Identified == \A s \in Session : Registered(s) => session[s].lineage # None

NothingReconciled == reconciliations = {} /\ \A h \in handoffs : h.kind # "reconciled"

RecordedIn(q, a) == \E i \in DOMAIN q : q[i] = Event("DELIVERED", a.owner, a.fence)

ConfirmedIsRecorded ==
  \A a \in attempts : a.state = "CONFIRMED" => RecordedIn(log[a.msg], a)

\* A directive ends in all its rows at once, and its rows are empty before it.
EndsAreShared ==
  \A m, n \in Message : m[1] = n[1] =>
    \A k \in Terminal : k \in KindsIn(log[m]) => k \in KindsIn(log[n])

UnissuedIsSilent == \A m \in Message : ~Issued(m[1]) => log[m] = <<>>

LogInv == EndsAreShared /\ UnissuedIsSilent /\ CompletedExactlyWhenAllReported

FactsInv == AuthorityInv /\ Identified /\ NothingReconciled /\ ConfirmedIsRecorded /\ LogInv

\* q with some entries more.
Extends(q, r) ==
  /\ q \in Seq(EventRow) /\ r \in Seq(EventRow)
  /\ Len(q) <= Len(r)
  /\ \A i \in 1 .. Len(q) : r[i] = q[i]

Grows == \A m \in Message : Extends(log[m], log'[m])

\* The terminal events of a step: kind for every row of the directives in ds.
Adds(ds, kind) ==
  \A m \in Message : \A k \in Terminal :
    k \in KindsIn(log'[m]) <=> k \in KindsIn(log[m]) \/ (m[1] \in ds /\ k = kind)

\* A result that was reported before the end.
ReportedIn(q) ==
  \E i \in DOMAIN q : q[i].kind = "RESULT_RECORDED" /\ \A j \in 1 .. i : q[j].kind \notin Terminal

LEMMA AppendExtends ==
  ASSUME NEW q \in Seq(EventRow), NEW e \in EventRow
  PROVE  /\ Extends(q, Append(q, e))
         /\ Len(Append(q, e)) = Len(q) + 1 /\ Append(q, e)[Len(q) + 1] = e
BY DEF Extends

\* What is new in it.
LEMMA AppendLast ==
  ASSUME NEW q \in Seq(EventRow), NEW e \in EventRow, NEW i \in DOMAIN Append(q, e), i > Len(q)
  PROVE  i = Len(q) + 1 /\ Append(q, e)[i] = e /\ Len(q) \in Nat
<1>1. /\ DOMAIN Append(q, e) = 1 .. Len(q) + 1 /\ Len(q) \in Nat
      /\ Append(q, e)[Len(q) + 1] = e
  OBVIOUS
<1>2. i = Len(q) + 1
  BY <1>1
<1>3. QED
  BY <1>1, <1>2

LEMMA ExtendsSelf == ASSUME NEW q \in Seq(EventRow) PROVE Extends(q, q)
BY DEF Extends

LEMMA ExtendsChain ==
  ASSUME NEW p, NEW q, NEW r, Extends(p, q), Extends(q, r)
  PROVE  Extends(p, r)
<1>1. Len(p) \in Nat /\ Len(q) \in Nat /\ Len(r) \in Nat
  BY DEF Extends
<1>2. QED
  BY <1>1 DEF Extends

LEMMA RecordedStays ==
  ASSUME NEW q, NEW r, NEW a, Extends(q, r), RecordedIn(q, a)
  PROVE  RecordedIn(r, a)
<1>1. PICK i \in DOMAIN q : q[i] = Event("DELIVERED", a.owner, a.fence)
  BY DEF RecordedIn
<1>2. i \in DOMAIN r /\ r[i] = q[i]
  BY DEF Extends
<1>3. QED
  BY <1>1, <1>2 DEF RecordedIn

\* Entries that report nothing, and whatever comes after the end, leave what
\* was reported in time as it is.
LEMMA ReportedStays ==
  ASSUME NEW q, NEW r, Extends(q, r),
         \A i \in DOMAIN r : i > Len(q) => \/ r[i].kind # "RESULT_RECORDED"
                                           \/ \E j \in DOMAIN q : q[j].kind \in Terminal
  PROVE  ReportedIn(r) <=> ReportedIn(q)
<1>1. /\ Len(q) \in Nat /\ Len(r) \in Nat /\ DOMAIN q = 1 .. Len(q) /\ DOMAIN r = 1 .. Len(r)
      /\ Len(q) <= Len(r) /\ \A i \in 1 .. Len(q) : r[i] = q[i]
  BY DEF Extends
<1>2. ASSUME ReportedIn(q) PROVE ReportedIn(r)
  <2>1. PICK i \in DOMAIN q : q[i].kind = "RESULT_RECORDED"
                             /\ \A j \in 1 .. i : q[j].kind \notin Terminal
    BY <1>2 DEF ReportedIn
  <2>2. i \in DOMAIN r /\ r[i] = q[i] /\ \A j \in 1 .. i : r[j] = q[j]
    BY <1>1
  <2>3. QED
    BY <2>1, <2>2 DEF ReportedIn
<1>3. ASSUME ReportedIn(r) PROVE ReportedIn(q)
  <2>1. PICK i \in DOMAIN r : r[i].kind = "RESULT_RECORDED"
                             /\ \A j \in 1 .. i : r[j].kind \notin Terminal
    BY <1>3 DEF ReportedIn
  <2>2. CASE i > Len(q)
    <3>1. PICK j \in DOMAIN q : q[j].kind \in Terminal
      BY <2>1, <2>2
    <3>2. j \in 1 .. i /\ r[j] = q[j]
      BY <1>1, <2>2
    <3>3. QED
      BY <2>1, <3>1, <3>2
  <2>3. CASE i <= Len(q)
    <3>1. i \in DOMAIN q /\ \A j \in 1 .. i : r[j] = q[j]
      BY <1>1, <2>3
    <3>2. QED
      BY <1>1, <2>1, <3>1 DEF ReportedIn
  <2>4. QED
    BY <1>1, <2>2, <2>3
<1>4. QED
  BY <1>2, <1>3

\* The property, in terms of the logs.
AllReported(d) == \A g \in directive[d].audience : ReportedIn(log[<<d, g>>])

LEMMA CompletedMeans ==
  /\ CompletedExactlyWhenAllReported <=>
       \A d \in Directive : Issued(d) => ("COMPLETED" \in Closings(d) <=> AllReported(d))
  /\ CompletedExactlyWhenAllReported' <=>
       \A d \in Directive : Issued(d)' => ("COMPLETED" \in Closings(d)' <=> AllReported(d)')
BY DEF CompletedExactlyWhenAllReported, AllReported, ReportedIn, InTime

LEMMA NoClosing ==
  ASSUME NEW d \in Directive, Closings(d) = {}, NEW m \in Message, m[1] = d
  PROVE  /\ \A k \in Terminal : k \notin KindsIn(log[m])
         /\ \A j \in DOMAIN log[m] : log[m][j].kind \notin Terminal
BY ClosingsAreKinds DEF KindsIn

LEMMA Endings ==
  ASSUME NEW ds, NEW kind, Adds(ds, kind), EndsAreShared
  PROVE  EndsAreShared'
BY DEF Adds, EndsAreShared

\* A directive's end, read off any of its rows.
LEMMA ClosingAdds ==
  ASSUME NEW ds, NEW kind \in Terminal, Adds(ds, kind), NEW d \in Directive,
         NEW k \in Terminal
  PROVE  /\ k \in Closings(d) => k \in Closings(d)'
         /\ k \in Closings(d)' => k \in Closings(d) \/ (d \in ds /\ k = kind)
BY ClosingsAreKinds DEF Adds

\* Any step but a result that completes: reports and completions stay as they
\* are, and a directive that is issued has neither.
LEMMA LogKept ==
  ASSUME DirectiveTypeOK, DirectiveTypeOK', KeepsRows, LogInv,
         NEW ds, NEW kind \in Terminal \ {"COMPLETED"}, Adds(ds, kind),
         \A m \in Message : ReportedIn(log'[m]) <=> ReportedIn(log[m]),
         UnissuedIsSilent'
  PROVE  LogInv'
<1>1. EndsAreShared /\ UnissuedIsSilent /\ CompletedExactlyWhenAllReported
  BY DEF LogInv
<1>2. ASSUME NEW d \in Directive, Issued(d)'
      PROVE  "COMPLETED" \in Closings(d)' <=> AllReported(d)'
  <2>1. "COMPLETED" \in Closings(d)' <=> "COMPLETED" \in Closings(d)
    BY ClosingAdds DEF Terminal
  <2>2. directive'[d].audience \subseteq Agent /\ directive'[d].audience # {}
    BY <1>2 DEF DirectiveTypeOK, DirectiveRow, Issued
  <2>3. \A g \in directive'[d].audience :
          <<d, g>> \in Message /\ <<d, g>>[1] = d
          /\ (ReportedIn(log'[<<d, g>>]) <=> ReportedIn(log[<<d, g>>]))
    BY <2>2, DirectiveConstants
  <2>4. CASE Issued(d)
    <3>1. directive'[d] = directive[d]
      BY <2>4 DEF KeepsRows
    <3>2. AllReported(d)' <=> AllReported(d)
      BY <2>3, <3>1 DEF AllReported
    <3>3. QED
      BY <1>1, <2>1, <2>4, <3>2, CompletedMeans
  <2>5. CASE ~Issued(d)
    <3>1. \A m \in Message : m[1] = d => log[m] = <<>>
      BY <1>1, <2>5 DEF UnissuedIsSilent
    <3>2. "COMPLETED" \notin Closings(d)
      BY <3>1 DEF Closings
    <3>3. PICK g \in directive'[d].audience : TRUE
      BY <2>2
    <3>4. ~ReportedIn(log[<<d, g>>])
      BY <2>3, <3>1 DEF ReportedIn
    <3>5. QED
      BY <2>1, <2>3, <3>2, <3>4 DEF AllReported
  <2>6. QED
    BY <2>4, <2>5
<1>3. EndsAreShared'
  BY <1>1, Endings
<1>4. QED
  BY <1>2, <1>3, CompletedMeans DEF LogInv

\* Rows of directives that are not issued stay empty, if only rows of issued
\* ones are written.
LEMMA SilentStays ==
  ASSUME UnissuedIsSilent, KeepsRows, DirectiveTypeOK,
         \A m \in Message : log'[m] # log[m] => Issued(m[1])
  PROVE  UnissuedIsSilent'
BY DirectiveConstants DEF UnissuedIsSilent, Issued, KeepsRows

\* The log's part of a step, and what the database says of it.
LogKeeps == Grows /\ LogInv'

FactsStep ==
  \A m \in Message : \A i \in DOMAIN log'[m] : i > Len(log[m]) => GuardAccepts(m, i)'

LEMMA SilentStep ==
  ASSUME DirectiveTypeOK, DirectiveTypeOK', KeepsRows, LogInv, log' = log
  PROVE  LogKeeps /\ FactsStep
<1>1. \A m \in Message : log[m] \in Seq(EventRow)
  BY DEF DirectiveTypeOK
<1>2. Grows
  BY <1>1, ExtendsSelf DEF Grows
<1>3. Adds({}, "EXPIRED")
  BY DEF Adds
<1>4. UnissuedIsSilent'
  BY SilentStays DEF LogInv
<1>5. LogInv'
  BY <1>3, <1>4, LogKept DEF Terminal
<1>6. FactsStep
  BY <1>1 DEF FactsStep
<1>7. QED
  BY <1>2, <1>5, <1>6 DEF LogKeeps

\* The three questions of the guard.
LEMMA GuardAnswers ==
  ASSUME NEW m, NEW i
  PROVE  /\ log'[m][i].kind \in Terminal /\ EndBacked(m, i)' => GuardAccepts(m, i)'
         /\ log'[m][i].kind = "RESULT_RECORDED" /\ ResultBacked(m, i)' => GuardAccepts(m, i)'
         /\ log'[m][i].kind \in Receipts /\ ReceiptBacked(m, i)' => GuardAccepts(m, i)'
<1>1. /\ "RESULT_RECORDED" \notin Terminal /\ "RESULT_RECORDED" \notin Receipts
      /\ \A k \in Receipts : k \notin Terminal
  BY DEF Terminal, Receipts
<1>2. QED
  BY <1>1 DEF GuardAccepts

\* A call or the clock ends directives: their rows all get the terminal event,
\* the first one in each.
LEMMA CloseStep ==
  ASSUME DirectiveTypeOK, DirectiveTypeOK', KeepsRows, LogInv,
         NEW ds, NEW kind \in Terminal \ {"COMPLETED"}, Close(ds, kind),
         \A d \in ds : d \in Directive /\ Issued(d) /\ Closings(d) = {}
  PROVE  LogKeeps /\ FactsStep
<1> DEFINE e == Event(kind, None, 0)
<1>1. e \in EventRow /\ e.kind = kind
  BY DEF Event, EventRow
<1>2. \A m \in Message :
        /\ log[m] \in Seq(EventRow)
        /\ log'[m] = IF m[1] \in ds THEN Append(log[m], e) ELSE log[m]
  BY DEF Close, DirectiveTypeOK
<1> HIDE DEF e
<1>3. Grows
  BY <1>1, <1>2, AppendExtends, ExtendsSelf DEF Grows
<1>4. \A m \in Message : KindsIn(log'[m]) =
        IF m[1] \in ds THEN KindsIn(log[m]) \cup {kind} ELSE KindsIn(log[m])
  BY <1>1, <1>2, AppendKinds
<1>5. Adds(ds, kind)
  BY <1>4 DEF Adds
<1>6. ASSUME NEW m \in Message PROVE ReportedIn(log'[m]) <=> ReportedIn(log[m])
  <2>1. \A i \in DOMAIN log'[m] : i > Len(log[m]) => log'[m][i].kind # "RESULT_RECORDED"
    <3>1. CASE m[1] \in ds
      <4>1. ASSUME NEW i \in DOMAIN log'[m], i > Len(log[m]) PROVE log'[m][i] = e
        <5>1. log'[m] = Append(log[m], e) /\ log[m] \in Seq(EventRow)
          BY <1>2, <3>1
        <5>2. i \in DOMAIN Append(log[m], e)
          BY <4>1, <5>1
        <5>3. QED
          BY <1>1, <4>1, <5>1, <5>2, AppendLast
      <4>2. QED
        BY <1>1, <4>1 DEF Terminal
    <3>2. CASE m[1] \notin ds
      BY <1>2, <3>2
    <3>3. QED
      BY <3>1, <3>2
  <2>2. QED
    BY <1>3, <2>1, ReportedStays DEF Grows
<1>7. UnissuedIsSilent'
  BY <1>2, SilentStays DEF LogInv
<1>8. LogInv'
  BY <1>5, <1>6, <1>7, LogKept
<1>9. ASSUME NEW m \in Message, NEW i \in DOMAIN log'[m], i > Len(log[m])
      PROVE  GuardAccepts(m, i)'
  <2>1. m[1] \in ds
    BY <1>2, <1>9
  <2>2. i = Len(log[m]) + 1 /\ log'[m][i] = e /\ Len(log[m]) \in Nat
    <3>1. log'[m] = Append(log[m], e) /\ log[m] \in Seq(EventRow)
      BY <1>2, <2>1
    <3>2. i \in DOMAIN Append(log[m], e)
      BY <1>9, <3>1
    <3>3. QED
      BY <1>1, <1>9, <3>1, <3>2, AppendLast
  <2>3. \A j \in DOMAIN log[m] : log[m][j].kind \notin Terminal
    BY <2>1, NoClosing
  <2>4. \A j \in 1 .. i - 1 : log'[m][j].kind \notin Terminal
    BY <1>2, <1>3, <2>2, <2>3 DEF Grows, Extends
  <2>5. EndBacked(m, i)'
    BY <1>1, <2>2, <2>4 DEF EndBacked, InTime
  <2>6. log'[m][i].kind \in Terminal
    BY <1>1, <2>2
  <2>7. QED
    BY <2>5, <2>6, GuardAnswers
<1>10. QED
  BY <1>3, <1>8, <1>9 DEF LogKeeps, FactsStep

\* A target's receipts: one row gets them, and none of them is an end or a result.
LEMMA SayStep ==
  ASSUME DirectiveTypeOK, DirectiveTypeOK', directive' = directive, LogInv,
         NEW m \in Message, Issued(m[1]), NEW q, Extends(log[m], q), log' = [log EXCEPT ![m] = q],
         \A i \in DOMAIN q : i > Len(log[m]) => q[i].kind \in Receipts
  PROVE  LogKeeps
<1>1. /\ log'[m] = q /\ \A n \in Message : log[n] \in Seq(EventRow)
      /\ \A n \in Message : n # m => log'[n] = log[n]
  BY DEF DirectiveTypeOK
<1>2. Grows
  BY <1>1, ExtendsSelf DEF Grows
<1>3. ASSUME NEW n \in Message
      PROVE  \A i \in DOMAIN log'[n] : i > Len(log[n]) => log'[n][i].kind \in Receipts
  BY <1>1
<1>4. KeepsRows
  BY DEF KeepsRows
<1>5. ASSUME NEW n \in Message, NEW k \in Terminal
      PROVE  k \in KindsIn(log'[n]) <=> k \in KindsIn(log[n])
  <2>1. /\ Len(log[n]) \in Nat /\ Len(log'[n]) \in Nat /\ Len(log[n]) <= Len(log'[n])
        /\ DOMAIN log[n] = 1 .. Len(log[n]) /\ DOMAIN log'[n] = 1 .. Len(log'[n])
        /\ \A i \in 1 .. Len(log[n]) : log'[n][i] = log[n][i]
    BY <1>2 DEF Grows, Extends
  <2>2. k \notin Receipts
    BY DEF Terminal, Receipts
  <2>3. \A i \in DOMAIN log'[n] : log'[n][i].kind = k => i \in DOMAIN log[n]
    BY <1>3, <2>1, <2>2
  <2>4. QED
    BY <2>1, <2>3 DEF KindsIn
<1>6. Adds({}, "EXPIRED")
  BY <1>5 DEF Adds
<1>7. \A n \in Message : ReportedIn(log'[n]) <=> ReportedIn(log[n])
  BY <1>2, <1>3, ReportedStays DEF Grows, Receipts
<1>8. UnissuedIsSilent'
  BY <1>1, <1>4, SilentStays DEF LogInv
<1>9. LogInv'
  BY <1>4, <1>6, <1>7, <1>8, LogKept DEF Terminal
<1>10. QED
  BY <1>2, <1>9 DEF LogKeeps

\* An open session is the head of its lineage, and has one.
LEMMA OpenIsHead ==
  ASSUME SurfaceInv, Identified, NEW s \in Session, IsOpen(s)
  PROVE  session[s].lineage # None /\ lineage[session[s].lineage].head = s
BY DEF SurfaceInv, LineageInv, OnlyHeadIsOpen, Identified, IsOpen, Registered

\* A receipt the guard accepts: of a confirmed permit, by the session that
\* holds the recipient, in time or for a delivery that was.
LEMMA ReceiptPasses ==
  ASSUME SurfaceInv, Identified, session' = session, lineage' = lineage,
         NEW s \in Session, IsOpen(s), NEW m \in Message, NEW i, NEW kind \in Receipts,
         NEW b \in attempts', b.msg = m, b.state = "CONFIRMED",
         recipient'[m].fence = b.fence, recipient'[m].bound = s, MaySpeak(s, kind, b)',
         log'[m][i] = Event(kind, s, b.fence),
         IF kind = "DELIVERED" THEN InTime(m, i)'
         ELSE \E j \in 1 .. i - 1 : /\ log'[m][j] = Event("DELIVERED", b.owner, b.fence)
                                    /\ InTime(m, i)' \/ InTime(m, j)'
  PROVE  GuardAccepts(m, i)'
<1>1. session[s].lineage # None /\ lineage[session[s].lineage].head = s
  BY OpenIsHead
<1>2. log'[m][i].kind = kind /\ log'[m][i].by = s /\ log'[m][i].fence = b.fence
  BY DEF Event
<1>3. b \in ConfirmedOf(m)'
  BY DEF ConfirmedOf
<1>4. /\ kind # "DELIVERED" => DeliveredAt(m, b, i)' # {}
      /\ InTime(m, i)' \/ \E j \in DeliveredAt(m, b, i)' : InTime(m, j)'
  BY DEF DeliveredAt
<1>5. ReceiptBacked(m, i)'
  BY <1>1, <1>2, <1>3, <1>4 DEF ReceiptBacked
<1>6. QED
  BY <1>2, <1>5, GuardAnswers

\* Until its directive ends, whatever a row says is said in time.
LEMMA StillInTime ==
  ASSUME NEW m \in Message, m[1] \in Directive, Closings(m[1]) = {}, Extends(log[m], log'[m]),
         \A i \in DOMAIN log'[m] : i > Len(log[m]) => log'[m][i].kind \notin Terminal
  PROVE  \A i \in DOMAIN log'[m] : InTime(m, i)'
<1>1. /\ Len(log[m]) \in Nat /\ Len(log'[m]) \in Nat
      /\ DOMAIN log[m] = 1 .. Len(log[m]) /\ DOMAIN log'[m] = 1 .. Len(log'[m])
      /\ \A i \in 1 .. Len(log[m]) : log'[m][i] = log[m][i]
  BY DEF Extends
<1>2. \A i \in DOMAIN log[m] : log[m][i].kind \notin Terminal
  BY NoClosing
<1>3. \A i \in DOMAIN log'[m] : log'[m][i].kind \notin Terminal
  BY <1>1, <1>2
<1>4. QED
  BY <1>1, <1>3 DEF InTime

LEMMA InTimeStays ==
  ASSUME NEW m \in Message, Extends(log[m], log'[m]), NEW i \in DOMAIN log[m]
  PROVE  InTime(m, i)' <=> InTime(m, i)
BY DEF Extends, InTime

LEMMA RowParts ==
  ASSUME NEW m \in Message
  PROVE  m[1] \in Directive /\ m[2] \in Agent /\ m = <<m[1], m[2]>>
BY DirectiveConstants

----------------------------------------------------------------------------
(* The receipts of a target. *)

LEMMA RecordDeliveryFacts ==
  ASSUME FactsInv, DirectiveTypeOK', NEW s \in Session, NEW a \in attempts, RecordDelivery(s, a)
  PROVE  LogKeeps /\ FactsStep
<1> DEFINE m == a.msg
           e == Event("DELIVERED", s, a.fence)
           b == [a EXCEPT !.state = "CONFIRMED"]
<1>1. /\ SurfaceInv /\ DirectiveTypeOK /\ Identified /\ LogInv /\ TypeOK /\ LivePermitIsCurrent
  BY DEF FactsInv, AuthorityInv, SurfaceInv, PermitInv
<1>2. /\ m \in Message /\ m[1] \in Directive /\ e \in EventRow /\ e.kind \in Receipts
      /\ e.kind \notin Terminal
  BY <1>1, FactRows, RowParts DEF Receipts, Event
<1>3. /\ Active(m[1]) /\ IsOpen(s) /\ a.owner = s /\ a.state \in Unresolved
      /\ recipient[m].bound = s /\ attempts' = Resolve(a, "CONFIRMED")
      /\ SetState(m, HolderAfter(s), "DELIVERED")
      /\ session' = session /\ lineage' = lineage /\ directive' = directive
      /\ log' = [log EXCEPT ![m] = Append(@, e)]
  BY DEF RecordDelivery, ConfirmDelivery
<1>4. /\ log[m] \in Seq(EventRow) /\ log'[m] = Append(log[m], e)
      /\ Extends(log[m], log'[m])
  BY <1>1, <1>2, <1>3, AppendExtends DEF DirectiveTypeOK
<1>5. Issued(m[1]) /\ Closings(m[1]) = {}
  BY <1>1, <1>2, <1>3, ActiveMeans
<1>6. /\ b \in attempts' /\ b.msg = m /\ b.state = "CONFIRMED" /\ b.fence = a.fence /\ b.owner = s
  BY <1>1, <1>3 DEF Resolve, TypeOK, AttemptRow
<1>7. a.fence = recipient[m].fence
  BY <1>1, <1>3 DEF LivePermitIsCurrent, Unresolved
<1>8. recipient'[m].fence = a.fence /\ recipient'[m].bound = s
  <2>1. HolderAfter(s) = s
    BY <1>1, <1>3, HolderIsSelf DEF SurfaceInv
  <2>2. recipient[m] \in RecipientRow /\ recipient \in [Message -> RecipientRow]
    BY <1>1, <1>2 DEF TypeOK
  <2>3. QED
    BY <1>2, <1>3, <1>7, <2>1, <2>2 DEF SetState, RecipientRow
<1>9. ASSUME NEW i \in DOMAIN log'[m], i > Len(log[m]) PROVE log'[m][i] = e
  <2> HIDE DEF m, e
  <2>1. i \in DOMAIN Append(log[m], e)
    BY <1>4, <1>9
  <2>2. QED
    BY <1>2, <1>4, <1>9, <2>1, AppendLast
<1> HIDE DEF e
<1>10. LogKeeps
  <2> DEFINE q == Append(log[m], e)
  <2>1. log' = [log EXCEPT ![m] = q] /\ Extends(log[m], q)
    BY <1>3, <1>4
  <2>2. \A i \in DOMAIN q : i > Len(log[m]) => q[i].kind \in Receipts
    BY <1>2, <1>4, <1>9
  <2> HIDE DEF m, q
  <2>3. QED
    BY <1>1, <1>2, <1>3, <1>5, <2>1, <2>2, SayStep
<1>11. FactsStep
  <2> SUFFICES ASSUME NEW n \in Message, NEW i \in DOMAIN log'[n], i > Len(log[n])
               PROVE  GuardAccepts(n, i)'
    BY DEF FactsStep
  <2>1. n = m
    BY <1>1, <1>3 DEF DirectiveTypeOK
  <2>2. i \in DOMAIN log'[m] /\ log'[m][i] = e
    BY <1>9, <2>1
  <2>3. InTime(m, i)'
    BY <1>2, <1>4, <1>5, <1>9, <2>2, StillInTime
  <2>4. MaySpeak(s, "DELIVERED", b)'
    BY <1>6 DEF MaySpeak
  <2>5. log'[m][i] = Event("DELIVERED", s, b.fence)
    BY <1>6, <2>2 DEF e
  <2> HIDE DEF m, b
  <2>6. GuardAccepts(m, i)'
    BY <1>1, <1>2, <1>3, <1>6, <1>8, <2>3, <2>4, <2>5, ReceiptPasses DEF Receipts
  <2>7. QED
    BY <2>1, <2>6
<1>12. QED
  BY <1>10, <1>11

\* Who may build on a permit was handed it as a confirmed one.
LEMMA HeirSpeaks ==
  ASSUME NothingReconciled, NEW s \in Session, NEW m, NEW a, NEW kind, kind # "DELIVERED",
         a.owner = s \/ (a \in Recoverable(m, s) /\ RecoverySucceeds(m, s)),
         handoffs' = handoffs
  PROVE  MaySpeak(s, kind, a)'
<1>1. CASE a.owner = s
  BY <1>1 DEF MaySpeak
<1>2. CASE a.owner # s
  <2>1. PICK x \in Recoverable(m, s) :
          Recoverable(m, s) = {x} /\ (x.owner = s \/ Inherited(x, s))
    BY <1>2 DEF RecoverySucceeds
  <2>2. x = a
    BY <1>2, <2>1
  <2>3. Inherited(a, s)
    BY <1>2, <2>1, <2>2
  <2>4. ~HandedTo(s, "reconciled", a)
    BY DEF NothingReconciled, HandedTo
  <2>5. HandedTo(s, "confirmed", a)
    BY <2>3, <2>4 DEF Inherited, NothingReconciled
  <2>6. QED
    BY <2>5 DEF MaySpeak, HandedTo
<1>3. QED
  BY <1>1, <1>2

LEMMA RecordReceiptFacts ==
  ASSUME FactsInv, DirectiveTypeOK', NEW s \in Session, NEW a \in attempts,
         NEW st \in Downstream, RecordReceipt(s, a, st)
  PROVE  LogKeeps /\ FactsStep
<1> DEFINE m == a.msg
           e == Event(st, s, a.fence)
<1>1. /\ SurfaceInv /\ DirectiveTypeOK /\ Identified /\ NothingReconciled /\ LogInv /\ TypeOK
      /\ LivePermitIsCurrent /\ ConfirmedIsRecorded /\ UnissuedIsSilent
  BY DEF FactsInv, AuthorityInv, SurfaceInv, PermitInv, LogInv
<1>2. m \in Message /\ m[1] \in Directive
  BY <1>1, RowParts DEF TypeOK, AttemptRow
<1>3. /\ MayRecord(m, a) /\ IsOpen(s) /\ a.state = "CONFIRMED" /\ recipient[m].bound = s
      /\ a.owner = s \/ (a \in Recoverable(m, s) /\ RecoverySucceeds(m, s))
      /\ SetState(m, s, st) /\ attempts' = attempts /\ handoffs' = handoffs
      /\ session' = session /\ lineage' = lineage /\ directive' = directive
      /\ log' = [log EXCEPT ![m] = IF FactOf(st) = {} THEN @ ELSE Append(@, e)]
  BY DEF RecordReceipt, ReceiptWithPermit
<1>4. CASE st = "RESPONDED"
  <2>1. log' = log
    BY <1>1, <1>3, <1>4 DEF FactOf, DirectiveTypeOK
  <2>2. KeepsRows
    BY <1>3 DEF KeepsRows
  <2>3. QED
    BY <1>1, <2>1, <2>2, SilentStep
<1>5. CASE st # "RESPONDED"
  <2>1. st \in Receipts /\ st # "DELIVERED" /\ FactOf(st) # {}
    BY <1>5 DEF Downstream, Receipts, FactOf
  <2>2. e \in EventRow /\ e.kind = st /\ e.kind \notin Terminal
    BY <1>1, <2>1, FactRows DEF Receipts, Event
  <2>3. /\ log[m] \in Seq(EventRow) /\ log'[m] = Append(log[m], e)
        /\ log' = [log EXCEPT ![m] = Append(log[m], e)]
        /\ Extends(log[m], log'[m])
    BY <1>1, <1>2, <1>3, <2>1, <2>2, AppendExtends DEF DirectiveTypeOK
  <2>4. PICK j \in DOMAIN log[m] :
          /\ log[m][j] = Event("DELIVERED", a.owner, a.fence)
          /\ Active(m[1]) \/ InTime(m, j)
    BY <1>1, <1>3 DEF MayRecord, DeliveredInTime, ConfirmedIsRecorded, RecordedIn
  <2>5. Issued(m[1])
    <3>1. log[m] # <<>>
      BY <2>4
    <3>2. QED
      BY <1>1, <1>2, <3>1 DEF UnissuedIsSilent
  <2>6. recipient'[m].fence = a.fence /\ recipient'[m].bound = s
    <3>1. a.fence = recipient[m].fence
      BY <1>1, <1>3 DEF LivePermitIsCurrent
    <3>2. recipient[m] \in RecipientRow /\ recipient \in [Message -> RecipientRow]
      BY <1>1, <1>2 DEF TypeOK
    <3>3. QED
      BY <1>2, <1>3, <3>1, <3>2 DEF SetState, RecipientRow
  <2>7. ASSUME NEW i \in DOMAIN log'[m], i > Len(log[m])
        PROVE  log'[m][i] = e /\ i = Len(log[m]) + 1 /\ Len(log[m]) \in Nat
    <3> HIDE DEF m, e
    <3>1. i \in DOMAIN Append(log[m], e)
      BY <2>3, <2>7
    <3>2. QED
      BY <2>2, <2>3, <2>7, <3>1, AppendLast
  <2>8. LogKeeps
    <3> DEFINE q == Append(log[m], e)
    <3>1. log' = [log EXCEPT ![m] = q] /\ Extends(log[m], q)
      BY <2>3
    <3>2. \A i \in DOMAIN q : i > Len(log[m]) => q[i].kind \in Receipts
      BY <2>1, <2>2, <2>3, <2>7
    <3> HIDE DEF m, q, e
    <3>3. QED
      BY <1>1, <1>2, <1>3, <2>5, <3>1, <3>2, SayStep
  <2>9. FactsStep
    <3> SUFFICES ASSUME NEW n \in Message, NEW i \in DOMAIN log'[n], i > Len(log[n])
                 PROVE  GuardAccepts(n, i)'
      BY DEF FactsStep
    <3>1. n = m
      BY <1>1, <2>3 DEF DirectiveTypeOK
    <3>2. i \in DOMAIN log'[m] /\ log'[m][i] = e /\ i = Len(log[m]) + 1 /\ Len(log[m]) \in Nat
      BY <2>7, <3>1
    <3>3. /\ j \in 1 .. i - 1 /\ log'[m][j] = Event("DELIVERED", a.owner, a.fence)
      <4>1. DOMAIN log[m] = 1 .. Len(log[m])
        BY <2>3
      <4>2. j \in 1 .. Len(log[m])
        BY <2>4, <4>1
      <4>3. log'[m][j] = log[m][j]
        BY <2>3, <4>2 DEF Extends
      <4>4. j \in 1 .. i - 1
        BY <3>2, <4>2
      <4>5. QED
        BY <2>4, <4>3, <4>4
    <3>4. InTime(m, i)' \/ InTime(m, j)'
      <4>1. CASE Active(m[1])
        <5>1. Closings(m[1]) = {}
          BY <1>1, <1>2, <4>1, ActiveMeans
        <5>2. \A k \in DOMAIN log'[m] : k > Len(log[m]) => log'[m][k].kind \notin Terminal
          BY <2>2, <2>7
        <5>3. InTime(m, i)'
          BY <1>2, <2>3, <3>2, <5>1, <5>2, StillInTime
        <5>4. QED
          BY <5>3
      <4>2. CASE InTime(m, j)
        BY <1>2, <2>3, <2>4, <4>2, InTimeStays
      <4>3. QED
        BY <2>4, <4>1, <4>2
    <3>5. MaySpeak(s, st, a)'
      BY <1>1, <1>3, <2>1, HeirSpeaks
    <3>6. a \in attempts' /\ a.msg = m
      BY <1>3
    <3> HIDE DEF m
    <3>7. GuardAccepts(m, i)'
      BY <1>1, <1>2, <1>3, <2>1, <2>6, <3>2, <3>3, <3>4, <3>5, <3>6, ReceiptPasses
    <3>8. QED
      BY <3>1, <3>7
  <2>10. QED
    BY <2>8, <2>9
<1>6. QED
  BY <1>4, <1>5

\* One entry, or two.
LEMMA AppendTwo ==
  ASSUME NEW q \in Seq(EventRow), NEW e \in EventRow, NEW f \in EventRow
  PROVE  LET r == Append(Append(q, e), f) IN
         /\ r \in Seq(EventRow) /\ Extends(q, r) /\ r[Len(q) + 1] = e
         /\ \A i \in DOMAIN r : i > Len(q) => \/ i = Len(q) + 1 /\ r[i] = e
                                              \/ i = Len(q) + 2 /\ r[i] = f
<1> DEFINE p == Append(q, e)
           r == Append(p, f)
<1>1. p \in Seq(EventRow) /\ Extends(q, p) /\ Len(p) = Len(q) + 1 /\ p[Len(q) + 1] = e
  BY AppendExtends
<1> HIDE DEF p
<1>2. r \in Seq(EventRow) /\ Extends(p, r) /\ Len(r) = Len(p) + 1 /\ r[Len(p) + 1] = f
  BY <1>1, AppendExtends
<1> HIDE DEF r
<1>3. Extends(q, r)
  BY <1>1, <1>2, ExtendsChain
<1>4. Len(q) \in Nat /\ DOMAIN r = 1 .. Len(q) + 2 /\ r[Len(q) + 2] = f
  BY <1>1, <1>2
<1>5. r[Len(q) + 1] = e
  BY <1>1, <1>2, <1>4 DEF Extends
<1>6. ASSUME NEW i \in DOMAIN r, i > Len(q)
      PROVE  \/ i = Len(q) + 1 /\ r[i] = e
             \/ i = Len(q) + 2 /\ r[i] = f
  <2>1. i = Len(q) + 1 \/ i = Len(q) + 2
    BY <1>4, <1>6
  <2>2. QED
    BY <1>4, <1>5, <2>1
<1>7. QED
  BY <1>2, <1>3, <1>5, <1>6 DEF p, r

\* What a receipt says that proves the delivery as well.
LEMMA ReceiptEntries ==
  ASSUME FactsInv, NEW s \in Session, NEW a \in attempts, NEW st \in Downstream,
         ReceiptConfirmsPermit(s, a, st)
  PROVE  LET m == a.msg
             e == Event("DELIVERED", s, a.fence)
             q == log'[m]
         IN
         /\ Extends(log[m], q) /\ log' = [log EXCEPT ![m] = q]
         /\ Len(log[m]) + 1 \in DOMAIN q /\ q[Len(log[m]) + 1] = e
         /\ \A i \in DOMAIN q : i > Len(log[m]) =>
              \/ i = Len(log[m]) + 1 /\ q[i] = e
              \/ i = Len(log[m]) + 2 /\ q[i] = Event(st, s, a.fence) /\ st # "RESPONDED"
<1> DEFINE m == a.msg
           e == Event("DELIVERED", s, a.fence)
           f == Event(st, s, a.fence)
           delivered == Append(log[m], e)
<1>1. m \in Message /\ e \in EventRow /\ log[m] \in Seq(EventRow) /\ Len(log[m]) \in Nat
  BY FactRows DEF FactsInv, AuthorityInv, DirectiveTypeOK
<1>2. /\ log' = [log EXCEPT ![m] = IF FactOf(st) = {} THEN delivered ELSE Append(delivered, f)]
      /\ log \in [Message -> Seq(EventRow)]
  BY DEF ReceiptConfirmsPermit, FactsInv, AuthorityInv, DirectiveTypeOK
<1>3. CASE st = "RESPONDED"
  <2>1. log'[m] = delivered /\ log' = [log EXCEPT ![m] = log'[m]]
    BY <1>1, <1>2, <1>3 DEF FactOf
  <2> HIDE DEF m, e
  <2>2. /\ delivered \in Seq(EventRow) /\ Extends(log[m], delivered)
        /\ Len(delivered) = Len(log[m]) + 1 /\ delivered[Len(log[m]) + 1] = e
    BY <1>1, AppendExtends
  <2>3. \A i \in DOMAIN delivered : i > Len(log[m]) => i = Len(log[m]) + 1 /\ delivered[i] = e
    BY <1>1, AppendLast
  <2> HIDE DEF delivered
  <2>4. Len(log[m]) + 1 \in DOMAIN delivered
    BY <1>1, <2>2
  <2>5. QED
    BY <2>1, <2>2, <2>3, <2>4 DEF m, e
<1>4. CASE st # "RESPONDED"
  <2>1. log'[m] = Append(delivered, f) /\ log' = [log EXCEPT ![m] = log'[m]]
    BY <1>1, <1>2, <1>4 DEF FactOf
  <2>2. f \in EventRow
    BY <1>4, FactRows DEF Downstream, FactsInv, AuthorityInv
  <2> HIDE DEF m, e, f
  <2>3. /\ log'[m] \in Seq(EventRow) /\ Extends(log[m], log'[m]) /\ log'[m][Len(log[m]) + 1] = e
        /\ \A i \in DOMAIN log'[m] : i > Len(log[m]) => \/ i = Len(log[m]) + 1 /\ log'[m][i] = e
                                                        \/ i = Len(log[m]) + 2 /\ log'[m][i] = f
    BY <1>1, <2>1, <2>2, AppendTwo
  <2>4. Len(log[m]) + 1 \in DOMAIN log'[m]
    <3>1. Len(log'[m]) = Len(log[m]) + 2
      BY <1>1, <2>1, <2>2, AppendExtends
    <3>2. QED
      BY <1>1, <2>3, <3>1
  <2>5. QED
    BY <1>4, <2>1, <2>3, <2>4 DEF m, e, f
<1>5. QED
  BY <1>3, <1>4

LEMMA ReceiptConfirmsFacts ==
  ASSUME FactsInv, DirectiveTypeOK', NEW s \in Session, NEW a \in attempts,
         NEW st \in Downstream, ReceiptConfirmsPermit(s, a, st)
  PROVE  LogKeeps /\ FactsStep
<1> DEFINE m == a.msg
           e == Event("DELIVERED", s, a.fence)
           b == [a EXCEPT !.state = "CONFIRMED"]
           q == log'[m]
<1>1. /\ SurfaceInv /\ DirectiveTypeOK /\ Identified /\ LogInv /\ TypeOK /\ LivePermitIsCurrent
  BY DEF FactsInv, AuthorityInv, SurfaceInv, PermitInv
<1>2. m \in Message /\ m[1] \in Directive
  BY <1>1, RowParts DEF TypeOK, AttemptRow
<1>3. /\ MayRecord(m, a) /\ IsOpen(s) /\ a.owner = s /\ a.state \in Unresolved
      /\ ReceiptWithoutPermit(s, m, st)
      /\ session' = session /\ lineage' = lineage /\ directive' = directive
  BY DEF ReceiptConfirmsPermit, ReceiptWithoutPermit
<1>4. /\ Extends(log[m], q) /\ log' = [log EXCEPT ![m] = q]
      /\ Len(log[m]) + 1 \in DOMAIN q /\ q[Len(log[m]) + 1] = e
      /\ \A i \in DOMAIN q : i > Len(log[m]) =>
           \/ i = Len(log[m]) + 1 /\ q[i] = e
           \/ i = Len(log[m]) + 2 /\ q[i] = Event(st, s, a.fence) /\ st # "RESPONDED"
  BY ReceiptEntries
<1>5. Issued(m[1]) /\ Closings(m[1]) = {}
  <2>1. Active(m[1])
    BY <1>3 DEF MayRecord, Unresolved
  <2>2. QED
    BY <1>1, <1>2, <2>1, ActiveMeans
<1>6. b \in attempts' /\ b.msg = m /\ b.state = "CONFIRMED" /\ b.fence = a.fence /\ b.owner = s
  <2>1. a \in {x \in UnresolvedOf(m) : x.owner = s}
    BY <1>3 DEF UnresolvedOf
  <2>2. b \in attempts'
    BY <1>3, <2>1 DEF ReceiptWithoutPermit
  <2>3. QED
    BY <1>1, <1>3, <2>2 DEF TypeOK, AttemptRow
<1>7. recipient'[m].fence = a.fence /\ recipient'[m].bound = s
  <2>1. a.fence = recipient[m].fence
    BY <1>1, <1>3 DEF LivePermitIsCurrent, Unresolved
  <2>2. HolderAfter(s) = s
    BY <1>1, <1>3, HolderIsSelf DEF SurfaceInv
  <2>3. SetState(m, s, st)
    BY <1>3, <2>2 DEF ReceiptWithoutPermit
  <2>4. recipient[m] \in RecipientRow /\ recipient \in [Message -> RecipientRow]
    BY <1>1, <1>2 DEF TypeOK
  <2>5. QED
    BY <1>2, <2>1, <2>3, <2>4 DEF SetState, RecipientRow
<1>8. /\ "DELIVERED" \in Receipts /\ e.kind = "DELIVERED"
      /\ st # "RESPONDED" => st \in Receipts /\ st # "DELIVERED"
      /\ Event(st, s, a.fence).kind = st
  BY DEF Receipts, Downstream, Event
<1>9. \A i \in DOMAIN q : i > Len(log[m]) => q[i].kind \in Receipts
  BY <1>4, <1>8
<1> HIDE DEF q
<1>10. LogKeeps
  <2> HIDE DEF m, e
  <2>1. QED
    BY <1>1, <1>2, <1>3, <1>4, <1>5, <1>9, SayStep
<1> USE DEF q
<1>11. \A i \in DOMAIN log'[m] : InTime(m, i)'
  <2>1. \A i \in DOMAIN log'[m] : i > Len(log[m]) => log'[m][i].kind \notin Terminal
    BY <1>9 DEF Receipts, Terminal
  <2>2. QED
    BY <1>2, <1>4, <1>5, <2>1, StillInTime
<1>12. FactsStep
  <2> SUFFICES ASSUME NEW n \in Message, NEW i \in DOMAIN log'[n], i > Len(log[n])
               PROVE  GuardAccepts(n, i)'
    BY DEF FactsStep
  <2>1. n = m
    BY <1>1, <1>4 DEF DirectiveTypeOK
  <2>2. i \in DOMAIN log'[m] /\ i > Len(log[m])
    BY <2>1
  <2>3. InTime(m, i)'
    BY <1>11, <2>2
  <2>4. MaySpeak(s, "DELIVERED", b)' /\ MaySpeak(s, st, b)'
    BY <1>6 DEF MaySpeak
  <2>5. CASE log'[m][i] = e
    <3>1. log'[m][i] = Event("DELIVERED", s, b.fence)
      BY <1>6, <2>5
    <3> HIDE DEF m, b, e
    <3>2. GuardAccepts(m, i)'
      BY <1>1, <1>2, <1>3, <1>6, <1>7, <1>8, <2>3, <2>4, <3>1, ReceiptPasses
    <3>3. QED
      BY <2>1, <3>2
  <2>6. CASE i = Len(log[m]) + 2 /\ log'[m][i] = Event(st, s, a.fence) /\ st # "RESPONDED"
    <3>1. log'[m][i] = Event(st, s, b.fence) /\ st \in Receipts /\ st # "DELIVERED"
      BY <1>6, <1>8, <2>6
    <3> DEFINE j == Len(log[m]) + 1
    <3>2. Len(log[m]) \in Nat
      BY <1>4 DEF Extends
    <3>3. j \in 1 .. i - 1 /\ log'[m][j] = Event("DELIVERED", b.owner, b.fence)
      BY <1>4, <1>6, <2>6, <3>2
    <3> HIDE DEF m, b, e, j
    <3>4. GuardAccepts(m, i)'
      BY <1>1, <1>2, <1>3, <1>6, <1>7, <2>3, <2>4, <3>1, <3>3, ReceiptPasses
    <3>5. QED
      BY <2>1, <3>4
  <2>7. QED
    BY <1>4, <2>2, <2>5, <2>6
<1>13. QED
  BY <1>10, <1>12

----------------------------------------------------------------------------
(* Results. *)

LEMMA ReportedGrows ==
  ASSUME NEW q, NEW r, Extends(q, r), ReportedIn(q)
  PROVE  ReportedIn(r)
<1>1. /\ Len(q) \in Nat /\ Len(r) \in Nat /\ DOMAIN q = 1 .. Len(q) /\ DOMAIN r = 1 .. Len(r)
      /\ Len(q) <= Len(r) /\ \A i \in 1 .. Len(q) : r[i] = q[i]
  BY DEF Extends
<1>2. PICK i \in DOMAIN q :
        /\ q[i].kind = "RESULT_RECORDED"
        /\ \A j \in 1 .. i : q[j].kind \notin Terminal
  BY DEF ReportedIn
<1>3. i \in DOMAIN r /\ r[i] = q[i] /\ \A j \in 1 .. i : r[j] = q[j]
  BY <1>1
<1>4. QED
  BY <1>2, <1>3 DEF ReportedIn

\* Directives whose rows a step leaves alone.
LEMMA OtherRows ==
  ASSUME DirectiveTypeOK, directive' = directive, CompletedExactlyWhenAllReported,
         NEW d \in Directive, Issued(d), \A n \in Message : n[1] = d => log'[n] = log[n]
  PROVE  "COMPLETED" \in Closings(d)' <=> AllReported(d)'
<1>1. "COMPLETED" \in Closings(d) <=> AllReported(d)
  BY CompletedMeans
<1>2. "COMPLETED" \in Closings(d)' <=> "COMPLETED" \in Closings(d)
  BY ClosingsAreKinds
<1>3. \A g \in directive[d].audience : log'[<<d, g>>] = log[<<d, g>>]
  <2>1. directive[d].audience \subseteq Agent
    BY DEF DirectiveTypeOK, DirectiveRow, Issued
  <2>2. QED
    BY <2>1, DirectiveConstants
<1>4. AllReported(d)' <=> AllReported(d)
  BY <1>3 DEF AllReported
<1>5. QED
  BY <1>1, <1>2, <1>4

\* The facts about a result that do not depend on whether it completes.
ResultSaid(s, d, m, e) ==
  /\ m \in Message /\ m[1] = d /\ m[2] \in Agent /\ m = <<d, m[2]>>
  /\ e \in EventRow /\ e.kind = "RESULT_RECORDED" /\ e.kind \notin Terminal /\ e.by = s
  /\ Issued(d) /\ Refreshed(d) /\ m[2] \in directive[d].audience
  /\ \E i \in DOMAIN log[m] :
       /\ log[m][i].kind = "PROCESSED" /\ log[m][i].by = s
       /\ InTime(m, i)

LEMMA ResultMeans ==
  ASSUME DirectiveTypeOK, NEW s \in Session, NEW d \in Directive, RecordExecutionResult(s, d)
  PROVE  ResultSaid(s, d, <<d, SessionAgent[s]>>, Event("RESULT_RECORDED", s, 0))
<1> DEFINE m == <<d, SessionAgent[s]>>
           e == Event("RESULT_RECORDED", s, 0)
<1>1. m \in Message /\ m[1] = d /\ m[2] \in Agent /\ m = <<d, m[2]>>
  BY DirectiveConstants
<1>2. e \in EventRow /\ e.kind = "RESULT_RECORDED" /\ e.kind \notin Terminal /\ e.by = s
  BY DEF Event, EventRow, Terminal
<1>3. Issued(d) /\ Refreshed(d) /\ m[2] \in directive[d].audience
  BY DEF RecordExecutionResult
<1>4. \E i \in DOMAIN log[m] :
        /\ log[m][i].kind = "PROCESSED" /\ log[m][i].by = s
        /\ InTime(m, i)
  <2>1. PICK i \in ProcessedBy(s, m) : Active(d) \/ InTime(m, i)
    BY DEF RecordExecutionResult
  <2>2. i \in DOMAIN log[m] /\ log[m][i].kind = "PROCESSED" /\ log[m][i].by = s
    BY <2>1 DEF ProcessedBy
  <2>3. CASE Active(d)
    <3>1. \A j \in DOMAIN log[m] : log[m][j].kind \notin Terminal
      <4>1. Closings(d) = {}
        BY <2>3 DEF Active, Lifecycle, Closings, Terminal
      <4>2. QED
        BY <1>1, <4>1, NoClosing
    <3>2. DOMAIN log[m] = 1 .. Len(log[m]) /\ Len(log[m]) \in Nat
      <4>1. log[m] \in Seq(EventRow)
        BY <1>1 DEF DirectiveTypeOK
      <4>2. QED
        BY <4>1
    <3>3. InTime(m, i)
      BY <2>2, <3>1, <3>2 DEF InTime
    <3>4. QED
      BY <2>2, <3>3
  <2>4. QED
    BY <2>1, <2>2, <2>3
<1> HIDE DEF m, e
<1>5. QED
  BY <1>1, <1>2, <1>3, <1>4 DEF ResultSaid, m, e

\* The guard takes the result: the row's first new entry.
LEMMA ResultPasses ==
  ASSUME NEW s, NEW d, NEW m, NEW e, ResultSaid(s, d, m, e), Extends(log[m], log'[m]),
         NEW i, i = Len(log[m]) + 1, log'[m][i] = e
  PROVE  GuardAccepts(m, i)'
<1>1. PICK j \in DOMAIN log[m] :
        /\ log[m][j].kind = "PROCESSED" /\ log[m][j].by = s
        /\ InTime(m, j)
  BY DEF ResultSaid
<1>2. m \in Message /\ e.by = s /\ e.kind = "RESULT_RECORDED"
  BY DEF ResultSaid
<1>3. /\ Len(log[m]) \in Nat /\ DOMAIN log[m] = 1 .. Len(log[m])
      /\ Len(log'[m]) \in Nat /\ DOMAIN log'[m] = 1 .. Len(log'[m])
      /\ Len(log[m]) <= Len(log'[m])
      /\ \A k \in 1 .. Len(log[m]) : log'[m][k] = log[m][k]
  BY DEF Extends
<1>4. j \in DOMAIN log'[m] /\ log'[m][j] = log[m][j] /\ j < i
  BY <1>3
<1>5. InTime(m, j)'
  BY <1>1, <1>2, InTimeStays
<1>6. j \in ProcessedBy(s, m)'
  BY <1>1, <1>4 DEF ProcessedBy
<1>7. log'[m][i].by = s /\ log'[m][i].kind = "RESULT_RECORDED"
  BY <1>2
<1>8. ResultBacked(m, i)'
  BY <1>4, <1>5, <1>6, <1>7 DEF ResultBacked
<1>9. QED
  BY <1>7, <1>8, GuardAnswers

\* A result that completes nothing: others are outstanding, or it is late.
LEMMA ResultAloneFacts ==
  ASSUME DirectiveTypeOK, DirectiveTypeOK', LogInv, directive' = directive,
         NEW s, NEW d \in Directive, NEW m, NEW e, ResultSaid(s, d, m, e),
         log' = [log EXCEPT ![m] = Append(@, e)], ~Completes(d, m)
  PROVE  LogKeeps /\ FactsStep
<1>1. /\ m \in Message /\ m[1] = d /\ m[2] \in Agent /\ m = <<d, m[2]>> /\ e \in EventRow
      /\ e.kind = "RESULT_RECORDED" /\ e.kind \notin Terminal
      /\ Issued(d) /\ Refreshed(d) /\ m[2] \in directive[d].audience
  BY DEF ResultSaid
<1>2. /\ \A n \in Message : log[n] \in Seq(EventRow)
      /\ log'[m] = Append(log[m], e)
      /\ \A n \in Message : n # m => log'[n] = log[n]
  BY <1>1 DEF DirectiveTypeOK
<1>3. /\ Extends(log[m], log'[m]) /\ log[m] \in Seq(EventRow)
  BY <1>1, <1>2, AppendExtends
<1>4. Grows
  BY <1>2, <1>3, ExtendsSelf DEF Grows
<1>5. ASSUME NEW i \in DOMAIN log'[m], i > Len(log[m]) PROVE i = Len(log[m]) + 1 /\ log'[m][i] = e
  <2>1. i \in DOMAIN Append(log[m], e)
    BY <1>2, <1>5
  <2>2. QED
    BY <1>1, <1>2, <1>3, <1>5, <2>1, AppendLast
<1>6. FactsStep
  <2> SUFFICES ASSUME NEW n \in Message, NEW i \in DOMAIN log'[n], i > Len(log[n])
               PROVE  GuardAccepts(n, i)'
    BY DEF FactsStep
  <2>1. n = m
    BY <1>2
  <2>2. i = Len(log[m]) + 1 /\ log'[m][i] = e
    BY <1>5, <2>1
  <2>3. QED
    BY <1>3, <2>1, <2>2, ResultPasses
<1>7. Adds({}, "EXPIRED")
  <2>1. KindsIn(log'[m]) = KindsIn(log[m]) \cup {e.kind}
    BY <1>1, <1>2, <1>3, AppendKinds
  <2>2. QED
    BY <1>1, <1>2, <2>1 DEF Adds
<1>8. UnissuedIsSilent'
  <2>1. KeepsRows
    BY DEF KeepsRows
  <2>2. \A n \in Message : log'[n] # log[n] => Issued(n[1])
    BY <1>1, <1>2
  <2>3. QED
    BY <2>1, <2>2, SilentStays DEF LogInv
<1>9. LogInv'
  <2>1. CASE Active(d)
    <3>1. CompletedExactlyWhenAllReported'
      <4> SUFFICES ASSUME NEW x \in Directive, Issued(x)'
                   PROVE  "COMPLETED" \in Closings(x)' <=> AllReported(x)'
        BY CompletedMeans
      <4>1. Issued(x)
        BY DEF Issued
      <4>2. CASE x # d
        <5>1. \A n \in Message : n[1] = x => log'[n] = log[n]
          BY <1>1, <1>2, <4>2
        <5>2. QED
          BY <4>1, <5>1, OtherRows DEF LogInv
      <4>3. CASE x = d
        <5>1. PICK g \in directive[d].audience \ {m[2]} : ~Recorded(<<d, g>>, "RESULT_RECORDED")
          BY <2>1 DEF Completes
        <5>2. <<d, g>> \in Message /\ <<d, g>> # m
          <6>1. g \in Agent
            BY <1>1, <5>1 DEF DirectiveTypeOK, DirectiveRow, Issued
          <6>2. QED
            BY <1>1, <5>1, <6>1, DirectiveConstants
        <5>3. ~ReportedIn(log'[<<d, g>>])
          BY <1>2, <5>1, <5>2 DEF ReportedIn, Recorded
        <5>4. ~AllReported(d)'
          BY <5>1, <5>3 DEF AllReported
        <5>5. Closings(d) = {}
          BY <2>1, ActiveMeans
        <5>6. "COMPLETED" \notin Closings(d)'
          BY <1>7, <5>5, ClosingAdds DEF Terminal
        <5>7. QED
          BY <4>3, <5>4, <5>6
      <4>4. QED
        BY <4>2, <4>3
    <3>2. EndsAreShared'
      BY <1>7, Endings DEF LogInv
    <3>3. QED
      BY <1>8, <3>1, <3>2 DEF LogInv
  <2>2. CASE ~Active(d)
    <3>1. Closings(d) # {}
      BY <1>1, <2>2 DEF Refreshed, Active, Lifecycle
    <3>2. PICK k \in Terminal, n \in Message : n[1] = d /\ k \in KindsIn(log[n])
      BY <3>1, ClosingsAreKinds
    <3>3. k \in KindsIn(log[m])
      BY <1>1, <3>2 DEF LogInv, EndsAreShared
    <3>4. \E j \in DOMAIN log[m] : log[m][j].kind \in Terminal
      BY <3>3 DEF KindsIn
    <3>5. ASSUME NEW x \in Message PROVE ReportedIn(log'[x]) <=> ReportedIn(log[x])
      <4>1. CASE x = m
        BY <1>3, <3>4, <4>1, ReportedStays
      <4>2. CASE x # m
        BY <1>2, <4>2
      <4>3. QED
        BY <4>1, <4>2
    <3>6. KeepsRows
      BY DEF KeepsRows
    <3>7. QED
      BY <1>7, <1>8, <3>5, <3>6, LogKept DEF Terminal
  <2>3. QED
    BY <2>1, <2>2
<1>10. QED
  BY <1>4, <1>6, <1>9 DEF LogKeeps

\* The last result of an active directive, and the end it brings.
LEMMA ResultCompletesFacts ==
  ASSUME DirectiveTypeOK, DirectiveTypeOK', LogInv, directive' = directive,
         NEW s, NEW d \in Directive, NEW m, NEW e, NEW c, ResultSaid(s, d, m, e),
         c \in EventRow, c.kind = "COMPLETED",
         log' = [n \in Message |->
                  IF n[1] = d THEN Append([log EXCEPT ![m] = Append(@, e)][n], c)
                  ELSE [log EXCEPT ![m] = Append(@, e)][n]],
         Completes(d, m)
  PROVE  LogKeeps /\ FactsStep
<1>1. /\ m \in Message /\ m[1] = d /\ m[2] \in Agent /\ m = <<d, m[2]>> /\ e \in EventRow
      /\ e.kind = "RESULT_RECORDED" /\ e.kind \notin Terminal
      /\ Issued(d) /\ m[2] \in directive[d].audience
  BY DEF ResultSaid
<1>2. /\ \A n \in Message : log[n] \in Seq(EventRow) /\ Len(log[n]) \in Nat
      /\ log'[m] = Append(Append(log[m], e), c)
      /\ \A n \in Message : n # m /\ n[1] = d => log'[n] = Append(log[n], c)
      /\ \A n \in Message : n[1] # d => log'[n] = log[n]
  BY <1>1 DEF DirectiveTypeOK
<1>3. Closings(d) = {} /\ \A g \in directive[d].audience \ {m[2]} : Recorded(<<d, g>>, "RESULT_RECORDED")
  BY ActiveMeans DEF Completes
<1>4. \A n \in Message : n[1] = d => \A j \in DOMAIN log[n] : log[n][j].kind \notin Terminal
  BY <1>3, NoClosing
<1>5. /\ log[m] \in Seq(EventRow) /\ Extends(log[m], log'[m])
      /\ log'[m][Len(log[m]) + 1] = e
      /\ \A i \in DOMAIN log'[m] : i > Len(log[m]) =>
           \/ i = Len(log[m]) + 1 /\ log'[m][i] = e
           \/ i = Len(log[m]) + 2 /\ log'[m][i] = c
  BY <1>1, <1>2, AppendTwo
<1>6. ASSUME NEW n \in Message, n # m, n[1] = d
      PROVE  /\ Extends(log[n], log'[n])
             /\ \A i \in DOMAIN log'[n] : i > Len(log[n]) => i = Len(log[n]) + 1 /\ log'[n][i] = c
  <2>1. log[n] \in Seq(EventRow) /\ log'[n] = Append(log[n], c)
    BY <1>2, <1>6
  <2>2. Extends(log[n], log'[n])
    BY <2>1, AppendExtends
  <2>3. ASSUME NEW i \in DOMAIN log'[n], i > Len(log[n])
        PROVE  i = Len(log[n]) + 1 /\ log'[n][i] = c
    <3>1. i \in DOMAIN Append(log[n], c)
      BY <2>1, <2>3
    <3>2. QED
      BY <2>1, <2>3, <3>1, AppendLast
  <2>4. QED
    BY <2>2, <2>3
<1>7. Grows
  BY <1>2, <1>5, <1>6, ExtendsSelf DEF Grows
<1>8. Adds({d}, "COMPLETED")
  <2>1. KindsIn(log'[m]) = KindsIn(log[m]) \cup {"RESULT_RECORDED", "COMPLETED"}
    <3>1. /\ Append(log[m], e) \in Seq(EventRow)
          /\ KindsIn(Append(log[m], e)) = KindsIn(log[m]) \cup {"RESULT_RECORDED"}
      BY <1>1, <1>5, AppendKinds
    <3>2. KindsIn(Append(Append(log[m], e), c)) = KindsIn(Append(log[m], e)) \cup {"COMPLETED"}
      BY <3>1, AppendKinds
    <3>3. QED
      BY <1>2, <3>1, <3>2
  <2>2. \A n \in Message : n # m /\ n[1] = d => KindsIn(log'[n]) = KindsIn(log[n]) \cup {"COMPLETED"}
    BY <1>2, AppendKinds
  <2>3. "RESULT_RECORDED" \notin Terminal
    BY <1>1
  <2>4. ASSUME NEW n \in Message, NEW k \in Terminal
        PROVE  k \in KindsIn(log'[n]) <=> k \in KindsIn(log[n]) \/ (n[1] \in {d} /\ k = "COMPLETED")
    <3>1. CASE n = m
      BY <1>1, <2>1, <2>3, <3>1
    <3>2. CASE n # m /\ n[1] = d
      BY <2>2, <3>2
    <3>3. CASE n[1] # d
      BY <1>2, <3>3
    <3>4. QED
      BY <3>1, <3>2, <3>3
  <2>5. QED
    BY <2>4 DEF Adds
<1>9. UnissuedIsSilent'
  <2>1. KeepsRows
    BY DEF KeepsRows
  <2>2. \A n \in Message : log'[n] # log[n] => Issued(n[1])
    BY <1>1, <1>2
  <2>3. QED
    BY <2>1, <2>2, SilentStays DEF LogInv
<1>10. ASSUME NEW g \in directive[d].audience
       PROVE  /\ <<d, g>> \in Message /\ Recorded(<<d, g>>, "RESULT_RECORDED")'
              /\ ReportedIn(log'[<<d, g>>])
  <2>1. <<d, g>> \in Message /\ <<d, g>>[1] = d
    <3>1. g \in Agent
      BY <1>1 DEF DirectiveTypeOK, DirectiveRow, Issued
    <3>2. QED
      BY <3>1, DirectiveConstants
  <2>2. ReportedIn(log'[<<d, g>>])
    <3>1. CASE g = m[2]
      <4>1. <<d, g>> = m
        BY <1>1, <3>1
      <4>2. DOMAIN log[m] = 1 .. Len(log[m]) /\ Len(log[m]) \in Nat
        BY <1>5
      <4>3. DOMAIN log'[m] = 1 .. Len(log'[m]) /\ Len(log'[m]) = Len(log[m]) + 2
        <5>1. Append(log[m], e) \in Seq(EventRow) /\ Len(Append(log[m], e)) = Len(log[m]) + 1
          BY <1>1, <1>5, AppendExtends
        <5>2. Len(Append(Append(log[m], e), c)) = Len(log[m]) + 1 + 1
          BY <5>1, AppendExtends
        <5>3. log'[m] \in Seq(EventRow)
          BY <1>5 DEF Extends
        <5>4. QED
          BY <1>2, <4>2, <5>2, <5>3
      <4>4. ASSUME NEW j \in 1 .. Len(log[m]) + 1 PROVE log'[m][j].kind \notin Terminal
        <5>1. CASE j = Len(log[m]) + 1
          BY <1>1, <1>5, <5>1
        <5>2. CASE j # Len(log[m]) + 1
          <6>1. j \in 1 .. Len(log[m])
            BY <4>2, <5>2
          <6>2. log'[m][j] = log[m][j]
            BY <1>5, <6>1 DEF Extends
          <6>3. QED
            BY <1>1, <1>4, <4>2, <6>1, <6>2
        <5>3. QED
          BY <5>1, <5>2
      <4>5. Len(log[m]) + 1 \in DOMAIN log'[m]
        BY <4>2, <4>3
      <4>6. ReportedIn(log'[m])
        BY <1>1, <1>5, <4>4, <4>5 DEF ReportedIn
      <4>7. QED
        BY <4>1, <4>6
    <3>2. CASE g # m[2]
      <4>1. PICK i \in DOMAIN log[<<d, g>>] : log[<<d, g>>][i].kind = "RESULT_RECORDED"
        BY <1>3, <3>2 DEF Recorded
      <4>2. DOMAIN log[<<d, g>>] = 1 .. Len(log[<<d, g>>]) /\ Len(log[<<d, g>>]) \in Nat
        <5>1. log[<<d, g>>] \in Seq(EventRow)
          BY <1>2, <2>1
        <5>2. QED
          BY <5>1
      <4>3. \A j \in 1 .. i : log[<<d, g>>][j].kind \notin Terminal
        BY <1>4, <2>1, <4>2
      <4>4. ReportedIn(log[<<d, g>>])
        BY <4>1, <4>3 DEF ReportedIn
      <4>5. QED
        BY <1>7, <2>1, <4>4, ReportedGrows DEF Grows
    <3>3. QED
      BY <3>1, <3>2
  <2>3. Recorded(<<d, g>>, "RESULT_RECORDED")'
    BY <2>2 DEF ReportedIn, Recorded
  <2>4. QED
    BY <2>1, <2>2, <2>3
<1>11. LogInv'
  <2>1. CompletedExactlyWhenAllReported'
    <3> SUFFICES ASSUME NEW x \in Directive, Issued(x)'
                 PROVE  "COMPLETED" \in Closings(x)' <=> AllReported(x)'
      BY CompletedMeans
    <3>1. CASE x # d
      <4>1. Issued(x) /\ \A n \in Message : n[1] = x => log'[n] = log[n]
        BY <1>2, <3>1 DEF Issued
      <4>2. QED
        BY <4>1, OtherRows DEF LogInv
    <3>2. CASE x = d
      <4>1. AllReported(d)'
        BY <1>10 DEF AllReported
      <4>2. "COMPLETED" \in KindsIn(log'[m])
        BY <1>1, <1>8 DEF Adds, Terminal
      <4>3. "COMPLETED" \in Closings(d)'
        BY <1>1, <4>2, ClosingsAreKinds DEF Terminal
      <4>4. QED
        BY <3>2, <4>1, <4>3
    <3>3. QED
      BY <3>1, <3>2
  <2>2. EndsAreShared'
    BY <1>8, Endings DEF LogInv
  <2>3. QED
    BY <1>9, <2>1, <2>2 DEF LogInv
<1>12. ASSUME NEW n \in Message, n[1] = d, NEW i, log'[n][i] = c,
              \A j \in 1 .. i - 1 : log'[n][j].kind \notin Terminal
       PROVE  GuardAccepts(n, i)'
  <2>1. InTime(n, i - 1)'
    BY <1>12 DEF InTime
  <2>2. \A g \in directive'[n[1]].audience : Recorded(<<n[1], g>>, "RESULT_RECORDED")'
    BY <1>10, <1>12
  <2>3. EndBacked(n, i)'
    BY <2>1, <2>2 DEF EndBacked
  <2>4. log'[n][i].kind \in Terminal
    BY <1>12 DEF Terminal
  <2>5. QED
    BY <2>3, <2>4, GuardAnswers
<1>13. FactsStep
  <2> SUFFICES ASSUME NEW n \in Message, NEW i \in DOMAIN log'[n], i > Len(log[n])
               PROVE  GuardAccepts(n, i)'
    BY DEF FactsStep
  <2>1. n[1] = d
    BY <1>2
  <2>2. DOMAIN log[n] = 1 .. Len(log[n]) /\ Len(log[n]) \in Nat
    <3>1. log[n] \in Seq(EventRow)
      BY <1>2
    <3>2. QED
      BY <3>1
  <2>3. \A j \in 1 .. Len(log[n]) : log'[n][j].kind \notin Terminal
    BY <1>4, <1>7, <2>1, <2>2 DEF Grows, Extends
  <2>4. CASE n # m
    <3>1. i = Len(log[n]) + 1 /\ log'[n][i] = c
      BY <1>6, <2>1, <2>4
    <3>2. \A j \in 1 .. i - 1 : log'[n][j].kind \notin Terminal
      BY <2>2, <2>3, <3>1
    <3>3. QED
      BY <1>12, <2>1, <3>1, <3>2
  <2>5. CASE n = m /\ i = Len(log[m]) + 1 /\ log'[m][i] = e
    BY <1>5, <2>5, ResultPasses
  <2>6. CASE n = m /\ i = Len(log[m]) + 2 /\ log'[m][i] = c
    <3>1. \A j \in 1 .. i - 1 : log'[n][j].kind \notin Terminal
      <4>1. \A j \in 1 .. i - 1 : j \in 1 .. Len(log[n]) \/ j = Len(log[n]) + 1
        BY <2>2, <2>6
      <4>2. log'[n][Len(log[n]) + 1].kind \notin Terminal
        BY <1>1, <1>5, <2>6
      <4>3. QED
        BY <2>3, <4>1, <4>2
    <3>2. QED
      BY <1>12, <2>1, <2>6, <3>1
  <2>7. QED
    BY <1>5, <2>4, <2>5, <2>6
<1>14. QED
  BY <1>7, <1>11, <1>13 DEF LogKeeps

LEMMA RecordResultFacts ==
  ASSUME FactsInv, DirectiveTypeOK', NEW s \in Session, NEW d \in Directive,
         RecordExecutionResult(s, d)
  PROVE  LogKeeps /\ FactsStep
<1> DEFINE m == <<d, SessionAgent[s]>>
           e == Event("RESULT_RECORDED", s, 0)
           c == Event("COMPLETED", s, 0)
<1>1. DirectiveTypeOK /\ LogInv /\ ResultSaid(s, d, m, e) /\ directive' = directive
  BY ResultMeans DEF FactsInv, AuthorityInv, RecordExecutionResult
<1>2. c \in EventRow /\ c.kind = "COMPLETED"
  BY DEF Event, EventRow, Terminal
<1>3. log' = IF Completes(d, m)
             THEN [n \in Message |->
                    IF n[1] = d THEN Append([log EXCEPT ![m] = Append(@, e)][n], c)
                    ELSE [log EXCEPT ![m] = Append(@, e)][n]]
             ELSE [log EXCEPT ![m] = Append(@, e)]
  BY DEF RecordExecutionResult
<1> HIDE DEF m, e, c
<1>4. CASE Completes(d, m)
  BY <1>1, <1>2, <1>3, <1>4, ResultCompletesFacts
<1>5. CASE ~Completes(d, m)
  BY <1>1, <1>3, <1>5, ResultAloneFacts
<1>6. QED
  BY <1>4, <1>5

----------------------------------------------------------------------------
(* Every step. *)

LEMMA EveryFact ==
  ASSUME FactsInv, [DirectiveNext]_allVars
  PROVE  LogKeeps /\ FactsStep
<1>1. DirectiveTypeOK' /\ KeepsRows
  <2>1. PICK ds, kind : Result(ds, kind)
    BY EveryResult DEF FactsInv
  <2>2. QED
    BY <2>1 DEF Result
<1>2. AuthorityInv /\ DirectiveTypeOK /\ LogInv
  BY DEF FactsInv, AuthorityInv
<1>3. ASSUME log' = log PROVE LogKeeps /\ FactsStep
  BY <1>1, <1>2, <1>3, SilentStep
<1>4. ASSUME NEW ds, NEW kind \in {"SUPERSEDED", "REVOKED", "EXPIRED"}, Close(ds, kind),
             \A d \in ds : d \in Directive /\ Issued(d) /\ (Active(d) \/ Closings(d) = {})
      PROVE  LogKeeps /\ FactsStep
  <2>1. kind \in Terminal \ {"COMPLETED"}
    BY <1>4 DEF Terminal
  <2>2. \A d \in ds : d \in Directive /\ Issued(d) /\ Closings(d) = {}
    BY <1>1, <1>2, <1>4, ActiveMeans
  <2>3. QED
    BY <1>1, <1>2, <1>4, <2>1, <2>2, CloseStep
<1>5. CASE UNCHANGED allVars \/ SessionNext
  BY <1>3, <1>5 DEF allVars, SessionNext, authorityVars
<1>6. CASE GrantNext
  <2>1. ASSUME NEW g \in Grant, NEW t \in Future, CreateDelegationGrant(g, t)
        PROVE  LogKeeps /\ FactsStep
    BY <1>3, <2>1 DEF CreateDelegationGrant
  <2>2. ASSUME NEW g \in Grant, NEW t \in Future, ModifyDelegationGrant(g, t)
        PROVE  LogKeeps /\ FactsStep
    <3>1. Close({d \in Delegated(g) : Active(d)}, "REVOKED")
      BY <2>2 DEF ModifyDelegationGrant
    <3>2. QED
      BY <1>4, <3>1 DEF Delegated
  <2>3. ASSUME NEW g \in Grant, TerminateDelegationGrant(g)
        PROVE  LogKeeps /\ FactsStep
    <3>1. Close({d \in Delegated(g) : Active(d)}, "REVOKED")
      BY <2>3 DEF TerminateDelegationGrant
    <3>2. QED
      BY <1>4, <3>1 DEF Delegated
  <2>4. ASSUME NEW g \in Grant, ReadGrant(g)
        PROVE  LogKeeps /\ FactsStep
    <3>1. Close({d \in Delegated(g) : Closings(d) = {}}, "EXPIRED")
      BY <2>4 DEF ReadGrant
    <3>2. QED
      BY <1>4, <3>1 DEF Delegated
  <2>5. QED
    BY <1>6, <2>1, <2>2, <2>3, <2>4 DEF GrantNext
<1>7. CASE IssueNext
  <2>1. CASE log' = log
    BY <1>3, <2>1
  <2>2. CASE log' # log
    <3>1. PICK old \in Directive : Active(old) /\ Close({old}, "SUPERSEDED")
      BY <1>7, <2>2 DEF IssueNext, RelayUserDirective, DelegateInstruction, SupersedeUserDirective
    <3>2. QED
      BY <1>4, <3>1 DEF Active
  <2>3. QED
    BY <2>1, <2>2
<1>8. CASE LifeNext
  <2>1. CASE Tick
    BY <1>3, <2>1 DEF Tick
  <2>2. ASSUME NEW d \in Directive, RevokeDirective(d) PROVE LogKeeps /\ FactsStep
    BY <1>4, <2>2 DEF RevokeDirective, Active
  <2>3. ASSUME NEW d \in Directive, ReadDirective(d) PROVE LogKeeps /\ FactsStep
    BY <1>4, <2>3 DEF ReadDirective, Refreshed
  <2>4. QED
    BY <1>8, <2>1, <2>2, <2>3 DEF LifeNext
<1>9. CASE DeliveryNext
  <2>1. CASE UNCHANGED authorityVars
    BY <1>3, <2>1 DEF authorityVars
  <2>2. ASSUME NEW s \in Session, NEW a \in attempts, RecordDelivery(s, a)
        PROVE  LogKeeps /\ FactsStep
    BY <1>1, <2>2, RecordDeliveryFacts
  <2>3. ASSUME NEW s \in Session, NEW a \in attempts, NEW st \in Downstream,
               RecordReceipt(s, a, st) \/ ReceiptConfirmsPermit(s, a, st)
        PROVE  LogKeeps /\ FactsStep
    BY <1>1, <2>3, RecordReceiptFacts, ReceiptConfirmsFacts
  <2>4. ASSUME NEW s \in Session, NEW d \in Directive, RecordExecutionResult(s, d)
        PROVE  LogKeeps /\ FactsStep
    BY <1>1, <2>4, RecordResultFacts
  <2>5. QED
    BY <1>9, <2>1, <2>2, <2>3, <2>4 DEF DeliveryNext, ClaimCarrier, BeginCarrier, FailCarrier
<1>10. QED
  BY <1>5, <1>6, <1>7, <1>8, <1>9 DEF DirectiveNext

\* What a step writes of sessions, hand-overs and permits.
NewlyRecorded ==
  \A x \in attempts' : x.state = "CONFIRMED" => x \in attempts \/ RecordedIn(log'[x.msg], x)

LedgerKept == Identified' /\ NothingReconciled' /\ NewlyRecorded

LEMMA QuietLedger ==
  ASSUME Identified, NothingReconciled, session' = session, handoffs' = handoffs,
         reconciliations' = reconciliations, NewlyRecorded
  PROVE  LedgerKept
BY DEF LedgerKept, Identified, NothingReconciled, Registered

\* A successor is identified, and is handed nothing as reconciled.
LEMMA SuccessionLedger ==
  ASSUME FactsInv, NEW s \in Session, NEW l \in Lineage, RegisterSession(s, l, None, Unspecified)
  PROVE  LedgerKept
<1>0. Identified /\ NothingReconciled
  BY DEF FactsInv
<1>1. Identified'
  <2> SUFFICES ASSUME NEW q \in Session, session'[q].connection # "ABSENT"
               PROVE  session'[q].lineage # None
    BY DEF Identified, Registered
  <2>1. q = s => session'[q].lineage = l
    BY DEF RegisterSession, RegisterIncarnation, OpenSuccessor
  <2>2. q # s => session'[q].lineage = session[q].lineage
    BY DEF RegisterSession, RegisterIncarnation, OpenSuccessor, FactsInv, AuthorityInv, SurfaceInv,
           TypeOK, LineageTypeOK, SessionRow
  <2>3. q # s => session[q].connection # "ABSENT"
    <3>1. CASE q = lineage[l].head
      <4>1. session[q].lineage = l /\ l # None
        BY <3>1, ConstantsDisjoint DEF FactsInv, AuthorityInv, SurfaceInv, LineageInv,
                                       ChainIsContiguous
      <4>2. session[q] # NoSession
        BY <4>1 DEF NoSession
      <4>3. QED
        BY <4>2 DEF FactsInv, AuthorityInv, SurfaceInv, LineageInv, BlankUntilInserted, Registered
    <3>2. CASE q # lineage[l].head /\ q # s
      BY <3>2 DEF RegisterSession, RegisterIncarnation, OpenSuccessor
    <3>3. QED
      BY <3>1, <3>2
  <2>4. QED
    BY <1>0, <2>1, <2>2, <2>3, ConstantsDisjoint DEF Identified, Registered
<1>2. NothingReconciled' /\ NewlyRecorded
  <2> DEFINE p == lineage[l].head
  <2>1. reconciliations' = reconciliations
    BY DEF RegisterSession
  <2>2. CASE p = None
    <3>1. handoffs' = handoffs /\ attempts' = attempts
      BY <2>2 DEF RegisterSession
    <3>2. QED
      BY <1>0, <2>1, <3>1 DEF NothingReconciled, NewlyRecorded
  <2>3. CASE p # None
    <3>1. HandoffValid(p) /\ TransferSurfaces(p, s)
      BY <2>3 DEF RegisterSession
    <3> DEFINE held == {a \in attempts : a.msg \in MovingFrom(p) /\ a.state # "ABORTED"}
    <3>2. ASSUME NEW a \in held PROVE HandoffKind(p, a) # "reconciled"
      <4>1. a \in attempts /\ a.msg \in MovingFrom(p) /\ a.state \in Unresolved \cup {"CONFIRMED"}
        BY DEF FactsInv, AuthorityInv, SurfaceInv, TypeOK, AttemptRow
      <4>2. CASE a.state \in Unresolved
        BY <4>2 DEF HandoffKind
      <4>3. CASE a.state = "CONFIRMED"
        <5>1. ConfirmedHandoffValid(p, a)
          BY <3>1, <4>1, <4>3 DEF HandoffValid, ConfirmedOf
        <5>2. ~ReconciledCustody(p, a)
          BY <1>0 DEF ReconciledCustody, NothingReconciled, HandedTo
        <5>3. DirectCustody(p, a)
          BY <5>1, <5>2 DEF ConfirmedHandoffValid
        <5>4. QED
          BY <5>3 DEF HandoffKind
      <4>4. QED
        BY <4>1, <4>2, <4>3
    <3>3. handoffs' = handoffs \cup
            {[kind |-> HandoffKind(p, a), msg |-> a.msg, fence |-> a.fence, to |-> s] : a \in held}
      BY <3>1 DEF TransferSurfaces
    <3>4. \A h \in handoffs' : h.kind # "reconciled"
      BY <1>0, <3>2, <3>3 DEF NothingReconciled
    <3>5. NewlyRecorded
      <4>1. attempts' = {IF a \in held /\ a.state = "ACTIVE"
                         THEN [a EXCEPT !.state = "AMBIGUOUS"] ELSE a : a \in attempts}
        BY <3>1 DEF TransferSurfaces
      <4>2. \A a \in attempts : [a EXCEPT !.state = "AMBIGUOUS"].state = "AMBIGUOUS"
        BY DEF FactsInv, AuthorityInv, SurfaceInv, TypeOK, AttemptRow
      <4> HIDE DEF held
      <4>3. QED
        BY <4>1, <4>2 DEF NewlyRecorded
    <3>6. QED
      BY <1>0, <2>1, <3>4, <3>5 DEF NothingReconciled
  <2>4. QED
    BY <2>2, <2>3
<1>3. QED
  BY <1>1, <1>2 DEF LedgerKept

LEMMA CloseLedger ==
  ASSUME FactsInv, NEW s \in Session, CloseSession(s), UNCHANGED surfaceVars
  PROVE  LedgerKept
<1>0. Identified /\ NothingReconciled /\ session \in [Session -> SessionRow]
  BY DEF FactsInv, AuthorityInv, SurfaceInv, TypeOK, LineageTypeOK
<1>1. \A q \in Session : /\ session'[q].lineage = session[q].lineage
                         /\ session'[q].connection # "ABSENT" => session[q].connection # "ABSENT"
  BY <1>0 DEF CloseSession, IsOpen, SessionRow
<1>2. Identified'
  BY <1>0, <1>1 DEF Identified, Registered
<1>3. NothingReconciled' /\ NewlyRecorded
  BY <1>0 DEF NothingReconciled, NewlyRecorded, surfaceVars
<1>4. QED
  BY <1>2, <1>3 DEF LedgerKept

\* A permit that a recorded delivery confirms.
LEMMA ConfirmedNow ==
  ASSUME TypeOK, NEW a \in attempts, NEW s, a.owner = s,
         \A x \in attempts' : x \in attempts \/ x = [a EXCEPT !.state = "CONFIRMED"],
         \E i \in DOMAIN log'[a.msg] : log'[a.msg][i] = Event("DELIVERED", s, a.fence)
  PROVE  NewlyRecorded
<1> DEFINE b == [a EXCEPT !.state = "CONFIRMED"]
<1>1. b.msg = a.msg /\ b.owner = s /\ b.fence = a.fence
  BY DEF TypeOK, AttemptRow
<1>2. RecordedIn(log'[b.msg], b)
  BY <1>1 DEF RecordedIn
<1>3. QED
  BY <1>2 DEF NewlyRecorded

LEMMA DeliveryLedger ==
  ASSUME FactsInv, DeliveryNext
  PROVE  LedgerKept
<1>0. /\ Identified /\ NothingReconciled /\ SurfaceInv /\ DirectiveTypeOK
      /\ TypeOK /\ FencesDistinct
  BY DEF FactsInv, AuthorityInv, SurfaceInv, PermitInv
<1>1. ASSUME NEW s \in Session, NEW m \in Message,
             ClaimCarrier(s, m) \/ BeginCarrier(s, m) \/ FailCarrier(s, m)
      PROVE  LedgerKept
  <2>1. NewlyRecorded
    BY <1>1 DEF ClaimCarrier, BeginCarrier, FailCarrier, ClaimRecipient, BeginSurface, FailDelivery,
                NewlyRecorded
  <2>2. session' = session /\ handoffs' = handoffs /\ reconciliations' = reconciliations
    BY <1>1 DEF ClaimCarrier, BeginCarrier, FailCarrier, ClaimRecipient, BeginSurface, FailDelivery
  <2>3. QED
    BY <1>0, <2>1, <2>2, QuietLedger
<1>2. ASSUME NEW s \in Session, NEW a \in attempts, RecordDelivery(s, a)
      PROVE  LedgerKept
  <2>1. /\ session' = session /\ handoffs' = handoffs /\ reconciliations' = reconciliations
        /\ attempts' = Resolve(a, "CONFIRMED") /\ a.owner = s
        /\ log' = [log EXCEPT ![a.msg] = Append(@, Event("DELIVERED", s, a.fence))]
    BY <1>2 DEF RecordDelivery, ConfirmDelivery
  <2> DEFINE m == a.msg
             e == Event("DELIVERED", s, a.fence)
  <2>2. m \in Message /\ e \in EventRow /\ log[m] \in Seq(EventRow)
    BY <1>0, FactRows DEF DirectiveTypeOK
  <2>3. log'[m] = Append(log[m], e)
    BY <1>0, <2>1, <2>2 DEF DirectiveTypeOK
  <2>4. Len(log[m]) + 1 \in DOMAIN log'[m] /\ log'[m][Len(log[m]) + 1] = e
    <3> HIDE DEF m, e
    <3>1. QED
      BY <2>2, <2>3
  <2>5. \A x \in attempts' : x \in attempts \/ x = [a EXCEPT !.state = "CONFIRMED"]
    BY <2>1 DEF Resolve
  <2>6. NewlyRecorded
    BY <1>0, <2>1, <2>4, <2>5, ConfirmedNow
  <2>7. QED
    BY <1>0, <2>1, <2>6, QuietLedger
<1>3. ASSUME NEW s \in Session, NEW a \in attempts, NEW outcome \in {"ABORTED", "AMBIGUOUS"},
             SettleSurface(s, a, outcome)
      PROVE  LedgerKept
  <2>1. /\ session' = session /\ handoffs' = handoffs /\ reconciliations' = reconciliations
        /\ attempts' = Resolve(a, outcome)
    BY <1>3 DEF SettleSurface
  <2>2. [a EXCEPT !.state = outcome].state = outcome /\ outcome # "CONFIRMED"
    BY <1>0 DEF TypeOK, AttemptRow
  <2>3. NewlyRecorded
    BY <2>1, <2>2 DEF NewlyRecorded, Resolve
  <2>4. QED
    BY <1>0, <2>1, <2>3, QuietLedger
<1>4. ASSUME NEW s \in Session, NEW a \in attempts, NEW st \in Downstream, RecordReceipt(s, a, st)
      PROVE  LedgerKept
  <2>1. /\ session' = session /\ handoffs' = handoffs /\ reconciliations' = reconciliations
        /\ attempts' = attempts
    BY <1>4 DEF RecordReceipt, ReceiptWithPermit
  <2>2. QED
    BY <1>0, <2>1, QuietLedger DEF NewlyRecorded
<1>5. ASSUME NEW s \in Session, NEW a \in attempts, NEW st \in Downstream,
             ReceiptConfirmsPermit(s, a, st)
      PROVE  LedgerKept
  <2> DEFINE m == a.msg
             own == {x \in UnresolvedOf(m) : x.owner = s}
  <2>1. /\ session' = session /\ handoffs' = handoffs /\ reconciliations' = reconciliations
        /\ attempts' = (attempts \ own) \cup {[x EXCEPT !.state = "CONFIRMED"] : x \in own}
        /\ a.owner = s /\ a.state \in Unresolved
    BY <1>5 DEF ReceiptConfirmsPermit, ReceiptWithoutPermit
  <2>2. \A x \in own : x = a
    <3>1. \A x \in own : x \in attempts /\ x.msg = m /\ x.fence = recipient[m].fence
      BY <1>0 DEF UnresolvedOf, Unresolved, SurfaceInv, PermitInv, LivePermitIsCurrent
    <3>2. a.fence = recipient[m].fence
      BY <1>0, <2>1 DEF Unresolved, SurfaceInv, PermitInv, LivePermitIsCurrent
    <3>3. QED
      BY <1>0, <3>1, <3>2 DEF FencesDistinct
  <2>3. \A x \in attempts' : x \in attempts \/ x = [a EXCEPT !.state = "CONFIRMED"]
    BY <2>1, <2>2
  <2>4. \E i \in DOMAIN log'[m] : log'[m][i] = Event("DELIVERED", s, a.fence)
    BY <1>5, ReceiptEntries
  <2>5. NewlyRecorded
    BY <1>0, <2>1, <2>3, <2>4, ConfirmedNow
  <2>6. QED
    BY <1>0, <2>1, <2>5, QuietLedger
<1>6. ASSUME NEW s \in Session, NEW d \in Directive, RecordExecutionResult(s, d)
      PROVE  LedgerKept
  <2>1. /\ session' = session /\ handoffs' = handoffs /\ reconciliations' = reconciliations
        /\ attempts' = attempts
    BY <1>6 DEF RecordExecutionResult, surfaceVars, lineageVars
  <2>2. QED
    BY <1>0, <2>1, QuietLedger DEF NewlyRecorded
<1>7. QED
  BY <1>1, <1>2, <1>3, <1>4, <1>5, <1>6 DEF DeliveryNext

LEMMA EveryLedger ==
  ASSUME FactsInv, [DirectiveNext]_allVars
  PROVE  LedgerKept
<1>0. Identified /\ NothingReconciled
  BY DEF FactsInv
<1>1. ASSUME session' = session, handoffs' = handoffs, reconciliations' = reconciliations,
             attempts' = attempts
      PROVE  LedgerKept
  BY <1>0, <1>1, QuietLedger DEF NewlyRecorded
<1>2. CASE UNCHANGED allVars
  BY <1>1, <1>2 DEF allVars
<1>3. CASE SessionNext
  BY <1>3, SuccessionLedger, CloseLedger DEF SessionNext
<1>4. CASE GrantNext \/ LifeNext
  BY <1>1, <1>4 DEF GrantNext, CreateDelegationGrant, ModifyDelegationGrant, TerminateDelegationGrant,
                    ReadGrant, LifeNext, Tick, RevokeDirective, ReadDirective, surfaceVars, lineageVars
<1>5. CASE IssueNext
  <2>1. \E d \in Directive : \E row : Issue(d, row)
    BY <1>5 DEF IssueNext, RelayUserDirective, SupersedeUserDirective, DelegateInstruction
  <2>2. QED
    BY <1>1, <2>1 DEF Issue, lineageVars
<1>6. CASE DeliveryNext
  BY <1>6, DeliveryLedger
<1>7. QED
  BY <1>2, <1>3, <1>4, <1>5, <1>6 DEF DirectiveNext

LEMMA FactsInitInv == DirectiveInit => FactsInv
<1> SUFFICES ASSUME DirectiveInit PROVE FactsInv
  OBVIOUS
<1>1. AuthorityInv
  BY AuthorityInitInv
<1>2. Identified /\ NothingReconciled /\ ConfirmedIsRecorded
  BY DEF DirectiveInit, Init, LineageInit, NoSession, Identified, Registered, NothingReconciled,
         ConfirmedIsRecorded
<1>3. \A m \in Message : log[m] = <<>>
  BY DEF DirectiveInit
<1>4. EndsAreShared /\ UnissuedIsSilent
  BY <1>3 DEF EndsAreShared, UnissuedIsSilent, KindsIn
<1>5. CompletedExactlyWhenAllReported
  BY DEF DirectiveInit, CompletedExactlyWhenAllReported, Issued
<1>6. QED
  BY <1>1, <1>2, <1>4, <1>5 DEF FactsInv, LogInv

LEMMA FactsNextInv == FactsInv /\ [DirectiveNext]_allVars => FactsInv'
<1> SUFFICES ASSUME FactsInv, [DirectiveNext]_allVars PROVE FactsInv'
  OBVIOUS
<1>1. AuthorityInv'
  BY AuthorityNextInv DEF FactsInv
<1>2. Grows /\ LogInv'
  BY EveryFact DEF LogKeeps
<1>3. Identified' /\ NothingReconciled' /\ NewlyRecorded
  BY EveryLedger DEF LedgerKept
<1>4. ConfirmedIsRecorded'
  <2> SUFFICES ASSUME NEW x \in attempts', x.state = "CONFIRMED"
               PROVE  RecordedIn(log'[x.msg], x)
    BY DEF ConfirmedIsRecorded
  <2>1. CASE x \in attempts
    <3>1. x.msg \in Message /\ RecordedIn(log[x.msg], x)
      BY <2>1 DEF FactsInv, AuthorityInv, SurfaceInv, TypeOK, AttemptRow, ConfirmedIsRecorded
    <3>2. QED
      BY <1>2, <3>1, RecordedStays DEF Grows
  <2>2. CASE x \notin attempts
    BY <1>3, <2>2 DEF NewlyRecorded
  <2>3. QED
    BY <2>1, <2>2
<1>5. QED
  BY <1>1, <1>2, <1>3, <1>4 DEF FactsInv

\* Whatever is reachable: the grants, and what the authority log records.
THEOREM FactsInvariant == DirectiveSpec => []FactsInv
  BY FactsInitInv, FactsNextInv, PTL DEF DirectiveSpec

\* For any number of agents and directives: a directive is completed exactly
\* when every target reported before its end.
THEOREM CompletionIsExact == DirectiveSpec => []CompletedExactlyWhenAllReported
<1>1. FactsInv => CompletedExactlyWhenAllReported
  BY DEF FactsInv, LogInv
<1>2. QED
  BY <1>1, FactsInvariant, PTL

\* The store never decides on an event that the database would refuse.
THEOREM FactsPassTheGuard == DirectiveSpec => EveryFactPassesItsGuard
<1> DEFINE Accepted ==
      \A m \in Message : \A i \in DOMAIN log'[m] : i > Len(log[m]) => GuardAccepts(m, i)'
<1>1. FactsInv /\ [DirectiveNext]_allVars => Accepted
  BY EveryFact DEF FactsStep
<1>2. QED
  BY <1>1, FactsInvariant, PTL DEF DirectiveSpec, EveryFactPassesItsGuard

----------------------------------------------------------------------------
(* Carriers keep the promise of the message plane: an issue posts rows and  *)
(* touches no permit, every other step is one of the message plane's.      *)

LEMMA CarrierStepRefines ==
  SurfaceInv /\ [DirectiveNext]_allVars => [AtMostOnce!AbstractNext]_(AtMostOnce!abstractVars)
<1> SUFFICES ASSUME SurfaceInv, [DirectiveNext]_allVars
             PROVE  [AtMostOnce!AbstractNext]_(AtMostOnce!abstractVars)
  OBVIOUS
<1>1. CASE [Next]_vars
  BY <1>1, SurfaceStepRefines
<1>2. CASE IssueNext
  <2>1. PICK d \in Directive : \E row : Issue(d, row)
    BY <1>2 DEF IssueNext, RelayUserDirective, SupersedeUserDirective, DelegateInstruction
  <2>2. PICK row : Issue(d, row)
    BY <2>1
  <2>3. attempts' = attempts
    BY <2>2 DEF Issue
  <2>4. \A m \in Message : recipient'[m].fence = recipient[m].fence
    BY <2>2 DEF Issue, SurfaceInv, TypeOK, RecipientRow
  <2>5. QED
    BY <2>3, <2>4, StutterRefines DEF LiveStates, FencesStay
<1>3. QED
  BY <1>1, <1>2, DirectiveStepIsMessageStep

\* For any number of directives and targets: each carrier is attempted again
\* only when the attempt before it was withdrawn, and surfaces once.
THEOREM CarriersImplementAtMostOnce == DirectiveSpec => ImplementsAtMostOnce
<1>1. DirectiveInit => AtMostOnce!AbstractInit
  BY PhaseNames, Names DEF DirectiveInit, Init, LiveStates, AtMostOnce!AbstractInit
<1>2. AuthorityInv /\ [DirectiveNext]_allVars =>
        [AtMostOnce!AbstractNext]_(AtMostOnce!abstractVars)
  BY CarrierStepRefines DEF AuthorityInv
<1>3. QED
  BY <1>1, <1>2, AuthorityInvariant, PTL DEF DirectiveSpec, ImplementsAtMostOnce, AtMostOnce!AbstractSpec

\* A row that is issued is posted to its audience and bound to nobody.
LEMMA CustodyUnderDirectives == CustodyInv /\ [DirectiveNext]_allVars => CustodyInv'
<1> SUFFICES ASSUME CustodyInv, [DirectiveNext]_allVars PROVE CustodyInv'
  OBVIOUS
<1>0. SurfaceInv /\ SurfaceInv'
  BY SurfacesUnderDirectives DEF CustodyInv
<1>1. CASE [Next]_vars
  BY <1>1, CustodyStep
<1>2. CASE IssueNext
  <2>1. PICK d \in Directive : \E row : Issue(d, row)
    BY <1>2 DEF IssueNext, RelayUserDirective, SupersedeUserDirective, DelegateInstruction
  <2>2. PICK row : Issue(d, row)
    BY <2>1
  <2>3. /\ session' = session /\ attempts' = attempts
        /\ UNCHANGED <<deliveries, receipts, handoffs, reconciliations>>
    BY <2>2 DEF Issue, lineageVars, evidence
  <2>4. KnownSessions /\ recipient \in [Message -> RecipientRow]
    BY <1>0, Watching
  <2>5. KeepsHolders
    BY <2>2, <2>3, <2>4 DEF KeepsHolders, Issue, RecipientRow, KnownSessions, Registered
  <2>6. \A m \in Message : recipient'[m].state = recipient[m].state
    BY <2>2, <2>4 DEF Issue, RecipientRow
  <2>7. HeldInv'
    BY <2>3, <2>5, <2>6, IdleCustody
  <2>8. IncarnationsDistinct'
    BY <2>3 DEF CustodyInv, IncarnationsDistinct
  <2>9. QED
    BY <1>0, <2>7, <2>8 DEF CustodyInv
<1>3. QED
  BY <1>0, <1>1, <1>2, DirectiveStepIsMessageStep

\* Carriers are handed over and recovered like messages: no replacement is
\* refused for what it would inherit, and the receipt of a confirmed carrier
\* can always be rebuilt by the session that holds it.
THEOREM CarriersAreHandedOver ==
  DirectiveSpec => []HandoffAlwaysPossible /\ []ConfirmedIsRecoverable
<1>1. DirectiveInit => CustodyInv
  <2>1. DirectiveInit => SurfaceInv
    BY AuthorityInitInv DEF AuthorityInv
  <2>2. QED
    BY <2>1 DEF DirectiveInit, Init, LineageInit, NoSession, CustodyInv, IncarnationsDistinct, HeldInv,
       OwnersAreKnown, ConfirmedIsEvidenced, Custody
<1>2. CustodyInv /\ [DirectiveNext]_allVars => CustodyInv'
  BY CustodyUnderDirectives
<1>3. CustodyInv => HandoffAlwaysPossible /\ ConfirmedIsRecoverable
  BY HeadHandsOver, HeadRecovers DEF HandoffAlwaysPossible, ConfirmedIsRecoverable
<1>4. QED
  BY <1>1, <1>2, <1>3, PTL DEF DirectiveSpec
============================================================================
