------------------------ MODULE CodexDelivery_proofs ------------------------
(***************************************************************************)
(* Proofs about CodexDelivery, for any number of messages of any priority   *)
(* and any number of troubles.                                             *)
(***************************************************************************)
EXTENDS CodexDelivery, SequenceTheorems, WellFoundedInduction, TLAPS

Pushing == {"prepare", "sent", "poll"}
PushRow == [at : {"rest", "begin", "receipt", "settle"} \cup Pushing,
            how : {"none", "wake", "steer", "inject", "queue"}]
FrameRow == [m : 0 .. MaxMessage, at : {"none", "taken", "push", "commit", "settle"},
             live : BOOLEAN]

MemRow ==
  [turn : BOOLEAN, told : BOOLEAN, going : BOOLEAN,
   queue : [Queue -> Seq(Message)], flush : [Queue -> 0 .. MaxMessage], frame : FrameRow, socket : {"off", "live", "paused"}, target : 0 .. MaxMessage,
   push : [Message -> PushRow], permits : SUBSET Message, waiting : SUBSET Message,
   doubt : SUBSET Message, held : SUBSET Message, done : SUBSET Message,
   deferred : SUBSET Message, deferring : 0 .. MaxMessage,
   hydrate : SUBSET Message, hydrating : 0 .. MaxMessage]

DeliveryTypeOK ==
  /\ hub \in [posted : 0 .. MaxMessage, permit : [Message -> PermitState]]
  /\ codex \in [shown : [Message -> Nat], turn : BOOLEAN, wire : [Message -> WireState]]
  /\ disk \in [cursor : 0 .. MaxMessage, pending : SUBSET Message]
  /\ life \in Life
  /\ mem \in MemRow
  /\ spent \in Nat

Free(m) == hub.permit[m] \in {"NONE", "ABORTED"}
Exposed(m) == codex.shown[m] > 0 \/ codex.wire[m] # "none"
At(m) == mem.push[m].at

(* Where the message is between the call and the receipt: the thread holds  *)
(* it at most once, under a permit nobody may take again.                  *)
Shown(m) ==
  /\ codex.shown[m] \in {0, 1}
  /\ codex.wire[m] = "accepted" => codex.shown[m] = 1
  /\ codex.wire[m] \in {"sent", "late", "rejected"} => codex.shown[m] = 0
  /\ codex.wire[m] \in {"sent", "accepted", "rejected"} => At(m) = "sent"
  /\ At(m) = "prepare" => ~Exposed(m)
  /\ Exposed(m) => ~Free(m)
  /\ m \in mem.waiting \/ At(m) \in {"receipt", "settle"} \/ hub.permit[m] = "CONFIRMED" =>
       codex.shown[m] = 1

(* A push has the permit for itself, and its end leaves a trace.            *)
Held(m) ==
  /\ At(m) \in Pushing =>
       /\ hub.permit[m] = "ACTIVE"
       /\ m \in mem.permits /\ m \notin mem.doubt \cup mem.waiting \cup mem.done
       /\ m \in disk.pending
  /\ At(m) = "settle" \/ m \in mem.done => hub.permit[m] = "CONFIRMED"
  /\ m \in mem.doubt => ~Free(m)

(* The checkpoint names every message that is not settled.                  *)
Reserves(m) ==
  /\ /\ Free(m)
     /\ \/ InQueue(mem, m) \/ m \in mem.deferred \cup mem.hydrate
        \/ Running(mem, m) \/ mem.frame.m = m
     => m \in disk.pending
  /\ Exposed(m) /\ hub.permit[m] # "CONFIRMED" =>
       /\ m \in disk.pending
       /\ life # "down" =>
            m \in mem.doubt \cup mem.permits \cup IF life = "starting" THEN mem.hydrate ELSE {}
  /\ m \in disk.pending \/ hub.permit[m] # "NONE" => m <= hub.posted

(* A message without a permit is somewhere, once the cursor has passed it.  *)
Waits(m) == InQueue(mem, m) \/ m \in mem.deferred
Keeps(m) ==
  /\ Free(m) /\ life # "down" /\ m <= disk.cursor =>
       Waits(m) \/ m \in mem.hydrate \/ mem.hydrating = m
  /\ Free(m) /\ mem.frame.m = m /\ mem.frame.at \in {"commit", "settle"} => Waits(m)
  /\ At(m) \in {"prepare", "sent"} \/ (At(m) = "begin" /\ Free(m)) =>
       Waits(m) \/ mem.hydrating = m \/ (mem.frame.m = m /\ mem.frame.at = "push")
  /\ life = "starting" /\ m \in mem.hydrate =>
       ~Running(mem, m) /\ ~InQueue(mem, m)

Orderly ==
  /\ \A q \in Queue : mem.flush[q] # 0 =>
       mem.queue[q] # <<>> /\ mem.flush[q] = Head(mem.queue[q])
  /\ disk.cursor <= hub.posted /\ mem.frame.m <= hub.posted
  /\ mem.frame.at \in {"taken", "push", "commit"} => mem.frame.m = disk.cursor + 1
  /\ life = "down" => mem = Fresh
  /\ life = "starting" => mem.frame = NoFrame
  /\ life # "starting" => mem.hydrating = 0
  /\ life \in {"up", "draining"} => mem.hydrate = {}
  /\ life = "switching" => \A m \in Message : ~Running(mem, m)

DeliveryInv ==
  /\ DeliveryTypeOK
  /\ \A m \in Message : Shown(m) /\ Held(m) /\ Reserves(m) /\ Keeps(m)
  /\ Orderly

----------------------------------------------------------------------------
(* Sets and sequences.                                                     *)

LEMMA MinIsIn ==
  ASSUME NEW S, S \subseteq Nat, S # {}
  PROVE  Min(S) \in S
<1> DEFINE R == OpToRel(<, Nat)
<1>1. IsWellFoundedOn(R, Nat)
  BY NatLessThanWellFounded
<1> HIDE DEF R
<1>2. \E x \in S : \A y \in S : ~(<<y, x>> \in R)
  BY <1>1, WFMin
<1>3. \A x, y \in Nat : x < y => <<x, y>> \in R
  BY DEF R, OpToRel
<1>4. \E n \in S : \A m \in S : n <= m
  <2>1. PICK x \in S : \A y \in S : ~(<<y, x>> \in R)
    BY <1>2
  <2>2. \A y \in S : ~(y < x)
    BY <2>1, <1>3
  <2>3. \A y \in S : x \in Nat /\ y \in Nat
    OBVIOUS
  <2>4. \A y \in S : x <= y
    BY <2>2, <2>3
  <2>5. QED  BY <2>4
<1>5. QED  BY <1>4 DEF Min

LEMMA MessageFacts ==
  /\ Message \subseteq Nat /\ 0 \notin Message /\ MaxMessage \in Nat
  /\ \A m \in Message : m \in 0 .. MaxMessage
BY DeliveryConstants DEF Message

In(s, x) == \E i \in DOMAIN s : s[i] = x

LEMMA InAppend ==
  ASSUME NEW s \in Seq(Message), NEW m \in Message
  PROVE  /\ Append(s, m) \in Seq(Message) /\ Append(s, m) # <<>>
         /\ \A x : In(Append(s, m), x) <=> In(s, x) \/ x = m
         /\ s # <<>> => Head(Append(s, m)) = Head(s)
<1>1. Append(s, m) \in Seq(Message) /\ Append(s, m) # <<>> /\ Len(Append(s, m)) = Len(s) + 1
  <2>1. Append(s, m) \in Seq(Message)
    OBVIOUS
  <2>2. Len(Append(s, m)) = Len(s) + 1 /\ Len(s) \in Nat
    OBVIOUS
  <2>3. Append(s, m) # <<>>
    BY <2>1, <2>2
  <2>4. QED  BY <2>1, <2>2, <2>3
<1>2. /\ \A i \in 1 .. Len(s) : Append(s, m)[i] = s[i]
      /\ Append(s, m)[Len(s) + 1] = m
  OBVIOUS
<1>3. /\ DOMAIN s = 1 .. Len(s) /\ DOMAIN Append(s, m) = 1 .. Len(s) + 1
      /\ Len(s) \in Nat
  OBVIOUS
<1>4. \A i \in 1 .. Len(s) + 1 : i \in 1 .. Len(s) \/ i = Len(s) + 1
  BY <1>3
<1>4a. 1 .. Len(s) \subseteq 1 .. Len(s) + 1 /\ Len(s) + 1 \in 1 .. Len(s) + 1
  BY <1>3
<1>5. \A x : In(Append(s, m), x) <=> In(s, x) \/ x = m
  BY <1>2, <1>3, <1>4, <1>4a DEF In
<1>6. s # <<>> => Head(Append(s, m)) = Head(s)
  OBVIOUS
<1>7. QED  BY <1>1, <1>5, <1>6

LEMMA InTail ==
  ASSUME NEW s \in Seq(Message), s # <<>>
  PROVE  /\ Tail(s) \in Seq(Message)
         /\ Head(s) \in Message /\ In(s, Head(s))
         /\ \A x : In(Tail(s), x) => In(s, x)
         /\ \A x : In(s, x) /\ x # Head(s) => In(Tail(s), x)
<1>1. /\ Tail(s) \in Seq(Message) /\ Len(Tail(s)) = Len(s) - 1 /\ Len(s) \in Nat \ {0}
      /\ DOMAIN s = 1 .. Len(s)
  OBVIOUS
<1>2. \A i \in 1 .. Len(s) - 1 : Tail(s)[i] = s[i + 1]
  OBVIOUS
<1>3. Head(s) = s[1] /\ s[1] \in Message /\ 1 \in DOMAIN s
  BY <1>1
<1>4. DOMAIN Tail(s) = 1 .. Len(s) - 1
  BY <1>1
<1>5. \A i \in 1 .. Len(s) - 1 : i + 1 \in 1 .. Len(s)
  BY <1>1
<1>6. \A i \in 1 .. Len(s) : i = 1 \/ (i - 1 \in 1 .. Len(s) - 1 /\ (i - 1) + 1 = i)
  BY <1>1
<1>7. \A x : In(Tail(s), x) => In(s, x)
  BY <1>1, <1>2, <1>4, <1>5 DEF In
<1>8. ASSUME NEW x, In(s, x), x # Head(s)  PROVE In(Tail(s), x)
  <2>1. PICK i \in 1 .. Len(s) : s[i] = x
    BY <1>1, <1>8 DEF In
  <2>2. i # 1
    BY <1>3, <1>8, <2>1
  <2>3. i - 1 \in 1 .. Len(s) - 1 /\ (i - 1) + 1 = i
    BY <1>6, <2>2
  <2>4. Tail(s)[i - 1] = x
    BY <1>2, <2>1, <2>3
  <2>5. QED  BY <1>4, <2>3, <2>4 DEF In
<1>9. QED  BY <1>1, <1>3, <1>7, <1>8 DEF In

LEMMA InQueueIsIn ==
  ASSUME NEW me, NEW x
  PROVE  InQueue(me, x) <=> \E q \in Queue : In(me.queue[q], x)
BY DEF InQueue, In

----------------------------------------------------------------------------
(* What the end of a push leaves in memory.                                *)

FlushOK(me) ==
  \A q \in Queue : me.flush[q] # 0 =>
    me.queue[q] # <<>> /\ me.flush[q] = Head(me.queue[q])

Ending == {"ok", "retry", "fatal"}

\* The fields that no end of a push changes.
Kept(e, me) ==
  /\ e.turn = me.turn /\ e.target = me.target /\ e.permits = me.permits
  /\ e.waiting = me.waiting /\ e.doubt = me.doubt /\ e.done = me.done
  /\ e.hydrate = me.hydrate

LEMMA DrainedRow ==
  ASSUME NEW me \in MemRow, FlushOK(me), NEW q \in Queue, NEW m \in Message,
         NEW out \in Ending
  PROVE  LET e == Drained(me, q, m, out)
         IN  /\ e \in MemRow /\ FlushOK(e) /\ Kept(e, me)
             /\ e.push = me.push /\ e.frame = me.frame /\ e.deferred = me.deferred
             /\ e.deferring = me.deferring /\ e.hydrating = me.hydrating /\ e.socket = me.socket
             /\ \A x : InQueue(e, x) => InQueue(me, x)
             /\ \A x : x # m /\ InQueue(me, x) => InQueue(e, x)
             /\ out # "ok" /\ m \notin me.done \cup me.doubt /\ InQueue(me, m) => InQueue(e, m)
<1> DEFINE e == Drained(me, q, m, out)
<1>0. m # 0 /\ 0 \in 0 .. MaxMessage
  BY MessageFacts
<1>h. me.held \ {m} \in SUBSET Message /\ me.held \cup {m} \in SUBSET Message
  BY DEF MemRow
<1>g. \A more \in BOOLEAN : StillGoing(me, q, more) \in BOOLEAN
  BY DEF MemRow, StillGoing
<1>t. (Tail(me.queue[q]) # <<>>) \in BOOLEAN /\ FALSE \in BOOLEAN
  OBVIOUS
<1>4. \/ e = me
      \/ me.flush[q] = m /\ \E h \in SUBSET Message, g \in BOOLEAN :
           e = [me EXCEPT !.flush[q] = 0, !.held = h, !.going = g]
      \/ /\ me.flush[q] = m /\ (out = "ok" \/ m \in me.done \cup me.doubt)
         /\ \E h \in SUBSET Message, g \in BOOLEAN :
              e = [me EXCEPT !.flush[q] = 0, !.queue[q] = Tail(@), !.held = h, !.going = g]
  <2>1. CASE me.flush[q] # m
    <3>1. e = me
      BY <2>1 DEF Drained
    <3>2. QED  BY <3>1
  <2>p. ASSUME me.flush[q] = m,
               e = [me EXCEPT !.flush[q] = 0, !.queue[q] = Tail(@), !.held = @ \ {m},
                              !.going = StillGoing(me, q, Tail(me.queue[q]) # <<>>)],
               out = "ok" \/ m \in me.done \cup me.doubt
        PROVE  \E h \in SUBSET Message, g \in BOOLEAN :
                 e = [me EXCEPT !.flush[q] = 0, !.queue[q] = Tail(@), !.held = h, !.going = g]
    <3>1. e = [me EXCEPT !.flush[q] = 0, !.queue[q] = Tail(@), !.held = me.held \ {m},
                         !.going = StillGoing(me, q, Tail(me.queue[q]) # <<>>)]
      BY <2>p DEF MemRow
    <3>2. StillGoing(me, q, Tail(me.queue[q]) # <<>>) \in BOOLEAN
      BY <1>g, <1>t
    <3>3. QED  BY <3>1, <3>2, <1>h
  <2>2. CASE me.flush[q] = m /\ m \in me.waiting /\ out = "ok"
    <3>1. e = [me EXCEPT !.flush[q] = 0, !.queue[q] = Tail(@), !.held = @ \ {m},
                         !.going = StillGoing(me, q, Tail(me.queue[q]) # <<>>)]
      BY <2>2 DEF Drained
    <3>2. QED  BY <2>2, <2>p, <3>1
  <2>3. CASE me.flush[q] = m /\ m \in me.waiting /\ out # "ok"
    <3>1. e = [me EXCEPT !.flush[q] = 0, !.held = @ \ {m}, !.going = StillGoing(me, q, FALSE)]
      BY <2>3 DEF Drained
    <3>2. e = [me EXCEPT !.flush[q] = 0, !.held = me.held \ {m},
                         !.going = StillGoing(me, q, FALSE)]
      BY <3>1 DEF MemRow
    <3>3. StillGoing(me, q, FALSE) \in BOOLEAN
      BY <1>g, <1>t
    <3>4. QED  BY <2>3, <3>2, <3>3, <1>h
  <2>4. CASE me.flush[q] = m /\ m \notin me.waiting /\ m \in me.done \cup me.doubt
    <3>1. e = [me EXCEPT !.flush[q] = 0, !.queue[q] = Tail(@), !.held = @ \ {m},
                         !.going = StillGoing(me, q, Tail(me.queue[q]) # <<>>)]
      BY <2>4 DEF Drained
    <3>2. QED  BY <2>4, <2>p, <3>1
  <2>5. CASE me.flush[q] = m /\ m \notin me.waiting /\ m \notin me.done \cup me.doubt
    <3> DEFINE g == out = "ok" /\ StillGoing(me, q, FALSE)
    <3>1. e = [me EXCEPT !.flush[q] = 0, !.held = @ \cup {m}, !.going = g]
      BY <2>5 DEF Drained
    <3>2. g \in BOOLEAN
      OBVIOUS
    <3> HIDE DEF g
    <3>3. e = [me EXCEPT !.flush[q] = 0, !.held = me.held \cup {m}, !.going = g]
      BY <3>1 DEF MemRow
    <3>4. QED  BY <2>5, <3>2, <3>3, <1>h
  <2>6. QED  BY <2>1, <2>2, <2>3, <2>4, <2>5
<1> HIDE DEF e
<1>1. CASE e = me
  BY <1>1 DEF Kept, e
<1>2. ASSUME me.flush[q] = m,
             NEW h \in SUBSET Message, NEW g \in BOOLEAN,
             e = [me EXCEPT !.flush[q] = 0, !.held = h, !.going = g]
      PROVE  /\ e \in MemRow /\ FlushOK(e) /\ Kept(e, me)
             /\ e.push = me.push /\ e.frame = me.frame /\ e.deferred = me.deferred
             /\ e.deferring = me.deferring /\ e.hydrating = me.hydrating /\ e.socket = me.socket
             /\ e.queue = me.queue
  <2>0. me.flush \in [Queue -> 0 .. MaxMessage]
    BY DEF MemRow
  <2>1. /\ Kept(e, me)
        /\ e.push = me.push /\ e.frame = me.frame /\ e.deferred = me.deferred
        /\ e.deferring = me.deferring /\ e.hydrating = me.hydrating /\ e.socket = me.socket
        /\ e.queue = me.queue /\ e.flush = [me.flush EXCEPT ![q] = 0]
    BY <1>2 DEF MemRow, Kept
  <2>2. e.flush \in [Queue -> 0 .. MaxMessage]
    BY <1>0, <2>0, <2>1
  <2>3. e \in MemRow
    BY <1>2, <2>2 DEF MemRow
  <2>4. \A r \in Queue : e.flush[r] = me.flush[r] \/ e.flush[r] = 0
    BY <2>0, <2>1
  <2>5. FlushOK(e)
    BY <2>1, <2>4 DEF FlushOK
  <2>6. QED  BY <2>1, <2>3, <2>5
<1>3. ASSUME me.flush[q] = m, out = "ok" \/ m \in me.done \cup me.doubt,
             NEW h \in SUBSET Message, NEW g \in BOOLEAN,
             e = [me EXCEPT !.flush[q] = 0, !.queue[q] = Tail(@), !.held = h, !.going = g]
      PROVE  /\ e \in MemRow /\ FlushOK(e) /\ Kept(e, me)
             /\ e.push = me.push /\ e.frame = me.frame /\ e.deferred = me.deferred
             /\ e.deferring = me.deferring /\ e.hydrating = me.hydrating /\ e.socket = me.socket
             /\ \A x : InQueue(e, x) => InQueue(me, x)
             /\ \A x : x # m /\ InQueue(me, x) => InQueue(e, x)
  <2>0. /\ me.queue \in [Queue -> Seq(Message)] /\ me.flush \in [Queue -> 0 .. MaxMessage]
        /\ me.queue[q] # <<>> /\ Head(me.queue[q]) = m /\ me.queue[q] \in Seq(Message)
    BY <1>0, <1>3 DEF FlushOK, MemRow
  <2>1. /\ Kept(e, me)
        /\ e.push = me.push /\ e.frame = me.frame /\ e.deferred = me.deferred
        /\ e.deferring = me.deferring /\ e.hydrating = me.hydrating /\ e.socket = me.socket
        /\ e.queue = [me.queue EXCEPT ![q] = Tail(@)]
        /\ e.flush = [me.flush EXCEPT ![q] = 0]
    BY <1>3 DEF MemRow, Kept
  <2>2. e.queue \in [Queue -> Seq(Message)] /\ e.flush \in [Queue -> 0 .. MaxMessage]
    BY <2>0, <2>1, <1>0, InTail
  <2>3. e \in MemRow
    BY <1>3, <2>1, <2>2 DEF MemRow
  <2>5. \A r \in Queue : r # q => e.queue[r] = me.queue[r] /\ e.flush[r] = me.flush[r]
    BY <2>0, <2>1
  <2>6. e.queue[q] = Tail(me.queue[q]) /\ e.flush[q] = 0
    BY <2>0, <2>1
  <2>4. FlushOK(e)
    BY <2>5, <2>6 DEF FlushOK
  <2>7. \A x : InQueue(e, x) => InQueue(me, x)
    BY <2>0, <2>5, <2>6, InTail, InQueueIsIn
  <2>8. \A x : x # m /\ InQueue(me, x) => InQueue(e, x)
    BY <2>0, <2>5, <2>6, InTail, InQueueIsIn
  <2>9. QED  BY <2>1, <2>3, <2>4, <2>7, <2>8
<1>5. CASE /\ me.flush[q] = m
           /\ \E h \in SUBSET Message, g \in BOOLEAN :
                e = [me EXCEPT !.flush[q] = 0, !.held = h, !.going = g]
  BY <1>5, <1>2, InQueueIsIn DEF e
<1>6. CASE /\ me.flush[q] = m /\ (out = "ok" \/ m \in me.done \cup me.doubt)
           /\ \E h \in SUBSET Message, g \in BOOLEAN :
                e = [me EXCEPT !.flush[q] = 0, !.queue[q] = Tail(@), !.held = h, !.going = g]
  BY <1>6, <1>3 DEF e
<1>7. QED  BY <1>1, <1>5, <1>6, <1>4

\* A push that ended: its own trace in memory, and nothing of another message.
EndedFrom(e, me, m, out) ==
  /\ e \in MemRow /\ FlushOK(e) /\ Kept(e, me)
  /\ e.push[m].at = "rest" /\ \A x \in Message : x # m => e.push[x] = me.push[x]
  /\ \A x : InQueue(e, x) => InQueue(me, x)
  /\ \A x : x # m /\ InQueue(me, x) => InQueue(e, x)
  /\ out # "ok" /\ m \notin me.done \cup me.doubt /\ InQueue(me, m) => InQueue(e, m)
  /\ e.deferred \subseteq me.deferred /\ me.deferred \subseteq e.deferred \cup {m}
  /\ out # "ok" => e.deferred = me.deferred /\ e.hydrating = me.hydrating
  /\ e.hydrating = me.hydrating \/ (me.hydrating = m /\ e.hydrating = 0)
  /\ me.frame.m # m \/ me.frame.at # "push" => e.frame = me.frame
  /\ me.frame.m = m /\ me.frame.at = "push" =>
       \/ e.frame = NoFrame
       \/ out = "ok" /\ e.frame.m = m /\ e.frame.at = "commit"

LEMMA FrameEndsRow ==
  ASSUME NEW me \in MemRow, NEW m \in Message, NEW out \in Ending
  PROVE  LET e == FrameEnds(me, m, out)
         IN  /\ e \in MemRow /\ Kept(e, me)
             /\ e.push = me.push /\ e.queue = me.queue /\ e.flush = me.flush
             /\ e.deferred = me.deferred /\ e.deferring = me.deferring
             /\ e.hydrating = me.hydrating
             /\ me.frame.m # m \/ me.frame.at # "push" => e.frame = me.frame
             /\ me.frame.m = m /\ me.frame.at = "push" =>
                  \/ e.frame = NoFrame
                  \/ out = "ok" /\ e.frame.m = m /\ e.frame.at = "commit"
<1> DEFINE e == FrameEnds(me, m, out)
<1>1. CASE me.frame.m # m \/ me.frame.at # "push"
  <2>1. e = me
    BY <1>1 DEF FrameEnds
  <2>2. QED  BY <1>1, <2>1 DEF Kept
<1>2. CASE me.frame.m = m /\ me.frame.at = "push" /\ out = "ok"
  <2>1. e = [me EXCEPT !.frame.at = "commit"]
    BY <1>2 DEF FrameEnds
  <2> HIDE DEF e
  <2>2. /\ Kept(e, me) /\ e.push = me.push /\ e.queue = me.queue /\ e.flush = me.flush
        /\ e.deferred = me.deferred /\ e.deferring = me.deferring
        /\ e.hydrating = me.hydrating
        /\ e.frame = [me.frame EXCEPT !.at = "commit"] /\ e \in MemRow
    BY <2>1 DEF MemRow, FrameRow, Kept
  <2>3. e.frame.m = m /\ e.frame.at = "commit"
    BY <1>2, <2>2 DEF MemRow, FrameRow
  <2>4. QED  BY <1>2, <2>2, <2>3 DEF e
<1>3. CASE me.frame.m = m /\ me.frame.at = "push" /\ out # "ok"
  <2>1. PICK k \in {"off", "live", "paused"} : e = [me EXCEPT !.frame = NoFrame, !.socket = k]
    <3>1. CASE ~me.frame.live
      <4>1. me.socket \in {"off", "live", "paused"} /\ e = [me EXCEPT !.frame = NoFrame, !.socket = @]
        BY <1>3, <3>1 DEF FrameEnds, MemRow
      <4>2. e = [me EXCEPT !.frame = NoFrame, !.socket = me.socket]
        BY <4>1 DEF MemRow
      <4>3. QED  BY <4>1, <4>2
    <3>2. CASE me.frame.live /\ out = "retry"
      BY <1>3, <3>2 DEF FrameEnds
    <3>3. CASE me.frame.live /\ out # "retry"
      BY <1>3, <3>3 DEF FrameEnds
    <3>4. QED  BY <3>1, <3>2, <3>3
  <2> HIDE DEF e
  <2>2. NoFrame \in FrameRow
    BY MessageFacts DEF NoFrame, FrameRow
  <2>3. /\ Kept(e, me) /\ e.push = me.push /\ e.queue = me.queue /\ e.flush = me.flush
        /\ e.deferred = me.deferred /\ e.deferring = me.deferring
        /\ e.hydrating = me.hydrating
        /\ e.frame = NoFrame /\ e \in MemRow
    BY <2>1, <2>2 DEF MemRow, Kept
  <2>4. QED  BY <1>3, <2>3 DEF e
<1>4. QED  BY <1>1, <1>2, <1>3

LEMMA DeferredEndsRow ==
  ASSUME NEW me \in MemRow, NEW m \in Message, NEW out \in Ending
  PROVE  LET e == DeferredEnds(me, m, out)
         IN  /\ e \in MemRow /\ Kept(e, me)
             /\ e.push = me.push /\ e.queue = me.queue /\ e.flush = me.flush
             /\ e.frame = me.frame /\ e.hydrating = me.hydrating
             /\ e.deferred = me.deferred \/ (out = "ok" /\ e.deferred = me.deferred \ {m})
<1> DEFINE e == DeferredEnds(me, m, out)
<1>1. \/ e = me
      \/ e = [me EXCEPT !.deferring = 0, !.deferred = me.deferred]
      \/ out = "ok" /\ e = [me EXCEPT !.deferring = 0, !.deferred = me.deferred \ {m}]
  <2>1. CASE me.deferring # m
    BY <2>1 DEF DeferredEnds
  <2>2. CASE me.deferring = m /\ out = "ok"
    <3>1. e = [me EXCEPT !.deferring = 0, !.deferred = @ \ {m}]
      BY <2>2 DEF DeferredEnds
    <3>2. e = [me EXCEPT !.deferring = 0, !.deferred = me.deferred \ {m}]
      BY <3>1 DEF MemRow
    <3>3. QED  BY <3>2, <2>2
  <2>3. CASE me.deferring = m /\ out # "ok"
    <3>1. e = [me EXCEPT !.deferring = 0, !.deferred = @]
      BY <2>3 DEF DeferredEnds
    <3>2. e = [me EXCEPT !.deferring = 0, !.deferred = me.deferred]
      BY <3>1 DEF MemRow
    <3>3. QED  BY <3>2
  <2>4. QED  BY <2>1, <2>2, <2>3
<1> HIDE DEF e
<1>2. 0 \in 0 .. MaxMessage
  BY MessageFacts
<1>3. ASSUME NEW D \in SUBSET Message, e = [me EXCEPT !.deferring = 0, !.deferred = D]
      PROVE  /\ e \in MemRow /\ Kept(e, me)
             /\ e.push = me.push /\ e.queue = me.queue /\ e.flush = me.flush
             /\ e.frame = me.frame /\ e.hydrating = me.hydrating /\ e.deferred = D
  BY <1>2, <1>3 DEF MemRow, Kept
<1>4. me.deferred \in SUBSET Message /\ me.deferred \ {m} \in SUBSET Message
  BY DEF MemRow
<1>5. CASE e = me
  BY <1>5 DEF Kept, e
<1>6. CASE e = [me EXCEPT !.deferring = 0, !.deferred = me.deferred]
  BY <1>3, <1>4, <1>6 DEF e
<1>7. CASE out = "ok" /\ e = [me EXCEPT !.deferring = 0, !.deferred = me.deferred \ {m}]
  BY <1>3, <1>4, <1>7 DEF e
<1>8. QED  BY <1>1, <1>5, <1>6, <1>7

LEMMA EndedRow ==
  ASSUME NEW me \in MemRow, FlushOK(me), NEW m \in Message, NEW out \in Ending
  PROVE  EndedFrom(Ended(me, m, out), me, m, out)
<1> DEFINE a == [me EXCEPT !.push[m] = Resting,
                           !.hydrating = IF @ = m /\ out = "ok" THEN 0 ELSE @]
           b == Drained(a, "important", m, out)
           c == Drained(b, "normal", m, out)
           d == FrameEnds(c, m, out)
           e == DeferredEnds(d, m, out)
<1>0. "important" \in Queue /\ "normal" \in Queue /\ Resting \in PushRow /\ 0 \in 0 .. MaxMessage
  BY MessageFacts DEF Queue, Resting, PushRow
<1>1. Ended(me, m, out) = e
  BY DEF Ended
<1>2. PICK h \in 0 .. MaxMessage :
        /\ a = [me EXCEPT !.push[m] = Resting, !.hydrating = h]
        /\ out # "ok" => h = me.hydrating
        /\ h = me.hydrating \/ (me.hydrating = m /\ h = 0)
  <2> DEFINE g == IF me.hydrating = m /\ out = "ok" THEN 0 ELSE me.hydrating
  <2>1. g \in 0 .. MaxMessage
    BY <1>0 DEF MemRow
  <2>2. a = [me EXCEPT !.push[m] = Resting, !.hydrating = g]
    BY DEF MemRow
  <2>3. /\ out # "ok" => g = me.hydrating
        /\ g = me.hydrating \/ (me.hydrating = m /\ g = 0)
    OBVIOUS
  <2> HIDE DEF g, a
  <2>4. QED  BY <2>1, <2>2, <2>3
<1> HIDE DEF a
<1>3. /\ Kept(a, me) /\ a.queue = me.queue /\ a.flush = me.flush /\ a.frame = me.frame
      /\ a.deferred = me.deferred /\ a.hydrating = h
      /\ a.push = [me.push EXCEPT ![m] = Resting]
      /\ a \in MemRow
  BY <1>0, <1>2 DEF MemRow, Kept
<1>4. a.push[m].at = "rest" /\ \A x \in Message : x # m => a.push[x] = me.push[x]
  BY <1>3 DEF MemRow, Resting
<1>5. FlushOK(a)
  BY <1>3 DEF FlushOK
<1>6. \A x : InQueue(a, x) <=> InQueue(me, x)
  BY <1>3, InQueueIsIn
<1> HIDE DEF b
<1>7. /\ b \in MemRow /\ FlushOK(b) /\ Kept(b, a)
      /\ b.push = a.push /\ b.frame = a.frame /\ b.deferred = a.deferred
      /\ b.hydrating = a.hydrating
      /\ \A x : InQueue(b, x) => InQueue(a, x)
      /\ \A x : x # m /\ InQueue(a, x) => InQueue(b, x)
      /\ out # "ok" /\ m \notin a.done \cup a.doubt /\ InQueue(a, m) => InQueue(b, m)
  BY <1>0, <1>3, <1>5, DrainedRow DEF b
<1> HIDE DEF c
<1>8. /\ c \in MemRow /\ FlushOK(c) /\ Kept(c, b)
      /\ c.push = b.push /\ c.frame = b.frame /\ c.deferred = b.deferred
      /\ c.hydrating = b.hydrating
      /\ \A x : InQueue(c, x) => InQueue(b, x)
      /\ \A x : x # m /\ InQueue(b, x) => InQueue(c, x)
      /\ out # "ok" /\ m \notin b.done \cup b.doubt /\ InQueue(b, m) => InQueue(c, m)
  BY <1>0, <1>7, DrainedRow DEF c
<1> HIDE DEF d
<1>9. /\ d \in MemRow /\ Kept(d, c)
      /\ d.push = c.push /\ d.queue = c.queue /\ d.flush = c.flush
      /\ d.deferred = c.deferred /\ d.hydrating = c.hydrating
      /\ c.frame.m # m \/ c.frame.at # "push" => d.frame = c.frame
      /\ c.frame.m = m /\ c.frame.at = "push" =>
           \/ d.frame = NoFrame
           \/ out = "ok" /\ d.frame.m = m /\ d.frame.at = "commit"
  BY <1>8, FrameEndsRow DEF d
<1> HIDE DEF e
<1>10. /\ e \in MemRow /\ Kept(e, d)
       /\ e.push = d.push /\ e.queue = d.queue /\ e.flush = d.flush
       /\ e.frame = d.frame /\ e.hydrating = d.hydrating
       /\ e.deferred = d.deferred \/ (out = "ok" /\ e.deferred = d.deferred \ {m})
  BY <1>9, DeferredEndsRow DEF e
<1>11. FlushOK(e)
  BY <1>8, <1>9, <1>10 DEF FlushOK
<1>12. \A x : InQueue(e, x) <=> InQueue(c, x)
  BY <1>9, <1>10, InQueueIsIn
<1>13. Kept(e, me)
  BY <1>3, <1>7, <1>8, <1>9, <1>10 DEF Kept
<1>14. out # "ok" /\ m \notin me.done \cup me.doubt /\ InQueue(me, m) => InQueue(e, m)
  BY <1>3, <1>6, <1>7, <1>8, <1>12 DEF Kept
<1>15. /\ \A x : InQueue(e, x) => InQueue(me, x)
       /\ \A x : x # m /\ InQueue(me, x) => InQueue(e, x)
  BY <1>6, <1>7, <1>8, <1>12
<1>16. /\ e.push = a.push /\ e.hydrating = h
       /\ e.deferred = me.deferred \/ (out = "ok" /\ e.deferred = me.deferred \ {m})
  BY <1>3, <1>7, <1>8, <1>9, <1>10
<1>17. c.frame = me.frame
  BY <1>3, <1>7, <1>8
<1>18. EndedFrom(e, me, m, out)
  BY <1>2, <1>4, <1>9, <1>10, <1>11, <1>13, <1>14, <1>15, <1>16, <1>17 DEF EndedFrom
<1>19. QED  BY <1>1, <1>18 DEF e

----------------------------------------------------------------------------
(* What a step says of the messages it is not about.                       *)

Local(x) == Shown(x) /\ Held(x) /\ Reserves(x) /\ Keeps(x)

LEMMA DeliveryParts ==
  DeliveryInv <=> DeliveryTypeOK /\ Orderly /\ \A x \in Message : Local(x)
BY DEF DeliveryInv, Local

\* The stores keep what they say of x; a call may lose its listener.
StoresKeep(x) ==
  /\ hub'.permit[x] = hub.permit[x] /\ hub'.posted >= hub.posted
  /\ codex'.shown[x] = codex.shown[x]
  /\ codex'.wire[x] = codex.wire[x] \/ (codex.wire[x] = "sent" /\ codex'.wire[x] = "late")
  /\ x \in disk'.pending <=> x \in disk.pending
  /\ x <= disk'.cursor => x <= disk.cursor
  /\ life' = life

MemoryKeeps(x) ==
  /\ mem'.push[x] = mem.push[x]
  /\ x \in mem'.permits <=> x \in mem.permits
  /\ x \in mem'.waiting <=> x \in mem.waiting
  /\ x \in mem'.doubt <=> x \in mem.doubt
  /\ x \in mem'.done <=> x \in mem.done
  /\ x \in mem'.hydrate <=> x \in mem.hydrate
  /\ x \in mem'.deferred <=> x \in mem.deferred
  /\ mem'.hydrating = x <=> mem.hydrating = x
  /\ InQueue(mem', x) <=> InQueue(mem, x)
  /\ mem'.frame.m = x => mem.frame.m = x /\ mem'.frame.at = mem.frame.at
  /\ mem.frame.m = x /\ mem.frame.at = "push" => mem'.frame.m = x /\ mem'.frame.at = "push"

LEMMA Bystander ==
  ASSUME DeliveryTypeOK, DeliveryTypeOK', NEW x \in Message, Local(x),
         StoresKeep(x), MemoryKeeps(x)
  PROVE  Local(x)'
<1> USE DEF StoresKeep, MemoryKeeps
<1>1. Free(x)' <=> Free(x)
  BY DEF Free
<1>2. Exposed(x)' <=> Exposed(x)
  BY DEF Exposed
<1>3. At(x)' = At(x) /\ (Running(mem, x)' <=> Running(mem, x))
  BY DEF At, Running
<1>4. Waits(x)' <=> Waits(x)
  BY DEF Waits
<1>5. Shown(x)'
  BY <1>1, <1>2, <1>3 DEF Local, Shown
<1>6. Held(x)'
  BY <1>1, <1>3 DEF Local, Held
<1>7. Reserves(x)'
  <2>1. hub.posted \in Nat /\ hub'.posted \in Nat /\ x \in Nat
    BY MessageFacts DEF DeliveryTypeOK
  <2>2. x \in disk'.pending \/ hub'.permit[x] # "NONE" => x <= hub'.posted
    BY <2>1 DEF Local, Reserves
  <2>3. (/\ Free(x)
         /\ \/ InQueue(mem, x) \/ x \in mem.deferred \cup mem.hydrate
            \/ Running(mem, x) \/ mem.frame.m = x
         => x \in disk.pending)'
    BY <1>1, <1>3 DEF Local, Reserves
  <2>4. (Exposed(x) /\ hub.permit[x] # "CONFIRMED" =>
           /\ x \in disk.pending
           /\ life # "down" =>
                x \in mem.doubt \cup mem.permits \cup IF life = "starting" THEN mem.hydrate ELSE {})'
    BY <1>2 DEF Local, Reserves
  <2>5. QED  BY <2>2, <2>3, <2>4 DEF Reserves
<1>8. Keeps(x)'
  <2>1. (Free(x) /\ life # "down" /\ x <= disk.cursor =>
           Waits(x) \/ x \in mem.hydrate \/ mem.hydrating = x)'
    BY <1>1, <1>4 DEF Local, Keeps
  <2>2. (Free(x) /\ mem.frame.m = x /\ mem.frame.at \in {"commit", "settle"} => Waits(x))'
    BY <1>1, <1>4 DEF Local, Keeps
  <2>3. (At(x) \in {"prepare", "sent"} \/ (At(x) = "begin" /\ Free(x)) =>
           Waits(x) \/ mem.hydrating = x \/ (mem.frame.m = x /\ mem.frame.at = "push"))'
    BY <1>1, <1>3, <1>4 DEF Local, Keeps
  <2>4. (life = "starting" /\ x \in mem.hydrate => ~Running(mem, x) /\ ~InQueue(mem, x))'
    BY <1>3 DEF Local, Keeps
  <2>5. QED  BY <2>1, <2>2, <2>3, <2>4 DEF Keeps
<1>9. QED  BY <1>5, <1>6, <1>7, <1>8 DEF Local

\* The parts of the type invariant, one variable at a time.
LEMMA Types ==
  ASSUME DeliveryTypeOK
  PROVE  /\ hub.posted \in 0 .. MaxMessage /\ hub.permit \in [Message -> PermitState]
         /\ codex.shown \in [Message -> Nat] /\ codex.turn \in BOOLEAN
         /\ codex.wire \in [Message -> WireState]
         /\ disk.cursor \in 0 .. MaxMessage /\ disk.pending \subseteq Message
         /\ life \in Life /\ mem \in MemRow /\ spent \in Nat
BY DEF DeliveryTypeOK

\* A new permit for one message.
LEMMA PermitRow ==
  ASSUME DeliveryTypeOK, NEW m \in Message, NEW p \in PermitState, hub' = Permit(m, p)
  PROVE  /\ hub' \in [posted : 0 .. MaxMessage, permit : [Message -> PermitState]]
         /\ hub'.posted = hub.posted /\ hub'.permit[m] = p
         /\ \A x \in Message : x # m => hub'.permit[x] = hub.permit[x]
BY DEF DeliveryTypeOK, Permit

----------------------------------------------------------------------------
(* The end of a push.                                                      *)

\* me is the memory with what the end of the push of m changes of its sets.
PushEnds(m, out, me) ==
  /\ me \in MemRow /\ me.queue = mem.queue /\ me.flush = mem.flush
  /\ me.frame = mem.frame /\ me.push = mem.push /\ me.deferred = mem.deferred
  /\ me.hydrate = mem.hydrate /\ me.hydrating = mem.hydrating
  /\ \A x \in Message : x # m =>
       /\ x \in me.permits <=> x \in mem.permits
       /\ x \in me.waiting <=> x \in mem.waiting
       /\ x \in me.doubt <=> x \in mem.doubt
       /\ x \in me.done <=> x \in mem.done
  /\ mem' = Ended(me, m, out)

\* What the stores say of m when its push ends.
StoresAfter(m) ==
  /\ hub' \in [posted : 0 .. MaxMessage, permit : [Message -> PermitState]]
  /\ codex' \in [shown : [Message -> Nat], turn : BOOLEAN, wire : [Message -> WireState]]
  /\ disk' \in [cursor : 0 .. MaxMessage, pending : SUBSET Message]
  /\ spent' \in Nat /\ life' = life /\ hub'.posted = hub.posted /\ disk'.cursor = disk.cursor
  /\ \A x \in Message : x # m => StoresKeep(x)

EndsWell(m, out, me) ==
  /\ Free(m)' =>
       /\ out # "ok" /\ m \notin me.done \cup me.doubt /\ m \in disk'.pending
       /\ At(m) \in {"prepare", "sent"} \/ (At(m) = "begin" /\ Free(m))
  /\ Exposed(m)' /\ hub'.permit[m] # "CONFIRMED" =>
       m \in disk'.pending /\ m \in me.doubt \cup me.permits
  /\ codex'.wire[m] \in {"none", "late"} /\ codex'.shown[m] \in {0, 1}
  /\ codex'.wire[m] = "late" => codex'.shown[m] = 0
  /\ Exposed(m)' => ~Free(m)'
  /\ m \in me.waiting \/ hub'.permit[m] = "CONFIRMED" => codex'.shown[m] = 1
  /\ m \in me.done => hub'.permit[m] = "CONFIRMED"
  /\ m \in disk'.pending \/ hub'.permit[m] # "NONE" => m <= hub.posted

LEMMA EndsKeep ==
  ASSUME DeliveryInv, NEW m \in Message, NEW out \in Ending, NEW me,
         PushEnds(m, out, me), Running(mem, m), StoresAfter(m), EndsWell(m, out, me)
  PROVE  DeliveryInv'
<1> USE DEF StoresAfter, EndsWell
<1>0. DeliveryTypeOK /\ Orderly /\ Local(m) /\ \A x \in Message : Local(x)
  BY DeliveryParts
<1>1. FlushOK(me)
  BY <1>0 DEF PushEnds, Orderly, FlushOK
<1>2. EndedFrom(mem', me, m, out)
  BY <1>1, EndedRow DEF PushEnds
<1>3. DeliveryTypeOK'
  BY <1>0, <1>2 DEF DeliveryTypeOK, EndedFrom
<1>4. \A x : InQueue(me, x) <=> InQueue(mem, x)
  BY InQueueIsIn DEF PushEnds
<1>5. 0 \notin Message /\ m # 0
  BY MessageFacts
<1>6. ASSUME NEW x \in Message, x # m  PROVE MemoryKeeps(x)
  <2>1. /\ mem'.push[x] = mem.push[x] /\ (InQueue(mem', x) <=> InQueue(mem, x))
    BY <1>2, <1>4, <1>6 DEF EndedFrom, PushEnds
  <2>2. /\ x \in mem'.permits <=> x \in mem.permits
        /\ x \in mem'.waiting <=> x \in mem.waiting
        /\ x \in mem'.doubt <=> x \in mem.doubt
        /\ x \in mem'.done <=> x \in mem.done
        /\ x \in mem'.hydrate <=> x \in mem.hydrate
    BY <1>2, <1>6 DEF EndedFrom, PushEnds, Kept
  <2>3. x \in mem'.deferred <=> x \in mem.deferred
    BY <1>2, <1>6 DEF EndedFrom, PushEnds
  <2>4. mem'.hydrating = x <=> mem.hydrating = x
    BY <1>2, <1>5, <1>6 DEF EndedFrom, PushEnds
  <2>5. /\ mem'.frame.m = x => mem.frame.m = x /\ mem'.frame.at = mem.frame.at
        /\ mem.frame.m = x /\ mem.frame.at = "push" =>
             mem'.frame.m = x /\ mem'.frame.at = "push"
    BY <1>2, <1>5, <1>6 DEF EndedFrom, PushEnds, NoFrame
  <2>6. QED  BY <2>1, <2>2, <2>3, <2>4, <2>5 DEF MemoryKeeps
<1>7. \A x \in Message : x # m => Local(x)'
  BY <1>0, <1>3, <1>6, Bystander
<1>8. /\ At(m)' = "rest" /\ ~Running(mem, m)'
      /\ m \in mem'.waiting <=> m \in me.waiting
      /\ m \in mem'.doubt <=> m \in me.doubt
      /\ m \in mem'.permits <=> m \in me.permits
      /\ m \in mem'.done <=> m \in me.done
      /\ mem'.hydrate = mem.hydrate
  BY <1>2 DEF EndedFrom, Kept, At, Running, PushEnds
<1>9. Shown(m)'
  BY <1>8 DEF Shown
<1>10. Held(m)'
  <2>1. m \in me.doubt => ~Free(m)'
    OBVIOUS
  <2>2. QED  BY <1>8, <2>1 DEF Held, Pushing
<1>11. life # "down"
  BY <1>0 DEF Orderly, Running, Fresh, Resting
<1>12. Reserves(m)'
  BY <1>8 DEF Reserves
<1>13. Keeps(m)'
  <2>1. Free(m)' /\ m <= disk'.cursor => Waits(m)' \/ mem'.hydrating = m
    <3>1. SUFFICES ASSUME Free(m)', m <= disk'.cursor
                   PROVE  Waits(m)' \/ mem'.hydrating = m
      OBVIOUS
    <3>2. /\ out # "ok" /\ m \notin me.done \cup me.doubt
          /\ At(m) \in {"prepare", "sent"} \/ (At(m) = "begin" /\ Free(m))
      BY <3>1
    <3>3. Waits(m) \/ mem.hydrating = m \/ (mem.frame.m = m /\ mem.frame.at = "push")
      BY <3>2, <1>0 DEF Local, Keeps
    <3>4. ~(mem.frame.m = m /\ mem.frame.at = "push")
      <4>1. m \in Nat /\ disk.cursor \in Nat
        BY MessageFacts, Types, <1>0
      <4>2. QED  BY <3>1, <4>1, <1>0 DEF Orderly
    <3>5. mem'.deferred = mem.deferred /\ mem'.hydrating = mem.hydrating
      BY <3>2, <1>2 DEF EndedFrom, PushEnds
    <3>6. InQueue(mem, m) => InQueue(mem', m)
      BY <3>2, <1>2, <1>4 DEF EndedFrom
    <3>7. QED  BY <3>3, <3>4, <3>5, <3>6 DEF Waits
  <2>2. Free(m)' /\ mem'.frame.m = m /\ mem'.frame.at \in {"commit", "settle"} => Waits(m)'
    <3>1. SUFFICES ASSUME Free(m)', mem'.frame.m = m, mem'.frame.at \in {"commit", "settle"}
                   PROVE  Waits(m)'
      OBVIOUS
    <3>2. /\ out # "ok" /\ m \notin me.done \cup me.doubt
          /\ At(m) \in {"prepare", "sent"} \/ (At(m) = "begin" /\ Free(m))
      BY <3>1
    <3>3. mem.frame = mem'.frame
      BY <3>1, <3>2, <1>2, <1>5 DEF EndedFrom, PushEnds, NoFrame
    <3>4. life # "starting"
      BY <3>1, <3>3, <1>0, <1>5 DEF Orderly, NoFrame
    <3>5. Waits(m)
      BY <3>1, <3>2, <3>3, <3>4, <1>0, <1>5 DEF Local, Keeps, Orderly
    <3>6. mem'.deferred = mem.deferred
      BY <3>2, <1>2 DEF EndedFrom, PushEnds
    <3>7. InQueue(mem, m) => InQueue(mem', m)
      BY <3>2, <1>2, <1>4 DEF EndedFrom
    <3>8. QED  BY <3>5, <3>6, <3>7 DEF Waits
  <2>3. ~(life = "starting" /\ m \in mem.hydrate)
    BY <1>0 DEF Local, Keeps
  <2>4. QED  BY <1>8, <2>1, <2>2, <2>3 DEF Keeps
<1>14. Orderly'
  <2>1. \A q \in Queue : mem'.flush[q] # 0 =>
          mem'.queue[q] # <<>> /\ mem'.flush[q] = Head(mem'.queue[q])
    BY <1>2 DEF EndedFrom, FlushOK
  <2>2. /\ mem'.frame.m <= hub'.posted
        /\ mem'.frame.at \in {"taken", "push", "commit"} => mem'.frame.m = disk'.cursor + 1
    <3>1. mem'.frame = mem.frame \/ mem'.frame = NoFrame
          \/ (mem.frame.m = m /\ mem.frame.at = "push" /\ mem'.frame.m = m)
      BY <1>2 DEF EndedFrom, PushEnds
    <3>2. 0 <= hub.posted
      BY <1>0, Types
    <3>3. QED  BY <3>1, <3>2, <1>0 DEF Orderly, NoFrame
  <2>3. life = "starting" => mem'.frame = NoFrame
    <3>1. life = "starting" => mem.frame.m # m
      BY <1>0, <1>5 DEF Orderly, NoFrame
    <3>2. QED  BY <3>1, <1>0, <1>2 DEF EndedFrom, PushEnds, Orderly
  <2>4. life # "starting" => mem'.hydrating = 0
    BY <1>0, <1>2 DEF EndedFrom, PushEnds, Orderly
  <2>5. life # "switching"
    BY <1>0 DEF Orderly
  <2>6. disk'.cursor <= hub'.posted /\ (life \in {"up", "draining"} => mem'.hydrate = {})
    BY <1>0, <1>8 DEF Orderly
  <2>7. QED  BY <2>1, <2>2, <2>3, <2>4, <2>5, <2>6, <1>11 DEF Orderly
<1>15. QED
  <2>1. \A x \in Message : Local(x)'
    BY <1>7, <1>9, <1>10, <1>12, <1>13 DEF Local
  <2>2. QED  BY <2>1, <1>3, <1>14 DEF DeliveryInv, Local

\* The memories a push ends with, and what they say of its message.
InDoubt(m) == [mem EXCEPT !.doubt = @ \cup {m}]
Severed(m) == [mem EXCEPT !.doubt = @ \cup {m}, !.turn = FALSE, !.told = FALSE]
Aborted(m) == [mem EXCEPT !.permits = @ \ {m}]

LEMMA EndForms ==
  ASSUME DeliveryTypeOK, NEW m \in Message, NEW out
  PROVE  /\ Ends(m, out) => PushEnds(m, out, mem)
         /\ EndsInDoubt(m, out) => PushEnds(m, out, InDoubt(m))
         /\ EndsWithTransport(m) => PushEnds(m, "ok", Severed(m))
         /\ EndsAborted(m, out) => PushEnds(m, out, Aborted(m))
         /\ m \in Severed(m).doubt /\ Severed(m).waiting = mem.waiting
         /\ Severed(m).done = mem.done
         /\ m \in InDoubt(m).doubt /\ InDoubt(m).waiting = mem.waiting
         /\ InDoubt(m).done = mem.done /\ InDoubt(m).permits = mem.permits
         /\ Aborted(m).doubt = mem.doubt /\ Aborted(m).waiting = mem.waiting
         /\ Aborted(m).done = mem.done
<1>1. mem \in MemRow
  BY Types
<1>2. Ends(m, out) => PushEnds(m, out, mem)
  BY <1>1 DEF Ends, PushEnds
<1>3. EndsInDoubt(m, out) => PushEnds(m, out, InDoubt(m))
  BY <1>1 DEF EndsInDoubt, PushEnds, InDoubt, MemRow
<1>4. EndsAborted(m, out) => PushEnds(m, out, Aborted(m))
  BY <1>1 DEF EndsAborted, PushEnds, Aborted, MemRow
<1>5. EndsWithTransport(m) => PushEnds(m, "ok", Severed(m))
  BY <1>1 DEF EndsWithTransport, PushEnds, Severed, MemRow
<1>6. QED  BY <1>1, <1>2, <1>3, <1>4, <1>5 DEF InDoubt, Severed, Aborted, MemRow

\* Steps that leave the thread and the checkpoint, and touch one permit at most.
LEMMA HubStep ==
  ASSUME DeliveryTypeOK, NEW m \in Message, NEW p \in PermitState,
         hub' = hub \/ hub' = Permit(m, p)
  PROVE  /\ hub' \in [posted : 0 .. MaxMessage, permit : [Message -> PermitState]]
         /\ hub'.posted = hub.posted
         /\ hub' = Permit(m, p) => hub'.permit[m] = p
         /\ codex' = codex /\ disk' = disk /\ life' = life =>
              \A x \in Message : x # m => StoresKeep(x)
<1>1. hub \in [posted : 0 .. MaxMessage, permit : [Message -> PermitState]]
  BY DEF DeliveryTypeOK
<1>2. hub' \in [posted : 0 .. MaxMessage, permit : [Message -> PermitState]]
  BY <1>1, PermitRow
<1>3. hub'.posted = hub.posted /\ (hub' = Permit(m, p) => hub'.permit[m] = p)
  BY PermitRow
<1>4. \A x \in Message : x # m => hub'.permit[x] = hub.permit[x]
  BY PermitRow
<1>5. hub'.posted >= hub.posted
  BY <1>1, <1>3
<1>6. QED  BY <1>2, <1>3, <1>4, <1>5 DEF StoresKeep

LEMMA Troubled ==
  ASSUME DeliveryTypeOK, Fault \/ UNCHANGED spent
  PROVE  spent' \in Nat
<1>1. CASE Fault
  BY <1>1 DEF Fault, DeliveryTypeOK
<1>2. CASE UNCHANGED spent
  BY <1>2 DEF DeliveryTypeOK
<1>3. QED  BY <1>1, <1>2

\* What a push knows of its message wherever it is.
LEMMA PushFacts ==
  ASSUME DeliveryInv, NEW m \in Message, Running(mem, m)
  PROVE  /\ DeliveryTypeOK /\ Orderly /\ Local(m)
         /\ At(m) # "sent" => codex.wire[m] \in {"none", "late"}
         /\ Exposed(m) /\ hub.permit[m] # "CONFIRMED" =>
              m \in disk.pending /\ m \in mem.doubt \cup mem.permits
         /\ Free(m) /\ At(m) = "begin" => m \in disk.pending
         /\ m \in disk.pending \/ hub.permit[m] # "NONE" => m <= hub.posted
         /\ Free(m) => m \notin mem.done \cup mem.doubt
         /\ codex.shown[m] \in {0, 1} /\ (codex.wire[m] = "late" => codex.shown[m] = 0)
         /\ Exposed(m) => ~Free(m)
         /\ m \in mem.waiting \/ hub.permit[m] = "CONFIRMED" => codex.shown[m] = 1
         /\ m \in mem.done => hub.permit[m] = "CONFIRMED"
         /\ life \in {"starting", "up", "draining"}
<1>1. DeliveryTypeOK /\ Orderly /\ Local(m)
  BY DeliveryParts
<1>2. life \in {"starting", "up", "draining"}
  <2>1. life \in Life /\ life # "switching"
    BY <1>1, Types DEF Orderly
  <2>2. life # "down"
    BY <1>1 DEF Orderly, Running, Fresh, Resting
  <2>3. QED  BY <2>1, <2>2 DEF Life
<1>3. At(m) # "sent" => codex.wire[m] \in {"none", "late"}
  <2>1. codex.wire[m] \in WireState
    BY <1>1, Types
  <2>2. QED  BY <1>1, <2>1 DEF Local, Shown, WireState
<1>4. Exposed(m) /\ hub.permit[m] # "CONFIRMED" =>
        m \in disk.pending /\ m \in mem.doubt \cup mem.permits
  BY <1>1, <1>2 DEF Local, Reserves, Keeps
<1>5. (Free(m) /\ At(m) = "begin" => m \in disk.pending)
      /\ (m \in disk.pending \/ hub.permit[m] # "NONE" => m <= hub.posted)
  BY <1>1 DEF Local, Reserves
<1>6. Free(m) => m \notin mem.done \cup mem.doubt
  BY <1>1 DEF Local, Held, Free
<1>7. QED  BY <1>1, <1>2, <1>3, <1>4, <1>5, <1>6 DEF Local, Shown, Held

LEMMA BeginSurfaceFailsKeeps ==
  ASSUME DeliveryInv, NEW m \in Message, BeginSurfaceFails(m)
  PROVE  DeliveryInv'
<1>1. At(m) = "begin" /\ Running(mem, m)
  BY DEF BeginSurfaceFails, At, Running
<1>2. PushEnds(m, "retry", mem) /\ life' = life /\ codex' = codex /\ disk' = disk
  BY <1>1, PushFacts, EndForms DEF BeginSurfaceFails
<1>3. hub' = hub \/ (Free(m) /\ hub' = Permit(m, "ACTIVE"))
  BY DEF BeginSurfaceFails, Free
<1>4. "ACTIVE" \in PermitState /\ "retry" \in Ending /\ spent' \in Nat
  BY <1>1, PushFacts, Troubled DEF PermitState, Ending, BeginSurfaceFails
<1>5. /\ hub' \in [posted : 0 .. MaxMessage, permit : [Message -> PermitState]]
      /\ hub'.posted = hub.posted
      /\ \A x \in Message : x # m => StoresKeep(x)
      /\ hub'.permit[m] = hub.permit[m] \/ hub'.permit[m] = "ACTIVE"
  BY <1>1, <1>2, <1>3, <1>4, PushFacts, HubStep
<1>6. /\ codex' \in [shown : [Message -> Nat], turn : BOOLEAN, wire : [Message -> WireState]]
      /\ disk' \in [cursor : 0 .. MaxMessage, pending : SUBSET Message]
  BY <1>1, <1>2, PushFacts DEF DeliveryTypeOK
<1>7. Free(m)' => Free(m)
  BY <1>5 DEF Free
<1>8. Exposed(m)' <=> Exposed(m)
  BY <1>2 DEF Exposed
<1>9. Exposed(m) => hub' = hub
  BY <1>1, <1>3, PushFacts
<1>10. m <= hub.posted
  BY <1>1, <1>3, PushFacts DEF Free
<1>11. StoresAfter(m)
  BY <1>2, <1>4, <1>5, <1>6 DEF StoresAfter
<1>12. EndsWell(m, "retry", mem)
  <2>1. ~Free(m) => hub' = hub
    BY <1>3
  <2>2. Free(m) => hub.permit[m] # "CONFIRMED" /\ ~Exposed(m) /\ m \notin mem.waiting \cup mem.done
    BY <1>1, PushFacts DEF Free, Exposed
  <2>3. Free(m) => hub'.permit[m] # "CONFIRMED"
    BY <1>5 DEF Free
  <2>4. CASE ~Free(m)
    BY <2>1, <2>4, <1>1, <1>2, <1>7, <1>8, <1>10, PushFacts DEF EndsWell
  <2>5. CASE Free(m)
    BY <2>2, <2>3, <2>5, <1>1, <1>2, <1>8, <1>10, PushFacts DEF EndsWell
  <2>6. QED  BY <2>4, <2>5
<1>13. QED  BY <1>1, <1>2, <1>4, <1>11, <1>12, EndsKeep

\* One permit at most changes, and nothing else at the Hub, in the thread or on disk.
LEMMA StoresStep ==
  ASSUME DeliveryTypeOK, NEW m \in Message, NEW p \in PermitState,
         hub' = hub \/ hub' = Permit(m, p), codex' = codex, disk' = disk, life' = life,
         Fault \/ UNCHANGED spent
  PROVE  StoresAfter(m)
<1>1. spent' \in Nat
  BY Troubled
<1>2. /\ hub' \in [posted : 0 .. MaxMessage, permit : [Message -> PermitState]]
      /\ hub'.posted = hub.posted
      /\ \A x \in Message : x # m => StoresKeep(x)
  BY HubStep
<1>3. /\ codex' \in [shown : [Message -> Nat], turn : BOOLEAN, wire : [Message -> WireState]]
      /\ disk' \in [cursor : 0 .. MaxMessage, pending : SUBSET Message]
  BY DEF DeliveryTypeOK
<1>4. QED  BY <1>1, <1>2, <1>3 DEF StoresAfter

LEMMA PermitsAre ==
  /\ \A p \in {"NONE", "ACTIVE", "ABORTED", "AMBIGUOUS", "CONFIRMED"} : p \in PermitState
  /\ \A o \in {"ok", "retry", "fatal"} : o \in Ending
BY DEF PermitState, Ending

LEMMA BeginSurfaceRefused ==
  ASSUME DeliveryInv, NEW m \in Message, BeginSurface(m), ~Free(m)
  PROVE  DeliveryInv'
<1>1. At(m) = "begin" /\ Running(mem, m)
  BY DEF BeginSurface, At, Running
<1>2. /\ Ends(m, "ok") /\ life' = life /\ codex' = codex /\ disk' = disk /\ hub' = hub
      /\ spent' = spent
  BY DEF BeginSurface, Free
<1>3. PushEnds(m, "ok", mem)
  BY <1>1, <1>2, PushFacts, EndForms
<1>4. StoresAfter(m)
  BY <1>1, <1>2, PushFacts, PermitsAre, StoresStep
<1>5. EndsWell(m, "ok", mem)
  <2>1. (Free(m)' <=> Free(m)) /\ (Exposed(m)' <=> Exposed(m))
    BY <1>2 DEF Free, Exposed
  <2>2. m <= hub.posted
    BY <1>1, PushFacts DEF Free
  <2>3. QED  BY <2>1, <2>2, <1>1, <1>2, PushFacts DEF EndsWell
<1>6. QED  BY <1>1, <1>3, <1>4, <1>5, PermitsAre, EndsKeep

\* A push that has not told Codex anything gives its permit back, or keeps it.
LEMMA NothingSent ==
  ASSUME DeliveryInv, NEW m \in Message, NEW out \in {"retry", "fatal"},
         At(m) \in {"prepare", "sent"}, ~Exposed(m)', disk' = disk, codex'.shown = codex.shown,
         StoresAfter(m), hub' \in {hub, Permit(m, "ABORTED")},
         \/ hub' = Permit(m, "ABORTED") /\ EndsAborted(m, out)
         \/ hub' = hub /\ Ends(m, out)
  PROVE  DeliveryInv'
<1>1. Running(mem, m) /\ At(m) \in Pushing
  BY DEF At, Running, Pushing
<1>2. DeliveryTypeOK /\ Local(m)
  BY <1>1, PushFacts
<1>3. /\ hub.permit[m] = "ACTIVE" /\ m \in disk.pending /\ m <= hub.posted
      /\ m \notin mem.doubt \cup mem.waiting \cup mem.done
  BY <1>1, <1>2 DEF Local, Held, Reserves
<1>4. codex'.wire[m] = "none" /\ codex'.shown[m] = 0
  <2>1. codex'.shown[m] \in Nat
    BY DEF StoresAfter
  <2>2. QED  BY <2>1 DEF Exposed
<1>5. out \in Ending /\ out # "ok"
  BY PermitsAre
<1>6. CASE hub' = hub /\ Ends(m, out)
  <2>1. PushEnds(m, out, mem)
    BY <1>2, <1>6, EndForms
  <2>2. EndsWell(m, out, mem)
    BY <1>3, <1>4, <1>5, <1>6 DEF EndsWell, Free
  <2>3. QED  BY <1>1, <1>5, <2>1, <2>2, EndsKeep
<1>7. CASE hub' = Permit(m, "ABORTED") /\ EndsAborted(m, out)
  <2>1. PushEnds(m, out, Aborted(m))
    BY <1>2, <1>7, EndForms
  <2>2. hub'.permit[m] = "ABORTED"
    BY <1>2, <1>7, PermitsAre, PermitRow
  <2>3. /\ Aborted(m).doubt = mem.doubt /\ Aborted(m).waiting = mem.waiting
        /\ Aborted(m).done = mem.done
    BY <1>2, EndForms
  <2>4. EndsWell(m, out, Aborted(m))
    BY <1>3, <1>4, <1>5, <2>2, <2>3 DEF EndsWell, Free
  <2>5. QED  BY <1>1, <1>5, <2>1, <2>4, EndsKeep
<1>8. QED  BY <1>6, <1>7

LEMMA PrepareFailsKeeps ==
  ASSUME DeliveryInv, NEW m \in Message, PrepareFails(m)
  PROVE  DeliveryInv'
<1>1. At(m) = "prepare" /\ Running(mem, m)
  BY DEF PrepareFails, At, Running
<1>2. /\ life' = life /\ codex' = codex /\ disk' = disk
      /\ \/ hub' = Permit(m, "ABORTED") /\ EndsAborted(m, "retry")
         \/ hub' = hub /\ Ends(m, "retry")
  BY DEF PrepareFails
<1>3. StoresAfter(m)
  BY <1>1, <1>2, PushFacts, PermitsAre, StoresStep DEF PrepareFails
<1>4. ~Exposed(m)'
  BY <1>1, <1>2, PushFacts DEF Local, Shown, Exposed
<1>5. QED  BY <1>1, <1>2, <1>3, <1>4, NothingSent

\* The wire of one message changes: the others keep theirs or lose their listener.
WireStep(m, wire) ==
  /\ wire \in [Message -> WireState]
  /\ \A x \in Message : x # m =>
       wire[x] = codex.wire[x] \/ (codex.wire[x] = "sent" /\ wire[x] = "late")
  /\ \E t \in BOOLEAN : codex' = [codex EXCEPT !.wire = wire, !.turn = t]

LEMMA StoresWireStep ==
  ASSUME DeliveryTypeOK, NEW m \in Message, NEW p \in PermitState, NEW wire, WireStep(m, wire),
         hub' = hub \/ hub' = Permit(m, p), disk' = disk, life' = life, Fault \/ UNCHANGED spent
  PROVE  StoresAfter(m) /\ codex'.wire = wire /\ codex'.shown = codex.shown
<1>1. spent' \in Nat
  BY Troubled
<1>2. /\ hub' \in [posted : 0 .. MaxMessage, permit : [Message -> PermitState]]
      /\ hub'.posted = hub.posted /\ hub'.posted >= hub.posted
      /\ \A x \in Message : x # m => hub'.permit[x] = hub.permit[x]
  <2>1. hub \in [posted : 0 .. MaxMessage, permit : [Message -> PermitState]]
    BY DEF DeliveryTypeOK
  <2>2. /\ hub' \in [posted : 0 .. MaxMessage, permit : [Message -> PermitState]]
        /\ hub'.posted = hub.posted
        /\ \A x \in Message : x # m => hub'.permit[x] = hub.permit[x]
    BY <2>1, PermitRow
  <2>3. QED  BY <2>1, <2>2
<1>3. codex'.wire = wire /\ codex'.shown = codex.shown
      /\ codex' \in [shown : [Message -> Nat], turn : BOOLEAN, wire : [Message -> WireState]]
  BY DEF WireStep, DeliveryTypeOK
<1>4. disk' \in [cursor : 0 .. MaxMessage, pending : SUBSET Message]
  BY DEF DeliveryTypeOK
<1>5. \A x \in Message : x # m => StoresKeep(x)
  BY <1>2, <1>3 DEF StoresKeep, WireStep
<1>6. QED  BY <1>1, <1>2, <1>3, <1>4, <1>5 DEF StoresAfter

LEMMA RejectedEnds ==
  ASSUME DeliveryInv, NEW m \in Message, Rejected(m), mem.push[m].how # "steer"
  PROVE  DeliveryInv'
<1>1. At(m) = "sent" /\ Running(mem, m) /\ codex.wire[m] = "rejected"
  BY DEF Rejected, At, Running
<1> DEFINE wire == [codex.wire EXCEPT ![m] = "none"]
<1>2. /\ life' = life /\ codex' = [codex EXCEPT !.wire[m] = "none"] /\ disk' = disk
      /\ \/ hub' = Permit(m, "ABORTED") /\ EndsAborted(m, "fatal")
         \/ hub' = hub /\ Ends(m, "fatal")
      /\ Fault \/ UNCHANGED spent
  BY DEF Rejected
<1>3. wire \in [Message -> WireState] /\ wire[m] = "none"
      /\ \A x \in Message : x # m => wire[x] = codex.wire[x]
  BY <1>1, PushFacts, Types DEF WireState
<1>4. codex' = [codex EXCEPT !.wire = wire, !.turn = codex.turn] /\ codex.turn \in BOOLEAN
  BY <1>1, <1>2, PushFacts DEF DeliveryTypeOK
<1> HIDE DEF wire
<1>5. WireStep(m, wire)
  BY <1>3, <1>4 DEF WireStep
<1>6. StoresAfter(m) /\ codex'.wire = wire /\ codex'.shown = codex.shown
  BY <1>1, <1>2, <1>5, PushFacts, PermitsAre, StoresWireStep
<1>7. ~Exposed(m)'
  <2>1. codex.shown[m] = 0
    BY <1>1, PushFacts DEF Local, Shown
  <2>2. QED  BY <2>1, <1>3, <1>6 DEF Exposed
<1>8. QED  BY <1>1, <1>2, <1>6, <1>7, NothingSent

\* A push that cannot tell leaves its message in doubt.
LEMMA EndsInDoubtKeeps ==
  ASSUME DeliveryInv, NEW m \in Message, NEW out \in {"ok", "fatal"},
         EndsInDoubt(m, out) \/ (out = "ok" /\ EndsWithTransport(m)),
         At(m) \in {"sent", "poll"}, StoresAfter(m), hub' \in {hub, Permit(m, "AMBIGUOUS")},
         disk' = disk, codex'.wire[m] \in {"none", "late"}, codex'.shown = codex.shown,
         codex'.wire[m] = "late" => codex.shown[m] = 0
  PROVE  DeliveryInv'
<1>1. Running(mem, m) /\ At(m) \in Pushing
  BY DEF At, Running, Pushing
<1>2. DeliveryTypeOK /\ Local(m)
  BY <1>1, PushFacts
<1>3. /\ hub.permit[m] = "ACTIVE" /\ m \in disk.pending /\ m <= hub.posted
      /\ m \notin mem.waiting \cup mem.done
  BY <1>1, <1>2 DEF Local, Held, Reserves
<1>4. hub'.permit[m] \in {"ACTIVE", "AMBIGUOUS"}
  BY <1>2, <1>3, PermitsAre, PermitRow
<1>5. PICK me : PushEnds(m, out, me) /\ m \in me.doubt
                /\ me.waiting = mem.waiting /\ me.done = mem.done
  BY <1>2, EndForms
<1>6. EndsWell(m, out, me)
  BY <1>1, <1>3, <1>4, <1>5, PushFacts DEF EndsWell, Free
<1>7. QED  BY <1>1, <1>5, <1>6, PermitsAre, EndsKeep

LEMMA UnconfirmedKeeps ==
  ASSUME DeliveryInv, NEW m \in Message, Unconfirmed(m)
  PROVE  DeliveryInv'
<1>1. At(m) = "poll" /\ Running(mem, m)
  BY DEF Unconfirmed, At, Running
<1>2. /\ life' = life /\ codex' = codex /\ disk' = disk /\ EndsInDoubt(m, "ok")
      /\ hub' = hub \/ hub' = Permit(m, "AMBIGUOUS")
      /\ Fault \/ UNCHANGED spent
  BY DEF Unconfirmed, Settles
<1>3. StoresAfter(m)
  BY <1>1, <1>2, PushFacts, PermitsAre, StoresStep
<1>4. codex.wire[m] \in {"none", "late"} /\ (codex.wire[m] = "late" => codex.shown[m] = 0)
  BY <1>1, PushFacts
<1>5. QED  BY <1>1, <1>2, <1>3, <1>4, EndsInDoubtKeeps

LEMMA AnswerLostKeeps ==
  ASSUME DeliveryInv, NEW m \in Message, AnswerLost(m)
  PROVE  DeliveryInv'
<1>1. /\ At(m) = "sent" /\ Running(mem, m) /\ life' = life /\ disk' = disk
      /\ Fault \/ UNCHANGED spent
  BY DEF AnswerLost, At, Running
<1>2. /\ codex.wire \in [Message -> WireState] /\ codex.turn \in BOOLEAN
      /\ codex.wire[m] \in {"sent", "accepted", "late", "none"}
      /\ codex.wire[m] \in {"sent", "late"} => codex.shown[m] = 0
      /\ DeliveryTypeOK
  <2>1. DeliveryTypeOK /\ Local(m)
    BY <1>1, PushFacts
  <2>2. codex.wire[m] \in {"sent", "late"} => codex.shown[m] = 0
    BY <2>1 DEF Local, Shown
  <2>3. codex.wire[m] \in {"sent", "accepted", "late", "none"}
    BY DEF AnswerLost
  <2>4. QED  BY <2>1, <2>2, <2>3, Types
<1> DEFINE gone == [codex.wire EXCEPT ![m] = Unheard(@)]
           late == [x \in Message |-> IF gone[x] = "sent" THEN "late" ELSE gone[x]]
<1>3. /\ hub' = hub \/ hub' = Permit(m, "AMBIGUOUS")
      /\ \/ codex' = Restarted(gone) /\ EndsWithTransport(m)
         \/ codex' = [codex EXCEPT !.wire = gone] /\ EndsInDoubt(m, "fatal")
  BY DEF AnswerLost
<1>4. "late" \in WireState /\ "none" \in WireState
  BY DEF WireState
<1>5. /\ gone \in [Message -> WireState] /\ \A x \in Message : x # m => gone[x] = codex.wire[x]
      /\ gone[m] = Unheard(codex.wire[m])
      /\ gone[m] \in {"none", "late"}
      /\ gone[m] = "late" => codex.wire[m] \in {"sent", "late"}
  BY <1>2, <1>4 DEF Unheard
<1> HIDE DEF gone
<1>6. ASSUME NEW wire, WireStep(m, wire), wire[m] = gone[m],
             NEW out \in {"ok", "fatal"},
             EndsInDoubt(m, out) \/ (out = "ok" /\ EndsWithTransport(m))
      PROVE  DeliveryInv'
  <2>1. StoresAfter(m) /\ codex'.wire = wire /\ codex'.shown = codex.shown
    BY <1>1, <1>2, <1>3, <1>6, PermitsAre, StoresWireStep
  <2>2. QED  BY <1>1, <1>2, <1>3, <1>5, <1>6, <2>1, EndsInDoubtKeeps
<1>7. CASE codex' = Restarted(gone) /\ EndsWithTransport(m)
  <2>1. codex' = [codex EXCEPT !.wire = late, !.turn = FALSE]
    BY <1>7 DEF Restarted
  <2>2. /\ late \in [Message -> WireState]
        /\ \A x \in Message : x # m =>
             late[x] = codex.wire[x] \/ (codex.wire[x] = "sent" /\ late[x] = "late")
        /\ late[m] = gone[m]
    BY <1>4, <1>5
  <2> HIDE DEF late
  <2>3. WireStep(m, late)
    BY <2>1, <2>2 DEF WireStep
  <2>4. QED  BY <1>6, <1>7, <2>2, <2>3
<1>8. CASE codex' = [codex EXCEPT !.wire = gone] /\ EndsInDoubt(m, "fatal")
  <2>1. codex' = [codex EXCEPT !.wire = gone, !.turn = codex.turn]
    BY <1>2, <1>8 DEF DeliveryTypeOK
  <2>2. WireStep(m, gone)
    BY <1>2, <1>5, <2>1 DEF WireStep
  <2>3. QED  BY <1>6, <1>8, <2>2
<1>9. QED  BY <1>3, <1>7, <1>8

LEMMA ReceiptFailsKeeps ==
  ASSUME DeliveryInv, NEW m \in Message, ReceiptFails(m)
  PROVE  DeliveryInv'
<1>1. At(m) = "receipt" /\ Running(mem, m)
  BY DEF ReceiptFails, At, Running
<1>2. /\ life' = life /\ codex' = codex /\ disk' = disk /\ Ends(m, "retry")
      /\ hub' = hub \/ hub' = Permit(m, "CONFIRMED")
      /\ Fault \/ UNCHANGED spent
  BY DEF ReceiptFails
<1>3. StoresAfter(m)
  BY <1>1, <1>2, PushFacts, PermitsAre, StoresStep
<1>4. DeliveryTypeOK /\ Local(m) /\ PushEnds(m, "retry", mem)
  BY <1>1, <1>2, PushFacts, EndForms
<1>5. codex.shown[m] = 1 /\ Exposed(m) /\ ~Free(m)
  BY <1>1, <1>4 DEF Local, Shown, Exposed
<1>6. hub'.permit[m] \in {hub.permit[m], "CONFIRMED"}
  BY <1>2, <1>4, PermitsAre, PermitRow
<1>7. m <= hub.posted /\ ~Free(m)'
  BY <1>1, <1>5, <1>6, PushFacts DEF Free
<1>8. EndsWell(m, "retry", mem)
  BY <1>1, <1>2, <1>5, <1>6, <1>7, PushFacts DEF EndsWell, Exposed
<1>9. QED  BY <1>1, <1>3, <1>4, <1>8, PermitsAre, EndsKeep

LEMMA ReceiptSettlesKeeps ==
  ASSUME DeliveryInv, NEW m \in Message, ReceiptSettles(m)
  PROVE  DeliveryInv'
<1>1. At(m) = "settle" /\ Running(mem, m)
  BY DEF ReceiptSettles, At, Running
<1> DEFINE me == [mem EXCEPT !.waiting = @ \ {m}, !.permits = @ \ {m},
                             !.done = @ \cup {m}, !.doubt = @ \ {m}]
<1>2. /\ life' = life /\ codex' = codex /\ hub' = hub /\ UNCHANGED spent
      /\ disk' = [disk EXCEPT !.pending = @ \ {m}] /\ mem' = Ended(me, m, "ok")
  BY DEF ReceiptSettles
<1>3. DeliveryTypeOK /\ Local(m)
  BY <1>1, PushFacts
<1>4. /\ disk' \in [cursor : 0 .. MaxMessage, pending : SUBSET Message]
      /\ disk'.cursor = disk.cursor /\ disk'.pending = disk.pending \ {m}
  BY <1>2, <1>3 DEF DeliveryTypeOK
<1>5. StoresAfter(m)
  <2>1. spent' \in Nat
    BY <1>2, <1>3, Troubled
  <2>2. /\ hub' \in [posted : 0 .. MaxMessage, permit : [Message -> PermitState]]
        /\ codex' \in [shown : [Message -> Nat], turn : BOOLEAN, wire : [Message -> WireState]]
        /\ hub'.posted >= hub.posted
    BY <1>2, <1>3 DEF DeliveryTypeOK
  <2>3. \A x \in Message : x # m => StoresKeep(x)
    BY <1>2, <1>4, <2>2 DEF StoresKeep
  <2>4. QED  BY <1>2, <1>4, <2>1, <2>2, <2>3 DEF StoresAfter
<1>6. /\ hub.permit[m] = "CONFIRMED" /\ codex.shown[m] = 1
  BY <1>1, <1>3 DEF Local, Held, Shown
<1>7. /\ me \in MemRow /\ me.queue = mem.queue /\ me.flush = mem.flush
      /\ me.frame = mem.frame /\ me.push = mem.push /\ me.deferred = mem.deferred
      /\ me.hydrate = mem.hydrate /\ me.hydrating = mem.hydrating
      /\ me.permits = mem.permits \ {m} /\ me.waiting = mem.waiting \ {m}
      /\ me.done = mem.done \cup {m} /\ me.doubt = mem.doubt \ {m}
  BY <1>3, Types DEF MemRow
<1> HIDE DEF me
<1>8. PushEnds(m, "ok", me)
  BY <1>2, <1>7 DEF PushEnds
<1>9. EndsWell(m, "ok", me)
  BY <1>1, <1>2, <1>4, <1>6, <1>7, PushFacts DEF EndsWell, Free
<1>10. QED  BY <1>1, <1>5, <1>8, <1>9, PermitsAre, EndsKeep

----------------------------------------------------------------------------
(* A push that goes on.                                                    *)

PushMoves(m) ==
  /\ mem' \in MemRow /\ mem'.queue = mem.queue /\ mem'.flush = mem.flush
  /\ mem'.frame = mem.frame /\ mem'.deferred = mem.deferred
  /\ mem'.hydrate = mem.hydrate /\ mem'.hydrating = mem.hydrating
  /\ \A x \in Message : x # m =>
       /\ mem'.push[x] = mem.push[x]
       /\ x \in mem'.permits <=> x \in mem.permits
       /\ x \in mem'.waiting <=> x \in mem.waiting
       /\ x \in mem'.doubt <=> x \in mem.doubt
       /\ x \in mem'.done <=> x \in mem.done

LEMMA MoveKeeps ==
  ASSUME DeliveryInv, NEW m \in Message, PushMoves(m), StoresAfter(m),
         mem' = mem \/ life \in {"starting", "up", "draining"}, Local(m)'
  PROVE  DeliveryInv'
<1>0. DeliveryTypeOK /\ Orderly /\ \A x \in Message : Local(x)
  BY DeliveryParts
<1>1. DeliveryTypeOK'
  BY <1>0 DEF DeliveryTypeOK, StoresAfter, PushMoves
<1>2. ASSUME NEW x \in Message, x # m  PROVE Local(x)'
  <2>1. InQueue(mem', x) <=> InQueue(mem, x)
    BY InQueueIsIn DEF PushMoves
  <2>2. MemoryKeeps(x)
    BY <1>2, <2>1 DEF MemoryKeeps, PushMoves
  <2>3. StoresKeep(x)
    BY <1>2 DEF StoresAfter
  <2>4. QED  BY <1>0, <1>1, <2>2, <2>3, Bystander
<1>3. Orderly'
  <2>1. /\ mem'.flush = mem.flush /\ mem'.queue = mem.queue /\ mem'.frame = mem.frame
        /\ mem'.hydrate = mem.hydrate /\ mem'.hydrating = mem.hydrating
        /\ disk'.cursor = disk.cursor /\ hub'.posted = hub.posted /\ life' = life
    BY DEF PushMoves, StoresAfter
  <2>2. life = "down" => mem' = Fresh
    BY <1>0 DEF Orderly
  <2>3. life = "switching" => \A x \in Message : ~Running(mem', x)
    BY <1>0 DEF Orderly
  <2>4. QED  BY <1>0, <2>1, <2>2, <2>3 DEF Orderly
<1>4. \A x \in Message : Local(x)'
  BY <1>2
<1>5. QED  BY <1>1, <1>3, <1>4 DEF DeliveryInv, Local

LEMMA MemFields ==
  ASSUME DeliveryTypeOK, NEW m \in Message
  PROVE  /\ mem.turn \in BOOLEAN /\ mem.push \in [Message -> PushRow] /\ mem.push[m] \in PushRow
         /\ mem.permits \in SUBSET Message /\ mem.waiting \in SUBSET Message
         /\ mem.doubt \in SUBSET Message /\ mem.held \in SUBSET Message
         /\ mem.done \in SUBSET Message /\ mem.deferred \in SUBSET Message
         /\ mem.hydrate \in SUBSET Message
BY DEF DeliveryTypeOK, MemRow

LEMMA BeginSurfaceTaken ==
  ASSUME DeliveryInv, NEW m \in Message, BeginSurface(m), Free(m)
  PROVE  DeliveryInv'
<1>1. At(m) = "begin" /\ Running(mem, m)
  BY DEF BeginSurface, At, Running
<1>2. DeliveryTypeOK /\ Orderly /\ Local(m)
  BY <1>1, PushFacts
<1> DEFINE how == IF mem.push[m].how = "steer" /\ ~mem.turn THEN "wake" ELSE mem.push[m].how
           p == [at |-> "prepare", how |-> how]
<1>3. p \in PushRow /\ p.at = "prepare"
  BY <1>2, MemFields DEF PushRow, Pushing
<1>4. /\ hub' = Permit(m, "ACTIVE") /\ codex' = codex /\ disk' = disk /\ life' = life
      /\ UNCHANGED spent
      /\ mem' = [mem EXCEPT !.permits = @ \cup {m}, !.push[m] = p]
  BY <1>2 DEF BeginSurface, Free, DeliveryTypeOK, MemRow
<1> HIDE DEF p, how
<1>6. /\ PushMoves(m) /\ mem'.push[m] = p /\ mem'.done = mem.done
      /\ mem'.permits = mem.permits \cup {m} /\ mem'.waiting = mem.waiting
      /\ mem'.doubt = mem.doubt
  <2>1. mem \in MemRow
    BY <1>2, Types
  <2>2. /\ mem'.queue = mem.queue /\ mem'.flush = mem.flush /\ mem'.done = mem.done
        /\ mem'.frame = mem.frame /\ mem'.deferred = mem.deferred
        /\ mem'.hydrate = mem.hydrate /\ mem'.hydrating = mem.hydrating
        /\ mem'.permits = mem.permits \cup {m} /\ mem'.waiting = mem.waiting
        /\ mem'.doubt = mem.doubt /\ mem'.push = [mem.push EXCEPT ![m] = p]
    BY <1>4, <2>1 DEF MemRow
  <2>3. mem'.push \in [Message -> PushRow] /\ mem'.push[m] = p
        /\ \A x \in Message : x # m => mem'.push[x] = mem.push[x]
    BY <1>3, <2>1, <2>2 DEF MemRow
  <2>4. mem' \in MemRow
    BY <1>4, <2>1, <2>2, <2>3 DEF MemRow
  <2>5. QED  BY <2>2, <2>3, <2>4 DEF PushMoves
<1>7. StoresAfter(m) /\ hub'.permit[m] = "ACTIVE" /\ hub'.posted = hub.posted
  BY <1>2, <1>4, PermitsAre, StoresStep, PermitRow
<1>8. /\ m \in disk.pending /\ m <= hub.posted /\ ~Exposed(m)
      /\ m \notin mem.done \cup mem.doubt \cup mem.waiting
  BY <1>1, PushFacts DEF Exposed
<1>9. At(m)' = "prepare" /\ ~Free(m)' /\ ~Exposed(m)' /\ Running(mem, m)'
  BY <1>3, <1>4, <1>6, <1>7, <1>8 DEF At, Free, Exposed, Running
<1>10. Shown(m)'
  BY <1>2, <1>4, <1>6, <1>7, <1>8, <1>9 DEF Local, Shown, Exposed
<1>11. Held(m)'
  BY <1>4, <1>6, <1>7, <1>8, <1>9 DEF Held
<1>12. Reserves(m)'
  BY <1>4, <1>7, <1>8, <1>9 DEF Reserves
<1>13. Keeps(m)'
  <2>1. Waits(m)' <=> Waits(m)
    BY <1>6, InQueueIsIn DEF PushMoves, Waits
  <2>2. Waits(m) \/ mem.hydrating = m \/ (mem.frame.m = m /\ mem.frame.at = "push")
    BY <1>1, <1>2 DEF Local, Keeps
  <2>3. ~(life = "starting" /\ m \in mem.hydrate)
    BY <1>1, <1>2 DEF Local, Keeps
  <2>4. QED  BY <1>4, <1>6, <1>9, <2>1, <2>2, <2>3 DEF Keeps, PushMoves
<1>14. QED  BY <1>1, <1>6, <1>7, <1>10, <1>11, <1>12, <1>13, PushFacts, MoveKeeps DEF Local

\* Only the place of the push changes.
LEMMA OnlyPush ==
  ASSUME DeliveryTypeOK, NEW m \in Message, NEW p \in PushRow,
         mem' = [mem EXCEPT !.push = [mem.push EXCEPT ![m] = p]]
  PROVE  /\ PushMoves(m) /\ mem'.push[m] = p
         /\ mem'.permits = mem.permits /\ mem'.waiting = mem.waiting
         /\ mem'.doubt = mem.doubt /\ mem'.done = mem.done
<1>1. mem \in MemRow
  BY Types
<1>2. /\ mem'.queue = mem.queue /\ mem'.flush = mem.flush /\ mem'.done = mem.done
      /\ mem'.frame = mem.frame /\ mem'.deferred = mem.deferred
      /\ mem'.hydrate = mem.hydrate /\ mem'.hydrating = mem.hydrating
      /\ mem'.permits = mem.permits /\ mem'.waiting = mem.waiting
      /\ mem'.doubt = mem.doubt /\ mem'.push = [mem.push EXCEPT ![m] = p]
  BY <1>1 DEF MemRow
<1>3. mem'.push \in [Message -> PushRow] /\ mem'.push[m] = p
      /\ \A x \in Message : x # m => mem'.push[x] = mem.push[x]
  BY <1>1, <1>2 DEF MemRow
<1>4. mem' \in MemRow
  BY <1>1, <1>2, <1>3 DEF MemRow
<1>5. QED  BY <1>2, <1>3, <1>4 DEF PushMoves

\* The same place with another state.
LEMMA PushAt ==
  ASSUME DeliveryTypeOK, NEW m \in Message,
         NEW s \in {"rest", "begin", "receipt", "settle"} \cup Pushing,
         mem' = [mem EXCEPT !.push[m].at = s]
  PROVE  /\ PushMoves(m) /\ mem'.push[m].at = s
         /\ mem'.permits = mem.permits /\ mem'.waiting = mem.waiting
         /\ mem'.doubt = mem.doubt /\ mem'.done = mem.done
<1> DEFINE p == [mem.push[m] EXCEPT !.at = s]
<1>1. p \in PushRow /\ p.at = s
  BY MemFields DEF PushRow
<1>2. mem' = [mem EXCEPT !.push = [mem.push EXCEPT ![m] = p]]
  BY DEF DeliveryTypeOK, MemRow
<1> HIDE DEF p
<1>3. QED  BY <1>1, <1>2, OnlyPush

\* A message with a permit waits for nothing but the end of its push.
LEMMA KeepsOn ==
  ASSUME NEW m \in Message, Local(m), PushMoves(m), StoresAfter(m), ~Free(m)',
         At(m)' \in {"prepare", "sent"} => At(m) \in {"prepare", "sent"},
         life = "starting" /\ m \in mem.hydrate => ~Running(mem, m)'
  PROVE  Keeps(m)'
<1>1. /\ Waits(m)' <=> Waits(m)
      /\ InQueue(mem', m) <=> InQueue(mem, m)
  BY InQueueIsIn DEF PushMoves, Waits
<1>2. /\ mem'.frame = mem.frame /\ mem'.hydrate = mem.hydrate /\ mem'.hydrating = mem.hydrating
      /\ life' = life
  BY DEF PushMoves, StoresAfter
<1>3. (At(m) \in {"prepare", "sent"} \/ (At(m) = "begin" /\ Free(m)) =>
         Waits(m) \/ mem.hydrating = m \/ (mem.frame.m = m /\ mem.frame.at = "push"))'
  BY <1>1, <1>2 DEF Local, Keeps
<1>4. (life = "starting" /\ m \in mem.hydrate => ~Running(mem, m) /\ ~InQueue(mem, m))'
  BY <1>1, <1>2 DEF Local, Keeps
<1>5. QED  BY <1>3, <1>4 DEF Keeps

LEMMA SendKeeps ==
  ASSUME DeliveryInv, NEW m \in Message, Send(m)
  PROVE  DeliveryInv'
<1>1. At(m) = "prepare" /\ Running(mem, m) /\ At(m) \in Pushing
  BY DEF Send, At, Running, Pushing
<1>2. DeliveryTypeOK /\ Orderly /\ Local(m)
  BY <1>1, PushFacts
<1>3. PushMoves(m) /\ mem'.push[m].at = "sent"
      /\ mem'.permits = mem.permits /\ mem'.waiting = mem.waiting
      /\ mem'.doubt = mem.doubt /\ mem'.done = mem.done
  BY <1>2, PushAt DEF Send, Pushing
<1> DEFINE wire == [codex.wire EXCEPT ![m] = "sent"]
<1>4. /\ life' = life /\ codex' = [codex EXCEPT !.wire[m] = "sent"] /\ disk' = disk
      /\ hub' = hub /\ UNCHANGED spent
  BY DEF Send
<1>5. wire \in [Message -> WireState] /\ wire[m] = "sent"
      /\ \A x \in Message : x # m => wire[x] = codex.wire[x]
  BY <1>2, Types DEF WireState
<1>6. codex' = [codex EXCEPT !.wire = wire, !.turn = codex.turn] /\ codex.turn \in BOOLEAN
  BY <1>2, <1>4 DEF DeliveryTypeOK
<1> HIDE DEF wire
<1>7. WireStep(m, wire)
  BY <1>5, <1>6 DEF WireStep
<1>8. StoresAfter(m) /\ codex'.wire = wire /\ codex'.shown = codex.shown
  BY <1>2, <1>4, <1>7, PermitsAre, StoresWireStep
<1>9. /\ m \in disk.pending /\ m <= hub.posted /\ ~Exposed(m) /\ codex.shown[m] = 0
      /\ m \in mem.permits /\ m \notin mem.done \cup mem.doubt \cup mem.waiting
      /\ hub.permit[m] = "ACTIVE"
  BY <1>1, <1>2, Types DEF Local, Shown, Held, Reserves, Exposed
<1>10. At(m)' = "sent" /\ ~Free(m)' /\ Running(mem, m)'
  BY <1>3, <1>4, <1>9 DEF At, Free, Running
<1>11. Shown(m)'
  BY <1>3, <1>4, <1>5, <1>8, <1>9, <1>10 DEF Shown
<1>12. Held(m)'
  BY <1>3, <1>4, <1>9, <1>10 DEF Held
<1>13. Reserves(m)'
  BY <1>3, <1>4, <1>9, <1>10 DEF Reserves
<1>14. Keeps(m)'
  <2>1. ~(life = "starting" /\ m \in mem.hydrate)
    BY <1>1, <1>2 DEF Local, Keeps
  <2>2. QED  BY <1>1, <1>2, <1>3, <1>8, <1>10, <2>1, KeepsOn
<1>15. QED  BY <1>1, <1>3, <1>8, <1>11, <1>12, <1>13, <1>14, PushFacts, MoveKeeps DEF Local

\* A call on the wire of m goes on: it was under way and its trace remains.
LEMMA CallKeeps ==
  ASSUME DeliveryInv, NEW m \in Message, NEW w \in WireState, NEW n \in {0, 1},
         codex' \in [shown : [Message -> Nat], turn : BOOLEAN, wire : [Message -> WireState]],
         codex'.wire = [codex.wire EXCEPT ![m] = w], codex'.shown = [codex.shown EXCEPT ![m] = n],
         UNCHANGED <<hub, disk, life, mem>>, Fault \/ UNCHANGED spent,
         codex.wire[m] # "none", codex.shown[m] = 0,
         w # "none" \/ n = 1, w = "accepted" => n = 1,
         w \in {"sent", "late", "rejected"} => n = 0,
         w \in {"sent", "accepted", "rejected"} => At(m) = "sent"
  PROVE  DeliveryInv'
<1>1. DeliveryTypeOK /\ Orderly /\ Local(m)
  BY DeliveryParts
<1>2. /\ codex'.wire[m] = w /\ codex'.shown[m] = n
      /\ \A x \in Message : x # m =>
           codex'.wire[x] = codex.wire[x] /\ codex'.shown[x] = codex.shown[x]
  BY <1>1, Types
<1>3. StoresAfter(m)
  <2>1. spent' \in Nat
    BY <1>1, Troubled
  <2>2. /\ hub' \in [posted : 0 .. MaxMessage, permit : [Message -> PermitState]]
        /\ disk' \in [cursor : 0 .. MaxMessage, pending : SUBSET Message]
        /\ hub'.posted >= hub.posted
    BY <1>1 DEF DeliveryTypeOK
  <2>3. \A x \in Message : x # m => StoresKeep(x)
    BY <1>2, <2>2 DEF StoresKeep
  <2>4. QED  BY <1>2, <2>1, <2>2, <2>3 DEF StoresAfter
<1>4. PushMoves(m)
  BY <1>1, Types DEF PushMoves
<1>5. Exposed(m) /\ Exposed(m)'
  BY <1>2 DEF Exposed
<1>6. At(m)' = At(m) /\ (Free(m)' <=> Free(m)) /\ (Running(mem, m)' <=> Running(mem, m))
  BY DEF At, Free, Running
<1>7. ~Free(m) /\ At(m) # "prepare" /\ hub.permit[m] # "CONFIRMED" /\ m \notin mem.waiting
      /\ At(m) \notin {"receipt", "settle"}
  BY <1>1, <1>5 DEF Local, Shown
<1>8. Shown(m)'
  BY <1>2, <1>6, <1>7 DEF Shown
<1>9. Held(m)'
  BY <1>1, <1>6 DEF Local, Held
<1>10. Reserves(m)'
  BY <1>1, <1>5, <1>6, <1>7 DEF Local, Reserves
<1>11. Keeps(m)'
  BY <1>1, <1>6 DEF Local, Keeps, Waits
<1>12. QED  BY <1>3, <1>4, <1>8, <1>9, <1>10, <1>11, MoveKeeps DEF Local

LEMMA CodexSteps ==
  ASSUME DeliveryInv, NEW m \in Message, CodexTakes(m) \/ CodexTakesLate(m) \/ CodexRejects(m)
  PROVE  DeliveryInv'
<1>1. DeliveryTypeOK /\ Orderly /\ Local(m)
  BY DeliveryParts
<1>2. /\ codex \in [shown : [Message -> Nat], turn : BOOLEAN, wire : [Message -> WireState]]
      /\ codex.wire[m] \in {"sent", "late"} => codex.shown[m] = 0
      /\ codex.wire[m] = "sent" => At(m) = "sent"
      /\ {"accepted", "none", "rejected"} \subseteq WireState
  BY <1>1 DEF DeliveryTypeOK, Local, Shown, WireState
<1>3. CASE CodexTakes(m)
  <2> DEFINE t == codex.turn \/ mem.push[m].how = "wake"
  <2>1. t \in BOOLEAN
    OBVIOUS
  <2>2. codex.wire[m] = "sent" /\ UNCHANGED <<hub, disk, life, mem, spent>>
        /\ codex' = [codex EXCEPT !.wire[m] = "accepted", !.shown[m] = @ + 1, !.turn = t]
    BY <1>2, <1>3 DEF CodexTakes
  <2> HIDE DEF t
  <2>3. /\ codex'.wire = [codex.wire EXCEPT ![m] = "accepted"]
        /\ codex'.shown = [codex.shown EXCEPT ![m] = codex.shown[m] + 1]
        /\ codex'.turn = t
    BY <1>2, <2>2
  <2>4. codex'.shown = [codex.shown EXCEPT ![m] = 1]
    BY <1>2, <2>2, <2>3
  <2>5. codex' \in [shown : [Message -> Nat], turn : BOOLEAN, wire : [Message -> WireState]]
    <3>1. /\ codex'.wire \in [Message -> WireState]
          /\ codex'.shown \in [Message -> Nat]
      BY <1>2, <2>3, <2>4
    <3>2. QED  BY <1>2, <2>1, <2>2, <2>3, <3>1
  <2>6. QED  BY <1>2, <2>2, <2>3, <2>4, <2>5, CallKeeps
<1>4. CASE CodexTakesLate(m)
  <2>1. PICK begins \in BOOLEAN :
          codex' = [codex EXCEPT !.wire[m] = "none", !.shown[m] = @ + 1,
                                 !.turn = codex.turn \/ begins]
    BY <1>4 DEF CodexTakesLate
  <2> DEFINE t == codex.turn \/ begins
  <2>2. t \in BOOLEAN
    OBVIOUS
  <2>3. codex.wire[m] = "late" /\ UNCHANGED <<hub, disk, life, mem, spent>>
        /\ codex' = [codex EXCEPT !.wire[m] = "none", !.shown[m] = @ + 1, !.turn = t]
    BY <1>4, <2>1 DEF CodexTakesLate
  <2> HIDE DEF t
  <2>4. /\ codex'.wire = [codex.wire EXCEPT ![m] = "none"]
        /\ codex'.shown = [codex.shown EXCEPT ![m] = codex.shown[m] + 1]
        /\ codex'.turn = t
    BY <1>2, <2>3
  <2>5. codex'.shown = [codex.shown EXCEPT ![m] = 1]
    BY <1>2, <2>3, <2>4
  <2>6. codex' \in [shown : [Message -> Nat], turn : BOOLEAN, wire : [Message -> WireState]]
    <3>1. /\ codex'.wire \in [Message -> WireState]
          /\ codex'.shown \in [Message -> Nat]
      BY <1>2, <2>4, <2>5
    <3>2. QED  BY <1>2, <2>2, <2>3, <2>4, <3>1
  <2>7. QED  BY <1>2, <2>3, <2>4, <2>5, <2>6, CallKeeps
<1>5. CASE CodexRejects(m)
  <2>1. /\ codex.wire[m] = "sent" /\ UNCHANGED <<hub, disk, life, mem>>
        /\ codex' = [codex EXCEPT !.wire[m] = "rejected"]
        /\ Fault \/ UNCHANGED spent
    BY <1>5 DEF CodexRejects
  <2>2. /\ codex'.wire = [codex.wire EXCEPT ![m] = "rejected"]
        /\ codex'.shown = codex.shown
        /\ codex' \in [shown : [Message -> Nat], turn : BOOLEAN, wire : [Message -> WireState]]
    BY <1>2, <2>1
  <2>3. codex'.shown = [codex.shown EXCEPT ![m] = 0]
    BY <1>2, <2>1, <2>2
  <2>4. QED  BY <1>2, <2>1, <2>2, <2>3, CallKeeps
<1>6. QED  BY <1>3, <1>4, <1>5

\* The answer is read: nobody listens to the call of m any more.
LEMMA AnswerRead ==
  ASSUME DeliveryTypeOK, NEW m \in Message, NEW w \in {"none", "late"},
         codex' = [codex EXCEPT !.wire[m] = w],
         UNCHANGED <<hub, disk, life, spent>>
  PROVE  StoresAfter(m) /\ codex'.wire[m] = w /\ codex'.shown = codex.shown
<1> DEFINE wire == [codex.wire EXCEPT ![m] = w]
<1>1. wire \in [Message -> WireState] /\ wire[m] = w
      /\ \A x \in Message : x # m => wire[x] = codex.wire[x]
  BY Types DEF WireState
<1>2. codex' = [codex EXCEPT !.wire = wire, !.turn = codex.turn] /\ codex.turn \in BOOLEAN
  BY DEF DeliveryTypeOK
<1> HIDE DEF wire
<1>3. WireStep(m, wire)
  BY <1>1, <1>2 DEF WireStep
<1>4. QED  BY <1>1, <1>3, PermitsAre, StoresWireStep

LEMMA AnsweredKeeps ==
  ASSUME DeliveryInv, NEW m \in Message, Answered(m)
  PROVE  DeliveryInv'
<1>1. At(m) = "sent" /\ Running(mem, m) /\ At(m) \in Pushing
      /\ codex.wire[m] \in {"sent", "accepted"}
  BY DEF Answered, At, Running, Pushing
<1>2. DeliveryTypeOK /\ Orderly /\ Local(m)
  BY <1>1, PushFacts
<1> DEFINE p == [at |-> "poll", how |-> "none"]
           w == Unheard(codex.wire[m])
<1>3. p \in PushRow /\ p.at = "poll"
  BY DEF PushRow, Pushing
<1>4. mem' = [mem EXCEPT !.push = [mem.push EXCEPT ![m] = p]]
  BY <1>2 DEF Answered, DeliveryTypeOK, MemRow
<1> HIDE DEF p
<1>5. PushMoves(m) /\ mem'.push[m].at = "poll"
      /\ mem'.permits = mem.permits /\ mem'.waiting = mem.waiting
      /\ mem'.doubt = mem.doubt /\ mem'.done = mem.done
  BY <1>2, <1>3, <1>4, OnlyPush
<1>6. /\ (w = "late" /\ codex.wire[m] = "sent") \/ (w = "none" /\ codex.wire[m] = "accepted")
      /\ codex' = [codex EXCEPT !.wire[m] = w] /\ UNCHANGED <<hub, disk, life, spent>>
  BY <1>1, <1>2 DEF Answered, Unheard
<1> HIDE DEF w
<1>7. StoresAfter(m) /\ codex'.wire[m] = w /\ codex'.shown = codex.shown
      /\ UNCHANGED <<hub, disk, life>>
  BY <1>2, <1>6, AnswerRead
<1>8. /\ m \in disk.pending /\ m <= hub.posted /\ codex.shown[m] \in {0, 1} /\ Exposed(m)
      /\ w = "late" => codex.shown[m] = 0
      /\ w = "none" => codex.shown[m] = 1
      /\ m \in mem.permits /\ m \notin mem.done \cup mem.doubt \cup mem.waiting
      /\ hub.permit[m] = "ACTIVE"
  BY <1>1, <1>2, <1>6 DEF Local, Shown, Held, Reserves, Exposed
<1>9. At(m)' = "poll" /\ ~Free(m)' /\ Running(mem, m)'
  BY <1>5, <1>7, <1>8 DEF At, Free, Running
<1>10. Shown(m)'
  BY <1>5, <1>6, <1>7, <1>8, <1>9 DEF Shown
<1>11. Held(m)' /\ Reserves(m)'
  BY <1>5, <1>7, <1>8, <1>9 DEF Held, Reserves
<1>12. Keeps(m)'
  <2>1. ~(life = "starting" /\ m \in mem.hydrate)
    BY <1>1, <1>2 DEF Local, Keeps
  <2>2. QED  BY <1>2, <1>5, <1>7, <1>9, <2>1, KeepsOn
<1>13. QED  BY <1>1, <1>5, <1>7, <1>10, <1>11, <1>12, PushFacts, MoveKeeps DEF Local

LEMMA RejectedSteers ==
  ASSUME DeliveryInv, NEW m \in Message, Rejected(m), mem.push[m].how = "steer"
  PROVE  DeliveryInv'
<1>1. At(m) = "sent" /\ Running(mem, m) /\ At(m) \in Pushing /\ codex.wire[m] = "rejected"
  BY DEF Rejected, At, Running, Pushing
<1>2. DeliveryTypeOK /\ Orderly /\ Local(m)
  BY <1>1, PushFacts
<1> DEFINE p == [at |-> "prepare", how |-> "inject"]
<1>3. p \in PushRow /\ p.at = "prepare"
  BY DEF PushRow, Pushing
<1>4. mem' = [mem EXCEPT !.turn = FALSE, !.push[m] = p]
  BY DEF Rejected
<1> HIDE DEF p
<1>5. /\ PushMoves(m) /\ mem'.push[m] = p /\ mem'.done = mem.done
      /\ mem'.permits = mem.permits /\ mem'.waiting = mem.waiting
      /\ mem'.doubt = mem.doubt
  <2>1. mem \in MemRow
    BY <1>2, Types
  <2>2. /\ mem'.queue = mem.queue /\ mem'.flush = mem.flush /\ mem'.done = mem.done
        /\ mem'.frame = mem.frame /\ mem'.deferred = mem.deferred
        /\ mem'.hydrate = mem.hydrate /\ mem'.hydrating = mem.hydrating
        /\ mem'.permits = mem.permits /\ mem'.waiting = mem.waiting
        /\ mem'.doubt = mem.doubt /\ mem'.push = [mem.push EXCEPT ![m] = p]
    BY <1>4, <2>1 DEF MemRow
  <2>3. mem'.push \in [Message -> PushRow] /\ mem'.push[m] = p
        /\ \A x \in Message : x # m => mem'.push[x] = mem.push[x]
    BY <1>3, <2>1, <2>2 DEF MemRow
  <2>4. mem' \in MemRow
    BY <1>4, <2>1, <2>2, <2>3 DEF MemRow
  <2>5. QED  BY <2>2, <2>3, <2>4 DEF PushMoves
<1>6. StoresAfter(m) /\ codex'.wire[m] = "none" /\ codex'.shown = codex.shown
      /\ UNCHANGED <<hub, disk, life>>
  BY <1>2, AnswerRead DEF Rejected
<1>7. /\ m \in disk.pending /\ m <= hub.posted /\ codex.shown[m] = 0
      /\ m \in mem.permits /\ m \notin mem.done \cup mem.doubt \cup mem.waiting
      /\ hub.permit[m] = "ACTIVE"
  BY <1>1, <1>2 DEF Local, Shown, Held, Reserves
<1>8. At(m)' = "prepare" /\ ~Free(m)' /\ Running(mem, m)' /\ ~Exposed(m)'
  BY <1>3, <1>5, <1>6, <1>7 DEF At, Free, Running, Exposed
<1>9. Shown(m)' /\ Held(m)' /\ Reserves(m)'
  BY <1>5, <1>6, <1>7, <1>8 DEF Shown, Held, Reserves
<1>10. Keeps(m)'
  <2>1. ~(life = "starting" /\ m \in mem.hydrate)
    BY <1>1, <1>2 DEF Local, Keeps
  <2>2. QED  BY <1>1, <1>2, <1>5, <1>6, <1>8, <2>1, KeepsOn
<1>11. QED  BY <1>1, <1>5, <1>6, <1>9, <1>10, PushFacts, MoveKeeps DEF Local

LEMMA ReceiptKeeps ==
  ASSUME DeliveryInv, NEW m \in Message, Receipt(m)
  PROVE  DeliveryInv'
<1>1. At(m) = "receipt" /\ Running(mem, m)
  BY DEF Receipt, At, Running
<1>2. DeliveryTypeOK /\ Orderly /\ Local(m)
  BY <1>1, PushFacts
<1>3. PushMoves(m) /\ mem'.push[m].at = "settle"
      /\ mem'.permits = mem.permits /\ mem'.waiting = mem.waiting
      /\ mem'.doubt = mem.doubt /\ mem'.done = mem.done
  BY <1>2, PushAt DEF Receipt
<1>4. hub' = Permit(m, "CONFIRMED") /\ UNCHANGED <<codex, disk, life, spent>>
  BY DEF Receipt
<1>5. StoresAfter(m) /\ hub'.permit[m] = "CONFIRMED" /\ hub'.posted = hub.posted
  BY <1>2, <1>4, PermitsAre, StoresStep, PermitRow
<1>6. codex.shown[m] = 1 /\ ~Free(m) /\ m <= hub.posted
      /\ codex.wire[m] \in {"none", "late"} /\ codex.wire[m] # "late"
  <2>1. codex.shown[m] = 1
    BY <1>1, <1>2 DEF Local, Shown
  <2>2. ~Free(m)
    BY <1>2, <2>1 DEF Local, Shown, Exposed
  <2>3. QED  BY <1>1, <2>1, <2>2, PushFacts DEF Free
<1>7. At(m)' = "settle" /\ ~Free(m)' /\ Running(mem, m)'
  BY <1>3, <1>5 DEF At, Free, Running
<1>8. Shown(m)' /\ Held(m)' /\ Reserves(m)'
  BY <1>2, <1>3, <1>4, <1>5, <1>6, <1>7 DEF Local, Shown, Held, Reserves, Pushing
<1>9. Keeps(m)'
  <2>1. ~(life = "starting" /\ m \in mem.hydrate)
    BY <1>1, <1>2 DEF Local, Keeps
  <2>2. QED  BY <1>2, <1>3, <1>5, <1>7, <2>1, KeepsOn
<1>10. QED  BY <1>1, <1>3, <1>5, <1>8, <1>9, PushFacts, MoveKeeps DEF Local

\* A message the thread holds goes on to its receipt.
LEMMA ReceiptBegins ==
  ASSUME DeliveryInv, NEW m \in Message, PushMoves(m), At(m) # "sent", mem'.push[m].at = "receipt",
         UNCHANGED <<hub, codex, disk, life, spent>>, codex.shown[m] > 0,
         mem'.done = mem.done, m \in mem'.doubt => m \in mem.doubt,
         m \in mem.doubt \cup mem.permits => m \in mem'.doubt \cup mem'.permits,
         life \in {"starting", "up", "draining"}, life = "starting" => Running(mem, m)
  PROVE  DeliveryInv'
<1>1. DeliveryTypeOK /\ Orderly /\ Local(m)
  BY DeliveryParts
<1>2. StoresAfter(m)
  BY <1>1, PermitsAre, StoresStep
<1>3. codex.shown[m] = 1 /\ Exposed(m) /\ ~Free(m)
      /\ codex.wire[m] \notin {"sent", "late", "rejected", "accepted"}
  BY <1>1 DEF Local, Shown, Exposed
<1>5. At(m)' = "receipt" /\ (Free(m)' <=> Free(m)) /\ (Exposed(m)' <=> Exposed(m)) /\ Running(mem, m)'
  BY DEF At, Free, Exposed, Running
<1>6. Shown(m)'
  BY <1>3, <1>5 DEF Shown
<1>7. Held(m)'
  BY <1>1, <1>3, <1>5 DEF Local, Held, Pushing
<1>8. Reserves(m)'
  BY <1>1, <1>3, <1>5 DEF Local, Reserves, Keeps
<1>9. Keeps(m)'
  <2>1. ~(life = "starting" /\ m \in mem.hydrate)
    BY <1>1 DEF Local, Keeps
  <2>2. QED  BY <1>1, <1>2, <1>3, <1>5, <2>1, KeepsOn
<1>10. QED  BY <1>2, <1>6, <1>7, <1>8, <1>9, MoveKeeps DEF Local

LEMMA ConfirmedKeeps ==
  ASSUME DeliveryInv, NEW m \in Message, Confirmed(m)
  PROVE  DeliveryInv'
<1>1. At(m) = "poll" /\ Running(mem, m)
  BY DEF Confirmed, At, Running
<1>2. DeliveryTypeOK /\ mem \in MemRow /\ m \in mem.permits
  BY <1>1, PushFacts, Types DEF Local, Held, Pushing
<1> DEFINE p == [mem.push[m] EXCEPT !.at = "receipt"]
<1>3. p \in PushRow /\ p.at = "receipt"
  BY <1>2, MemFields DEF PushRow
<1>4. /\ UNCHANGED <<hub, codex, disk, life, spent>> /\ codex.shown[m] > 0
      /\ mem' = [mem EXCEPT !.push[m].at = "receipt", !.waiting = @ \cup {m},
                            !.doubt = @ \ {m}, !.held = @ \ {m}]
  BY DEF Confirmed, Found
<1>5. mem' = [mem EXCEPT !.push[m] = p, !.waiting = @ \cup {m},
                         !.doubt = @ \ {m}, !.held = @ \ {m}]
  BY <1>2, <1>4 DEF MemRow
<1> HIDE DEF p
<1>6. /\ mem'.queue = mem.queue /\ mem'.flush = mem.flush /\ mem'.done = mem.done
      /\ mem'.frame = mem.frame /\ mem'.deferred = mem.deferred
      /\ mem'.hydrate = mem.hydrate /\ mem'.hydrating = mem.hydrating
      /\ mem'.permits = mem.permits /\ mem'.waiting = mem.waiting \cup {m}
      /\ mem'.doubt = mem.doubt \ {m} /\ mem'.push = [mem.push EXCEPT ![m] = p]
  BY <1>2, <1>5 DEF MemRow
<1>7. mem'.push \in [Message -> PushRow] /\ mem'.push[m] = p
      /\ \A x \in Message : x # m => mem'.push[x] = mem.push[x]
  BY <1>2, <1>3, <1>6 DEF MemRow
<1>8. mem' \in MemRow
  BY <1>2, <1>5, <1>6, <1>7 DEF MemRow
<1>9. PushMoves(m)
  BY <1>6, <1>7, <1>8 DEF PushMoves
<1>10. QED  BY <1>1, <1>2, <1>3, <1>4, <1>6, <1>7, <1>9, PushFacts, ReceiptBegins

LEMMA RetryReceiptKeeps ==
  ASSUME DeliveryInv, NEW m \in Message, RetryReceipt(m)
  PROVE  DeliveryInv'
<1>1. DeliveryTypeOK /\ Local(m)
  BY DeliveryParts
<1> DEFINE p == [at |-> "receipt", how |-> "none"]
<1>2. p \in PushRow /\ p.at = "receipt"
  BY DEF PushRow
<1>3. /\ UNCHANGED <<hub, codex, disk, life, spent>> /\ m \in mem.waiting
      /\ mem' = [mem EXCEPT !.push[m] = p] /\ At(m) = "rest"
      /\ life \in {"up", "draining"}
  BY DEF RetryReceipt, At, Running
<1> HIDE DEF p
<1>4. mem' = [mem EXCEPT !.push = [mem.push EXCEPT ![m] = p]]
  BY <1>1, <1>3 DEF DeliveryTypeOK, MemRow
<1>5. PushMoves(m) /\ mem'.push[m] = p /\ mem'.done = mem.done
      /\ mem'.doubt = mem.doubt /\ mem'.permits = mem.permits
  BY <1>1, <1>2, <1>4, OnlyPush
<1>6. codex.shown[m] > 0
  BY <1>1, <1>3 DEF Local, Shown
<1>7. QED  BY <1>2, <1>3, <1>5, <1>6, ReceiptBegins

LEMMA ReconcileKeeps ==
  ASSUME DeliveryInv, NEW m \in Message, Reconcile(m)
  PROVE  DeliveryInv'
<1>1. DeliveryTypeOK /\ mem \in MemRow
  BY DeliveryParts, Types
<1> DEFINE p == [at |-> "receipt", how |-> "none"]
<1>2. p \in PushRow /\ p.at = "receipt"
  BY DEF PushRow
<1>3. /\ UNCHANGED <<hub, codex, disk, life, spent>> /\ codex.shown[m] > 0
      /\ mem' = [mem EXCEPT !.push[m] = p, !.waiting = @ \cup {m}] /\ At(m) = "rest"
      /\ life = "up"
  BY DEF Reconcile, At, Running, Found
<1> HIDE DEF p
<1>4. /\ mem'.queue = mem.queue /\ mem'.flush = mem.flush /\ mem'.done = mem.done
      /\ mem'.frame = mem.frame /\ mem'.deferred = mem.deferred
      /\ mem'.hydrate = mem.hydrate /\ mem'.hydrating = mem.hydrating
      /\ mem'.permits = mem.permits /\ mem'.waiting = mem.waiting \cup {m}
      /\ mem'.doubt = mem.doubt /\ mem'.push = [mem.push EXCEPT ![m] = p]
  BY <1>1, <1>3 DEF MemRow
<1>5. mem'.push \in [Message -> PushRow] /\ mem'.push[m] = p
      /\ \A x \in Message : x # m => mem'.push[x] = mem.push[x]
  BY <1>1, <1>2, <1>4 DEF MemRow
<1>6. mem' \in MemRow
  BY <1>1, <1>3, <1>4, <1>5 DEF MemRow
<1>7. PushMoves(m)
  BY <1>4, <1>5, <1>6 DEF PushMoves
<1>8. QED  BY <1>2, <1>3, <1>4, <1>5, <1>7, ReceiptBegins

----------------------------------------------------------------------------
(* Steps that no message notices.                                          *)

MemoryRests ==
  /\ mem' \in MemRow /\ mem'.queue = mem.queue /\ mem'.flush = mem.flush
  /\ mem'.push = mem.push /\ mem'.permits = mem.permits /\ mem'.waiting = mem.waiting
  /\ mem'.doubt = mem.doubt /\ mem'.done = mem.done /\ mem'.deferred = mem.deferred
  /\ mem'.hydrate = mem.hydrate /\ mem'.hydrating = mem.hydrating
  /\ mem'.frame.m = mem.frame.m /\ mem'.frame.at = mem.frame.at
  /\ mem.frame = NoFrame => mem'.frame = NoFrame
  /\ life = "down" => mem' = mem

StoresRest ==
  /\ hub' \in [posted : 0 .. MaxMessage, permit : [Message -> PermitState]]
  /\ codex' \in [shown : [Message -> Nat], turn : BOOLEAN, wire : [Message -> WireState]]
  /\ hub'.permit = hub.permit /\ hub'.posted >= hub.posted
  /\ codex'.shown = codex.shown /\ codex'.wire = codex.wire
  /\ disk' = disk /\ life' = life /\ spent' \in Nat

LEMMA RestKeeps ==
  ASSUME DeliveryInv, MemoryRests, StoresRest
  PROVE  DeliveryInv'
<1>0. DeliveryTypeOK /\ Orderly /\ \A x \in Message : Local(x)
  BY DeliveryParts
<1>1. DeliveryTypeOK'
  BY <1>0 DEF DeliveryTypeOK, MemoryRests, StoresRest
<1>2. \A x : InQueue(mem', x) <=> InQueue(mem, x)
  BY InQueueIsIn DEF MemoryRests
<1>3. \A x \in Message : MemoryKeeps(x) /\ StoresKeep(x)
  BY <1>2 DEF MemoryKeeps, StoresKeep, MemoryRests, StoresRest
<1>4. \A x \in Message : Local(x)'
  BY <1>0, <1>1, <1>3, Bystander
<1>5. Orderly'
  <2>1. /\ mem'.flush = mem.flush /\ mem'.queue = mem.queue
        /\ mem'.hydrate = mem.hydrate /\ mem'.hydrating = mem.hydrating
        /\ mem'.push = mem.push /\ disk' = disk /\ life' = life
    BY DEF MemoryRests, StoresRest
  <2>2. disk.cursor <= hub'.posted /\ mem'.frame.m <= hub'.posted
    <3>1. /\ disk.cursor \in Nat /\ hub.posted \in Nat /\ hub'.posted \in Nat
          /\ mem.frame.m \in Nat
      BY <1>0, <1>1, MessageFacts DEF DeliveryTypeOK, MemRow, FrameRow
    <3>2. QED  BY <1>0, <3>1 DEF Orderly, MemoryRests, StoresRest
  <2>3. mem'.frame.at \in {"taken", "push", "commit"} => mem'.frame.m = disk.cursor + 1
    BY <1>0 DEF Orderly, MemoryRests
  <2>4. (life = "down" => mem' = Fresh) /\ (life = "starting" => mem'.frame = NoFrame)
    BY <1>0 DEF Orderly, MemoryRests
  <2>5. life = "switching" => \A x \in Message : ~Running(mem', x)
    BY <1>0, <2>1 DEF Orderly, Running
  <2>6. QED  BY <1>0, <2>1, <2>2, <2>3, <2>4, <2>5 DEF Orderly
<1>6. QED  BY <1>1, <1>4, <1>5, DeliveryParts DEF DeliveryInv, Local

LEMMA StoresSame ==
  ASSUME DeliveryTypeOK, UNCHANGED <<hub, codex, disk, life>>, Fault \/ UNCHANGED spent
  PROVE  StoresRest
<1>1. spent' \in Nat
  BY Troubled
<1>2. hub.posted >= hub.posted
  BY DEF DeliveryTypeOK
<1>3. QED  BY <1>1, <1>2 DEF DeliveryTypeOK, StoresRest

LEMMA PostKeeps ==
  ASSUME DeliveryInv, Post
  PROVE  DeliveryInv'
<1>1. DeliveryTypeOK /\ mem \in MemRow
  BY DeliveryParts, Types
<1>2. MemoryRests
  BY <1>1 DEF MemoryRests, Post
<1>3. /\ hub'.permit = hub.permit /\ hub'.posted >= hub.posted
      /\ hub' \in [posted : 0 .. MaxMessage, permit : [Message -> PermitState]]
  <2>1. hub.posted + 1 \in 0 .. MaxMessage /\ hub.posted + 1 >= hub.posted
    BY <1>1, MessageFacts DEF Post, DeliveryTypeOK
  <2>2. QED  BY <1>1, <2>1 DEF Post, DeliveryTypeOK
<1>4. StoresRest
  BY <1>1, <1>3 DEF StoresRest, Post, DeliveryTypeOK
<1>5. QED  BY <1>2, <1>4, RestKeeps

LEMMA TurnKeeps ==
  ASSUME DeliveryInv, UserTurn \/ TurnEnds
  PROVE  DeliveryInv'
<1>1. DeliveryTypeOK /\ mem \in MemRow
  BY DeliveryParts, Types
<1>2. MemoryRests
  BY <1>1 DEF MemoryRests, UserTurn, TurnEnds
<1>3. /\ codex' \in [shown : [Message -> Nat], turn : BOOLEAN, wire : [Message -> WireState]]
      /\ codex'.shown = codex.shown /\ codex'.wire = codex.wire
  BY <1>1 DEF UserTurn, TurnEnds, DeliveryTypeOK
<1>4. hub.posted >= hub.posted
  BY <1>1 DEF DeliveryTypeOK
<1>5. StoresRest
  BY <1>1, <1>3, <1>4 DEF StoresRest, UserTurn, TurnEnds, DeliveryTypeOK
<1>6. QED  BY <1>2, <1>5, RestKeeps

LEMMA NoticeTurnKeeps ==
  ASSUME DeliveryInv, NoticeTurn
  PROVE  DeliveryInv'
<1>1. DeliveryTypeOK /\ mem \in MemRow /\ codex.turn \in BOOLEAN
  BY DeliveryParts, Types
<1>2. PICK h \in SUBSET Message, g \in BOOLEAN :
        mem' = [mem EXCEPT !.turn = codex.turn, !.told = codex.turn, !.going = g, !.held = h]
  <2>1. mem.held \in SUBSET Message
    BY <1>1 DEF MemRow
  <2> DEFINE heads == {Head(mem.queue[q]) : q \in {r \in Queue : mem.queue[r] # <<>>}}
             some == ~codex.turn /\ \E q \in Queue : mem.queue[q] # <<>>
             h == IF codex.turn THEN mem.held ELSE mem.held \ heads
             g == mem.going \/ some
  <2>2. h \in SUBSET Message
    BY <2>1
  <2>3. g \in BOOLEAN
    OBVIOUS
  <2>4. mem' = [mem EXCEPT !.turn = codex.turn, !.told = codex.turn, !.going = @ \/ some,
                  !.held = IF codex.turn THEN @ ELSE @ \ heads]
    BY DEF NoticeTurn
  <2> HIDE DEF heads, some
  <2>5. mem' = [mem EXCEPT !.turn = codex.turn, !.told = codex.turn, !.going = g, !.held = h]
    BY <1>1, <2>4 DEF MemRow
  <2> HIDE DEF h, g
  <2>6. QED  BY <2>2, <2>3, <2>5
<1>3. life # "down" /\ UNCHANGED <<hub, codex, disk, life, spent>>
  BY DEF NoticeTurn
<1>4. MemoryRests
  BY <1>1, <1>2, <1>3 DEF MemoryRests, MemRow
<1>5. QED  BY <1>1, <1>3, <1>4, StoresSame, RestKeeps

LEMMA ItemCompletedKeeps ==
  ASSUME DeliveryInv, ItemCompleted
  PROVE  DeliveryInv'
<1>1. DeliveryTypeOK /\ mem \in MemRow
  BY DeliveryParts, Types
<1>2. life # "down" /\ UNCHANGED <<hub, codex, disk, life, spent>>
      /\ mem' = [mem EXCEPT !.held = @ \ {Head(mem.queue["important"])}]
  BY DEF ItemCompleted
<1>3. MemoryRests
  BY <1>1, <1>2 DEF MemoryRests, MemRow
<1>4. QED  BY <1>1, <1>2, <1>3, StoresSame, RestKeeps

LEMMA ConnectKeeps ==
  ASSUME DeliveryInv, Connect
  PROVE  DeliveryInv'
<1>1. DeliveryTypeOK /\ mem \in MemRow /\ hub.posted \in 0 .. MaxMessage
      /\ 0 \in 0 .. MaxMessage
  BY DeliveryParts, Types, MessageFacts
<1> DEFINE t == IF life = "switching" THEN hub.posted ELSE 0
<1>2. t \in 0 .. MaxMessage
  BY <1>1
<1>3. life # "down" /\ UNCHANGED <<hub, codex, disk, life, spent>>
      /\ mem' = [mem EXCEPT !.socket = "live", !.target = t]
  BY DEF Connect
<1> HIDE DEF t
<1>4. MemoryRests
  BY <1>1, <1>2, <1>3 DEF MemoryRests, MemRow
<1>5. QED  BY <1>1, <1>3, <1>4, StoresSame, RestKeeps

\* The socket is gone, and the frame in process has lost its own.
LEMMA FrameUnhooked ==
  ASSUME mem \in MemRow, life # "down",
         mem' = [mem EXCEPT !.socket = "off", !.frame.live = FALSE]
  PROVE  MemoryRests
<1>1. /\ mem'.frame = [mem.frame EXCEPT !.live = FALSE]
      /\ mem'.queue = mem.queue /\ mem'.flush = mem.flush
      /\ mem'.push = mem.push /\ mem'.permits = mem.permits /\ mem'.waiting = mem.waiting
      /\ mem'.doubt = mem.doubt /\ mem'.done = mem.done /\ mem'.deferred = mem.deferred
      /\ mem'.hydrate = mem.hydrate /\ mem'.hydrating = mem.hydrating
  BY DEF MemRow
<1>2. /\ mem'.frame \in FrameRow /\ mem'.frame.m = mem.frame.m /\ mem'.frame.at = mem.frame.at
      /\ mem.frame = NoFrame => mem'.frame = NoFrame
  <2>1. mem.frame \in FrameRow
    BY DEF MemRow
  <2>2. mem'.frame \in FrameRow /\ mem'.frame.m = mem.frame.m /\ mem'.frame.at = mem.frame.at
    <3>1. \A f \in FrameRow : /\ [f EXCEPT !.live = FALSE] \in FrameRow
                             /\ [f EXCEPT !.live = FALSE].m = f.m
                             /\ [f EXCEPT !.live = FALSE].at = f.at
      BY DEF FrameRow
    <3>2. QED  BY <1>1, <2>1, <3>1
  <2>3. ASSUME mem.frame = NoFrame  PROVE mem'.frame = NoFrame
    <3>1. mem'.frame = [NoFrame EXCEPT !.live = FALSE]
      BY <1>1, <2>3
    <3>2. QED  BY <3>1 DEF NoFrame
  <2>4. QED  BY <2>2, <2>3
<1>3. mem' \in MemRow
  BY <1>1, <1>2 DEF MemRow
<1>4. QED  BY <1>1, <1>2, <1>3 DEF MemoryRests

LEMMA DisconnectKeeps ==
  ASSUME DeliveryInv, Disconnect
  PROVE  DeliveryInv'
<1>1. DeliveryTypeOK /\ mem \in MemRow /\ Orderly
  BY DeliveryParts, Types
<1>2. life # "down"
  BY <1>1 DEF Orderly, Disconnect, Fresh
<1>3. /\ UNCHANGED <<hub, codex, disk, life>> /\ Fault
      /\ mem' = [mem EXCEPT !.socket = "off", !.frame.live = FALSE]
  BY DEF Disconnect
<1>4. QED  BY <1>1, <1>2, <1>3, FrameUnhooked, StoresSame, RestKeeps

----------------------------------------------------------------------------
(* Frames.                                                                 *)

\* The frame of m moves, and with it what the checkpoint says of m.
FrameMoves(m, f) ==
  /\ f \in FrameRow /\ f.m \in {m, 0} /\ mem.frame.m \in {m, 0}
  /\ f.at # "push" /\ mem.frame.at # "push"
  /\ mem' = [mem EXCEPT !.frame = f]
  /\ UNCHANGED <<hub, codex, life, spent>>
  /\ disk' \in [cursor : 0 .. MaxMessage, pending : SUBSET Message]
  /\ \A x \in Message : x # m =>
       (x \in disk'.pending <=> x \in disk.pending) /\ (x <= disk'.cursor => x <= disk.cursor)

LEMMA FrameMoveKeeps ==
  ASSUME DeliveryInv, NEW m \in Message, NEW f, FrameMoves(m, f),
         life \in {"up", "draining", "switching"},
         disk'.cursor <= hub.posted, f.m <= hub.posted,
         f.at \in {"taken", "commit"} => f.m = disk'.cursor + 1,
         At(m) \in Pushing => m \in disk'.pending, Reserves(m)', Keeps(m)'
  PROVE  DeliveryInv'
<1> USE DEF FrameMoves
<1>0. DeliveryTypeOK /\ Orderly /\ \A x \in Message : Local(x)
  BY DeliveryParts
<1>1. /\ mem' \in MemRow /\ mem'.frame = f /\ mem'.queue = mem.queue /\ mem'.flush = mem.flush
      /\ mem'.push = mem.push /\ mem'.permits = mem.permits /\ mem'.waiting = mem.waiting
      /\ mem'.doubt = mem.doubt /\ mem'.done = mem.done /\ mem'.deferred = mem.deferred
      /\ mem'.hydrate = mem.hydrate /\ mem'.hydrating = mem.hydrating
  BY <1>0, Types DEF MemRow
<1>2. DeliveryTypeOK'
  BY <1>0, <1>1 DEF DeliveryTypeOK
<1>3. ASSUME NEW x \in Message, x # m  PROVE Local(x)'
  <2>1. 0 # x /\ hub.posted >= hub.posted
    BY <1>0, MessageFacts DEF DeliveryTypeOK
  <2>2. InQueue(mem', x) <=> InQueue(mem, x)
    BY <1>1, InQueueIsIn
  <2>3. MemoryKeeps(x)
    BY <1>1, <1>3, <2>1, <2>2 DEF MemoryKeeps
  <2>4. StoresKeep(x)
    BY <1>3, <2>1 DEF StoresKeep
  <2>5. QED  BY <1>0, <1>2, <2>3, <2>4, Bystander
<1>4. Local(m)'
  <2>1. At(m)' = At(m) /\ (Free(m)' <=> Free(m)) /\ (Exposed(m)' <=> Exposed(m))
    BY <1>1 DEF At, Free, Exposed
  <2>2. Shown(m)'
    BY <1>0, <1>1, <2>1 DEF Local, Shown
  <2>3. Held(m)'
    BY <1>0, <1>1, <2>1 DEF Local, Held
  <2>4. QED  BY <2>2, <2>3 DEF Local
<1>5. Orderly'
  <2>1. life = "switching" => \A x \in Message : ~Running(mem', x)
    BY <1>0, <1>1 DEF Orderly, Running
  <2>2. QED  BY <1>0, <1>1, <2>1 DEF Orderly
<1>6. \A x \in Message : Local(x)'
  BY <1>3, <1>4
<1>7. QED  BY <1>2, <1>5, <1>6 DEF DeliveryInv, Local

LEMMA FrameFacts ==
  /\ NoFrame \in FrameRow /\ NoFrame.m = 0 /\ NoFrame.at = "none"
  /\ \A m \in Message, b \in BOOLEAN, a \in {"none", "taken", "push", "commit", "settle"} :
       [m |-> m, at |-> a, live |-> b] \in FrameRow
BY MessageFacts DEF NoFrame, FrameRow

LEMMA TakeFrameKeeps ==
  ASSUME DeliveryInv, NEW m \in Message, TakeFrame(m)
  PROVE  DeliveryInv'
<1>0. DeliveryTypeOK /\ Orderly /\ Local(m)
  BY DeliveryParts
<1> DEFINE f == [m |-> m, at |-> "taken", live |-> TRUE]
<1>1. f \in FrameRow /\ f.m = m /\ f.at = "taken"
  BY FrameFacts
<1>2. /\ life \in {"up", "switching"} /\ mem.frame = NoFrame /\ m = disk.cursor + 1
      /\ m <= hub.posted /\ mem' = [mem EXCEPT !.frame = f]
      /\ UNCHANGED <<hub, codex, life, spent>>
      /\ disk' = [disk EXCEPT !.pending = @ \cup {m}]
  BY DEF TakeFrame
<1>3. /\ disk' \in [cursor : 0 .. MaxMessage, pending : SUBSET Message]
      /\ disk'.cursor = disk.cursor /\ disk'.pending = disk.pending \cup {m}
  BY <1>0, <1>2 DEF DeliveryTypeOK
<1> HIDE DEF f
<1>4. FrameMoves(m, f)
  BY <1>1, <1>2, <1>3, FrameFacts DEF FrameMoves
<1>5. disk'.cursor <= hub.posted
  BY <1>0, <1>3 DEF Orderly
<1>6. /\ mem'.frame = f /\ mem'.queue = mem.queue /\ mem'.push = mem.push
      /\ mem'.doubt = mem.doubt /\ mem'.permits = mem.permits
      /\ mem'.deferred = mem.deferred
      /\ mem'.hydrate = mem.hydrate /\ mem'.hydrating = mem.hydrating
  BY <1>0, <1>2, Types DEF MemRow
<1>7. /\ At(m)' = At(m) /\ (Free(m)' <=> Free(m)) /\ (Exposed(m)' <=> Exposed(m))
      /\ (InQueue(mem, m)' <=> InQueue(mem, m)) /\ (Waits(m)' <=> Waits(m))
      /\ (Running(mem, m)' <=> Running(mem, m))
  BY <1>2, <1>6, InQueueIsIn DEF At, Free, Exposed, Waits, Running
<1>8. Reserves(m)'
  BY <1>0, <1>2, <1>3, <1>6, <1>7 DEF Local, Reserves
<1>9. Keeps(m)'
  <2>1. mem.frame.m # m
    BY <1>2, MessageFacts DEF NoFrame
  <2>2. QED  BY <1>0, <1>1, <1>2, <1>3, <1>6, <1>7, <2>1 DEF Local, Keeps
<1>10. QED  BY <1>1, <1>2, <1>3, <1>4, <1>5, <1>8, <1>9, FrameMoveKeeps

\* What a step on the frame leaves as it is.
LEMMA FrameRest ==
  ASSUME DeliveryTypeOK, NEW m \in Message, NEW f \in FrameRow,
         mem' = [mem EXCEPT !.frame = f], UNCHANGED <<hub, codex, life, spent>>
  PROVE  /\ mem'.frame = f /\ mem'.push = mem.push /\ mem'.hydrate = mem.hydrate
         /\ mem'.hydrating = mem.hydrating /\ mem'.deferred = mem.deferred
         /\ mem'.doubt = mem.doubt /\ mem'.permits = mem.permits
         /\ At(m)' = At(m) /\ (Free(m)' <=> Free(m)) /\ (Exposed(m)' <=> Exposed(m))
         /\ (InQueue(mem, m)' <=> InQueue(mem, m)) /\ (Waits(m)' <=> Waits(m))
         /\ (Running(mem, m)' <=> Running(mem, m))
<1>1. /\ mem'.frame = f /\ mem'.queue = mem.queue /\ mem'.push = mem.push
      /\ mem'.doubt = mem.doubt /\ mem'.permits = mem.permits
      /\ mem'.deferred = mem.deferred
      /\ mem'.hydrate = mem.hydrate /\ mem'.hydrating = mem.hydrating
  BY Types DEF MemRow
<1>2. InQueue(mem, m)' <=> InQueue(mem, m)
  BY <1>1, InQueueIsIn
<1>3. QED  BY <1>1, <1>2 DEF At, Free, Exposed, Waits, Running

LEMMA FrameInProcess ==
  ASSUME DeliveryInv, mem.frame # NoFrame
  PROVE  life \in {"up", "draining", "switching"}
<1>1. Orderly /\ life \in Life
  BY DeliveryParts, Types
<1>2. life # "down" /\ life # "starting"
  BY <1>1 DEF Orderly, Fresh
<1>3. QED  BY <1>1, <1>2 DEF Life

LEMMA CommitFrameKeeps ==
  ASSUME DeliveryInv, NEW m \in Message, CommitFrame(m)
  PROVE  DeliveryInv'
<1>0. DeliveryTypeOK /\ Orderly /\ Local(m) /\ mem.frame \in FrameRow
      /\ disk.cursor \in Nat /\ m \in Nat /\ m \in 0 .. MaxMessage /\ disk.pending \subseteq Message
  BY DeliveryParts, Types, MessageFacts DEF MemRow
<1>1. mem.frame.m = m /\ mem.frame.at = "commit" /\ UNCHANGED <<hub, codex, life, spent>>
  BY DEF CommitFrame
<1>2. m = disk.cursor + 1 /\ m <= hub.posted /\ mem.frame # NoFrame /\ disk.cursor <= hub.posted
  BY <1>0, <1>1, FrameFacts DEF Orderly
<1>3. life \in {"up", "draining", "switching"}
  BY <1>2, FrameInProcess
<1>4. Free(m) => Waits(m)
  BY <1>0, <1>1 DEF Local, Keeps
<1>5. CASE mem.frame.live
  <2> DEFINE f == [mem.frame EXCEPT !.at = "settle"]
             add == IF CheckpointPending(m) THEN {m} ELSE {}
  <2>1. f \in FrameRow /\ f.m = m /\ f.at = "settle"
    BY <1>0, <1>1 DEF FrameRow
  <2>2. mem' = [mem EXCEPT !.frame = f] /\ disk' = [cursor |-> m, pending |-> disk.pending \cup add]
    BY <1>0, <1>5 DEF CommitFrame, DeliveryTypeOK, MemRow
  <2>3. add \subseteq {m}
    OBVIOUS
  <2> HIDE DEF f, add
  <2>4. /\ disk' \in [cursor : 0 .. MaxMessage, pending : SUBSET Message]
        /\ disk'.cursor = m /\ disk'.pending = disk.pending \cup add
    BY <1>0, <2>2, <2>3
  <2>5. \A x \in Message : x # m =>
          (x \in disk'.pending <=> x \in disk.pending) /\ (x <= disk'.cursor => x <= disk.cursor)
    BY <1>0, <1>2, <2>3, <2>4, MessageFacts
  <2>6. FrameMoves(m, f)
    BY <1>1, <2>1, <2>2, <2>4, <2>5 DEF FrameMoves
  <2>7. Reserves(m)'
    BY <1>0, <1>1, <1>2, <2>1, <2>2, <2>4, FrameRest DEF Local, Reserves
  <2>8. Keeps(m)'
    BY <1>0, <1>1, <1>3, <1>4, <2>1, <2>2, FrameRest DEF Local, Keeps
  <2>9. At(m) \in Pushing => m \in disk'.pending
    BY <1>0, <2>4 DEF Local, Held
  <2>10. QED  BY <1>2, <1>3, <2>1, <2>4, <2>6, <2>7, <2>8, <2>9, FrameMoveKeeps
<1>6. CASE ~mem.frame.live
  <2>1. mem' = [mem EXCEPT !.frame = NoFrame] /\ disk' = disk
    BY <1>6 DEF CommitFrame
  <2>2. FrameMoves(m, NoFrame)
    BY <1>0, <1>1, <2>1, FrameFacts DEF FrameMoves, DeliveryTypeOK
  <2>3. Reserves(m)'
    BY <1>0, <1>1, <2>1, FrameRest, FrameFacts DEF Local, Reserves
  <2>4. Keeps(m)'
    BY <1>0, <1>1, <2>1, FrameRest, FrameFacts DEF Local, Keeps
  <2>5. At(m) \in Pushing => m \in disk'.pending
    BY <1>0, <2>1 DEF Local, Held
  <2>6. NoFrame.m <= hub.posted
    BY <1>0, Types, FrameFacts
  <2>7. QED  BY <1>2, <1>3, <2>1, <2>2, <2>3, <2>4, <2>5, <2>6, FrameFacts, FrameMoveKeeps
<1>7. QED  BY <1>5, <1>6

LEMMA SettleFrameKeeps ==
  ASSUME DeliveryInv, NEW m \in Message, SettleFrame(m)
  PROVE  DeliveryInv'
<1>0. DeliveryTypeOK /\ Orderly /\ Local(m) /\ mem.frame \in FrameRow
  BY DeliveryParts, Types DEF MemRow
<1>1. mem.frame.m = m /\ mem.frame.at = "settle" /\ UNCHANGED <<hub, codex, life, spent>>
      /\ mem' = [mem EXCEPT !.frame = NoFrame] /\ mem.frame # NoFrame
  BY FrameFacts DEF SettleFrame
<1>2. life \in {"up", "draining", "switching"}
  BY <1>1, FrameInProcess
<1>3. /\ disk' \in [cursor : 0 .. MaxMessage, pending : SUBSET Message]
      /\ disk'.cursor = disk.cursor /\ disk'.pending \subseteq disk.pending
      /\ \A x \in Message : x # m => (x \in disk'.pending <=> x \in disk.pending)
      /\ CheckpointPending(m) => disk' = disk
  BY <1>0 DEF SettleFrame, DeliveryTypeOK
<1>4. Free(m) => Waits(m)
  BY <1>0, <1>1 DEF Local, Keeps
<1>5. Free(m) => disk' = disk
  BY <1>3, <1>4 DEF Waits, CheckpointPending
<1>6. Exposed(m) /\ hub.permit[m] # "CONFIRMED" => disk' = disk
  BY <1>0, <1>2, <1>3 DEF Local, Reserves, CheckpointPending
<1>7. At(m) \in Pushing => disk' = disk
  BY <1>0, <1>3 DEF Local, Held, CheckpointPending
<1>8. FrameMoves(m, NoFrame)
  BY <1>1, <1>3, FrameFacts DEF FrameMoves
<1>9. Reserves(m)'
  BY <1>0, <1>1, <1>3, <1>5, <1>6, FrameRest, FrameFacts DEF Local, Reserves
<1>10. Keeps(m)'
  BY <1>0, <1>1, <1>3, FrameRest, FrameFacts DEF Local, Keeps
<1>11. At(m) \in Pushing => m \in disk'.pending
  BY <1>0, <1>7 DEF Local, Held
<1>12. disk'.cursor <= hub.posted /\ NoFrame.m <= hub.posted
  BY <1>0, <1>3, Types, FrameFacts DEF Orderly
<1>13. QED  BY <1>2, <1>8, <1>9, <1>10, <1>11, <1>12, FrameFacts, FrameMoveKeeps

----------------------------------------------------------------------------
(* Dispatch: a frame, a deferred message, the head of a queue, hydration.  *)

LEMMA MemStepKeeps ==
  ASSUME DeliveryInv, NEW m \in Message, StoresAfter(m), mem' \in MemRow, FlushOK(mem'),
         \A x \in Message : x # m => MemoryKeeps(x), life # "down",
         mem'.frame.m = mem.frame.m,
         mem'.frame.at \in {"taken", "push", "commit"} =>
           mem.frame.at \in {"taken", "push", "commit"},
         life = "starting" => mem'.frame = NoFrame,
         life # "starting" => mem'.hydrating = 0, mem'.hydrate \subseteq mem.hydrate,
         life = "switching" => mem'.push[m].at = "rest", Local(m)'
  PROVE  DeliveryInv'
<1>0. DeliveryTypeOK /\ Orderly /\ \A x \in Message : Local(x)
  BY DeliveryParts
<1>1. DeliveryTypeOK'
  BY <1>0 DEF DeliveryTypeOK, StoresAfter
<1>2. \A x \in Message : x # m => Local(x)'
  BY <1>0, <1>1, Bystander DEF StoresAfter
<1>3. life = "switching" => \A x \in Message : ~Running(mem', x)
  BY <1>0 DEF Orderly, Running, MemoryKeeps
<1>4. Orderly'
  <2>1. disk'.cursor = disk.cursor /\ hub'.posted = hub.posted /\ life' = life
    BY DEF StoresAfter
  <2>2. \A q \in Queue : mem'.flush[q] # 0 =>
          mem'.queue[q] # <<>> /\ mem'.flush[q] = Head(mem'.queue[q])
    BY DEF FlushOK
  <2>3. life \in {"up", "draining"} => mem'.hydrate = {}
    BY <1>0 DEF Orderly
  <2>4. mem'.frame.at \in {"taken", "push", "commit"} => mem'.frame.m = disk.cursor + 1
    BY <1>0 DEF Orderly
  <2>5. QED  BY <1>0, <1>3, <2>1, <2>2, <2>3, <2>4 DEF Orderly
<1>5. \A x \in Message : Local(x)'
  BY <1>2
<1>6. QED  BY <1>1, <1>4, <1>5 DEF DeliveryInv, Local

\* A push of m may have begun: what it knows then.
Begun(m) ==
  \/ mem'.push[m] = mem.push[m]
  \/ At(m) = "rest" /\ mem'.push[m].at = "begin"
  \/ At(m) = "rest" /\ mem'.push[m].at = "receipt" /\ m \in mem.waiting

\* The message is named by the checkpoint if it has no permit.
LEMMA DispatchLocal ==
  ASSUME DeliveryInv, NEW m \in Message, UNCHANGED <<hub, codex, disk, life>>, Begun(m),
         m \in mem'.permits <=> m \in mem.permits, m \in mem'.waiting <=> m \in mem.waiting,
         m \in mem'.doubt <=> m \in mem.doubt, m \in mem'.done <=> m \in mem.done,
         Free(m) => m \in disk.pending,
         m \in mem.hydrate => m \in mem'.hydrate \/ ~Exposed(m), Keeps(m)'
  PROVE  Local(m)'
<1>1. DeliveryTypeOK /\ Local(m)
  BY DeliveryParts
<1>2. (Free(m)' <=> Free(m)) /\ (Exposed(m)' <=> Exposed(m)) /\ At(m)' = mem'.push[m].at
  BY DEF Free, Exposed, At
<1>3. /\ At(m)' = At(m) \/ (At(m) = "rest" /\ At(m)' \in {"begin", "receipt"})
      /\ At(m)' = "receipt" => At(m) = "receipt" \/ m \in mem.waiting
  BY <1>2 DEF Begun, At
<1>4. Shown(m)'
  BY <1>1, <1>2, <1>3 DEF Local, Shown
<1>5. Held(m)'
  BY <1>1, <1>2, <1>3 DEF Local, Held, Pushing
<1>6. Reserves(m)'
  BY <1>1, <1>2 DEF Local, Reserves
<1>7. QED  BY <1>4, <1>5, <1>6 DEF Local

\* A memory in which the push of m has begun, if it was not running.
BegunFrom(e, me, m) ==
  /\ e \in MemRow
  /\ e.queue = me.queue /\ e.flush = me.flush /\ e.frame = me.frame
  /\ e.permits = me.permits /\ e.waiting = me.waiting /\ e.doubt = me.doubt
  /\ e.done = me.done /\ e.deferred = me.deferred /\ e.deferring = me.deferring
  /\ e.hydrate = me.hydrate /\ e.hydrating = me.hydrating
  /\ \A x \in Message : x # m => e.push[x] = me.push[x]
  /\ \/ e.push[m] = me.push[m] /\ me.push[m].at # "rest"
     \/ me.push[m].at = "rest" /\ e.push[m].at = "begin" /\ m \notin me.waiting
     \/ me.push[m].at = "rest" /\ e.push[m].at = "receipt" /\ m \in me.waiting

LEMMA BeginRow ==
  ASSUME NEW me \in MemRow, NEW m \in Message, NEW how \in {"wake", "steer", "inject", "queue"}
  PROVE  BegunFrom(Begin(me, m, how), me, m)
<1> USE DEF BegunFrom
<1> DEFINE e == Begin(me, m, how)
           p == IF m \in me.waiting THEN [at |-> "receipt", how |-> "none"]
                ELSE [at |-> "begin", how |-> how]
<1>1. CASE me.push[m].at # "rest"
  <2>1. e = me
    BY <1>1 DEF Begin, Running
  <2>2. QED  BY <1>1, <2>1
<1>2. CASE me.push[m].at = "rest"
  <2>1. p \in PushRow /\ p.at = IF m \in me.waiting THEN "receipt" ELSE "begin"
    BY DEF PushRow
  <2>2. e = [me EXCEPT !.push[m] = p]
    BY <1>2 DEF Begin, Running
  <2> HIDE DEF p, e
  <2>3. /\ e.queue = me.queue /\ e.flush = me.flush /\ e.frame = me.frame
        /\ e.permits = me.permits /\ e.waiting = me.waiting /\ e.doubt = me.doubt
        /\ e.done = me.done /\ e.deferred = me.deferred /\ e.deferring = me.deferring
        /\ e.hydrate = me.hydrate /\ e.hydrating = me.hydrating
        /\ e.push = [me.push EXCEPT ![m] = p]
    BY <2>2 DEF MemRow
  <2>4. /\ e.push \in [Message -> PushRow] /\ e.push[m] = p
        /\ \A x \in Message : x # m => e.push[x] = me.push[x]
    BY <2>1, <2>3 DEF MemRow
  <2>5. e \in MemRow
    BY <2>2, <2>3, <2>4 DEF MemRow
  <2>6. QED  BY <1>2, <2>1, <2>3, <2>4, <2>5 DEF e
<1>3. QED  BY <1>1, <1>2

LEMMA NotedRow ==
  ASSUME NEW me \in MemRow, NEW m \in Message, FlushOK(me)
  PROVE  LET e == Noted(me, m)
         IN  /\ e \in MemRow /\ FlushOK(e) /\ e.push = me.push /\ e.frame = me.frame
             /\ e.permits = me.permits /\ e.waiting = me.waiting /\ e.doubt = me.doubt
             /\ e.done = me.done /\ e.deferring = me.deferring
             /\ e.hydrate = me.hydrate /\ e.hydrating = me.hydrating
             /\ \A x : x # m => /\ x \in e.deferred <=> x \in me.deferred
                                /\ InQueue(e, x) <=> InQueue(me, x)
             /\ m \in me.done \/ InQueue(e, m) \/ (Draining /\ m \in e.deferred)
             /\ ~Draining => e.deferred = me.deferred
<1> DEFINE e == Noted(me, m)
<1>1. CASE m \in me.done
  <2>1. e = me
    BY <1>1 DEF Noted
  <2>2. QED  BY <1>1, <2>1
<1>2. CASE m \notin me.done /\ Draining
  <2>1. e = [me EXCEPT !.deferred = @ \cup {m}]
    BY <1>2 DEF Noted
  <2> HIDE DEF e
  <2>2. /\ e.queue = me.queue /\ e.flush = me.flush /\ e.push = me.push /\ e.frame = me.frame
        /\ e.permits = me.permits /\ e.waiting = me.waiting /\ e.doubt = me.doubt
        /\ e.done = me.done /\ e.deferring = me.deferring
        /\ e.hydrate = me.hydrate /\ e.hydrating = me.hydrating
        /\ e.deferred = me.deferred \cup {m} /\ e \in MemRow
    BY <2>1 DEF MemRow
  <2>3. FlushOK(e) /\ \A x : InQueue(e, x) <=> InQueue(me, x)
    BY <2>2, InQueueIsIn DEF FlushOK
  <2>4. QED  BY <1>2, <2>2, <2>3 DEF e
<1>3. CASE m \notin me.done /\ ~Draining /\ InQueue(me, m)
  <2>1. e = me
    BY <1>3 DEF Noted, Enqueued
  <2>2. QED  BY <1>3, <2>1
<1>4. CASE m \notin me.done /\ ~Draining /\ ~InQueue(me, m)
  <2>1. e = [me EXCEPT !.queue[QueueOf(m)] = Append(@, m)] /\ QueueOf(m) \in Queue
    BY <1>4 DEF Noted, Enqueued, QueueOf, Queue
  <2> DEFINE k == QueueOf(m)
  <2> HIDE DEF e, k
  <2>2. e = [me EXCEPT !.queue[k] = Append(@, m)] /\ k \in Queue
    BY <2>1 DEF k
  <2>3. /\ e.flush = me.flush /\ e.push = me.push /\ e.frame = me.frame
        /\ e.permits = me.permits /\ e.waiting = me.waiting /\ e.doubt = me.doubt
        /\ e.done = me.done /\ e.deferring = me.deferring /\ e.deferred = me.deferred
        /\ e.hydrate = me.hydrate /\ e.hydrating = me.hydrating
        /\ e.queue = [me.queue EXCEPT ![k] = Append(@, m)]
    BY <2>2 DEF MemRow
  <2>4. me.queue \in [Queue -> Seq(Message)] /\ me.queue[k] \in Seq(Message)
    BY <2>2 DEF MemRow
  <2>5. /\ e.queue[k] = Append(me.queue[k], m)
        /\ \A q \in Queue : q # k => e.queue[q] = me.queue[q]
    BY <2>2, <2>3, <2>4
  <2>6. e.queue \in [Queue -> Seq(Message)]
    BY <2>2, <2>3, <2>4, InAppend
  <2>7. e \in MemRow
    BY <2>2, <2>3, <2>6 DEF MemRow
  <2>8. FlushOK(e)
    BY <2>3, <2>4, <2>5, InAppend DEF FlushOK
  <2>9. InQueue(e, m) /\ \A x : x # m => (InQueue(e, x) <=> InQueue(me, x))
    <3>1. \A x : In(e.queue[k], x) <=> In(me.queue[k], x) \/ x = m
      BY <2>4, <2>5, InAppend
    <3>2. \A q \in Queue : q # k => e.queue[q] = me.queue[q]
      BY <2>5
    <3>3. InQueue(e, m)
      BY <2>2, <3>1, InQueueIsIn
    <3>4. ASSUME NEW x, x # m  PROVE InQueue(e, x) <=> InQueue(me, x)
      <4>1. \A q \in Queue : In(e.queue[q], x) <=> In(me.queue[q], x)
        BY <3>1, <3>2, <3>4
      <4>2. QED  BY <4>1, InQueueIsIn
    <3>5. QED  BY <3>3, <3>4
  <2>10. QED  BY <1>4, <2>3, <2>7, <2>8, <2>9 DEF e
<1>5. QED  BY <1>1, <1>2, <1>3, <1>4

LEMMA ActionIs ==
  ASSUME NEW me, NEW m
  PROVE  Action(me, m) \in {"wake", "steer", "inject", "queue"}
BY DEF Action

\* Another step of its frame.
LEMMA FrameAt ==
  ASSUME NEW e \in MemRow, NEW s \in {"push", "commit"}
  PROVE  LET g == [e EXCEPT !.frame.at = s]
         IN  /\ g \in MemRow /\ g.frame.m = e.frame.m /\ g.frame.at = s
             /\ g.queue = e.queue /\ g.flush = e.flush /\ g.push = e.push
             /\ g.permits = e.permits /\ g.waiting = e.waiting /\ g.doubt = e.doubt
             /\ g.done = e.done /\ g.deferred = e.deferred /\ g.deferring = e.deferring
             /\ g.hydrate = e.hydrate /\ g.hydrating = e.hydrating
<1> DEFINE g == [e EXCEPT !.frame.at = s]
<1>1. e.frame \in FrameRow
  BY DEF MemRow
<1>2. /\ g.frame = [e.frame EXCEPT !.at = s]
      /\ g.queue = e.queue /\ g.flush = e.flush /\ g.push = e.push
      /\ g.permits = e.permits /\ g.waiting = e.waiting /\ g.doubt = e.doubt
      /\ g.done = e.done /\ g.deferred = e.deferred /\ g.deferring = e.deferring
      /\ g.hydrate = e.hydrate /\ g.hydrating = e.hydrating
  BY DEF MemRow
<1>3. /\ g.frame \in FrameRow /\ g.frame.m = e.frame.m /\ g.frame.at = s
  BY <1>1, <1>2 DEF FrameRow
<1>4. g \in MemRow
  BY <1>3 DEF MemRow
<1>5. QED  BY <1>2, <1>3, <1>4

LEMMA StoresSameAfter ==
  ASSUME DeliveryTypeOK, NEW m \in Message, UNCHANGED <<hub, codex, disk, life, spent>>
  PROVE  StoresAfter(m)
BY PermitsAre, StoresStep

LEMMA DispatchFrameKeeps ==
  ASSUME DeliveryInv, NEW m \in Message, DispatchFrame(m)
  PROVE  DeliveryInv'
<1>0. DeliveryTypeOK /\ Orderly /\ Local(m) /\ mem \in MemRow /\ m # 0
  BY DeliveryParts, Types, MessageFacts
<1>1. mem.frame.m = m /\ mem.frame.at = "taken" /\ UNCHANGED <<hub, codex, disk, life, spent>>
      /\ mem.frame # NoFrame
  BY FrameFacts DEF DispatchFrame
<1>2. life \in {"up", "draining", "switching"} /\ FlushOK(mem) /\ StoresAfter(m)
  BY <1>0, <1>1, FrameInProcess, StoresSameAfter DEF Orderly, FlushOK
<1>3. m = disk.cursor + 1 /\ disk.cursor \in Nat /\ mem.hydrating = 0
  BY <1>0, <1>1, <1>2, Types DEF Orderly
<1>4. Free(m) => m \in disk.pending /\ m \notin mem.done
  BY <1>0, <1>1 DEF Local, Reserves, Held, Free
<1>5. (Free(m)' <=> Free(m)) /\ disk'.cursor = disk.cursor /\ ~(m <= disk.cursor)
  BY <1>1, <1>3 DEF Free
<1>6. CASE AtOnce(mem, m)
  <2> DEFINE e == Noted(mem, m)
  <2>1. mem' = [e EXCEPT !.frame.at = "commit"]
    BY <1>6 DEF DispatchFrame
  <2>2. /\ e \in MemRow /\ FlushOK(e) /\ e.push = mem.push /\ e.frame = mem.frame
        /\ e.permits = mem.permits /\ e.waiting = mem.waiting /\ e.doubt = mem.doubt
        /\ e.done = mem.done /\ e.hydrate = mem.hydrate /\ e.hydrating = mem.hydrating
        /\ \A x : x # m => /\ x \in e.deferred <=> x \in mem.deferred
                           /\ InQueue(e, x) <=> InQueue(mem, x)
        /\ m \in mem.done \/ InQueue(e, m) \/ m \in e.deferred
    BY <1>0, <1>2, NotedRow
  <2> HIDE DEF e
  <2>3. /\ mem' \in MemRow /\ mem'.frame.m = e.frame.m /\ mem'.frame.at = "commit"
        /\ mem'.queue = e.queue /\ mem'.flush = e.flush /\ mem'.push = e.push
        /\ mem'.permits = e.permits /\ mem'.waiting = e.waiting /\ mem'.doubt = e.doubt
        /\ mem'.done = e.done /\ mem'.deferred = e.deferred
        /\ mem'.hydrate = e.hydrate /\ mem'.hydrating = e.hydrating
    BY <2>1, <2>2, FrameAt
  <2>4. FlushOK(mem') /\ \A x : InQueue(mem', x) <=> InQueue(e, x)
    BY <2>2, <2>3, InQueueIsIn DEF FlushOK
  <2>5. \A x \in Message : x # m => MemoryKeeps(x)
    BY <1>1, <2>2, <2>3, <2>4 DEF MemoryKeeps
  <2>6. Free(m) => Waits(m)'
    BY <1>4, <2>2, <2>3, <2>4 DEF Waits
  <2>7. At(m)' = At(m) /\ (life = "switching" => At(m) = "rest")
    BY <1>0, <2>2, <2>3 DEF At, Orderly, Running
  <2>8. At(m) \in {"prepare", "sent"} => Waits(m)'
    <3>1. At(m) \in {"prepare", "sent"} => Waits(m)
      BY <1>0, <1>1, <1>3 DEF Local, Keeps
    <3>2. At(m) \in {"prepare", "sent"} => m \notin mem.done
      BY <1>0 DEF Local, Held, Pushing
    <3>3. QED  BY <3>2, <2>2, <2>3, <2>4 DEF Waits
  <2>9. Keeps(m)'
    BY <1>1, <1>2, <1>5, <2>6, <2>7, <2>8 DEF Keeps
  <2>10. Begun(m)
    BY <2>2, <2>3 DEF Begun
  <2>11. Local(m)'
    BY <1>1, <1>4, <2>2, <2>3, <2>9, <2>10, DispatchLocal
  <2>12. QED
    BY <1>1, <1>2, <1>3, <2>2, <2>3, <2>4, <2>5, <2>7, <2>11, MemStepKeeps DEF At
<1>7. CASE ~AtOnce(mem, m)
  <2> DEFINE how == Action(mem, m)
             e == Begin(mem, m, how)
  <2>1. mem' = [e EXCEPT !.frame.at = "push"]
    BY <1>7 DEF DispatchFrame
  <2>h. how \in {"wake", "steer", "inject", "queue"}
    BY ActionIs
  <2> HIDE DEF how
  <2>b. BegunFrom(e, mem, m)
    BY <1>0, <2>h, BeginRow
  <2> HIDE DEF e
  <2>2. /\ e \in MemRow
        /\ e.queue = mem.queue /\ e.flush = mem.flush /\ e.frame = mem.frame
        /\ e.permits = mem.permits /\ e.waiting = mem.waiting /\ e.doubt = mem.doubt
        /\ e.done = mem.done /\ e.deferred = mem.deferred
        /\ e.hydrate = mem.hydrate /\ e.hydrating = mem.hydrating
        /\ \A x \in Message : x # m => e.push[x] = mem.push[x]
        /\ \/ e.push[m] = mem.push[m] /\ mem.push[m].at # "rest"
           \/ mem.push[m].at = "rest" /\ e.push[m].at = "begin" /\ m \notin mem.waiting
           \/ mem.push[m].at = "rest" /\ e.push[m].at = "receipt" /\ m \in mem.waiting
    BY <2>b DEF BegunFrom
  <2>3. /\ mem' \in MemRow /\ mem'.frame.m = e.frame.m /\ mem'.frame.at = "push"
        /\ mem'.queue = e.queue /\ mem'.flush = e.flush /\ mem'.push = e.push
        /\ mem'.permits = e.permits /\ mem'.waiting = e.waiting /\ mem'.doubt = e.doubt
        /\ mem'.done = e.done /\ mem'.deferred = e.deferred
        /\ mem'.hydrate = e.hydrate /\ mem'.hydrating = e.hydrating
    BY <2>1, <2>2, FrameAt
  <2>4. FlushOK(mem') /\ \A x : InQueue(mem', x) <=> InQueue(mem, x)
    BY <1>2, <2>2, <2>3, InQueueIsIn DEF FlushOK
  <2>5. \A x \in Message : x # m => MemoryKeeps(x)
    BY <1>1, <2>2, <2>3, <2>4 DEF MemoryKeeps
  <2>6. life = "up"
    BY <1>2, <1>7 DEF AtOnce, Draining
  <2>7. Keeps(m)'
    BY <1>1, <1>5, <2>2, <2>3, <2>6 DEF Keeps
  <2>8. Begun(m)
    BY <2>2, <2>3 DEF Begun, At
  <2>9. Local(m)'
    BY <1>1, <1>4, <2>2, <2>3, <2>7, <2>8, DispatchLocal
  <2>10. QED
    BY <1>1, <1>2, <1>3, <2>2, <2>3, <2>4, <2>5, <2>6, <2>9, MemStepKeeps
<1>8. QED  BY <1>6, <1>7

\* A head that another push has delivered leaves its queue.
LEMMA HeadIsDone ==
  ASSUME DeliveryInv, NEW q \in Queue, NEW m \in Message, mem.queue[q] # <<>>,
         m = Head(mem.queue[q]), m \in mem.done, mem.flush[q] = 0, life # "down",
         NEW g \in BOOLEAN,
         mem' = [mem EXCEPT !.queue[q] = Tail(@), !.held = @ \ {m}, !.going = g],
         UNCHANGED <<hub, codex, disk, life, spent>>
  PROVE  DeliveryInv'
<1>0. DeliveryTypeOK /\ Orderly /\ Local(m) /\ mem \in MemRow
  BY DeliveryParts, Types
<1>1. mem.queue \in [Queue -> Seq(Message)] /\ mem.queue[q] \in Seq(Message)
  BY <1>0 DEF MemRow
<1>2. /\ mem'.flush = mem.flush /\ mem'.push = mem.push /\ mem'.frame = mem.frame
      /\ mem'.permits = mem.permits /\ mem'.waiting = mem.waiting /\ mem'.doubt = mem.doubt
      /\ mem'.done = mem.done /\ mem'.deferring = mem.deferring /\ mem'.deferred = mem.deferred
      /\ mem'.hydrate = mem.hydrate /\ mem'.hydrating = mem.hydrating
      /\ mem'.queue = [mem.queue EXCEPT ![q] = Tail(@)] /\ mem'.held = mem.held \ {m}
  BY <1>0 DEF MemRow
<1>3. mem'.queue[q] = Tail(mem.queue[q]) /\ \A r \in Queue : r # q => mem'.queue[r] = mem.queue[r]
  BY <1>1, <1>2
<1>4. mem'.queue \in [Queue -> Seq(Message)]
  BY <1>1, <1>2, InTail
<1>5. mem' \in MemRow
  BY <1>0, <1>2, <1>4 DEF MemRow
<1>6. FlushOK(mem')
  BY <1>0, <1>2, <1>3 DEF FlushOK, Orderly
<1>7. ASSUME NEW x  PROVE (InQueue(mem', x) => InQueue(mem, x))
                          /\ (x # m /\ InQueue(mem, x) => InQueue(mem', x))
  <2>1. (In(Tail(mem.queue[q]), x) => In(mem.queue[q], x))
        /\ (x # m /\ In(mem.queue[q], x) => In(Tail(mem.queue[q]), x))
    BY <1>1, InTail
  <2>2. \A r \in Queue : /\ In(mem'.queue[r], x) => In(mem.queue[r], x)
                         /\ x # m /\ In(mem.queue[r], x) => In(mem'.queue[r], x)
    BY <2>1, <1>3
  <2>3. QED  BY <2>2, InQueueIsIn
<1>8. \A x \in Message : x # m => MemoryKeeps(x)
  BY <1>2, <1>7 DEF MemoryKeeps
<1>9. ~Free(m) /\ At(m) \notin Pushing
  BY <1>0 DEF Local, Held, Free
<1>10. StoresAfter(m)
  BY <1>0, StoresSameAfter
<1>11. Keeps(m)'
  <2>1. (Free(m)' <=> Free(m)) /\ At(m)' = At(m) /\ (Running(mem, m)' <=> Running(mem, m))
    BY <1>2 DEF Free, At, Running
  <2>2. (life = "starting" /\ m \in mem.hydrate => ~Running(mem, m) /\ ~InQueue(mem, m))'
    BY <1>0, <1>2, <1>7, <2>1 DEF Local, Keeps
  <2>3. QED  BY <1>9, <2>1, <2>2 DEF Keeps, Pushing
<1>12. Begun(m)
  BY <1>2 DEF Begun
<1>13. Local(m)'
  BY <1>2, <1>9, <1>11, <1>12, DispatchLocal
<1>14. life = "switching" => mem'.push[m].at = "rest"
  BY <1>0, <1>2 DEF Orderly, Running
<1>15. QED
  BY <1>0, <1>2, <1>5, <1>6, <1>8, <1>10, <1>13, <1>14, MemStepKeeps DEF Orderly

LEMMA HeadIsPushed ==
  ASSUME DeliveryInv, NEW q \in Queue, NEW m \in Message, mem.queue[q] # <<>>,
         m = Head(mem.queue[q]), life \in {"starting", "up"},
         NEW g \in BOOLEAN, NEW p \in PushRow,
         p = mem.push[m] \/ (At(m) = "rest" /\ p.at = "begin"),
         mem' = [mem EXCEPT !.flush[q] = m, !.going = g, !.push[m] = p],
         UNCHANGED <<hub, codex, disk, life, spent>>
  PROVE  DeliveryInv'
<1>0. DeliveryTypeOK /\ Orderly /\ Local(m) /\ mem \in MemRow
  BY DeliveryParts, Types
<1>1. mem.queue[q] \in Seq(Message) /\ mem.flush \in [Queue -> 0 .. MaxMessage]
      /\ mem.push \in [Message -> PushRow] /\ m \in 0 .. MaxMessage
  BY <1>0, MessageFacts DEF MemRow
<1>2. InQueue(mem, m)
  BY <1>1, InTail, InQueueIsIn
<1>4. mem' = [mem EXCEPT !.flush = [mem.flush EXCEPT ![q] = m], !.going = g,
                         !.push = [mem.push EXCEPT ![m] = p]]
  BY <1>0 DEF MemRow
<1>5. /\ mem'.queue = mem.queue /\ mem'.frame = mem.frame
      /\ mem'.permits = mem.permits /\ mem'.waiting = mem.waiting /\ mem'.doubt = mem.doubt
      /\ mem'.done = mem.done /\ mem'.deferring = mem.deferring /\ mem'.deferred = mem.deferred
      /\ mem'.hydrate = mem.hydrate /\ mem'.hydrating = mem.hydrating
      /\ mem'.flush = [mem.flush EXCEPT ![q] = m]
      /\ mem'.push = [mem.push EXCEPT ![m] = p]
  BY <1>0, <1>4 DEF MemRow
<1>6. /\ mem'.push \in [Message -> PushRow] /\ mem'.push[m] = p
      /\ \A x \in Message : x # m => mem'.push[x] = mem.push[x]
  BY <1>1, <1>5
<1>7. mem'.flush \in [Queue -> 0 .. MaxMessage]
      /\ mem'.flush[q] = m /\ \A r \in Queue : r # q => mem'.flush[r] = mem.flush[r]
  BY <1>1, <1>5
<1>8. mem' \in MemRow
  BY <1>0, <1>4, <1>6, <1>7, <1>5 DEF MemRow
<1>9. FlushOK(mem')
  BY <1>0, <1>5, <1>7 DEF FlushOK, Orderly
<1>10. \A x : InQueue(mem', x) <=> InQueue(mem, x)
  BY <1>5, InQueueIsIn
<1>11. \A x \in Message : x # m => MemoryKeeps(x)
  BY <1>5, <1>6, <1>10 DEF MemoryKeeps
<1>12. Free(m) => m \in disk.pending
  BY <1>0, <1>2 DEF Local, Reserves
<1>13. Keeps(m)'
  <2>1. (Free(m)' <=> Free(m)) /\ (Waits(m)' <=> Waits(m))
    BY <1>5, <1>10 DEF Free, Waits
  <2>2. Waits(m)'
    BY <1>2, <2>1 DEF Waits
  <2>3. ~(life = "starting" /\ m \in mem.hydrate)
    BY <1>0, <1>2 DEF Local, Keeps
  <2>4. QED  BY <1>5, <2>2, <2>3 DEF Keeps
<1>14. Begun(m)
  BY <1>6 DEF Begun
<1>15. Local(m)'
  BY <1>5, <1>12, <1>13, <1>14, DispatchLocal
<1>16. StoresAfter(m)
  BY <1>0, StoresSameAfter
<1>17. QED
  BY <1>0, <1>5, <1>8, <1>9, <1>11, <1>15, <1>16, MemStepKeeps DEF Orderly

LEMMA DrainQueueKeeps ==
  ASSUME DeliveryInv, NEW q \in Queue, DrainQueue(q)
  PROVE  DeliveryInv'
<1>1. DeliveryTypeOK
  BY DeliveryParts
<1> DEFINE m == Head(mem.queue[q])
           how == IF q = "important" /\ mem.turn THEN "steer" ELSE "inject"
<1>2. m \in Message
  <2>1. mem.queue[q] \in Seq(Message)
    BY <1>1, Types DEF MemRow
  <2>2. mem.queue[q] # <<>>
    BY DEF DrainQueue
  <2>3. QED  BY <2>1, <2>2, InTail
<1>3. CASE m \in mem.done
  <2> DEFINE g == StillGoing(mem, q, Tail(mem.queue[q]) # <<>>)
  <2>1. g \in BOOLEAN
    BY <1>1, Types DEF MemRow, StillGoing
  <2>2. /\ mem' = [mem EXCEPT !.queue[q] = Tail(@), !.held = @ \ {m}, !.going = g]
        /\ UNCHANGED <<hub, codex, disk, life, spent>>
        /\ life \in {"starting", "up"} /\ mem.queue[q] # <<>> /\ mem.flush[q] = 0
    BY <1>3 DEF DrainQueue
  <2> HIDE DEF g, m
  <2>3. QED  BY <1>2, <1>3, <2>1, <2>2, HeadIsDone DEF m
<1>4. CASE m \notin mem.done
  <2> DEFINE p == IF Running(mem, m) THEN mem.push[m] ELSE [at |-> "begin", how |-> how]
             g == mem.going \/ q = "normal"
  <2>1. /\ p \in PushRow /\ (p = mem.push[m] \/ (At(m) = "rest" /\ p.at = "begin"))
        /\ g \in BOOLEAN
    BY <1>1, <1>2, Types DEF MemRow, Running, At, PushRow
  <2>2. mem' = [mem EXCEPT !.flush[q] = m, !.going = @ \/ q = "normal",
                  !.push[m] = IF Running(mem, m) THEN @ ELSE [at |-> "begin", how |-> how]]
    BY <1>4 DEF DrainQueue
  <2>3. /\ UNCHANGED <<hub, codex, disk, life, spent>>
        /\ life \in {"starting", "up"} /\ mem.queue[q] # <<>>
        /\ m = Head(mem.queue[q])
    BY <1>4 DEF DrainQueue
  <2> HIDE DEF how, m
  <2>4. mem' = [mem EXCEPT !.flush[q] = m, !.going = g, !.push[m] = p]
    BY <1>1, <1>2, <2>2, Types DEF MemRow
  <2> HIDE DEF g, p
  <2>5. QED  BY <1>2, <2>1, <2>3, <2>4, HeadIsPushed
<1>5. QED  BY <1>3, <1>4

LEMMA DeferredIsDispatched ==
  ASSUME DeliveryInv, NEW m \in Message, m \in mem.deferred, life = "up",
         UNCHANGED <<hub, codex, disk, life, spent>>,
         mem' = IF AtOnce(mem, m) THEN [Noted(mem, m) EXCEPT !.deferred = @ \ {m}]
                ELSE [Begin(mem, m, Action(mem, m)) EXCEPT !.deferring = m]
  PROVE  DeliveryInv'
<1>0. DeliveryTypeOK /\ Orderly /\ mem \in MemRow /\ FlushOK(mem)
  BY DeliveryParts, Types DEF Orderly, FlushOK
<1>1. m \in mem.deferred /\ m \in Message
  OBVIOUS
<1>2. life = "up" /\ UNCHANGED <<hub, codex, disk, life, spent>>
  OBVIOUS
<1>3. Local(m) /\ StoresAfter(m) /\ m \in 0 .. MaxMessage
  BY <1>0, <1>1, <1>2, DeliveryParts, StoresSameAfter, MessageFacts
<1>4. (Free(m) => m \in disk.pending) /\ (Free(m) => m \notin mem.done)
      /\ (At(m) \in {"prepare", "sent"} => m \notin mem.done)
  BY <1>1, <1>3 DEF Local, Reserves, Held, Free, Pushing
<1>5. CASE AtOnce(mem, m)
  <2> DEFINE e == Noted(mem, m)
  <2>1. mem' = [e EXCEPT !.deferred = @ \ {m}]
    BY <1>5
  <2>2. /\ e \in MemRow /\ FlushOK(e) /\ e.push = mem.push /\ e.frame = mem.frame
        /\ e.permits = mem.permits /\ e.waiting = mem.waiting /\ e.doubt = mem.doubt
        /\ e.done = mem.done /\ e.hydrate = mem.hydrate /\ e.hydrating = mem.hydrating
        /\ \A x : x # m => /\ x \in e.deferred <=> x \in mem.deferred
                           /\ InQueue(e, x) <=> InQueue(mem, x)
        /\ m \in mem.done \/ InQueue(e, m)
    BY <1>0, <1>1, <1>2, NotedRow DEF Draining
  <2> HIDE DEF e
  <2>3. /\ mem' \in MemRow /\ mem'.frame = e.frame
        /\ mem'.queue = e.queue /\ mem'.flush = e.flush /\ mem'.push = e.push
        /\ mem'.permits = e.permits /\ mem'.waiting = e.waiting /\ mem'.doubt = e.doubt
        /\ mem'.done = e.done /\ mem'.deferred = e.deferred \ {m}
        /\ mem'.hydrate = e.hydrate /\ mem'.hydrating = e.hydrating
    BY <2>1, <2>2 DEF MemRow
  <2>4. FlushOK(mem') /\ \A x : InQueue(mem', x) <=> InQueue(e, x)
    BY <2>2, <2>3, InQueueIsIn DEF FlushOK
  <2>5. \A x \in Message : x # m => MemoryKeeps(x)
    BY <2>2, <2>3, <2>4 DEF MemoryKeeps
  <2>6. m \notin mem.done => Waits(m)'
    BY <2>2, <2>4 DEF Waits
  <2>7. At(m)' = At(m) /\ (Free(m)' <=> Free(m))
    BY <1>2, <2>2, <2>3 DEF At, Free
  <2>8. Keeps(m)'
    BY <1>2, <1>4, <2>6, <2>7 DEF Keeps
  <2>9. Begun(m)
    BY <2>2, <2>3 DEF Begun
  <2>10. Local(m)'
    BY <1>1, <1>2, <1>4, <2>2, <2>3, <2>8, <2>9, DispatchLocal
  <2>11. QED
    BY <1>0, <1>1, <1>2, <1>3, <2>2, <2>3, <2>4, <2>5, <2>10, MemStepKeeps DEF Orderly
<1>6. CASE ~AtOnce(mem, m)
  <2> DEFINE how == Action(mem, m)
             e == Begin(mem, m, how)
  <2>1. mem' = [e EXCEPT !.deferring = m]
    BY <1>6
  <2>2. how \in {"wake", "steer", "inject", "queue"}
    BY ActionIs
  <2> HIDE DEF how
  <2>3. BegunFrom(e, mem, m)
    BY <1>0, <1>1, <2>2, BeginRow
  <2> HIDE DEF e
  <2>4. /\ e \in MemRow
        /\ e.queue = mem.queue /\ e.flush = mem.flush /\ e.frame = mem.frame
        /\ e.permits = mem.permits /\ e.waiting = mem.waiting /\ e.doubt = mem.doubt
        /\ e.done = mem.done /\ e.deferred = mem.deferred
        /\ e.hydrate = mem.hydrate /\ e.hydrating = mem.hydrating
        /\ \A x \in Message : x # m => e.push[x] = mem.push[x]
        /\ \/ e.push[m] = mem.push[m] /\ mem.push[m].at # "rest"
           \/ mem.push[m].at = "rest" /\ e.push[m].at = "begin" /\ m \notin mem.waiting
           \/ mem.push[m].at = "rest" /\ e.push[m].at = "receipt" /\ m \in mem.waiting
    BY <2>3 DEF BegunFrom
  <2>5. /\ mem' \in MemRow /\ mem'.frame = e.frame
        /\ mem'.queue = e.queue /\ mem'.flush = e.flush /\ mem'.push = e.push
        /\ mem'.permits = e.permits /\ mem'.waiting = e.waiting /\ mem'.doubt = e.doubt
        /\ mem'.done = e.done /\ mem'.deferred = e.deferred
        /\ mem'.hydrate = e.hydrate /\ mem'.hydrating = e.hydrating
    BY <1>3, <2>1, <2>4 DEF MemRow
  <2>6. FlushOK(mem') /\ \A x : InQueue(mem', x) <=> InQueue(mem, x)
    <3>1. mem'.queue = mem.queue /\ mem'.flush = mem.flush
      BY <2>4, <2>5
    <3>2. FlushOK(mem')
      BY <1>0, <3>1 DEF FlushOK
    <3>3. \A x : InQueue(mem', x) <=> InQueue(mem, x)
      BY <3>1, InQueueIsIn
    <3>4. QED  BY <3>2, <3>3
  <2>7. \A x \in Message : x # m => MemoryKeeps(x)
    BY <2>4, <2>5, <2>6 DEF MemoryKeeps
  <2>8. Waits(m)'
    BY <1>1, <2>4, <2>5 DEF Waits
  <2>9. Keeps(m)'
    BY <1>2, <2>8 DEF Keeps
  <2>10. Begun(m)
    BY <2>4, <2>5 DEF Begun, At
  <2>11. Local(m)'
    BY <1>1, <1>2, <1>4, <2>4, <2>5, <2>9, <2>10, DispatchLocal
  <2>12. QED
    BY <1>0, <1>1, <1>2, <1>3, <2>4, <2>5, <2>6, <2>7, <2>11, MemStepKeeps DEF Orderly
<1>7. QED  BY <1>5, <1>6

LEMMA FlushDeferredKeeps ==
  ASSUME DeliveryInv, FlushDeferred
  PROVE  DeliveryInv'
<1> DEFINE m == Min(mem.deferred)
<1>1. m \in mem.deferred /\ m \in Message
  <2>1. mem.deferred \subseteq Message /\ mem.deferred \subseteq Nat /\ mem.deferred # {}
    BY DeliveryParts, Types, MessageFacts DEF MemRow, FlushDeferred
  <2>2. QED  BY <2>1, MinIsIn
<1>2. /\ life = "up" /\ UNCHANGED <<hub, codex, disk, life, spent>>
      /\ mem' = IF AtOnce(mem, m) THEN [Noted(mem, m) EXCEPT !.deferred = @ \ {m}]
                ELSE [Begin(mem, m, Action(mem, m)) EXCEPT !.deferring = m]
  BY DEF FlushDeferred
<1>3. QED  BY <1>1, <1>2, DeferredIsDispatched

\* What hydration knows of its message.
LEMMA HydrateFacts ==
  ASSUME DeliveryInv, NEW m \in Message, Hydrate(m)
  PROVE  /\ DeliveryTypeOK /\ Orderly /\ Local(m) /\ mem \in MemRow /\ FlushOK(mem)
         /\ m \in mem.hydrate /\ At(m) = "rest" /\ mem.hydrating = 0
         /\ life \in {"starting", "switching"} /\ m \in 0 .. MaxMessage /\ m # 0
         /\ life = "starting" => ~InQueue(mem, m)
         /\ codex.wire[m] \in {"none", "late"}
         /\ UNCHANGED <<codex, life, spent>>
<1>1. DeliveryTypeOK /\ Orderly /\ Local(m) /\ mem \in MemRow /\ FlushOK(mem)
  BY DeliveryParts, Types DEF Orderly, FlushOK
<1>2. mem.hydrating = 0 /\ life \in {"starting", "switching"} /\ UNCHANGED <<codex, life, spent>>
      /\ mem.hydrate # {} /\ m = Min(mem.hydrate)
  BY DEF Hydrate
<1>3. m \in mem.hydrate
  <2>1. mem.hydrate \subseteq Nat
    BY <1>1, MessageFacts DEF MemRow
  <2>2. QED  BY <1>2, <2>1, MinIsIn
<1>4. At(m) = "rest"
  <2>1. life = "starting" => At(m) = "rest"
    BY <1>1, <1>3 DEF Local, Keeps, At, Running
  <2>2. life = "switching" => At(m) = "rest"
    BY <1>1 DEF Orderly, At, Running
  <2>3. QED  BY <1>2, <2>1, <2>2
<1>5. codex.wire[m] \in {"none", "late"}
  <2>1. codex.wire[m] \in WireState
    BY <1>1, Types
  <2>2. QED  BY <1>1, <1>4, <2>1 DEF Local, Shown, WireState
<1>6. life = "starting" => ~InQueue(mem, m)
  BY <1>1, <1>3 DEF Local, Keeps
<1>7. QED  BY <1>1, <1>2, <1>3, <1>4, <1>5, <1>6, MessageFacts

LEMMA HydrateSettles ==
  ASSUME DeliveryInv, NEW m \in Message, Hydrate(m),
         hub.permit[m] = "CONFIRMED" \/ (hub.permit[m] = "AMBIGUOUS" /\ Found(m)),
         hub' = Permit(m, "CONFIRMED"), disk' = [disk EXCEPT !.pending = @ \ {m}],
         mem' = Recovered(m)
  PROVE  DeliveryInv'
<1>0. /\ DeliveryTypeOK /\ Orderly /\ Local(m) /\ mem \in MemRow /\ FlushOK(mem)
      /\ At(m) = "rest" /\ life \in {"starting", "switching"} /\ mem.hydrating = 0
      /\ codex.wire[m] \in {"none", "late"} /\ UNCHANGED <<codex, life, spent>>
  BY HydrateFacts
<1>1. codex.shown[m] = 1 /\ codex.wire[m] = "none" /\ m <= hub.posted
  BY <1>0 DEF Local, Shown, Reserves, Found
<1>2. /\ hub' \in [posted : 0 .. MaxMessage, permit : [Message -> PermitState]]
      /\ hub'.posted = hub.posted /\ hub'.permit[m] = "CONFIRMED"
      /\ \A x \in Message : x # m => hub'.permit[x] = hub.permit[x]
  BY <1>0, PermitsAre, PermitRow
<1>3. /\ disk' \in [cursor : 0 .. MaxMessage, pending : SUBSET Message]
      /\ disk'.cursor = disk.cursor /\ disk'.pending = disk.pending \ {m}
  BY <1>0 DEF DeliveryTypeOK
<1>4. StoresAfter(m)
  <2>1. hub'.posted >= hub.posted
    BY <1>0, <1>2 DEF DeliveryTypeOK
  <2>2. \A x \in Message : x # m => StoresKeep(x)
    BY <1>0, <1>2, <1>3, <2>1 DEF StoresKeep
  <2>3. QED  BY <1>0, <1>2, <1>3, <2>2 DEF StoresAfter, DeliveryTypeOK
<1>5. /\ mem' \in MemRow /\ mem'.queue = mem.queue /\ mem'.flush = mem.flush
      /\ mem'.push = mem.push /\ mem'.frame = mem.frame /\ mem'.deferred = mem.deferred
      /\ mem'.permits = mem.permits \ {m} /\ mem'.waiting = mem.waiting \ {m}
      /\ mem'.doubt = mem.doubt \ {m} /\ mem'.done = mem.done \cup {m}
      /\ mem'.hydrate = mem.hydrate \ {m} /\ mem'.hydrating = mem.hydrating
  BY <1>0 DEF Recovered, MemRow
<1>6. FlushOK(mem')
  BY <1>0, <1>5 DEF FlushOK
<1>7. \A x : InQueue(mem', x) <=> InQueue(mem, x)
  BY <1>5, InQueueIsIn
<1>8. \A x \in Message : x # m => MemoryKeeps(x)
  BY <1>5, <1>7 DEF MemoryKeeps
<1>9. At(m)' = "rest" /\ ~Free(m)'
  BY <1>0, <1>2, <1>5 DEF At, Free
<1>10. Shown(m)'
  BY <1>0, <1>1, <1>9 DEF Shown
<1>11. Held(m)'
  BY <1>2, <1>5, <1>9 DEF Held, Pushing
<1>12. Reserves(m)'
  BY <1>1, <1>2, <1>9 DEF Reserves
<1>13. Keeps(m)'
  BY <1>5, <1>9 DEF Keeps
<1>14. QED
  BY <1>0, <1>4, <1>5, <1>6, <1>8, <1>9, <1>10, <1>11, <1>12, <1>13, MemStepKeeps
     DEF Local, At, Orderly

LEMMA HydrateDoubts ==
  ASSUME DeliveryInv, NEW m \in Message, Hydrate(m), ~Free(m), UNCHANGED <<hub, disk>>,
         mem' = [mem EXCEPT !.doubt = @ \cup {m}, !.hydrate = @ \ {m}]
  PROVE  DeliveryInv'
<1>0. /\ DeliveryTypeOK /\ Orderly /\ Local(m) /\ mem \in MemRow /\ FlushOK(mem)
      /\ At(m) = "rest" /\ life \in {"starting", "switching"} /\ mem.hydrating = 0
      /\ UNCHANGED <<codex, life, spent>>
  BY HydrateFacts
<1>1. StoresAfter(m)
  BY <1>0, StoresSameAfter
<1>2. /\ mem' \in MemRow /\ mem'.queue = mem.queue /\ mem'.flush = mem.flush
      /\ mem'.push = mem.push /\ mem'.frame = mem.frame /\ mem'.deferred = mem.deferred
      /\ mem'.permits = mem.permits /\ mem'.waiting = mem.waiting
      /\ mem'.doubt = mem.doubt \cup {m} /\ mem'.done = mem.done
      /\ mem'.hydrate = mem.hydrate \ {m} /\ mem'.hydrating = mem.hydrating
  BY <1>0 DEF MemRow
<1>3. FlushOK(mem')
  BY <1>0, <1>2 DEF FlushOK
<1>4. \A x : InQueue(mem', x) <=> InQueue(mem, x)
  BY <1>2, InQueueIsIn
<1>5. \A x \in Message : x # m => MemoryKeeps(x)
  BY <1>2, <1>4 DEF MemoryKeeps
<1>6. At(m)' = "rest" /\ ~Free(m)' /\ (Exposed(m)' <=> Exposed(m))
  BY <1>0, <1>2 DEF At, Free, Exposed
<1>7. Shown(m)'
  BY <1>0, <1>2, <1>6 DEF Local, Shown
<1>8. Held(m)'
  BY <1>0, <1>2, <1>6 DEF Local, Held, Pushing
<1>9. Reserves(m)'
  BY <1>0, <1>2, <1>6 DEF Local, Reserves
<1>10. Keeps(m)'
  BY <1>2, <1>6 DEF Keeps
<1>11. QED
  BY <1>0, <1>1, <1>2, <1>3, <1>5, <1>6, <1>7, <1>8, <1>9, <1>10, MemStepKeeps
     DEF Local, At, Orderly

LEMMA HydrateNotes ==
  ASSUME DeliveryInv, NEW m \in Message, Hydrate(m), Free(m), UNCHANGED <<hub, disk>>,
         mem' = [Noted(mem, m) EXCEPT !.hydrate = @ \ {m}]
  PROVE  DeliveryInv'
<1>0. /\ DeliveryTypeOK /\ Orderly /\ Local(m) /\ mem \in MemRow /\ FlushOK(mem)
      /\ At(m) = "rest" /\ life \in {"starting", "switching"} /\ mem.hydrating = 0
      /\ m \in mem.hydrate /\ UNCHANGED <<codex, life, spent>>
  BY HydrateFacts
<1>1. StoresAfter(m) /\ m \in disk.pending /\ ~Exposed(m) /\ m \notin mem.done
  BY <1>0, StoresSameAfter DEF Local, Reserves, Shown, Held, Free
<1> DEFINE e == Noted(mem, m)
<1>2. /\ e \in MemRow /\ FlushOK(e) /\ e.push = mem.push /\ e.frame = mem.frame
      /\ e.permits = mem.permits /\ e.waiting = mem.waiting /\ e.doubt = mem.doubt
      /\ e.done = mem.done /\ e.hydrate = mem.hydrate /\ e.hydrating = mem.hydrating
      /\ \A x : x # m => /\ x \in e.deferred <=> x \in mem.deferred
                         /\ InQueue(e, x) <=> InQueue(mem, x)
      /\ InQueue(e, m) \/ m \in e.deferred
  BY <1>0, <1>1, NotedRow
<1> HIDE DEF e
<1>3. /\ mem' \in MemRow /\ mem'.frame = e.frame
      /\ mem'.queue = e.queue /\ mem'.flush = e.flush /\ mem'.push = e.push
      /\ mem'.permits = e.permits /\ mem'.waiting = e.waiting /\ mem'.doubt = e.doubt
      /\ mem'.done = e.done /\ mem'.deferred = e.deferred
      /\ mem'.hydrate = e.hydrate \ {m} /\ mem'.hydrating = e.hydrating
  BY <1>2 DEF MemRow, e
<1>4. FlushOK(mem')
  BY <1>2, <1>3 DEF FlushOK
<1>5. \A x : InQueue(mem', x) <=> InQueue(e, x)
  BY <1>3, InQueueIsIn
<1>6. \A x \in Message : x # m => MemoryKeeps(x)
  BY <1>2, <1>3, <1>5 DEF MemoryKeeps
<1>7. Waits(m)' /\ m \notin mem'.hydrate /\ mem'.push[m].at = "rest"
  BY <1>0, <1>2, <1>3, <1>5 DEF Waits, At
<1>8. Keeps(m)'
  BY <1>7 DEF Keeps
<1>9. Begun(m)
  BY <1>2, <1>3 DEF Begun
<1>10. Local(m)'
  BY <1>0, <1>1, <1>2, <1>3, <1>8, <1>9, DispatchLocal
<1>11. mem'.frame = mem.frame /\ mem'.hydrating = 0 /\ mem'.hydrate \subseteq mem.hydrate
  BY <1>0, <1>2, <1>3
<1>12. QED
  BY <1>0, <1>1, <1>3, <1>4, <1>6, <1>7, <1>10, <1>11, MemStepKeeps DEF Orderly

LEMMA HydrateBegins ==
  ASSUME DeliveryInv, NEW m \in Message, Hydrate(m), Free(m), UNCHANGED <<hub, disk>>,
         ~AtOnce(mem, m),
         mem' = [Begin(mem, m, Action(mem, m)) EXCEPT !.hydrating = m, !.hydrate = @ \ {m}]
  PROVE  DeliveryInv'
<1>0. /\ DeliveryTypeOK /\ Orderly /\ Local(m) /\ mem \in MemRow /\ FlushOK(mem)
      /\ At(m) = "rest" /\ life \in {"starting", "switching"} /\ mem.hydrating = 0
      /\ m \in mem.hydrate /\ m \in 0 .. MaxMessage /\ m # 0
      /\ UNCHANGED <<codex, life, spent>>
  BY HydrateFacts
<1>1. StoresAfter(m) /\ m \in disk.pending /\ ~Exposed(m) /\ life = "starting"
  BY <1>0, StoresSameAfter DEF Local, Reserves, Shown, AtOnce, Draining
<1> DEFINE how == Action(mem, m)
           e == Begin(mem, m, how)
<1>2. how \in {"wake", "steer", "inject", "queue"}
  BY ActionIs
<1> HIDE DEF how
<1>3. BegunFrom(e, mem, m)
  BY <1>0, <1>2, BeginRow
<1>4. mem' = [e EXCEPT !.hydrating = m, !.hydrate = @ \ {m}]
  BY DEF how
<1> HIDE DEF e
<1>5. /\ e \in MemRow
      /\ e.queue = mem.queue /\ e.flush = mem.flush /\ e.frame = mem.frame
      /\ e.permits = mem.permits /\ e.waiting = mem.waiting /\ e.doubt = mem.doubt
      /\ e.done = mem.done /\ e.deferred = mem.deferred
      /\ e.hydrate = mem.hydrate /\ e.hydrating = mem.hydrating
      /\ \A x \in Message : x # m => e.push[x] = mem.push[x]
      /\ \/ e.push[m].at = "begin" /\ m \notin mem.waiting
         \/ e.push[m].at = "receipt" /\ m \in mem.waiting
  BY <1>0, <1>3 DEF BegunFrom, At
<1>6. /\ mem' \in MemRow /\ mem'.frame = e.frame
      /\ mem'.queue = e.queue /\ mem'.flush = e.flush /\ mem'.push = e.push
      /\ mem'.permits = e.permits /\ mem'.waiting = e.waiting /\ mem'.doubt = e.doubt
      /\ mem'.done = e.done /\ mem'.deferred = e.deferred
      /\ mem'.hydrate = e.hydrate \ {m} /\ mem'.hydrating = m
  <2>1. /\ mem'.frame = e.frame
        /\ mem'.queue = e.queue /\ mem'.flush = e.flush /\ mem'.push = e.push
        /\ mem'.permits = e.permits /\ mem'.waiting = e.waiting /\ mem'.doubt = e.doubt
        /\ mem'.done = e.done /\ mem'.deferred = e.deferred
        /\ mem'.hydrate = e.hydrate \ {m} /\ mem'.hydrating = m
    BY <1>4, <1>5 DEF MemRow
  <2>2. e.hydrate \ {m} \in SUBSET Message /\ e \in MemRow /\ m \in 0 .. MaxMessage
    BY <1>0, <1>5 DEF MemRow
  <2>3. mem' = [e EXCEPT !.hydrating = m, !.hydrate = e.hydrate \ {m}]
    BY <1>4, <1>5 DEF MemRow
  <2>4. mem' \in MemRow
    BY <2>2, <2>3 DEF MemRow
  <2>5. QED  BY <2>1, <2>4
<1>7. mem'.queue = mem.queue /\ mem'.flush = mem.flush /\ mem'.frame = mem.frame
      /\ mem'.hydrate \subseteq mem.hydrate
  BY <1>5, <1>6
<1>8. FlushOK(mem')
  BY <1>0, <1>7 DEF FlushOK
<1>9. \A x : InQueue(mem', x) <=> InQueue(mem, x)
  BY <1>7, InQueueIsIn
<1>10. \A x \in Message : x # m => MemoryKeeps(x)
  BY <1>0, <1>5, <1>6, <1>9, MessageFacts DEF MemoryKeeps
<1>11. Begun(m)
  BY <1>0, <1>5, <1>6 DEF Begun
<1>12. Keeps(m)'
  <2>1. mem'.frame = NoFrame /\ m \notin mem'.hydrate
    BY <1>0, <1>1, <1>6, <1>7 DEF Orderly
  <2>2. QED  BY <1>0, <1>6, <2>1, FrameFacts DEF Keeps
<1>13. Local(m)'
  BY <1>0, <1>1, <1>5, <1>6, <1>11, <1>12, DispatchLocal
<1>14. QED
  BY <1>0, <1>1, <1>6, <1>7, <1>8, <1>10, <1>13, MemStepKeeps DEF Orderly

LEMMA HydrateKeeps ==
  ASSUME DeliveryInv, NEW m \in Message, Hydrate(m)
  PROVE  DeliveryInv'
<1>1. CASE /\ hub.permit[m] = "CONFIRMED" \/ (hub.permit[m] = "AMBIGUOUS" /\ Found(m))
           /\ hub' = Permit(m, "CONFIRMED") /\ disk' = [disk EXCEPT !.pending = @ \ {m}]
           /\ mem' = Recovered(m)
  BY <1>1, HydrateSettles
<1>2. CASE /\ hub.permit[m] \in {"ACTIVE", "AMBIGUOUS"} /\ UNCHANGED <<hub, disk>>
           /\ mem' = [mem EXCEPT !.doubt = @ \cup {m}, !.hydrate = @ \ {m}]
  BY <1>2, HydrateDoubts DEF Free
<1>3. CASE /\ Free(m) /\ AtOnce(mem, m) /\ UNCHANGED <<hub, disk>>
           /\ mem' = [Noted(mem, m) EXCEPT !.hydrate = @ \ {m}]
  BY <1>3, HydrateNotes
<1>4. CASE /\ Free(m) /\ ~AtOnce(mem, m) /\ UNCHANGED <<hub, disk>>
           /\ mem' = [Begin(mem, m, Action(mem, m)) EXCEPT !.hydrating = m, !.hydrate = @ \ {m}]
  BY <1>4, HydrateBegins
<1>5. QED  BY <1>1, <1>2, <1>3, <1>4 DEF Hydrate, Free

----------------------------------------------------------------------------
(* The life of the process.                                                *)

LEMMA FreshFacts ==
  /\ Fresh \in MemRow
  /\ \A h \in SUBSET Message :
       LET me == [Fresh EXCEPT !.hydrate = h]
       IN  /\ me \in MemRow /\ me.hydrate = h /\ me.hydrating = 0 /\ me.frame = NoFrame
           /\ me.waiting = {} /\ me.doubt = {} /\ me.permits = {} /\ me.done = {}
           /\ me.deferred = {} /\ \A q \in Queue : me.flush[q] = 0
           /\ \A x : ~InQueue(me, x)
           /\ \A x \in Message : me.push[x].at = "rest"
  /\ \A x : ~InQueue(Fresh, x)
  /\ \A x \in Message : Fresh.push[x].at = "rest"
  /\ \A q \in Queue : Fresh.flush[q] = 0
<1> DEFINE none == [q \in Queue |-> <<>>]
           zero == [q \in Queue |-> 0]
           rest == [m \in Message |-> Resting]
<1>1. /\ <<>> \in Seq(Message) /\ Resting \in PushRow /\ Resting.at = "rest"
      /\ 0 \in 0 .. MaxMessage /\ DOMAIN <<>> = {}
  BY MessageFacts DEF Resting, PushRow
<1>2. none \in [Queue -> Seq(Message)] /\ zero \in [Queue -> 0 .. MaxMessage]
      /\ rest \in [Message -> PushRow]
  BY <1>1
<1>3. /\ \A q \in Queue : none[q] = <<>> /\ zero[q] = 0
      /\ \A x \in Message : rest[x].at = "rest"
  BY <1>1
<1>4. Fresh = [turn |-> FALSE, told |-> FALSE, queue |-> none, flush |-> zero, going |-> FALSE,
               frame |-> NoFrame, socket |-> "off", target |-> 0, push |-> rest, permits |-> {}, waiting |-> {},
               doubt |-> {}, held |-> {}, done |-> {}, deferred |-> {}, deferring |-> 0,
               hydrate |-> {}, hydrating |-> 0]
  BY DEF Fresh
<1> HIDE DEF none, zero, rest
<1>5. Fresh \in MemRow
  BY <1>1, <1>2, <1>4, FrameFacts DEF MemRow
<1>6. Fresh.queue = none /\ Fresh.flush = zero /\ Fresh.push = rest
  BY <1>4
<1>7. \A x : ~In(<<>>, x)
  BY <1>1 DEF In
<1>8. \A x : ~InQueue(Fresh, x)
  BY <1>3, <1>6, <1>7, InQueueIsIn
<1>9. ASSUME NEW h \in SUBSET Message
      PROVE  LET me == [Fresh EXCEPT !.hydrate = h]
             IN  /\ me \in MemRow /\ me.hydrate = h /\ me.hydrating = 0 /\ me.frame = NoFrame
                 /\ me.waiting = {} /\ me.doubt = {} /\ me.permits = {} /\ me.done = {}
                 /\ me.deferred = {} /\ \A q \in Queue : me.flush[q] = 0
                 /\ \A x : ~InQueue(me, x)
                 /\ \A x \in Message : me.push[x].at = "rest"
  <2> DEFINE me == [Fresh EXCEPT !.hydrate = h]
  <2>1. /\ me.queue = none /\ me.flush = zero /\ me.push = rest /\ me.hydrate = h
        /\ me.hydrating = 0 /\ me.frame = NoFrame
        /\ me.waiting = {} /\ me.doubt = {} /\ me.permits = {} /\ me.done = {}
        /\ me.deferred = {}
    BY <1>4
  <2>2. me \in MemRow
    BY <1>5 DEF MemRow
  <2> HIDE DEF me
  <2>3. \A x : ~InQueue(me, x)
    BY <1>3, <1>7, <2>1, InQueueIsIn
  <2>4. QED  BY <1>3, <2>1, <2>2, <2>3 DEF me
<1>10. QED  BY <1>3, <1>5, <1>6, <1>8, <1>9

LEMMA InitKeeps ==
  ASSUME Init
  PROVE  DeliveryInv
<1>1. /\ hub = [posted |-> 0, permit |-> [m \in Message |-> "NONE"]]
      /\ disk = [cursor |-> 0, pending |-> {}] /\ life = "down" /\ mem = Fresh /\ spent = 0
  BY DEF Init
<1>2. 0 \in 0 .. MaxMessage
  BY MessageFacts
<1>3. hub \in [posted : 0 .. MaxMessage, permit : [Message -> PermitState]]
      /\ hub.posted = 0 /\ \A x \in Message : hub.permit[x] = "NONE"
  BY <1>1, <1>2, PermitsAre
<1>4. PICK t \in BOOLEAN : codex = [shown |-> [m \in Message |-> 0], turn |-> t,
                                   wire |-> [m \in Message |-> "none"]]
  BY DEF Init
<1>5. codex \in [shown : [Message -> Nat], turn : BOOLEAN, wire : [Message -> WireState]]
      /\ \A x \in Message : codex.shown[x] = 0 /\ codex.wire[x] = "none"
  BY <1>4 DEF WireState
<1>6. DeliveryTypeOK
  BY <1>1, <1>2, <1>3, <1>5, FreshFacts DEF DeliveryTypeOK, Life
<1>7. /\ mem.waiting = {} /\ mem.doubt = {} /\ mem.done = {} /\ mem.deferred = {}
      /\ mem.hydrate = {} /\ mem.frame = NoFrame /\ mem.hydrating = 0
  BY <1>1 DEF Fresh
<1>8. ASSUME NEW x \in Message  PROVE Local(x)
  <2>1. At(x) = "rest" /\ ~Exposed(x) /\ ~InQueue(mem, x) /\ ~Running(mem, x)
    BY <1>1, <1>5, FreshFacts DEF At, Exposed, Running
  <2>2. Shown(x)
    BY <1>3, <1>5, <1>7, <2>1 DEF Shown
  <2>3. Held(x)
    BY <1>7, <2>1 DEF Held, Pushing
  <2>4. Reserves(x)
    BY <1>1, <1>3, <1>7, <2>1, FrameFacts, MessageFacts DEF Reserves
  <2>5. Keeps(x)
    BY <1>1, <1>7, <2>1, FrameFacts DEF Keeps
  <2>6. QED  BY <2>2, <2>3, <2>4, <2>5 DEF Local
<1>9. Orderly
  BY <1>1, <1>2, <1>3, <1>7, FreshFacts, FrameFacts DEF Orderly
<1>10. QED  BY <1>6, <1>8, <1>9, DeliveryParts

\* The process dies: what it called for is late, what it remembered is gone.
LEMMA DeathKeeps ==
  ASSUME DeliveryInv, life' = "down", mem' = Fresh, codex' = [codex EXCEPT !.wire = Deserted],
         UNCHANGED <<hub, disk>>, spent' \in Nat
  PROVE  DeliveryInv'
<1>0. DeliveryTypeOK /\ Orderly /\ \A x \in Message : Local(x)
  BY DeliveryParts
<1>1. Deserted \in [Message -> WireState]
  BY DEF Deserted, Unheard, WireState
<1>2. codex' \in [shown : [Message -> Nat], turn : BOOLEAN, wire : [Message -> WireState]]
      /\ codex'.shown = codex.shown /\ codex'.wire = Deserted
  BY <1>0, <1>1 DEF DeliveryTypeOK
<1>3. DeliveryTypeOK'
  BY <1>0, <1>2, FreshFacts DEF DeliveryTypeOK, Life
<1>4. /\ mem'.waiting = {} /\ mem'.doubt = {} /\ mem'.done = {} /\ mem'.deferred = {}
      /\ mem'.hydrate = {} /\ mem'.frame = NoFrame /\ mem'.hydrating = 0
  BY DEF Fresh
<1>5. ASSUME NEW x \in Message  PROVE Local(x)'
  <2>1. At(x)' = "rest" /\ ~InQueue(mem', x) /\ ~Running(mem', x) /\ (Free(x)' <=> Free(x))
    BY FreshFacts DEF At, Running, Free
  <2>2. codex'.wire[x] = IF codex.wire[x] \in {"sent", "late"} THEN "late" ELSE "none"
    BY <1>2 DEF Deserted, Unheard
  <2>3. Exposed(x)' => Exposed(x)
    BY <1>2, <2>2 DEF Exposed
  <2>4. Shown(x)'
    BY <1>0, <1>2, <1>4, <2>1, <2>2, <2>3 DEF Local, Shown
  <2>5. Held(x)'
    BY <1>4, <2>1 DEF Held, Pushing
  <2>6. Reserves(x)'
    BY <1>0, <1>4, <2>1, <2>3, FrameFacts, MessageFacts DEF Local, Reserves
  <2>7. Keeps(x)'
    BY <1>4, <2>1, FrameFacts DEF Keeps
  <2>8. QED  BY <2>4, <2>5, <2>6, <2>7 DEF Local
<1>6. 0 <= hub.posted
  BY <1>0, Types
<1>7. Orderly'
  BY <1>0, <1>4, <1>6, FreshFacts, FrameFacts DEF Orderly
<1>8. \A x \in Message : Local(x)'
  BY <1>5
<1>9. QED  BY <1>3, <1>7, <1>8 DEF DeliveryInv, Local

LEMMA CrashKeeps ==
  ASSUME DeliveryInv, Crash \/ StartFails
  PROVE  DeliveryInv'
<1>1. DeliveryTypeOK
  BY DeliveryParts
<1>2. CASE Crash
  <2>1. spent' \in Nat
    BY <1>1, <1>2, Troubled DEF Crash
  <2>2. QED  BY <1>2, <2>1, DeathKeeps DEF Crash
<1>3. CASE StartFails
  <2>1. spent' \in Nat
    BY <1>1, <1>3, Troubled DEF StartFails
  <2>2. QED  BY <1>3, <2>1, DeathKeeps DEF StartFails
<1>4. QED  BY <1>2, <1>3

\* The drain begins or ends, or hydration is over.
LEMMA LifeKeeps ==
  ASSUME DeliveryInv, MemoryRests, UNCHANGED <<hub, codex, disk>>, Fault \/ UNCHANGED spent,
         life # "down", life' \in {"up", "draining"}, mem.hydrate = {}, mem.hydrating = 0
  PROVE  DeliveryInv'
<1>0. DeliveryTypeOK /\ Orderly /\ \A x \in Message : Local(x)
  BY DeliveryParts
<1>1. spent' \in Nat
  BY <1>0, Troubled
<1>2. DeliveryTypeOK'
  BY <1>0, <1>1 DEF DeliveryTypeOK, MemoryRests, Life
<1> USE DEF MemoryRests
<1>3. ASSUME NEW x \in Message  PROVE Local(x)'
  <2>1. /\ At(x)' = At(x) /\ (Free(x)' <=> Free(x)) /\ (Exposed(x)' <=> Exposed(x))
        /\ (InQueue(mem, x)' <=> InQueue(mem, x)) /\ (Running(mem, x)' <=> Running(mem, x))
        /\ (Waits(x)' <=> Waits(x))
    BY InQueueIsIn DEF At, Free, Exposed, Running, Waits
  <2>2. Shown(x)'
    BY <1>0, <2>1 DEF Local, Shown
  <2>3. Held(x)'
    BY <1>0, <2>1 DEF Local, Held
  <2>4. Reserves(x)'
    BY <1>0, <2>1 DEF Local, Reserves
  <2>5. Keeps(x)'
    BY <1>0, <2>1 DEF Local, Keeps
  <2>6. QED  BY <2>2, <2>3, <2>4, <2>5 DEF Local
<1>4. Orderly'
  BY <1>0 DEF Orderly
<1>5. \A x \in Message : Local(x)'
  BY <1>3
<1>6. QED  BY <1>2, <1>4, <1>5 DEF DeliveryInv, Local

LEMMA BeginDrainKeeps ==
  ASSUME DeliveryInv, BeginDrain
  PROVE  DeliveryInv'
<1>1. DeliveryTypeOK /\ mem \in MemRow /\ Orderly
  BY DeliveryParts, Types
<1>2. /\ life = "up" /\ life' = "draining" /\ UNCHANGED <<hub, codex, disk>> /\ Fault
      /\ mem' = [mem EXCEPT !.socket = "off", !.frame.live = FALSE]
  BY DEF BeginDrain
<1>3. MemoryRests
  BY <1>1, <1>2, FrameUnhooked
<1>4. mem.hydrate = {} /\ mem.hydrating = 0
  BY <1>1, <1>2 DEF Orderly
<1>5. QED  BY <1>2, <1>3, <1>4, LifeKeeps

LEMMA OpensKeeps ==
  ASSUME DeliveryInv, Reopen \/ Started
  PROVE  DeliveryInv'
<1>1. DeliveryTypeOK /\ mem \in MemRow /\ Orderly
  BY DeliveryParts, Types
<1>2. /\ life \in {"starting", "switching"} /\ life' = "up"
      /\ UNCHANGED <<hub, codex, disk, mem, spent>>
      /\ mem.hydrate = {} /\ (life = "starting" => mem.hydrating = 0)
  BY DEF Reopen, Started
<1>3. mem.hydrating = 0
  BY <1>1, <1>2 DEF Orderly
<1>4. MemoryRests
  BY <1>1, <1>2 DEF MemoryRests
<1>5. QED  BY <1>2, <1>3, <1>4, LifeKeeps

\* Registration and cutover: a permit nobody answers for is in doubt.
LEMMA PermitsInDoubt ==
  ASSUME DeliveryTypeOK, NEW S,
         hub' = [hub EXCEPT !.permit = [m \in Message |->
                   IF m \in S /\ @[m] = "ACTIVE" THEN "AMBIGUOUS" ELSE @[m]]]
  PROVE  /\ hub' \in [posted : 0 .. MaxMessage, permit : [Message -> PermitState]]
         /\ hub'.posted = hub.posted
         /\ \A x \in Message :
              /\ hub'.permit[x] = hub.permit[x]
                 \/ (hub.permit[x] = "ACTIVE" /\ hub'.permit[x] = "AMBIGUOUS")
              /\ Free(x)' <=> Free(x)
<1> DEFINE p == [m \in Message |->
                  IF m \in S /\ hub.permit[m] = "ACTIVE" THEN "AMBIGUOUS" ELSE hub.permit[m]]
<1>1. hub' = [hub EXCEPT !.permit = p]
  BY DEF DeliveryTypeOK
<1>2. p \in [Message -> PermitState]
  BY PermitsAre, Types
<1>3. \A x \in Message : p[x] = hub.permit[x] \/ (hub.permit[x] = "ACTIVE" /\ p[x] = "AMBIGUOUS")
  OBVIOUS
<1> HIDE DEF p
<1>4. hub'.permit = p /\ hub'.posted = hub.posted
      /\ hub' \in [posted : 0 .. MaxMessage, permit : [Message -> PermitState]]
  BY <1>1, <1>2 DEF DeliveryTypeOK
<1>5. QED  BY <1>3, <1>4 DEF Free

LEMMA ReservedRow ==
  ASSUME DeliveryTypeOK, disk' = Reserved
  PROVE  /\ disk' \in [cursor : 0 .. MaxMessage, pending : SUBSET Message]
         /\ disk'.cursor = disk.cursor /\ disk'.pending = disk.pending \cup Unsettled
         /\ Unsettled \subseteq Message
         /\ \A x \in Message : x \in Unsettled <=> x <= hub.posted
<1>1. hub.posted \in 0 .. MaxMessage /\ MaxMessage \in Nat
  BY Types, MessageFacts
<1>2. \A x \in Message : x \in Nat /\ x >= 1
  BY MessageFacts DEF Message
<1>3. Unsettled \subseteq Message /\ \A x \in Message : x \in Unsettled <=> x <= hub.posted
  BY <1>1, <1>2 DEF Unsettled, Message
<1>4. QED  BY <1>3 DEF Reserved, DeliveryTypeOK

LEMMA RestartKeeps ==
  ASSUME DeliveryInv, Restart
  PROVE  DeliveryInv'
<1>0. DeliveryTypeOK /\ Orderly /\ \A x \in Message : Local(x)
  BY DeliveryParts
<1>1. /\ life = "down" /\ life' = "starting" /\ mem = Fresh
      /\ mem' = [Fresh EXCEPT !.hydrate = Unsettled] /\ UNCHANGED <<codex, spent>>
      /\ disk' = Reserved
  BY <1>0 DEF Restart, Orderly
<1>2. hub' = [hub EXCEPT !.permit = [m \in Message |->
                IF m \in Message /\ @[m] = "ACTIVE" THEN "AMBIGUOUS" ELSE @[m]]]
  BY DEF Restart
<1>3. /\ hub' \in [posted : 0 .. MaxMessage, permit : [Message -> PermitState]]
      /\ hub'.posted = hub.posted
      /\ \A x \in Message :
           /\ hub'.permit[x] = hub.permit[x]
              \/ (hub.permit[x] = "ACTIVE" /\ hub'.permit[x] = "AMBIGUOUS")
           /\ Free(x)' <=> Free(x)
  BY <1>0, <1>2, PermitsInDoubt
<1>4. /\ disk' \in [cursor : 0 .. MaxMessage, pending : SUBSET Message]
      /\ disk'.cursor = disk.cursor /\ disk'.pending = disk.pending \cup Unsettled
      /\ Unsettled \in SUBSET Message
      /\ \A x \in Message : x \in Unsettled <=> x <= hub.posted
  BY <1>0, <1>1, ReservedRow
<1>5. /\ mem' \in MemRow /\ mem'.hydrate = Unsettled /\ mem'.hydrating = 0 /\ mem'.frame = NoFrame
      /\ mem'.waiting = {} /\ mem'.doubt = {} /\ mem'.permits = {} /\ mem'.done = {}
      /\ mem'.deferred = {} /\ \A q \in Queue : mem'.flush[q] = 0
      /\ \A x : ~InQueue(mem', x)
      /\ \A x \in Message : mem'.push[x].at = "rest"
  BY <1>1, <1>4, FreshFacts
<1>6. DeliveryTypeOK'
  BY <1>0, <1>1, <1>3, <1>4, <1>5 DEF DeliveryTypeOK, Life
<1>7. ASSUME NEW x \in Message  PROVE Local(x)'
  <2>1. At(x)' = "rest" /\ ~Running(mem', x) /\ (Exposed(x)' <=> Exposed(x)) /\ At(x) = "rest"
    BY <1>1, <1>5, FreshFacts DEF At, Running, Exposed
  <2>2. Shown(x)'
    BY <1>0, <1>1, <1>3, <1>5, <2>1 DEF Local, Shown
  <2>3. Held(x)'
    BY <1>5, <2>1 DEF Held, Pushing
  <2>4. Reserves(x)'
    <3>1. Exposed(x) /\ hub.permit[x] # "CONFIRMED" => x <= hub.posted
      BY <1>0 DEF Local, Reserves
    <3>2. (Exposed(x) /\ hub.permit[x] # "CONFIRMED" =>
             /\ x \in disk.pending
             /\ life # "down" =>
                  x \in mem.doubt \cup mem.permits \cup IF life = "starting" THEN mem.hydrate ELSE {})'
      BY <1>1, <1>3, <1>4, <1>5, <2>1, <3>1
    <3>3. x \in disk'.pending \/ hub'.permit[x] # "NONE" => x <= hub'.posted
      BY <1>0, <1>3, <1>4 DEF Local, Reserves
    <3>4. mem'.frame.m # x
      BY <1>5, FrameFacts, MessageFacts
    <3>5. QED  BY <1>4, <1>5, <2>1, <3>2, <3>3, <3>4 DEF Reserves
  <2>5. Keeps(x)'
    <3>1. x <= disk.cursor => x <= hub.posted
      BY <1>0, Types, MessageFacts DEF Orderly
    <3>2. QED  BY <1>4, <1>5, <2>1, <3>1, FrameFacts DEF Keeps
  <2>6. QED  BY <2>2, <2>3, <2>4, <2>5 DEF Local
<1>8. Orderly'
  BY <1>0, <1>1, <1>3, <1>4, <1>5, FrameFacts DEF Orderly
<1>9. \A x \in Message : Local(x)'
  BY <1>7
<1>10. QED  BY <1>6, <1>8, <1>9 DEF DeliveryInv, Local

LEMMA CutoverKeeps ==
  ASSUME DeliveryInv, Cutover
  PROVE  DeliveryInv'
<1>0. DeliveryTypeOK /\ Orderly /\ mem \in MemRow /\ \A x \in Message : Local(x)
  BY DeliveryParts, Types
<1>1. /\ life = "draining" /\ life' = "switching"
      /\ mem' = [mem EXCEPT !.hydrate = Unsettled, !.told = FALSE]
      /\ codex' = Restarted(codex.wire) /\ disk' = Reserved /\ UNCHANGED spent
      /\ mem.waiting = {} /\ \A x \in Message : ~Running(mem, x)
  BY DEF Cutover, Quiet
<1>2. hub' = [hub EXCEPT !.permit = [m \in Message |->
                IF m \in mem.permits /\ @[m] = "ACTIVE" THEN "AMBIGUOUS" ELSE @[m]]]
  BY DEF Cutover
<1> DEFINE S == mem.permits
<1>s. hub' = [hub EXCEPT !.permit = [m \in Message |->
                IF m \in S /\ @[m] = "ACTIVE" THEN "AMBIGUOUS" ELSE @[m]]]
  BY <1>2
<1> HIDE DEF S
<1>3. /\ hub' \in [posted : 0 .. MaxMessage, permit : [Message -> PermitState]]
      /\ hub'.posted = hub.posted
      /\ \A x \in Message :
           /\ hub'.permit[x] = hub.permit[x]
              \/ (hub.permit[x] = "ACTIVE" /\ hub'.permit[x] = "AMBIGUOUS")
           /\ Free(x)' <=> Free(x)
  BY <1>0, <1>s, PermitsInDoubt
<1>4. /\ disk' \in [cursor : 0 .. MaxMessage, pending : SUBSET Message]
      /\ disk'.cursor = disk.cursor /\ disk'.pending = disk.pending \cup Unsettled
      /\ Unsettled \in SUBSET Message
      /\ \A x \in Message : x \in Unsettled <=> x <= hub.posted
  BY <1>0, <1>1, ReservedRow
<1>5. /\ mem' \in MemRow /\ mem'.queue = mem.queue /\ mem'.flush = mem.flush
      /\ mem'.push = mem.push /\ mem'.frame = mem.frame /\ mem'.deferred = mem.deferred
      /\ mem'.permits = mem.permits /\ mem'.waiting = mem.waiting
      /\ mem'.doubt = mem.doubt /\ mem'.done = mem.done
      /\ mem'.hydrate = Unsettled /\ mem'.hydrating = mem.hydrating
  BY <1>0, <1>1, <1>4 DEF MemRow
<1>6. \A x \in Message : At(x) = "rest" /\ codex.wire[x] \in {"none", "late"}
  <2>1. \A x \in Message : At(x) = "rest" /\ codex.wire[x] \in WireState
    BY <1>0, <1>1, Types DEF At, Running
  <2>2. QED  BY <1>0, <2>1 DEF Local, Shown, WireState
<1>7. codex' \in [shown : [Message -> Nat], turn : BOOLEAN, wire : [Message -> WireState]]
      /\ codex'.shown = codex.shown /\ \A x \in Message : codex'.wire[x] = codex.wire[x]
  <2> DEFINE late == [x \in Message |-> IF codex.wire[x] = "sent" THEN "late" ELSE codex.wire[x]]
  <2>1. late \in [Message -> WireState] /\ \A x \in Message : late[x] = codex.wire[x]
    BY <1>0, <1>6, Types
  <2>2. codex' = [codex EXCEPT !.turn = FALSE, !.wire = late]
    BY <1>1 DEF Restarted
  <2> HIDE DEF late
  <2>3. QED  BY <1>0, <2>1, <2>2 DEF DeliveryTypeOK
<1>8. DeliveryTypeOK'
  BY <1>0, <1>1, <1>3, <1>4, <1>5, <1>7 DEF DeliveryTypeOK, Life
<1>9. ASSUME NEW x \in Message  PROVE Local(x)'
  <2>1. /\ At(x)' = "rest" /\ ~Running(mem', x) /\ (Exposed(x)' <=> Exposed(x))
        /\ (InQueue(mem', x) <=> InQueue(mem, x)) /\ (Waits(x)' <=> Waits(x))
    BY <1>1, <1>5, <1>6, <1>7, InQueueIsIn DEF At, Running, Exposed, Waits
  <2>2. Shown(x)'
    BY <1>0, <1>1, <1>3, <1>5, <1>6, <1>7, <2>1 DEF Local, Shown
  <2>3. Held(x)'
    <3>1. x \in mem.doubt => ~Free(x)
      BY <1>0 DEF Local, Held
    <3>2. x \in mem.done => hub'.permit[x] = "CONFIRMED"
      BY <1>0, <1>3 DEF Local, Held
    <3>3. QED  BY <1>3, <1>5, <2>1, <3>1, <3>2 DEF Held, Pushing
  <2>4. Reserves(x)'
    <3>1. (Free(x) /\ (\/ InQueue(mem, x) \/ x \in mem.deferred \cup mem.hydrate
                       \/ Running(mem, x) \/ mem.frame.m = x) => x \in disk.pending)'
      BY <1>0, <1>3, <1>4, <1>5, <2>1 DEF Local, Reserves
    <3>2. (Exposed(x) /\ hub.permit[x] # "CONFIRMED" =>
             /\ x \in disk.pending
             /\ life # "down" =>
                  x \in mem.doubt \cup mem.permits \cup IF life = "starting" THEN mem.hydrate ELSE {})'
      BY <1>0, <1>1, <1>3, <1>4, <1>5, <2>1 DEF Local, Reserves
    <3>3. x \in disk'.pending \/ hub'.permit[x] # "NONE" => x <= hub'.posted
      BY <1>0, <1>3, <1>4 DEF Local, Reserves
    <3>4. QED  BY <3>1, <3>2, <3>3 DEF Reserves
  <2>5. Keeps(x)'
    <3>1. x <= disk.cursor => x <= hub.posted
      BY <1>0, Types, MessageFacts DEF Orderly
    <3>2. (Free(x) /\ mem.frame.m = x /\ mem.frame.at \in {"commit", "settle"} => Waits(x))'
      BY <1>0, <1>3, <1>5, <2>1 DEF Local, Keeps
    <3>3. QED  BY <1>1, <1>4, <1>5, <2>1, <3>1, <3>2 DEF Keeps
  <2>6. QED  BY <2>2, <2>3, <2>4, <2>5 DEF Local
<1>10. Orderly'
  <2>1. \A x \in Message : ~Running(mem', x)
    BY <1>1, <1>5 DEF Running
  <2>2. QED  BY <1>0, <1>1, <1>3, <1>4, <1>5, <2>1 DEF Orderly
<1>11. \A x \in Message : Local(x)'
  BY <1>9
<1>12. QED  BY <1>8, <1>10, <1>11 DEF DeliveryInv, Local

----------------------------------------------------------------------------
(* The invariant and what follows from it.                                 *)

LEMMA PushStepKeeps ==
  ASSUME DeliveryInv, NEW m \in Message, PushStep(m)
  PROVE  DeliveryInv'
<1>1. CASE BeginSurface(m)
  BY <1>1, BeginSurfaceTaken, BeginSurfaceRefused
<1>2. CASE BeginSurfaceFails(m) \/ PrepareFails(m) \/ AnswerLost(m) \/ Unconfirmed(m)
           \/ ReceiptSettles(m) \/ ReceiptFails(m)
  BY <1>2, BeginSurfaceFailsKeeps, PrepareFailsKeeps, AnswerLostKeeps, UnconfirmedKeeps,
     ReceiptSettlesKeeps, ReceiptFailsKeeps
<1>3. CASE Rejected(m)
  BY <1>3, RejectedEnds, RejectedSteers
<1>4. CASE Send(m) \/ Answered(m) \/ Confirmed(m) \/ Receipt(m)
  BY <1>4, SendKeeps, AnsweredKeeps, ConfirmedKeeps, ReceiptKeeps
<1>5. CASE CodexTakes(m) \/ CodexRejects(m)
  BY <1>5, CodexSteps
<1>6. QED  BY <1>1, <1>2, <1>3, <1>4, <1>5 DEF PushStep

LEMMA NextKeeps ==
  ASSUME DeliveryInv, Next
  PROVE  DeliveryInv'
<1>1. CASE Post \/ UserTurn \/ TurnEnds \/ NoticeTurn \/ ItemCompleted \/ Connect \/ Disconnect
  BY <1>1, PostKeeps, TurnKeeps, NoticeTurnKeeps, ItemCompletedKeeps, ConnectKeeps,
     DisconnectKeeps
<1>2. CASE FlushDeferred \/ BeginDrain \/ Crash
  BY <1>2, FlushDeferredKeeps, BeginDrainKeeps, CrashKeeps
<1>3. CASE Cutting
  BY <1>3, CutoverKeeps, OpensKeeps DEF Cutting
<1>4. CASE Recovering
  BY <1>4, RestartKeeps, OpensKeeps, CrashKeeps, HydrateKeeps DEF Recovering
<1>5. ASSUME NEW q \in Queue, DrainQueue(q)  PROVE DeliveryInv'
  BY <1>5, DrainQueueKeeps
<1>6. ASSUME NEW m \in Message, PushStep(m)  PROVE DeliveryInv'
  BY <1>6, PushStepKeeps
<1>7. ASSUME NEW m \in Message, FrameStep(m)  PROVE DeliveryInv'
  BY <1>7, TakeFrameKeeps, DispatchFrameKeeps, CommitFrameKeeps, SettleFrameKeeps DEF FrameStep
<1>8. ASSUME NEW m \in Message, RetryReceipt(m) \/ Reconcile(m) \/ CodexTakesLate(m)
      PROVE  DeliveryInv'
  BY <1>8, RetryReceiptKeeps, ReconcileKeeps, CodexSteps
<1>9. QED  BY <1>1, <1>2, <1>3, <1>4, <1>5, <1>6, <1>7, <1>8 DEF Next

LEMMA StutterKeeps ==
  ASSUME DeliveryInv, UNCHANGED vars
  PROVE  DeliveryInv'
<1>1. DeliveryTypeOK /\ Orderly /\ \A x \in Message : Local(x)
  BY DeliveryParts
<1>2. MemoryRests /\ StoresRest
  BY <1>1, Types, StoresSame DEF vars, MemoryRests
<1>3. QED  BY <1>2, RestKeeps

(* What the fields of CodexBridge, the checkpoint, the permits and the      *)
(* thread say of every message agree, whatever is lost, rejected, retried,  *)
(* deferred, cut over or recovered (bridge.ts: pushOnce, the hub frames,    *)
(* both queue drains, the deferred flush, hydration and credential cutover):*)
(* a push that may have told Codex has the permit for itself, what is       *)
(* exposed is in the checkpoint and remembered, and a message without a     *)
(* permit is in a queue, deferred or about to be pushed.                   *)
THEOREM DeliveryInvariant == Spec => []DeliveryInv
<1>1. Init => DeliveryInv
  BY InitKeeps
<1>2. DeliveryInv /\ [Next]_vars => DeliveryInv'
  BY NextKeeps, StutterKeeps
<1>3. QED  BY <1>1, <1>2, PTL DEF Spec

(* No message is put before the model twice: a call is made only under a    *)
(* permit that was free, and no end of a push frees the permit of a message *)
(* the thread may hold (acquireSurfacePermit, pushOnce, bridge.ts).         *)
THEOREM OneDelivery == Spec => []SurfacedAtMostOnce
<1>1. DeliveryInv => SurfacedAtMostOnce
  BY DEF DeliveryInv, Shown, SurfacedAtMostOnce
<1>2. QED  BY <1>1, DeliveryInvariant, PTL

(* A confirmed permit stands for one text in the thread: only what the      *)
(* thread shows, or a receipt already final, is marked delivered            *)
(* (awaitClientMessage, markDelivered, hydrateOperationalPendingMessages).  *)
THEOREM ReceiptsAreTrue == Spec => []ReceiptMeansSurfaced
<1>1. DeliveryInv => ReceiptMeansSurfaced
  BY DEF DeliveryInv, Shown, ReceiptMeansSurfaced
<1>2. QED  BY <1>1, DeliveryInvariant, PTL

(* The checkpoint is ahead of the thread: a message that may be before the  *)
(* model without a receipt is pending on disk (reservePendingMessage,       *)
(* settlePendingMessage, bridge.ts).                                       *)
THEOREM CheckpointIsAhead == Spec => []ExposedIsCheckpointed
<1>1. DeliveryInv => ExposedIsCheckpointed
  BY DEF DeliveryInv, Reserves, Exposed, ExposedIsCheckpointed
<1>2. QED  BY <1>1, DeliveryInvariant, PTL

(* The cursor passes no message that nobody has (commitEventSequence after  *)
(* onMessageEvent, and the hydration of what the Hub calls unsettled).      *)
THEOREM CursorForgetsNothing == Spec => []NothingIsForgotten
<1>1. DeliveryInv => NothingIsForgotten
  <2>1. SUFFICES ASSUME DeliveryInv, life \in {"up", "draining"}, NEW m \in 1 .. disk.cursor,
                        hub.permit[m] \in {"NONE", "ABORTED"}
                 PROVE  InQueue(mem, m) \/ m \in mem.deferred
    BY DEF NothingIsForgotten
  <2>2. DeliveryTypeOK /\ Orderly
    BY <2>1, DeliveryParts
  <2>3. disk.cursor \in 0 .. MaxMessage /\ MaxMessage \in Nat
    BY <2>2, Types, MessageFacts
  <2>4. m \in Message /\ m <= disk.cursor /\ m # 0
    BY <2>3 DEF Message
  <2>5. mem.hydrate = {} /\ mem.hydrating = 0
    BY <2>1, <2>2 DEF Orderly
  <2>6. QED  BY <2>1, <2>4, <2>5 DEF DeliveryInv, Keeps, Free, Waits
<1>2. QED  BY <1>1, DeliveryInvariant, PTL

(* After the successor credential is activated no call of the old one is    *)
(* open: the drain defers every frame and waits for every push              *)
(* (awaitCredentialSafePoint, awaitCredentialEpochDrain, bridge.ts).        *)
THEOREM RetiredEpochStaysQuiet == Spec => []RetiredEpochIsQuiet
<1>1. DeliveryInv => RetiredEpochIsQuiet
  BY DEF DeliveryInv, Orderly, Shown, Running, At, RetiredEpochIsQuiet
<1>2. QED  BY <1>1, DeliveryInvariant, PTL
=============================================================================
