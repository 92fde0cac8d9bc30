------------------------- MODULE EventStream_proofs -------------------------
(***************************************************************************)
(* Proofs about EventStream, for a log, failures, replays and pages of any  *)
(* size.                                                                   *)
(***************************************************************************)
EXTENDS EventStream, SequenceTheorems, TLAPS

Wires(n) == {w \in Seq(Frame) : \A i \in 1 .. Len(w) : w[i].sequence <= n}

\* Only committed events are ever talked about.
CommittedOnly ==
  /\ cursor <= log
  /\ highWater <= log
  /\ socket.asked <= log
  /\ job.target <= log /\ job.live <= log /\ job.page <= log
  /\ wire \in Wires(log)

\* The events not published yet are the last ones drawn, in order, and those of
\* an open transaction are all among them.
EmittedInOrder ==
  /\ log <= drawn
  /\ Len(buffer) <= drawn
  /\ \A i \in 1 .. Len(buffer) : buffer[i] = drawn - Len(buffer) + i
  /\ Mutating => Len(buffer) = drawn - log

\* A finished handler has left its mark, and the frame of a stopped pump no
\* longer belongs to the current socket.
JobIsCoherent ==
  /\ job.done => cursor + 1 \in handled
  /\ job.socket => job.pump

Overflowed(w) == \E i \in 1 .. Len(w) : w[i].type = "resync_required"
Tells(w, n)   == \E i \in 1 .. Len(w) : w[i].type # "resync_required" /\ w[i].sequence = n

\* A subscribed adapter has reached the end of the log, or will hear of it: by a
\* publication, from a frame on its way, from the one in process, or by an
\* overflow.
EndIsKnown ==
  socket.state = "SUBSCRIBED" /\ ~Overflowed(wire) =>
    /\ socket.listening
    /\ \/ Publishing \/ cursor = log \/ Tells(wire, log)
       \/ job.socket /\ (job.target = log \/ job.live = log)

StreamInv ==
  TypeOK /\ NoEventSkipped /\ CommittedOnly /\ EmittedInOrder /\ JobIsCoherent /\ EndIsKnown

----------------------------------------------------------------------------
(* Frames on the wire.                                                     *)

\* A frame put behind the others, told by send.
LEMMA AppendFrame ==
  ASSUME NEW n \in Nat, NEW w \in Wires(n), NEW f \in Frame, NEW k \in Nat, n <= k, f.sequence <= k
  PROVE  /\ Append(w, f) \in Wires(k)
         /\ Overflowed(w) => Overflowed(Append(w, f))
         /\ f.type = "resync_required" => Overflowed(Append(w, f))
         /\ f.type # "resync_required" => Tells(Append(w, f), f.sequence)
         /\ \A m \in Nat : Tells(w, m) => Tells(Append(w, f), m)
<1> DEFINE v == Append(w, f)
<1>1. /\ v \in Seq(Frame) /\ Len(v) = Len(w) + 1 /\ Len(w) \in Nat
      /\ v[Len(w) + 1] = f
      /\ \A i \in 1 .. Len(w) : v[i] = w[i] /\ w[i].sequence \in Nat
  <2>1. w \in Seq(Frame)
    BY DEF Wires
  <2>2. v \in Seq(Frame) /\ Len(v) = Len(w) + 1 /\ Len(w) \in Nat
    BY <2>1, AppendProperties, LenProperties
  <2>3. v[Len(w) + 1] = f /\ \A i \in 1 .. Len(w) : v[i] = w[i]
    BY <2>1, AppendProperties
  <2>4. \A i \in 1 .. Len(w) : w[i] \in Frame
    BY <2>1, ElementOfSeq
  <2>5. QED
    BY <2>2, <2>3, <2>4 DEF Frame
<1>2. \A i \in 1 .. Len(v) : i = Len(w) + 1 \/ i \in 1 .. Len(w)
  BY <1>1
<1>3. \A i \in 1 .. Len(w) : i \in 1 .. Len(v)
  BY <1>1
<1>4. Len(w) + 1 \in 1 .. Len(v)
  BY <1>1
<1>5. v \in Wires(k)
  <2>1. \A i \in 1 .. Len(v) : v[i].sequence <= k
    <3> SUFFICES ASSUME NEW i \in 1 .. Len(v) PROVE v[i].sequence <= k
      OBVIOUS
    <3>1. CASE i = Len(w) + 1
      BY <3>1, <1>1
    <3>2. CASE i \in 1 .. Len(w)
      BY <3>2, <1>1 DEF Wires
    <3>3. QED
      BY <3>1, <3>2, <1>2
  <2>2. QED
    BY <1>1, <2>1 DEF Wires
<1>6. QED
  BY <1>1, <1>3, <1>4, <1>5 DEF Overflowed, Tells

\* The first frame taken from the others.
LEMMA TakeFrame ==
  ASSUME NEW n \in Nat, NEW w \in Wires(n), w # <<>>
  PROVE  /\ Head(w) \in Frame /\ Head(w).sequence <= n /\ Tail(w) \in Wires(n)
         /\ Overflowed(w) /\ Head(w).type # "resync_required" => Overflowed(Tail(w))
         /\ \A m \in Nat : Tells(w, m) /\ Head(w).sequence # m => Tells(Tail(w), m)
<1> DEFINE v == Tail(w)
<1>1. /\ w \in Seq(Frame) /\ Len(w) \in Nat \ {0} /\ Head(w) = w[1] /\ Head(w) \in Frame
      /\ v \in Seq(Frame) /\ Len(v) = Len(w) - 1 /\ \A i \in 1 .. Len(v) : v[i] = w[i + 1]
  BY HeadTailProperties, EmptySeq DEF Wires
<1>2. \A i \in 1 .. Len(w) : i # 1 => i - 1 \in 1 .. Len(v) /\ v[i - 1] = w[i]
  BY <1>1
<1>3. 1 \in 1 .. Len(w) /\ \A i \in 1 .. Len(v) : i + 1 \in 1 .. Len(w)
  BY <1>1
<1>4. Head(w).sequence <= n /\ v \in Wires(n)
  BY <1>1, <1>3 DEF Wires
<1>5. Overflowed(w) /\ Head(w).type # "resync_required" => Overflowed(v)
  BY <1>1, <1>2 DEF Overflowed
<1>6. ASSUME NEW m \in Nat, Tells(w, m), Head(w).sequence # m PROVE Tells(v, m)
  BY <1>1, <1>2, <1>6 DEF Tells
<1>7. QED
  BY <1>1, <1>4, <1>5, <1>6

\* What a subscription replays.
LEMMA ReplayFrames ==
  ASSUME NEW n \in Nat, NEW asked \in Nat, NEW last \in Nat, asked <= last, last <= n
  PROVE  LET replay == [i \in 1 .. last - asked |-> EventFrame(asked + i)] IN
         /\ replay \in Wires(n)
         /\ \A k \in DOMAIN replay : SubSeq(replay, 1, k) \in Wires(n)
<1> DEFINE replay == [i \in 1 .. last - asked |-> EventFrame(asked + i)]
<1>1. last - asked \in Nat
  OBVIOUS
<1>2. \A i \in 1 .. last - asked : EventFrame(asked + i) \in Frame
  BY DEF EventFrame, Frame
<1>3. replay \in Seq(Frame) /\ Len(replay) = last - asked
  BY <1>1, <1>2
<1>4. \A i \in 1 .. last - asked : replay[i] \in Frame /\ replay[i].sequence <= n
  BY DEF EventFrame, Frame
<1>5. replay \in Wires(n)
  BY <1>3, <1>4 DEF Wires
<1>6. ASSUME NEW k \in DOMAIN replay PROVE SubSeq(replay, 1, k) \in Wires(n)
  <2>1. k \in 1 .. last - asked /\ \A i \in 1 .. k : i \in 1 .. last - asked
    BY <1>1
  <2> HIDE DEF replay
  <2>2. \A i \in 1 .. k : replay[i] \in Frame /\ replay[i].sequence <= n
    BY <1>4, <2>1
  <2>3. /\ SubSeq(replay, 1, k) \in Seq(Frame) /\ Len(SubSeq(replay, 1, k)) = k
        /\ \A i \in 1 .. k : SubSeq(replay, 1, k)[i] = replay[i]
    BY <2>1, <2>2, SubSeqProperties
  <2>4. QED
    BY <2>2, <2>3 DEF Wires
<1>7. QED
  BY <1>5, <1>6

LEMMA WiresGrow ==
  ASSUME NEW n \in Nat, NEW k \in Nat, n <= k, NEW w \in Wires(n)
  PROVE  w \in Wires(k)
<1>1. \A i \in 1 .. Len(w) : w[i].sequence \in Nat
  <2>1. w \in Seq(Frame)
    BY DEF Wires
  <2>2. \A i \in 1 .. Len(w) : w[i] \in Frame
    BY <2>1, ElementOfSeq
  <2>3. QED
    BY <2>2 DEF Frame
<1>2. QED
  BY <1>1 DEF Wires

LEMMA NothingOnTheWire ==
  /\ \A n \in Nat : <<>> \in Wires(n)
  /\ ~Overflowed(<<>>)
<1>1. <<>> \in Seq(Frame) /\ Len(<<>>) = 0
  BY EmptySeq
<1>2. QED
  BY <1>1 DEF Wires, Overflowed

----------------------------------------------------------------------------
(* The inductive invariant.                                                *)

LEMMA StreamInitInv == Init => StreamInv
<1> SUFFICES ASSUME Init PROVE StreamInv
  OBVIOUS
<1> USE StreamConstants DEF Init
<1>1. wire \in Wires(log)
  BY NothingOnTheWire
<1>2. TypeOK /\ EmittedInOrder
  BY <1>1, EmptySeq DEF TypeOK, EmittedInOrder, Mutating, Wires, NoSocket, NoJob, Job
<1>3. NoEventSkipped /\ CommittedOnly /\ JobIsCoherent
  BY <1>1 DEF NoEventSkipped, CommittedOnly, JobIsCoherent, NoSocket, NoJob
<1>4. EndIsKnown
  BY DEF EndIsKnown, NoSocket
<1>5. QED
  BY <1>2, <1>3, <1>4 DEF StreamInv

\* What the Hub keeps stays as it is.
LEMMA HubUntouched ==
  ASSUME StreamInv, UNCHANGED <<log, drawn, buffer>>
  PROVE  EmittedInOrder' /\ Publishing' = Publishing
BY DEF StreamInv, EmittedInOrder, Publishing, Mutating

\* The adapter and its socket stay as they are, and so does the log.
LEMMA AdapterUntouched ==
  ASSUME StreamInv, UNCHANGED <<log, socket, wire, adapter>>
  PROVE  /\ NoEventSkipped' /\ CommittedOnly' /\ JobIsCoherent'
         /\ (Publishing => Publishing') => EndIsKnown'
BY DEF StreamInv, NoEventSkipped, CommittedOnly, JobIsCoherent, EndIsKnown, Wires, adapter

LEMMA EmitInv ==
  ASSUME StreamInv, Emit
  PROVE  StreamInv'
<1>1. /\ ~Publishing /\ drawn' = drawn + 1 /\ buffer' = Append(buffer, drawn + 1)
      /\ UNCHANGED <<log, socket, wire, adapter, failures>>
  BY DEF Emit
<1>2. log \in Nat /\ drawn \in Nat /\ buffer \in Seq(Nat) /\ Len(buffer) \in Nat
  BY LenProperties DEF StreamInv, TypeOK
<1>3. /\ buffer' \in Seq(Nat) /\ Len(buffer') = Len(buffer) + 1
      /\ buffer'[Len(buffer) + 1] = drawn + 1
      /\ \A i \in 1 .. Len(buffer) : buffer'[i] = buffer[i]
  BY <1>1, <1>2, AppendProperties
<1>4. TypeOK'
  BY <1>1, <1>2, <1>3 DEF StreamInv, TypeOK, adapter
<1>5. Len(buffer) = drawn - log
  <2>1. CASE Mutating
    BY <2>1 DEF StreamInv, EmittedInOrder
  <2>2. CASE ~Mutating
    BY <1>1, <1>2, <2>2, EmptySeq DEF StreamInv, EmittedInOrder, Publishing, Mutating
  <2>3. QED
    BY <2>1, <2>2
<1>6. EmittedInOrder'
  <2>1. log' <= drawn' /\ Len(buffer') <= drawn' /\ Len(buffer') = drawn' - log'
    BY <1>1, <1>2, <1>3, <1>5 DEF StreamInv, EmittedInOrder
  <2>2. ASSUME NEW i \in 1 .. Len(buffer') PROVE buffer'[i] = drawn' - Len(buffer') + i
    <3>1. CASE i = Len(buffer) + 1
      BY <1>1, <1>2, <1>3, <3>1
    <3>2. CASE i \in 1 .. Len(buffer)
      BY <1>1, <1>2, <1>3, <3>2 DEF StreamInv, EmittedInOrder
    <3>3. QED
      BY <1>2, <1>3, <2>2, <3>1, <3>2
  <2>3. QED
    BY <2>1, <2>2 DEF EmittedInOrder
<1>7. QED
  BY <1>1, <1>4, <1>6, AdapterUntouched DEF StreamInv

\* What is left in the buffer was emitted before the checkpoint.
LEMMA RollbackInv ==
  ASSUME StreamInv, Rollback
  PROVE  StreamInv'
<1>1. PICK kept \in log .. drawn - 1 : drawn' = kept /\ buffer' = SubSeq(buffer, 1, kept - log)
  BY DEF Rollback
<1>2. /\ Mutating /\ failures' = failures + 1 /\ failures < MaxFailures
      /\ UNCHANGED <<log, socket, wire, adapter>>
  BY DEF Rollback
<1>3. /\ log \in Nat /\ drawn \in Nat /\ kept \in Nat /\ buffer \in Seq(Nat)
      /\ Len(buffer) = drawn - log /\ log <= kept /\ kept < drawn
  BY <1>1, <1>2 DEF StreamInv, TypeOK, EmittedInOrder
<1>4. /\ buffer' \in Seq(Nat) /\ Len(buffer') = kept - log
      /\ \A i \in 1 .. kept - log : buffer'[i] = buffer[i]
  <2>1. \A i \in 1 .. kept - log : i \in 1 .. Len(buffer) /\ buffer[i] \in Nat
    <3>1. \A i \in 1 .. kept - log : i \in 1 .. Len(buffer)
      BY <1>3
    <3>2. QED
      BY <1>3, <3>1, ElementOfSeq
  <2>2. CASE kept = log
    BY <1>1, <1>3, <2>2, SubSeqProperties
  <2>3. CASE kept # log
    BY <1>1, <1>3, <2>1, <2>3, SubSeqProperties
  <2>4. QED
    BY <2>2, <2>3
<1>5. failures' \in 0 .. MaxFailures
  BY <1>2, StreamConstants DEF StreamInv, TypeOK
<1>6. TypeOK'
  BY <1>1, <1>2, <1>3, <1>4, <1>5 DEF StreamInv, TypeOK, adapter
<1>7. EmittedInOrder'
  <2>1. ASSUME NEW i \in 1 .. Len(buffer') PROVE buffer'[i] = drawn' - Len(buffer') + i
    <3>1. i \in 1 .. Len(buffer) /\ buffer'[i] = buffer[i]
      BY <1>3, <1>4
    <3>2. buffer[i] = log + i
      <4>1. buffer[i] = drawn - Len(buffer) + i
        BY <3>1 DEF StreamInv, EmittedInOrder
      <4>2. QED
        BY <1>3, <3>1, <4>1
    <3>3. drawn' - Len(buffer') + i = log + i
      BY <1>1, <1>3, <1>4, <3>1
    <3>4. QED
      BY <3>1, <3>2, <3>3
  <2>2. QED
    BY <1>1, <1>2, <1>3, <1>4, <2>1 DEF EmittedInOrder
<1>8. ~Publishing
  BY <1>2 DEF Publishing
<1>9. QED
  BY <1>2, <1>6, <1>7, <1>8, AdapterUntouched DEF StreamInv

\* The log grows by events that are about to be published.
LEMMA CommitInv ==
  ASSUME StreamInv, Commit
  PROVE  StreamInv'
<1> USE DEF StreamInv
<1>1. /\ Mutating /\ log' = drawn
      /\ UNCHANGED <<drawn, buffer, socket, wire, attached, cursor, highWater, job, handled, failures>>
  BY DEF Commit, adapter
<1>2. log \in Nat /\ log' \in Nat /\ log < log' /\ wire' \in Wires(log')
  BY <1>1, WiresGrow DEF TypeOK, CommittedOnly, Mutating
<1>3. TypeOK'
  BY <1>1, <1>2 DEF TypeOK
<1>4. NoEventSkipped' /\ JobIsCoherent'
  BY <1>1 DEF NoEventSkipped, JobIsCoherent
<1>5. CommittedOnly'
  BY <1>1, <1>2 DEF CommittedOnly, TypeOK, Job
<1>6. EmittedInOrder' /\ Publishing'
  <2>1. Len(buffer) # 0
    BY <1>1, <1>2 DEF EmittedInOrder
  <2>2. QED
    BY <1>1, <1>2, <2>1, EmptySeq DEF EmittedInOrder, Publishing, Mutating
<1>7. EndIsKnown'
  BY <1>1, <1>6 DEF EndIsKnown
<1>8. QED
  BY <1>3, <1>4, <1>5, <1>6, <1>7

\* Frame f is sent, or the overflow that takes its place.
LEMMA SendFrame ==
  ASSUME StreamInv, NEW f \in Frame, f.sequence <= log, f.type # "resync_required", Send(f)
  PROVE  /\ wire' \in Wires(log)
         /\ Overflowed(wire) => Overflowed(wire')
         /\ \/ /\ socket' = socket /\ Tells(wire', f.sequence)
               /\ \A m \in Nat : Tells(wire, m) => Tells(wire', m)
            \/ socket' = [socket EXCEPT !.listening = FALSE] /\ Overflowed(wire')
<1> USE DEF StreamInv, TypeOK, CommittedOnly
<1>1. CASE wire' = Append(wire, f) /\ socket' = socket
  BY <1>1, AppendFrame
<1>2. CASE wire' = Append(wire, Resync) /\ socket' = [socket EXCEPT !.listening = FALSE]
  <2>1. Resync \in Frame /\ Resync.type = "resync_required" /\ Resync.sequence = 0
    BY DEF Resync, Frame
  <2>2. wire' \in Wires(log) /\ Overflowed(wire')
    BY <1>2, <2>1, AppendFrame
  <2>3. QED
    BY <1>2, <2>2
<1>3. QED
  BY <1>1, <1>2 DEF Send

\* A listening socket is told of the next event or overflows; the last event
\* published is the end of the log.
LEMMA PublishInv ==
  ASSUME StreamInv, Publish
  PROVE  StreamInv'
<1> USE DEF StreamInv
<1> DEFINE n == Head(buffer)
<1>1. /\ Publishing /\ buffer' = Tail(buffer)
      /\ UNCHANGED <<log, drawn, attached, cursor, highWater, job, handled, failures>>
      /\ IF socket.listening THEN Send(EventFrame(n)) ELSE UNCHANGED <<wire, socket>>
  BY DEF Publish, adapter
<1>2. /\ log \in Nat /\ log = drawn /\ ~Mutating /\ buffer \in Seq(Nat)
      /\ Len(buffer) \in Nat \ {0} /\ Len(buffer) <= log
      /\ n = buffer[1]
      /\ buffer' \in Seq(Nat) /\ Len(buffer') = Len(buffer) - 1
      /\ \A i \in 1 .. Len(buffer') : buffer'[i] = buffer[i + 1]
  BY <1>1, HeadTailProperties, EmptySeq DEF TypeOK, EmittedInOrder, Publishing, Mutating
<1>3. n \in Nat /\ n <= log /\ (buffer' = <<>> => n = log)
  <2>1. 1 \in 1 .. Len(buffer)
    BY <1>2
  <2>2. n = log - Len(buffer) + 1
    BY <1>2, <2>1 DEF EmittedInOrder
  <2>3. buffer' = <<>> => Len(buffer') = 0
    BY EmptySeq
  <2>4. QED
    BY <1>2, <2>2, <2>3
<1>4. EmittedInOrder'
  <2>1. ASSUME NEW i \in 1 .. Len(buffer') PROVE buffer'[i] = drawn - Len(buffer') + i
    <3>1. i + 1 \in 1 .. Len(buffer) /\ buffer'[i] = buffer[i + 1]
      BY <1>2
    <3>2. QED
      BY <1>2, <3>1 DEF EmittedInOrder
  <2>2. QED
    BY <1>1, <1>2, <2>1 DEF EmittedInOrder, Mutating
<1>5. buffer' # <<>> => Publishing'
  BY <1>1, <1>2 DEF Publishing, Mutating
<1> HIDE DEF n
<1>6. /\ wire' \in Wires(log)
      /\ Overflowed(wire) => Overflowed(wire')
      /\ \/ socket' = socket /\ (socket.listening => Tells(wire', n))
         \/ socket' = [socket EXCEPT !.listening = FALSE] /\ Overflowed(wire')
  <2>1. CASE socket.listening
    <3>1. EventFrame(n) \in Frame /\ EventFrame(n).sequence = n
          /\ EventFrame(n).type # "resync_required"
      BY <1>3 DEF EventFrame, Frame
    <3>2. QED
      BY <1>1, <1>3, <2>1, <3>1, SendFrame
  <2>2. CASE ~socket.listening
    BY <1>1, <2>2 DEF CommittedOnly
  <2>3. QED
    BY <2>1, <2>2
<1>7. TypeOK'
  <2>1. socket' \in [state : {"NONE", "CONNECTING", "SUBSCRIBED"}, asked : Nat, listening : BOOLEAN]
    BY <1>6 DEF TypeOK
  <2>2. QED
    BY <1>1, <1>2, <1>6, <2>1 DEF TypeOK, Wires
<1>8. NoEventSkipped' /\ JobIsCoherent'
  BY <1>1 DEF NoEventSkipped, JobIsCoherent
<1>9. CommittedOnly'
  BY <1>1, <1>6 DEF CommittedOnly, TypeOK
<1>10. EndIsKnown'
  BY <1>1, <1>3, <1>5, <1>6 DEF EndIsKnown, TypeOK
<1>11. QED
  BY <1>4, <1>7, <1>8, <1>9, <1>10

LEMMA OverflowInv ==
  ASSUME StreamInv, Overflow
  PROVE  StreamInv'
<1> USE DEF StreamInv
<1>1. /\ wire' = Append(wire, Resync)
      /\ socket' = [socket EXCEPT !.listening = FALSE]
      /\ UNCHANGED <<log, drawn, buffer, attached, cursor, highWater, job, handled, failures>>
  BY DEF Overflow, adapter
<1>2. wire' \in Wires(log') /\ Overflowed(wire')
  <2>1. Resync \in Frame /\ Resync.type = "resync_required" /\ Resync.sequence = 0
    BY DEF Resync, Frame
  <2>2. QED
    BY <1>1, <2>1, AppendFrame DEF TypeOK, CommittedOnly
<1>3. TypeOK'
  BY <1>1, <1>2 DEF TypeOK, Wires
<1>4. NoEventSkipped' /\ JobIsCoherent' /\ CommittedOnly' /\ EndIsKnown' /\ EmittedInOrder'
  BY HubUntouched, <1>1, <1>2 DEF NoEventSkipped, JobIsCoherent, CommittedOnly, EndIsKnown, TypeOK
<1>5. QED
  BY <1>3, <1>4

\* The subscription ends by telling the end of the log, or overflows.
LEMMA SubscribeInv ==
  ASSUME StreamInv, Subscribe
  PROVE  StreamInv'
<1> USE DEF StreamInv
<1> DEFINE last == Smaller(log, socket.asked + ReplayLimit)
           replay == [i \in 1 .. last - socket.asked |-> EventFrame(socket.asked + i)]
<1>1. UNCHANGED <<log, drawn, buffer, attached, cursor, highWater, job, handled, failures>>
  BY DEF Subscribe, adapter
<1>2. log \in Nat /\ socket.asked \in Nat /\ last \in Nat /\ socket.asked <= last /\ last <= log
  BY StreamConstants DEF TypeOK, CommittedOnly, Smaller
<1>3. replay \in Wires(log) /\ \A k \in DOMAIN replay : SubSeq(replay, 1, k) \in Wires(log)
  BY <1>2, ReplayFrames
<1>4. /\ wire' \in Wires(log)
      /\ \/ Tells(wire', log) /\ socket' = [socket EXCEPT !.state = "SUBSCRIBED", !.listening = TRUE]
         \/ Overflowed(wire') /\ socket' = [socket EXCEPT !.state = "SUBSCRIBED"]
  <2>1. CASE /\ wire' = Append(replay, Subscribed(log))
             /\ socket' = [socket EXCEPT !.state = "SUBSCRIBED", !.listening = TRUE]
    <3>1. Subscribed(log) \in Frame /\ Subscribed(log).sequence = log
          /\ Subscribed(log).type # "resync_required"
      BY <1>2 DEF Subscribed, Frame
    <3> HIDE DEF replay
    <3>2. QED
      BY <1>2, <1>3, <2>1, <3>1, AppendFrame
  <2>2. ASSUME NEW k \in DOMAIN replay,
               wire' = Append(SubSeq(replay, 1, k), Resync),
               socket' = [socket EXCEPT !.state = "SUBSCRIBED"]
        PROVE  wire' \in Wires(log) /\ Overflowed(wire')
    <3>1. Resync \in Frame /\ Resync.type = "resync_required" /\ Resync.sequence = 0
      BY DEF Resync, Frame
    <3>2. SubSeq(replay, 1, k) \in Wires(log)
      BY <1>3
    <3> HIDE DEF replay
    <3>3. QED
      BY <1>2, <2>2, <3>1, <3>2, AppendFrame
  <2>3. QED
    BY <2>1, <2>2 DEF Subscribe
<1> HIDE DEF last, replay
<1>5. TypeOK'
  BY <1>1, <1>4 DEF TypeOK, Wires
<1>6. NoEventSkipped' /\ JobIsCoherent' /\ CommittedOnly' /\ EndIsKnown' /\ EmittedInOrder'
  BY HubUntouched, <1>1, <1>4 DEF NoEventSkipped, JobIsCoherent, CommittedOnly, EndIsKnown, TypeOK
<1>7. QED
  BY <1>5, <1>6
----------------------------------------------------------------------------
(* Steps of the channel: sockets come and go, the cursor stays or is lost.  *)

\* A step that leaves the adapter without a frame on the wire.
LEMMA ClearedWire ==
  ASSUME StreamInv, wire' = <<>>, UNCHANGED log
  PROVE  wire' \in Seq(Frame) /\ wire' \in Wires(log')
<1>1. log \in Nat
  BY DEF StreamInv, TypeOK
<1>2. QED
  BY <1>1, NothingOnTheWire DEF Wires

LEMMA NoJobIsIdle ==
  /\ NoJob \in Job
  /\ NoJob.target = 0 /\ NoJob.live = 0 /\ NoJob.page = 0
  /\ NoJob.done = FALSE /\ NoJob.socket = FALSE /\ NoJob.pump = FALSE
BY DEF NoJob, Job

LEMMA ConnectInv ==
  ASSUME StreamInv, Connect
  PROVE  StreamInv'
<1> USE DEF StreamInv, Connect
<1>1. TypeOK'
  BY DEF TypeOK
<1>2. NoEventSkipped' /\ JobIsCoherent' /\ CommittedOnly' /\ EndIsKnown' /\ EmittedInOrder'
  BY HubUntouched DEF NoEventSkipped, JobIsCoherent, CommittedOnly, EndIsKnown
<1>3. QED
  BY <1>1, <1>2

LEMMA AttachInv ==
  ASSUME StreamInv, Attach
  PROVE  StreamInv'
<1> USE DEF StreamInv, Attach
<1>1. TypeOK'
  BY DEF TypeOK
<1>2. NoEventSkipped' /\ JobIsCoherent' /\ CommittedOnly' /\ EndIsKnown' /\ EmittedInOrder'
  BY HubUntouched DEF NoEventSkipped, JobIsCoherent, CommittedOnly, EndIsKnown
<1>3. QED
  BY <1>1, <1>2

\* A step that drops the socket and does no more to the frame in process than
\* take it from its socket and its pump, or end it.
LEMMA DropInv ==
  ASSUME StreamInv, DropSocket, UNCHANGED <<log, cursor, highWater, handled>>,
         UNCHANGED <<drawn, buffer>> \/ (drawn' = log /\ buffer' = <<>>),
         attached' \in BOOLEAN, failures' \in 0 .. MaxFailures,
         job' \in {NoJob, Left(job), Orphaned(job), job}
  PROVE  StreamInv'
<1> USE DEF StreamInv, DropSocket
<1>1. wire' \in Seq(Frame) /\ wire' \in Wires(log')
  BY ClearedWire
<1>2. /\ job' \in Job
      /\ job'.target <= log /\ job'.live <= log /\ job'.page <= log
      /\ job'.done => cursor + 1 \in handled
      /\ job'.socket => job'.pump
  <2>1. job \in Job
    BY DEF TypeOK
  <2>2. CASE job' = NoJob
    BY <2>2, NoJobIsIdle DEF TypeOK
  <2>3. CASE job' = job
    BY <2>3 DEF TypeOK, CommittedOnly, JobIsCoherent
  <2>4. CASE job # NoJob /\ job' = [job EXCEPT !.socket = FALSE]
    BY <2>1, <2>4 DEF CommittedOnly, JobIsCoherent, Job
  <2>5. CASE job # NoJob /\ job' = [job EXCEPT !.socket = FALSE, !.pump = FALSE]
    BY <2>1, <2>5 DEF CommittedOnly, JobIsCoherent, Job
  <2>6. QED
    BY <2>2, <2>3, <2>4, <2>5 DEF Left, Orphaned
<1>3. drawn' \in Nat /\ buffer' \in Seq(Nat) /\ EmittedInOrder'
  <2>1. CASE UNCHANGED <<drawn, buffer>>
    BY <2>1, HubUntouched DEF TypeOK
  <2>2. CASE drawn' = log /\ buffer' = <<>>
    BY <2>2, EmptySeq DEF TypeOK, EmittedInOrder, Mutating
  <2>3. QED
    BY <2>1, <2>2
<1>4. TypeOK'
  BY <1>1, <1>2, <1>3 DEF TypeOK, NoSocket
<1>5. NoEventSkipped' /\ JobIsCoherent' /\ CommittedOnly' /\ EndIsKnown'
  BY <1>1, <1>2 DEF TypeOK, NoEventSkipped, JobIsCoherent, CommittedOnly, EndIsKnown, NoSocket
<1>6. QED
  BY <1>3, <1>4, <1>5

LEMMA DisconnectInv ==
  ASSUME StreamInv, Disconnect
  PROVE  StreamInv'
<1>1. failures' \in 0 .. MaxFailures
  BY StreamConstants DEF Disconnect, StreamInv, TypeOK
<1>2. QED
  BY <1>1, DropInv DEF Disconnect, StreamInv, TypeOK

\* A mutation the Hub did not commit is gone, and so are the publications of a
\* committed one; nobody is subscribed any more.
LEMMA HubEndsInv ==
  ASSUME StreamInv, HubEnds
  PROVE  StreamInv'
<1>1. failures' \in 0 .. MaxFailures
  BY StreamConstants DEF HubEnds, StreamInv, TypeOK
<1>2. QED
  BY <1>1, DropInv DEF HubEnds, StreamInv, TypeOK

LEMMA DetachInv ==
  ASSUME StreamInv, Detach
  PROVE  StreamInv'
<1>1. failures' \in 0 .. MaxFailures
  BY StreamConstants DEF Detach, StreamInv, TypeOK
<1>2. QED
  BY <1>1, DropInv DEF Detach

LEMMA TakeResyncInv ==
  ASSUME StreamInv, TakeResync
  PROVE  StreamInv'
BY DropInv DEF TakeResync, StreamInv, TypeOK, adapter

\* A new process starts again at the beginning.
LEMMA CrashInv ==
  ASSUME StreamInv, Crash
  PROVE  StreamInv'
<1> USE DEF StreamInv, Crash, DropSocket
<1>1. wire' \in Seq(Frame) /\ wire' \in Wires(log')
  BY ClearedWire
<1>2. TypeOK'
  <2>1. failures' \in 0 .. MaxFailures
    BY StreamConstants DEF TypeOK
  <2>2. socket' \in [state : {"NONE", "CONNECTING", "SUBSCRIBED"}, asked : Nat, listening : BOOLEAN]
    BY DEF NoSocket
  <2>3. QED
    BY <1>1, <2>1, <2>2, NoJobIsIdle DEF TypeOK
<1>3. NoEventSkipped' /\ JobIsCoherent' /\ CommittedOnly' /\ EndIsKnown' /\ EmittedInOrder'
  BY HubUntouched, <1>1, NoJobIsIdle DEF TypeOK, NoEventSkipped, JobIsCoherent, CommittedOnly, EndIsKnown, NoSocket
<1>4. QED
  BY <1>2, <1>3

----------------------------------------------------------------------------
(* Steps of the pump.                                                      *)

\* What the next frame says, and what remains behind it.
LEMMA NextFrame ==
  ASSUME StreamInv, ~Busy, wire # <<>>, Head(wire).type # "resync_required", wire' = Tail(wire)
  PROVE  /\ Head(wire) \in Frame /\ Head(wire).sequence <= log
         /\ wire' \in Seq(Frame) /\ wire' \in Wires(log)
         /\ socket.state = "SUBSCRIBED" /\ ~Overflowed(wire') =>
              /\ socket.listening
              /\ Publishing \/ cursor = log \/ Tells(wire', log) \/ Head(wire).sequence = log
<1>1. log \in Nat /\ wire \in Wires(log)
  BY DEF StreamInv, TypeOK, CommittedOnly
<1>2. /\ Head(wire) \in Frame /\ Head(wire).sequence <= log /\ wire' \in Wires(log)
      /\ Overflowed(wire) => Overflowed(wire')
      /\ Tells(wire, log) /\ Head(wire).sequence # log => Tells(wire', log)
  BY <1>1, TakeFrame
<1>3. job.socket = FALSE
  BY NoJobIsIdle DEF Busy
<1>4. QED
  BY <1>2, <1>3 DEF StreamInv, EndIsKnown, Wires

LEMMA TakeEventInv ==
  ASSUME StreamInv, TakeEvent
  PROVE  StreamInv'
<1> USE DEF StreamInv
<1> DEFINE n == Head(wire).sequence
<1>1. /\ ~Busy /\ wire # <<>> /\ Head(wire).type = "event" /\ wire' = Tail(wire)
      /\ highWater' = Larger(highWater, n)
      /\ job' = IF n <= cursor THEN NoJob
                ELSE [NoJob EXCEPT !.target = n - 1, !.live = n, !.page = cursor,
                                   !.socket = TRUE, !.pump = TRUE]
      /\ UNCHANGED <<log, drawn, buffer, socket, attached, cursor, handled, failures>>
  BY DEF TakeEvent
<1>2. /\ Head(wire) \in Frame /\ n \in Nat /\ n <= log
      /\ wire' \in Seq(Frame) /\ wire' \in Wires(log)
      /\ socket.state = "SUBSCRIBED" /\ ~Overflowed(wire') =>
           socket.listening /\ (Publishing \/ cursor = log \/ Tells(wire', log) \/ n = log)
  BY <1>1, NextFrame DEF Frame
<1> HIDE DEF n
<1>3. log \in Nat /\ cursor \in Nat /\ highWater \in Nat /\ cursor <= log /\ highWater <= log
  BY DEF TypeOK, CommittedOnly
<1>4. highWater' \in Nat /\ highWater' <= log
  BY <1>1, <1>2, <1>3 DEF Larger
<1>5. /\ job' \in Job /\ job'.done = FALSE /\ (job'.socket => job'.pump)
      /\ job'.target <= log /\ job'.live <= log /\ job'.page <= log
      /\ n <= cursor \/ (job'.socket /\ job'.live = n)
  <2>1. CASE n <= cursor
    <3>1. job' = NoJob
      BY <1>1, <2>1
    <3>2. QED
      BY <1>3, <2>1, <3>1, NoJobIsIdle
  <2>2. CASE ~(n <= cursor)
    <3>1. job' = [target |-> n - 1, live |-> n, page |-> cursor, done |-> FALSE,
                  socket |-> TRUE, pump |-> TRUE]
      BY <1>1, <2>2 DEF NoJob
    <3>2. QED
      BY <1>2, <1>3, <2>2, <3>1 DEF Job
  <2>3. QED
    BY <2>1, <2>2
<1>6. TypeOK'
  BY <1>1, <1>2, <1>4, <1>5 DEF TypeOK
<1>7. NoEventSkipped' /\ JobIsCoherent' /\ CommittedOnly'
  BY <1>1, <1>2, <1>4, <1>5 DEF NoEventSkipped, JobIsCoherent, CommittedOnly
<1>8. EndIsKnown' /\ EmittedInOrder'
  BY HubUntouched, <1>1, <1>2, <1>3, <1>5 DEF EndIsKnown
<1>9. QED
  BY <1>6, <1>7, <1>8

LEMMA TakeSubscribedInv ==
  ASSUME StreamInv, TakeSubscribed
  PROVE  StreamInv'
<1> USE DEF StreamInv
<1> DEFINE n == Head(wire).sequence
           high == Larger(highWater, n)
<1>1. /\ ~Busy /\ wire # <<>> /\ Head(wire).type = "subscribed" /\ wire' = Tail(wire)
      /\ highWater' = high
      /\ job' = IF high <= cursor THEN NoJob
                ELSE [NoJob EXCEPT !.target = high, !.page = cursor, !.socket = TRUE, !.pump = TRUE]
      /\ UNCHANGED <<log, drawn, buffer, socket, attached, cursor, handled, failures>>
  BY DEF TakeSubscribed
<1>2. /\ Head(wire) \in Frame /\ n \in Nat /\ n <= log
      /\ wire' \in Seq(Frame) /\ wire' \in Wires(log)
      /\ socket.state = "SUBSCRIBED" /\ ~Overflowed(wire') =>
           socket.listening /\ (Publishing \/ cursor = log \/ Tells(wire', log) \/ n = log)
  BY <1>1, NextFrame DEF Frame
<1> HIDE DEF n
<1>3. log \in Nat /\ cursor \in Nat /\ highWater \in Nat /\ cursor <= log /\ highWater <= log
  BY DEF TypeOK, CommittedOnly
<1>4. high \in Nat /\ high <= log /\ n <= high
  BY <1>2, <1>3 DEF Larger
<1> HIDE DEF high
<1>5. /\ job' \in Job /\ job'.done = FALSE /\ (job'.socket => job'.pump)
      /\ job'.target <= log /\ job'.live <= log /\ job'.page <= log
      /\ high <= cursor \/ (job'.socket /\ job'.target = high)
  <2>1. CASE high <= cursor
    <3>1. job' = NoJob
      BY <1>1, <2>1
    <3>2. QED
      BY <1>3, <2>1, <3>1, NoJobIsIdle
  <2>2. CASE ~(high <= cursor)
    <3>1. job' = [target |-> high, live |-> 0, page |-> cursor, done |-> FALSE,
                  socket |-> TRUE, pump |-> TRUE]
      BY <1>1, <2>2 DEF NoJob
    <3>2. QED
      BY <1>3, <1>4, <2>2, <3>1 DEF Job
  <2>3. QED
    BY <2>1, <2>2
<1>6. TypeOK'
  BY <1>1, <1>2, <1>4, <1>5 DEF TypeOK
<1>7. NoEventSkipped' /\ JobIsCoherent' /\ CommittedOnly'
  BY <1>1, <1>2, <1>4, <1>5 DEF NoEventSkipped, JobIsCoherent, CommittedOnly
<1>8. EndIsKnown' /\ EmittedInOrder'
  BY HubUntouched, <1>1, <1>2, <1>3, <1>4, <1>5 DEF EndIsKnown
<1>9. QED
  BY <1>6, <1>7, <1>8

LEMMA FetchPageInv ==
  ASSUME StreamInv, FetchPage
  PROVE  StreamInv'
<1> USE DEF StreamInv, FetchPage
<1>1. Smaller(log, cursor + PageSize) \in Nat /\ Smaller(log, cursor + PageSize) <= log
  BY StreamConstants DEF TypeOK, Smaller
<1>2. /\ job' \in Job /\ job'.target = job.target /\ job'.live = job.live /\ job'.page <= log
      /\ job'.done = job.done /\ job'.socket = job.socket /\ job'.pump = job.pump
  BY <1>1 DEF TypeOK, Job
<1>3. TypeOK'
  BY <1>2 DEF TypeOK
<1>4. NoEventSkipped' /\ JobIsCoherent' /\ CommittedOnly' /\ EndIsKnown' /\ EmittedInOrder'
  BY HubUntouched, <1>2 DEF NoEventSkipped, JobIsCoherent, CommittedOnly, EndIsKnown
<1>5. QED
  BY <1>3, <1>4

\* The event at hand has been committed.
LEMMA AtHandIsCommitted ==
  ASSUME StreamInv, AtHand
  PROVE  cursor + 1 \in 1 .. log
BY DEF StreamInv, AtHand, TypeOK, CommittedOnly, Job

LEMMA HandleEventInv ==
  ASSUME StreamInv, HandleEvent
  PROVE  StreamInv'
<1> USE DEF StreamInv, HandleEvent
<1>1. cursor + 1 \in 1 .. log
  BY AtHandIsCommitted
<1>2. /\ job' \in Job /\ job'.target = job.target /\ job'.live = job.live /\ job'.page = job.page
      /\ job'.done = TRUE /\ job'.socket = job.socket /\ job'.pump = job.pump
  BY DEF TypeOK, Job
<1>3. TypeOK'
  BY <1>1, <1>2 DEF TypeOK
<1>4. NoEventSkipped' /\ JobIsCoherent' /\ CommittedOnly' /\ EndIsKnown' /\ EmittedInOrder'
  BY HubUntouched, <1>2 DEF NoEventSkipped, JobIsCoherent, CommittedOnly, EndIsKnown
<1>5. QED
  BY <1>3, <1>4

\* The cursor moves behind an event that was handled.
LEMMA CommitCursorInv ==
  ASSUME StreamInv, CommitCursor
  PROVE  StreamInv'
<1> USE DEF StreamInv, CommitCursor
<1>1. cursor \in Nat /\ log \in Nat /\ cursor + 1 \in handled /\ cursor + 1 <= log
  BY DEF TypeOK, JobIsCoherent
<1>2. /\ job' \in Job /\ job'.target = job.target /\ job'.live = job.live /\ job'.page = job.page
      /\ job'.done = FALSE /\ job'.socket = job.socket /\ job'.pump = job.pump
  BY DEF TypeOK, Job
<1>3. TypeOK'
  BY <1>1, <1>2 DEF TypeOK
<1>4. NoEventSkipped'
  <2>1. 1 .. cursor + 1 = (1 .. cursor) \cup {cursor + 1}
    BY <1>1
  <2>2. QED
    BY <1>1, <2>1 DEF NoEventSkipped
<1>5. JobIsCoherent' /\ CommittedOnly'
  BY <1>1, <1>2 DEF JobIsCoherent, CommittedOnly
<1>6. EndIsKnown' /\ EmittedInOrder'
  BY HubUntouched, <1>1, <1>2 DEF EndIsKnown
<1>7. QED
  BY <1>3, <1>4, <1>5, <1>6

\* A frame is done with when the cursor has reached everything it told of.
LEMMA FinishFrameInv ==
  ASSUME StreamInv, FinishFrame
  PROVE  StreamInv'
<1> USE DEF StreamInv, FinishFrame
<1>1. TypeOK'
  BY NoJobIsIdle DEF TypeOK
<1>2. NoEventSkipped' /\ JobIsCoherent' /\ CommittedOnly' /\ EmittedInOrder'
  BY HubUntouched, NoJobIsIdle DEF NoEventSkipped, JobIsCoherent, CommittedOnly, TypeOK
<1>3. EndIsKnown'
  <2>1. job.target = log \/ job.live = log => cursor = log
    BY DEF TypeOK, CommittedOnly, Job
  <2>2. QED
    BY <2>1, HubUntouched, NoJobIsIdle DEF EndIsKnown
<1>4. QED
  BY <1>1, <1>2, <1>3

LEMMA FrameFailsInv ==
  ASSUME StreamInv, FrameFails
  PROVE  StreamInv'
<1>1. failures' \in 0 .. MaxFailures /\ attached' \in BOOLEAN
  BY StreamConstants DEF FrameFails, StreamInv, TypeOK
<1>2. CASE job.socket
  BY <1>1, <1>2, DropInv DEF FrameFails
<1>3. CASE ~job.socket
  <2> USE DEF StreamInv, FrameFails
  <2>1. TypeOK'
    BY <1>1, <1>3, NoJobIsIdle DEF TypeOK
  <2>2. NoEventSkipped' /\ JobIsCoherent' /\ CommittedOnly' /\ EndIsKnown' /\ EmittedInOrder'
    BY HubUntouched, <1>3, NoJobIsIdle DEF NoEventSkipped, JobIsCoherent, CommittedOnly, EndIsKnown, TypeOK
  <2>3. QED
    BY <2>1, <2>2
<1>4. QED
  BY <1>2, <1>3

LEMMA OrphanEndsInv ==
  ASSUME StreamInv, OrphanEnds
  PROVE  StreamInv'
<1> USE DEF StreamInv
<1>1. /\ ~job.socket /\ job' = NoJob
      /\ UNCHANGED <<log, drawn, buffer, socket, wire, attached, cursor, highWater, failures>>
  BY DEF OrphanEnds, JobIsCoherent
<1>2. handled \subseteq handled' /\ handled' \in SUBSET (1 .. log)
  <2>1. CASE AtHand /\ handled' = handled \cup {cursor + 1}
    BY <2>1, AtHandIsCommitted DEF TypeOK
  <2>2. CASE handled' = handled
    BY <2>2 DEF TypeOK
  <2>3. QED
    BY <2>1, <2>2 DEF OrphanEnds
<1>3. TypeOK'
  BY <1>1, <1>2, NoJobIsIdle DEF TypeOK
<1>4. NoEventSkipped' /\ JobIsCoherent' /\ CommittedOnly' /\ EndIsKnown' /\ EmittedInOrder'
  BY HubUntouched, <1>1, <1>2, NoJobIsIdle DEF NoEventSkipped, JobIsCoherent, CommittedOnly, EndIsKnown, TypeOK
<1>5. QED
  BY <1>3, <1>4

----------------------------------------------------------------------------
(* The theorems.                                                           *)

LEMMA StreamStepInv == StreamInv /\ [Next]_vars => StreamInv'
<1> SUFFICES ASSUME StreamInv, [Next]_vars PROVE StreamInv'
  OBVIOUS
<1>1. CASE Mutation
  BY <1>1, EmitInv, RollbackInv, CommitInv, PublishInv DEF Mutation
<1>2. CASE Subscribe
  BY <1>2, SubscribeInv
<1>3. CASE Connect
  BY <1>3, ConnectInv
<1>4. CASE Attach
  BY <1>4, AttachInv
<1>5. CASE PumpStep
  BY <1>5, TakeEventInv, TakeSubscribedInv, TakeResyncInv, FetchPageInv, HandleEventInv,
     CommitCursorInv, FinishFrameInv, OrphanEndsInv DEF PumpStep
<1>6. CASE Failure
  BY <1>6, OverflowInv, DisconnectInv, HubEndsInv, DetachInv, CrashInv, FrameFailsInv DEF Failure
<1>7. CASE UNCHANGED vars
  BY <1>7, HubUntouched, AdapterUntouched DEF vars, adapter, StreamInv, TypeOK
<1>8. QED
  BY <1>1, <1>2, <1>3, <1>4, <1>5, <1>6, <1>7 DEF Next

\* StreamInv is an invariant of the stream: types, the cursor behind handled
\* events, committed events only, and the end of the log known or on its way.
THEOREM StreamInvariant == Spec => []StreamInv
<1>1. Init => StreamInv
  BY StreamInitInv
<1>2. StreamInv /\ [Next]_vars => StreamInv'
  BY StreamStepInv
<1>3. QED
  BY <1>1, <1>2, PTL DEF Spec

\* No event is skipped and no uncommitted one is asked for, whatever overflows,
\* fails or is restarted between a handler and its commit.
THEOREM StreamSafety == Spec => [](TypeOK /\ NoEventSkipped /\ TargetIsCommitted)
<1>1. StreamInv => TypeOK /\ NoEventSkipped /\ TargetIsCommitted
  BY DEF StreamInv, CommittedOnly, TargetIsCommitted
<1>2. QED
  BY <1>1, StreamInvariant, PTL

\* An adapter with nothing to do has handled the whole log: a bounded replay,
\* an overflow or a failed frame never leaves it waiting behind a gap.
THEOREM StreamQuiet == Spec => []QuietMeansCaughtUp
<1>1. StreamInv => QuietMeansCaughtUp
  <2> SUFFICES ASSUME StreamInv, socket.state = "SUBSCRIBED", ~Publishing, wire = <<>>, ~Busy
               PROVE  cursor = log
    BY DEF QuietMeansCaughtUp
  <2>1. ~Overflowed(wire) /\ ~Tells(wire, log)
    BY EmptySeq DEF Overflowed, Tells
  <2>2. job.socket = FALSE
    BY NoJobIsIdle DEF Busy
  <2>3. QED
    BY <2>1, <2>2 DEF StreamInv, EndIsKnown
<1>2. QED
  BY <1>1, StreamInvariant, PTL

\* Every step of the stream is a step of ordered delivery, or none.
LEMMA StreamStepRefines == StreamInv /\ [Next]_vars => [OD!Next]_(OD!vars)
<1> SUFFICES ASSUME StreamInv, [Next]_vars PROVE [OD!Next]_(OD!vars)
  OBVIOUS
<1> USE DEF OD!vars
<1>1. CASE Commit
  <2>1. log' \in Nat /\ log' > log
    BY <1>1 DEF Commit, Mutating, StreamInv, TypeOK
  <2>2. QED
    BY <1>1, <2>1 DEF Commit, adapter, OD!Next, OD!Append
<1>2. CASE HandleEvent
  <2>1. cursor < log
    BY <1>2, AtHandIsCommitted DEF HandleEvent, StreamInv, TypeOK
  <2>2. QED
    BY <1>2, <2>1 DEF HandleEvent, OD!Next, OD!Handle
<1>3. CASE OrphanEnds
  <2>1. CASE UNCHANGED handled
    BY <1>3, <2>1 DEF OrphanEnds
  <2>2. CASE AtHand /\ handled' = handled \cup {cursor + 1}
    <3>1. cursor < log
      BY <2>2, AtHandIsCommitted DEF StreamInv, TypeOK
    <3>2. QED
      BY <1>3, <2>2, <3>1 DEF OrphanEnds, OD!Next, OD!Handle
  <2>3. QED
    BY <1>3, <2>1, <2>2 DEF OrphanEnds
<1>4. CASE CommitCursor
  BY <1>4 DEF CommitCursor, StreamInv, JobIsCoherent, OD!Next, OD!Advance
<1>5. CASE Crash
  BY <1>5 DEF Crash, OD!Next, OD!Restart
<1>6. CASE \/ Emit \/ Rollback \/ Publish \/ HubEnds
           \/ Subscribe \/ Connect \/ Attach \/ TakeEvent \/ TakeSubscribed \/ TakeResync
           \/ FetchPage \/ FinishFrame \/ Overflow \/ Disconnect \/ Detach \/ FrameFails
           \/ UNCHANGED vars
  BY <1>6 DEF Emit, Rollback, Publish, HubEnds, adapter, Subscribe, Connect, Attach, TakeEvent, TakeSubscribed, TakeResync, FetchPage,
              FinishFrame, Overflow, Disconnect, Detach, FrameFails, vars
<1>7. QED
  BY <1>1, <1>2, <1>3, <1>4, <1>5, <1>6 DEF Next, Mutation, PumpStep, Failure

\* The stream implements ordered delivery: events are handled one at a time in
\* the order of the log and the cursor moves only behind a handled one, through
\* every replay, gap, overflow and restart.  (That it must move is left to TLC.)
THEOREM StreamImplementsOrderedDelivery == Spec => OD!SafeSpec
<1>1. Init => OD!Init
  BY DEF Init, OD!Init
<1>2. StreamInv /\ [Next]_vars => [OD!Next]_(OD!vars)
  BY StreamStepRefines
<1>3. QED
  BY <1>1, <1>2, StreamInvariant, PTL DEF Spec, OD!SafeSpec
=============================================================================
