----------------------- MODULE DurableFileLock_proofs -----------------------
(***************************************************************************)
(* Proofs about DurableFileLock, for any number of processes, locks and     *)
(* crashes.                                                                *)
(***************************************************************************)
EXTENDS DurableFileLock, TLAPS

\* A process between its call and its lock has one left to create, and one that
\* has created a lock knows its name.
Waiting == {"check", "create", "stat", "observe", "judge", "link", "capture", "drop", "finish",
            "compare", "reap", "clear", "wait"}

Holding == {"write", "action", "unlink"}

CallsAreBounded ==
  \A p \in Proc : /\ pc[p] \in Waiting => created[p] < MaxLocks
                  /\ pc[p] \in Holding \cup {"release"} => created[p] # 0

\* Whoever reaps read a marker whose owner was dead, and still is.
ReaperSawDead ==
  \A p \in Proc : alive[p] /\ pc[p] \in Reaping =>
    seen[p] \in Token /\ OwnerIsDead(seen[p])

\* As long as reapers do not overlap: one reaps at a time, the file it is about
\* to remove is the one it compared, and a lock that is held is at the path.
OneReaper ==
  \A p, q \in Proc :
    alive[p] /\ pc[p] \in Reaping /\ alive[q] /\ pc[q] \in Reaping => p = q

ReapedIsAtPath == \A p \in Proc : At(p, "reap") => path = seen[p]

HeldIsAtPath == \A p \in Proc : alive[p] /\ pc[p] \in Holding => path = Mine(p)

LockInv ==
  /\ TypeOK
  /\ CallsAreBounded
  /\ ReaperSawDead
  /\ ~overlapped => OneReaper /\ ReapedIsAtPath /\ HeldIsAtPath

----------------------------------------------------------------------------

LEMMA LockInitInv == Init => LockInv
<1> SUFFICES ASSUME Init PROVE LockInv
  OBVIOUS
<1> USE DEF Init, Idle
<1>1. TypeOK
  <2>1. created \in [Proc -> 0 .. MaxLocks]
    BY LockConstants
  <2>2. pc \in [Proc -> Label]
    BY DEF Label
  <2>3. alive \in [Proc -> BOOLEAN] /\ overlapped \in BOOLEAN
    OBVIOUS
  <2>4. QED
    BY <2>1, <2>2, <2>3 DEF TypeOK
<1>2. \A p \in Proc : pc[p] \notin Waiting /\ pc[p] \notin Holding /\ pc[p] \notin Reaping /\ pc[p] \notin {"reap", "release"}
  BY DEF Waiting, Holding, Reaping
<1>3. CallsAreBounded /\ ReaperSawDead
  BY <1>2 DEF CallsAreBounded, ReaperSawDead
<1>4. OneReaper /\ ReapedIsAtPath /\ HeldIsAtPath
  BY <1>2 DEF OneReaper, ReapedIsAtPath, HeldIsAtPath, At
<1>5. QED
  BY <1>1, <1>3, <1>4 DEF LockInv

\* A step of p that leaves the files at the two paths as they are, or takes the
\* marker away, and does not begin to reap or to hold.
QuietStep(p, label) ==
  /\ At(p, pc[p]) /\ pc[p] # label
  /\ pc' = [pc EXCEPT ![p] = label]
  /\ UNCHANGED <<path, alive, created, overlapped>>
  /\ reap' \in Token \cup {None}
  /\ written' \subseteq Token
  /\ seen' \in [Proc -> Token \cup {None}]

LEMMA QuietStepInv ==
  ASSUME LockInv, NEW p \in Proc, NEW label \in Label, QuietStep(p, label),
         label \in Waiting => created[p] < MaxLocks,
         label \in Holding => \/ pc[p] \in Holding
                              \/ path = Mine(p) /\ created[p] # 0,
         label = "release" => pc[p] \in Holding,
         label \in Reaping => /\ seen'[p] \in Token /\ OwnerIsDead(seen'[p])
                              /\ pc[p] \in Reaping,
         label = "reap" => path = seen'[p],
         \A q \in Proc \ {p} : seen'[q] = seen[q]
  PROVE  LockInv'
<1> USE DEF LockInv, QuietStep
<1>1. TypeOK'
  BY DEF TypeOK
<1>2. \A q \in Proc : pc'[q] = IF q = p THEN label ELSE pc[q]
  BY DEF TypeOK
<1>3. CallsAreBounded'
  BY <1>2 DEF CallsAreBounded
<1>4. ReaperSawDead'
  BY <1>2 DEF ReaperSawDead, OwnerIsDead
<1>5. ASSUME ~overlapped PROVE (OneReaper /\ ReapedIsAtPath /\ HeldIsAtPath)'
  <2>1. OneReaper'
    <3>1. \A q \in Proc : alive'[q] /\ pc'[q] \in Reaping => alive[q] /\ pc[q] \in Reaping
      BY <1>2 DEF At
    <3>2. QED
      BY <1>5, <3>1 DEF OneReaper
  <2>2. ReapedIsAtPath'
    BY <1>2, <1>5 DEF ReapedIsAtPath, At
  <2>3. HeldIsAtPath'
    BY <1>2, <1>5 DEF HeldIsAtPath, Mine, At
  <2>4. QED
    BY <2>1, <2>2, <2>3
<1>6. QED
  BY <1>1, <1>3, <1>4, <1>5

LEMMA StayingInv ==
  ASSUME LockInv, NEW p \in Proc,
         \/ Begin(p) \/ Check(p) \/ FinishAction(p) \/ ReadOwn(p)
         \/ StatYoung(p) \/ StatStale(p) \/ Judge(p) \/ Link(p) \/ Capture(p) \/ Drop(p)
         \/ Clear(p) \/ Wait(p) \/ Observe(p)
  PROVE  LockInv'
<1>0. TypeOK /\ CallsAreBounded
  BY DEF LockInv
<1>1. PICK label \in Label :
        /\ QuietStep(p, label)
        /\ label \in Waiting => created[p] < MaxLocks
        /\ label \in Holding => pc[p] \in Holding \/ (path = Mine(p) /\ created[p] # 0)
        /\ label = "release" => pc[p] \in Holding
        /\ label \notin Reaping
        /\ \A q \in Proc \ {p} : seen'[q] = seen[q]
  <2> USE <1>0 DEF QuietStep, Goto, At, ReadOnly, TypeOK, CallsAreBounded, Label, Waiting, Holding,
          Reaping, Idle
  <2>1. CASE Begin(p)
    BY <2>1 DEF Begin
  <2>2. CASE Check(p)
    BY <2>2 DEF Check
  <2>3. CASE FinishAction(p)
    BY <2>3 DEF FinishAction
  <2>4. CASE ReadOwn(p)
    <3>1. CASE path = Mine(p)
      BY <2>4, <3>1 DEF ReadOwn
    <3>2. CASE path # Mine(p)
      BY <2>4, <3>2 DEF ReadOwn
    <3>3. QED
      BY <3>1, <3>2
  <2>5. CASE StatYoung(p) \/ StatStale(p)
    BY <2>5 DEF StatYoung, StatStale
  <2>6. CASE Judge(p)
    BY <2>6 DEF Judge
  <2>7. CASE Link(p)
    <3>1. CASE path # None /\ reap = None
      BY <2>7, <3>1 DEF Link
    <3>2. CASE ~(path # None /\ reap = None)
      BY <2>7, <3>2 DEF Link
    <3>3. QED
      BY <3>1, <3>2
  <2>8. CASE Capture(p)
    BY <2>8 DEF Capture
  <2>9. CASE Drop(p)
    BY <2>9 DEF Drop
  <2>10. CASE Clear(p)
    BY <2>10 DEF Clear
  <2>11. CASE Wait(p)
    BY <2>11 DEF Wait
  <2>12. CASE Observe(p)
    BY <2>12 DEF Observe, Readable
  <2>13. QED
    BY <2>1, <2>2, <2>3, <2>4, <2>5, <2>6, <2>7, <2>8, <2>9, <2>10, <2>11, <2>12
<1>2. QED
  BY <1>1, QuietStepInv DEF Reaping

\* Both names of a lock.
LEMMA MineIsToken ==
  ASSUME LockInv, NEW p \in Proc, pc[p] \in Holding
  PROVE  Mine(p) \in Token /\ Owner(Mine(p)) = p
BY DEF LockInv, TypeOK, CallsAreBounded, Mine, Token, Owner

LEMMA WriteInv == ASSUME LockInv, NEW p \in Proc, Write(p) PROVE LockInv'
<1>1. pc[p] \in Holding
  BY DEF Write, At, Holding
<1>2. Mine(p) \in Token
  BY <1>1, MineIsToken
<1>3. QuietStep(p, "action")
  BY <1>2 DEF Write, LockInv, TypeOK, QuietStep, At, Goto
<1>4. QED
  BY <1>1, <1>3, QuietStepInv DEF Write, Label, Waiting, Reaping, Holding

LEMMA CreateInv == ASSUME LockInv, NEW p \in Proc, Create(p) PROVE LockInv'
<1>0. TypeOK /\ CallsAreBounded
  BY DEF LockInv
<1>1. CASE path # None
  <2>1. QuietStep(p, "stat")
    BY <1>0, <1>1 DEF Create, TypeOK, QuietStep, At, Goto
  <2>2. created[p] < MaxLocks
    BY <1>0 DEF Create, At, CallsAreBounded, Waiting
  <2>3. \A q \in Proc \ {p} : seen'[q] = seen[q]
    BY DEF Create
  <2>4. QED
    BY <2>1, <2>2, <2>3, QuietStepInv DEF Label, Holding, Reaping
<1>2. CASE path = None
  <2>1. /\ pc[p] = "create" /\ alive[p] /\ created[p] \in 0 .. MaxLocks /\ created[p] < MaxLocks
        /\ UNCHANGED <<reap, written, alive, seen, overlapped>>
    BY <1>0 DEF Create, At, CallsAreBounded, Waiting, TypeOK
  <2>2. /\ path' = <<p, created[p] + 1>>
        /\ created' = [created EXCEPT ![p] = created[p] + 1]
        /\ pc' = [pc EXCEPT ![p] = "write"]
    BY <1>2 DEF Create, Goto
  <2>3. /\ \A q \in Proc : pc'[q] = IF q = p THEN "write" ELSE pc[q]
        /\ \A q \in Proc : created'[q] = IF q = p THEN created[p] + 1 ELSE created[q]
        /\ path' = Mine(p)'
    BY <1>0, <2>2 DEF TypeOK, Mine
  <2>4. TypeOK'
    <3>1. path' \in Token /\ created[p] + 1 \in 0 .. MaxLocks
      BY <2>1, <2>2, LockConstants DEF Token
    <3>2. QED
      BY <1>0, <2>1, <2>2, <3>1 DEF TypeOK, Label
  <2>5. CallsAreBounded'
    BY <1>0, <2>1, <2>3 DEF CallsAreBounded, Waiting
  <2>6. \A q \in Proc : pc'[q] \in Reaping => pc'[q] = pc[q]
    BY <2>3 DEF Reaping
  <2>7. ReaperSawDead'
    BY <2>1, <2>6 DEF LockInv, ReaperSawDead, OwnerIsDead
  <2>8. ASSUME ~overlapped PROVE (OneReaper /\ ReapedIsAtPath /\ HeldIsAtPath)'
    <3>1. OneReaper'
      BY <2>1, <2>6, <2>8 DEF LockInv, OneReaper
    <3>2. \A q \in Proc : ~At(q, "reap")
      <4>1. \A q \in Proc : At(q, "reap") => seen[q] \in Token /\ path = seen[q]
        BY <2>8 DEF LockInv, ReapedIsAtPath, ReaperSawDead, At, Reaping
      <4>2. QED
        BY <1>2, <4>1, LockConstants, NoneIsNoToken
    <3>3. ReapedIsAtPath'
      BY <2>1, <2>3, <3>2 DEF ReapedIsAtPath, At
    <3>4. \A q \in Proc : alive[q] => pc[q] \notin Holding
      BY <1>2, <2>8, MineIsToken, NoneIsNoToken DEF LockInv, HeldIsAtPath
    <3>5. HeldIsAtPath'
      BY <2>1, <2>3, <3>4 DEF HeldIsAtPath, Mine
    <3>6. QED
      BY <3>1, <3>3, <3>5
  <2>9. QED
    BY <2>1, <2>4, <2>5, <2>7, <2>8 DEF LockInv
<1>3. QED
  BY <1>1, <1>2

\* Removing the file at the path, which is the remover's own or the one a live
\* reaper compared.
LEMMA RemoveInv ==
  ASSUME LockInv, NEW p \in Proc, Unlink(p) \/ Reap(p)
  PROVE  LockInv'
<1>0. TypeOK /\ CallsAreBounded
  BY DEF LockInv
<1> DEFINE label == IF pc[p] = "reap" THEN "clear" ELSE Idle
<1>1. /\ alive[p]
      /\ pc[p] \in {"unlink", "reap"}
      /\ pc' = [pc EXCEPT ![p] = label]
      /\ path' = None
      /\ UNCHANGED <<reap, written, alive, created, seen, overlapped>>
  BY DEF Unlink, Reap, At, Goto
<1>2. \A q \in Proc : pc'[q] = IF q = p THEN label ELSE pc[q]
  BY <1>0, <1>1 DEF TypeOK
<1>3. label \in {"clear", Idle} /\ (label = "clear" => pc[p] = "reap")
  BY DEF Idle
<1> HIDE DEF label
<1>4. TypeOK'
  BY <1>0, <1>1, <1>3 DEF TypeOK, Label
<1>5. CallsAreBounded'
  BY <1>0, <1>1, <1>2, <1>3 DEF CallsAreBounded, Waiting, Holding, Idle
<1>6. \A q \in Proc : /\ pc'[q] \in Reaping => pc[q] \in Reaping
                      /\ pc'[q] \in Holding => pc[q] \in Holding /\ q # p
                      /\ pc'[q] = "reap" => pc[q] = "reap" /\ q # p
  BY <1>2, <1>3 DEF Reaping, Holding, Idle
<1>7. ReaperSawDead'
  BY <1>1, <1>6 DEF LockInv, ReaperSawDead, OwnerIsDead
<1>8. ASSUME ~overlapped PROVE (OneReaper /\ ReapedIsAtPath /\ HeldIsAtPath)'
  <2>1. OneReaper /\ ReapedIsAtPath /\ HeldIsAtPath /\ ReaperSawDead
    BY <1>8 DEF LockInv
  <2>2. OneReaper'
    BY <1>1, <1>6, <2>1 DEF OneReaper
  <2>3. ASSUME NEW q \in Proc, q # p, alive[q], pc[q] \in Holding PROVE FALSE
    <3>1. path = Mine(q) /\ Owner(Mine(q)) = q
      BY <2>1, <2>3, MineIsToken DEF HeldIsAtPath
    <3>2. CASE pc[p] = "unlink"
      BY <1>1, <2>1, <2>3, <3>1, <3>2, MineIsToken DEF HeldIsAtPath, Holding
    <3>3. CASE pc[p] = "reap"
      BY <1>1, <2>1, <2>3, <3>1, <3>3 DEF ReapedIsAtPath, ReaperSawDead, Reaping, OwnerIsDead, At
    <3>4. QED
      BY <1>1, <3>2, <3>3
  <2>4. ASSUME NEW q \in Proc, q # p, alive[q], pc[q] = "reap" PROVE FALSE
    <3>1. path = seen[q] /\ OwnerIsDead(seen[q])
      BY <2>1, <2>4 DEF ReapedIsAtPath, ReaperSawDead, Reaping, At
    <3>2. CASE pc[p] = "unlink"
      <4>1. path = Mine(p) /\ Owner(Mine(p)) = p
        BY <1>1, <2>1, <3>2, MineIsToken DEF HeldIsAtPath, Holding
      <4>2. QED
        BY <1>1, <3>1, <4>1 DEF OwnerIsDead
    <3>3. CASE pc[p] = "reap"
      BY <1>1, <2>1, <2>4, <3>3 DEF OneReaper, Reaping
    <3>4. QED
      BY <1>1, <3>2, <3>3
  <2>5. ReapedIsAtPath' /\ HeldIsAtPath'
    BY <1>1, <1>6, <2>3, <2>4 DEF ReapedIsAtPath, HeldIsAtPath, At
  <2>6. QED
    BY <2>2, <2>5
<1>9. QED
  BY <1>1, <1>4, <1>5, <1>7, <1>8 DEF LockInv

LEMMA CompareInv == ASSUME LockInv, NEW p \in Proc, Compare(p) PROVE LockInv'
<1>0. TypeOK /\ CallsAreBounded /\ ReaperSawDead
  BY DEF LockInv
<1>1. pc[p] = "compare" /\ alive[p] /\ UNCHANGED seen
  BY DEF Compare, At
<1>2. created[p] < MaxLocks /\ seen[p] \in Token /\ OwnerIsDead(seen[p])
  BY <1>0, <1>1 DEF CallsAreBounded, ReaperSawDead, Waiting, Reaping
<1>3. PICK label \in {"wait", "reap", "clear"} :
        QuietStep(p, label) /\ (label = "reap" => path = seen[p])
  BY <1>0, <1>1 DEF Compare, ReadOnly, Goto, QuietStep, At, TypeOK
<1>4. QED
  BY <1>1, <1>2, <1>3, QuietStepInv DEF Label, Holding, Reaping

\* Whoever starts to reap beside another reaper is remembered.
LEMMA FinishInv == ASSUME LockInv, NEW p \in Proc, Finish(p) PROVE LockInv'
<1>0. TypeOK /\ CallsAreBounded /\ ReaperSawDead
  BY DEF LockInv
<1>1. pc[p] = "finish" /\ alive[p] /\ UNCHANGED <<path, reap, written, alive, created>>
  BY DEF Finish, At
<1>2. created[p] < MaxLocks
  BY <1>0, <1>1 DEF CallsAreBounded, Waiting
<1>3. CASE ~(Readable(reap) /\ OwnerIsDead(reap))
  <2>1. QuietStep(p, "wait") /\ UNCHANGED seen
    BY <1>0, <1>1, <1>3 DEF Finish, QuietStep, Goto, At, TypeOK
  <2>2. QED
    BY <1>2, <2>1, QuietStepInv DEF Label, Holding, Reaping
<1>4. CASE Readable(reap) /\ OwnerIsDead(reap)
  <2>1. /\ reap \in Token
        /\ seen' = [seen EXCEPT ![p] = reap]
        /\ pc' = [pc EXCEPT ![p] = "compare"]
        /\ overlapped' = (overlapped \/ \E q \in Proc \ {p} : alive[q] /\ pc[q] \in Reaping)
    BY <1>0, <1>4 DEF Finish, Goto, Readable, TypeOK
  <2>2. /\ \A q \in Proc : pc'[q] = IF q = p THEN "compare" ELSE pc[q]
        /\ \A q \in Proc : seen'[q] = IF q = p THEN reap ELSE seen[q]
    BY <1>0, <2>1 DEF TypeOK
  <2>3. TypeOK'
    BY <1>0, <1>1, <2>1 DEF TypeOK, Label
  <2>4. CallsAreBounded'
    BY <1>0, <1>1, <1>2, <2>2 DEF CallsAreBounded, Holding
  <2>5. ReaperSawDead'
    BY <1>0, <1>1, <1>4, <2>1, <2>2 DEF ReaperSawDead, OwnerIsDead
  <2>6. ASSUME ~overlapped' PROVE (OneReaper /\ ReapedIsAtPath /\ HeldIsAtPath)'
    <3>1. OneReaper /\ ReapedIsAtPath /\ HeldIsAtPath
          /\ \A q \in Proc \ {p} : ~(alive[q] /\ pc[q] \in Reaping)
      BY <2>1, <2>6 DEF LockInv
    <3>2. OneReaper'
      BY <1>1, <2>2, <3>1 DEF OneReaper
    <3>3. ReapedIsAtPath'
      BY <1>1, <2>2, <3>1 DEF ReapedIsAtPath, At
    <3>4. HeldIsAtPath'
      BY <1>1, <2>2, <3>1 DEF HeldIsAtPath, Mine, Holding
    <3>5. QED
      BY <3>2, <3>3, <3>4
  <2>7. QED
    BY <2>3, <2>4, <2>5, <2>6 DEF LockInv
<1>5. QED
  BY <1>3, <1>4

LEMMA CrashInv == ASSUME LockInv, NEW p \in Proc, Crash(p) PROVE LockInv'
<1>1. /\ alive' = [alive EXCEPT ![p] = FALSE]
      /\ pc' = [pc EXCEPT ![p] = Idle] /\ seen' = [seen EXCEPT ![p] = None]
      /\ UNCHANGED <<path, reap, written, created, overlapped>>
  BY DEF Crash
<1>2. TypeOK'
  BY <1>1 DEF LockInv, TypeOK, Label, Idle
<1>3. \A q \in Proc : alive'[q] => alive[q] /\ pc'[q] = pc[q] /\ seen'[q] = seen[q]
  BY <1>1 DEF LockInv, TypeOK
<1>4. \A t \in Token : OwnerIsDead(t) => ~alive'[Owner(t)]
  BY <1>3 DEF OwnerIsDead, Owner, Token
<1>5. CallsAreBounded'
  <2>1. \A q \in Proc : pc'[q] \in {pc[q], Idle}
    BY <1>1 DEF LockInv, TypeOK
  <2>2. Idle \notin Waiting /\ Idle \notin Holding \cup {"release"}
    BY DEF Idle, Waiting, Holding
  <2>3. QED
    BY <1>1, <2>1, <2>2 DEF LockInv, CallsAreBounded
<1>6. ReaperSawDead'
  BY <1>1, <1>3, <1>4 DEF LockInv, ReaperSawDead, OwnerIsDead
<1>7. ASSUME ~overlapped PROVE (OneReaper /\ ReapedIsAtPath /\ HeldIsAtPath)'
  <2>1. OneReaper'
    BY <1>1, <1>3, <1>7 DEF LockInv, OneReaper
  <2>2. ReapedIsAtPath' /\ HeldIsAtPath'
    BY <1>1, <1>3, <1>7 DEF LockInv, ReapedIsAtPath, HeldIsAtPath, Mine, At
  <2>3. QED
    BY <2>1, <2>2
<1>8. QED
  BY <1>1, <1>2, <1>5, <1>6, <1>7 DEF LockInv

LEMMA LockNextInv == LockInv /\ [Next]_vars => LockInv'
<1> SUFFICES ASSUME LockInv, [Next]_vars PROVE LockInv'
  OBVIOUS
<1>1. ASSUME NEW p \in Proc, Step(p) PROVE LockInv'
  BY <1>1, StayingInv, WriteInv, CreateInv, RemoveInv, CompareInv, FinishInv
     DEF Step, Acquire, Release, Suspect, Mark, Recover
<1>2. ASSUME NEW p \in Proc, Crash(p) PROVE LockInv'
  BY <1>2, CrashInv
<1>3. CASE UNCHANGED vars
  BY <1>3 DEF vars, LockInv, TypeOK, CallsAreBounded, ReaperSawDead, OneReaper, ReapedIsAtPath,
              HeldIsAtPath, OwnerIsDead, Mine, At
<1>4. QED
  BY <1>1, <1>2, <1>3 DEF Next

\* Every reachable state of any instance satisfies the inductive invariant.
THEOREM LockInvariant == Spec => []LockInv
BY LockInitInv, LockNextInv, PTL DEF Spec

\* However many processes create, reap, release and die in whatever order, two
\* actions under the lock run at a time only after two reapers overlapped, and
\* until then nobody but its owner takes a held lock from the path.
THEOREM LockSafety == Spec => []ExclusiveUnlessReapersOverlap
<1>1. LockInv => ExclusiveUnlessReapersOverlap
  <2> SUFFICES ASSUME LockInv, ~overlapped
               PROVE  /\ MutualExclusion
                      /\ \A p \in Proc : pc[p] \in Holding /\ alive[p] => path = Mine(p)
    BY DEF ExclusiveUnlessReapersOverlap, Holding
  <2>1. HeldIsAtPath
    BY DEF LockInv
  <2>2. \A p \in Proc : Critical(p) => alive[p] /\ pc[p] \in Holding
    BY DEF Critical, At, Holding
  <2>3. MutualExclusion
    BY <2>1, <2>2, MineIsToken DEF MutualExclusion, HeldIsAtPath
  <2>4. QED
    BY <2>1, <2>3 DEF HeldIsAtPath
<1>2. QED
  BY <1>1, LockInvariant, PTL
=============================================================================
