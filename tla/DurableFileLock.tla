-------------------------- MODULE DurableFileLock --------------------------
(***************************************************************************)
(* The cross-process file lock of the hooks package: an exclusive create,   *)
(* a nonce in the file, and a hard link that marks a dead owner's lock for  *)
(* reaping.                                                                *)
(*                                                                         *)
(* Source: packages/hooks/src/durable-file-lock.ts; surface-journal.ts      *)
(* holds a second copy of the same algorithm.  The processes share only the *)
(* file system, so each system call is one action.  A lock file is named by *)
(* the token its creator drew; a hard link to it is the same token.  The    *)
(* content is written after the exclusive create, and a file that is not    *)
(* written yet cannot be parsed.  A process is one caller here: callers of  *)
(* one process interleave only while they sleep or hold the lock.  Pids are *)
(* not reused, and system calls fail only in the ways the code handles.     *)
(***************************************************************************)
EXTENDS Naturals, FiniteSets

CONSTANTS
  Proc,        \* processes that use the lock
  None,        \* no such file
  MaxLocks,    \* bound on the locks one process creates
  MaxCrashes   \* bound on the processes that die

ASSUME LockConstants ==
  /\ MaxLocks \in Nat
  /\ MaxCrashes \in Nat

Token == Proc \X (1 .. MaxLocks)

ASSUME NoneIsNoToken == None \notin Token

VARIABLES
  path,        \* the file at the lock path
  reap,        \* the file at path.reap
  written,     \* the files whose content has been written
  alive,       \* processes that have not died
  pc,          \* where each process is
  created,     \* how many locks each process has created
  seen,        \* the token a process last read: observed or reaped
  overlapped   \* history: two live processes were reaping at the same time

vars == <<path, reap, written, alive, pc, created, seen, overlapped>>

Idle == "idle"

\* From a readable, dead .reap file to its removal: finishAbandonedReap.
Reaping == {"compare", "reap", "clear"}

Owner(t) == t[1]
Mine(p)  == <<p, created[p]>>

Readable(f) == f # None /\ f \in written
OwnerIsDead(t) == ~alive[Owner(t)]

----------------------------------------------------------------------------

Init ==
  /\ path = None
  /\ reap = None
  /\ written = {}
  /\ alive = [p \in Proc |-> TRUE]
  /\ pc = [p \in Proc |-> Idle]
  /\ created = [p \in Proc |-> 0]
  /\ seen = [p \in Proc |-> None]
  /\ overlapped = FALSE

At(p, label) == alive[p] /\ pc[p] = label

Goto(p, label) == pc' = [pc EXCEPT ![p] = label]

\* A step that only reads the directory.
ReadOnly == UNCHANGED <<path, reap, written, alive, created, overlapped>>

(* withDurableFileLock is called. *)
Begin(p) ==
  /\ At(p, Idle)
  /\ created[p] < MaxLocks
  /\ Goto(p, "check")
  /\ ReadOnly /\ UNCHANGED seen

(* existsSync(path.reap): nobody creates a lock beside a reap marker. *)
Check(p) ==
  /\ At(p, "check")
  /\ Goto(p, IF reap = None THEN "create" ELSE "finish")
  /\ ReadOnly /\ UNCHANGED seen

(* openSync(path, "wx") *)
Create(p) ==
  /\ At(p, "create")
  /\ \/ /\ path = None
        /\ created' = [created EXCEPT ![p] = @ + 1]
        /\ path' = <<p, created[p] + 1>>
        /\ Goto(p, "write")
     \/ /\ path # None
        /\ Goto(p, "stat")
        /\ UNCHANGED <<path, created>>
  /\ UNCHANGED <<reap, written, alive, seen, overlapped>>

(* writeFileSync, fsyncSync: the caller's action may start. *)
Write(p) ==
  /\ At(p, "write")
  /\ written' = written \cup {Mine(p)}
  /\ Goto(p, "action")
  /\ UNCHANGED <<path, reap, alive, created, seen, overlapped>>

FinishAction(p) ==
  /\ At(p, "action")
  /\ Goto(p, "release")
  /\ ReadOnly /\ UNCHANGED seen

(* releaseLock: the file is read, and removed if it still is the caller's. *)
ReadOwn(p) ==
  /\ At(p, "release")
  /\ Goto(p, IF path = Mine(p) THEN "unlink" ELSE Idle)
  /\ ReadOnly /\ UNCHANGED seen

Unlink(p) ==
  /\ At(p, "unlink")
  /\ path' = None
  /\ Goto(p, Idle)
  /\ UNCHANGED <<reap, written, alive, created, seen, overlapped>>

(* statSync(path): only a lock older than staleMs is looked into.  How old  *)
(* a lock is does not depend on anything modelled.                         *)
StatYoung(p) ==
  /\ At(p, "stat")
  /\ Goto(p, IF path = None THEN "check" ELSE "wait")
  /\ ReadOnly /\ UNCHANGED seen

StatStale(p) ==
  /\ At(p, "stat")
  /\ path # None
  /\ Goto(p, "observe")
  /\ ReadOnly /\ UNCHANGED seen

(* The stale lock is parsed ... *)
Observe(p) ==
  /\ At(p, "observe")
  /\ \/ /\ Readable(path)
        /\ seen' = [seen EXCEPT ![p] = path]
        /\ Goto(p, "judge")
     \/ /\ ~Readable(path)
        /\ Goto(p, "wait")
        /\ UNCHANGED seen
  /\ ReadOnly

(* ... and its owner's pid is probed. *)
Judge(p) ==
  /\ At(p, "judge")
  /\ Goto(p, IF OwnerIsDead(seen[p]) THEN "link" ELSE "wait")
  /\ ReadOnly /\ UNCHANGED seen

(* linkSync(path, path.reap) *)
Link(p) ==
  /\ At(p, "link")
  /\ IF path # None /\ reap = None
     THEN reap' = path /\ Goto(p, "capture")
     ELSE /\ Goto(p, IF path = None THEN "check" ELSE "finish")
          /\ UNCHANGED reap
  /\ UNCHANGED <<path, written, alive, created, seen, overlapped>>

(* The captured file is compared with the one observed.  A captured file    *)
(* that cannot be parsed is left in place.                                 *)
Capture(p) ==
  /\ At(p, "capture")
  /\ Goto(p, IF ~Readable(reap) THEN "wait"
             ELSE IF reap = seen[p] /\ OwnerIsDead(reap) THEN "finish" ELSE "drop")
  /\ ReadOnly /\ UNCHANGED seen

Drop(p) ==
  /\ At(p, "drop")
  /\ reap' = None
  /\ Goto(p, "wait")
  /\ UNCHANGED <<path, written, alive, created, seen, overlapped>>

\* Mutant: the marker is finished whether or not its owner lives.
FinishAnyOwner(p) ==
  /\ At(p, "finish")
  /\ IF Readable(reap)
     THEN /\ seen' = [seen EXCEPT ![p] = reap]
          /\ Goto(p, "compare")
          /\ overlapped' = (overlapped \/ \E q \in Proc \ {p} : alive[q] /\ pc[q] \in Reaping)
     ELSE Goto(p, "wait") /\ UNCHANGED <<seen, overlapped>>
  /\ UNCHANGED <<path, reap, written, alive, created>>

(* finishAbandonedReap: the marker is parsed and its owner probed, *)
Finish(p) ==
  /\ At(p, "finish")
  /\ IF Readable(reap) /\ OwnerIsDead(reap)
     THEN /\ seen' = [seen EXCEPT ![p] = reap]
          /\ Goto(p, "compare")
          /\ overlapped' = (overlapped \/ \E q \in Proc \ {p} : alive[q] /\ pc[q] \in Reaping)
     ELSE Goto(p, "wait") /\ UNCHANGED <<seen, overlapped>>
  /\ UNCHANGED <<path, reap, written, alive, created>>

\* Mutant: the marker is taken away without the lock it marks.
CompareNothing(p) ==
  /\ At(p, "compare")
  /\ Goto(p, IF path # None /\ ~Readable(path) THEN "wait" ELSE "clear")
  /\ ReadOnly /\ UNCHANGED seen

(* the lock is read again, *)
Compare(p) ==
  /\ At(p, "compare")
  /\ Goto(p, IF path # None /\ ~Readable(path) THEN "wait"
             ELSE IF path = seen[p] THEN "reap" ELSE "clear")
  /\ ReadOnly /\ UNCHANGED seen

(* removed, whatever it is by now, *)
Reap(p) ==
  /\ At(p, "reap")
  /\ path' = None
  /\ Goto(p, "clear")
  /\ UNCHANGED <<reap, written, alive, created, seen, overlapped>>

(* and so is the marker. *)
Clear(p) ==
  /\ At(p, "clear")
  /\ reap' = None
  /\ Goto(p, "check")
  /\ UNCHANGED <<path, written, alive, created, seen, overlapped>>

(* The caller sleeps and tries again, or its deadline has passed. *)
Wait(p) ==
  /\ At(p, "wait")
  /\ \E next \in {"check", Idle} : Goto(p, next)
  /\ ReadOnly /\ UNCHANGED seen

(* The process dies with all it knows; its files stay. *)
Crash(p) ==
  /\ alive[p]
  /\ Cardinality({q \in Proc : ~alive[q]}) < MaxCrashes
  /\ alive' = [alive EXCEPT ![p] = FALSE]
  /\ pc' = [pc EXCEPT ![p] = Idle]
  /\ seen' = [seen EXCEPT ![p] = None]
  /\ UNCHANGED <<path, reap, written, created, overlapped>>

Acquire(p) == Begin(p) \/ Check(p) \/ Create(p) \/ Write(p)
Release(p) == FinishAction(p) \/ ReadOwn(p) \/ Unlink(p)
Suspect(p) == StatYoung(p) \/ StatStale(p) \/ Observe(p) \/ Judge(p)
Mark(p)    == Link(p) \/ Capture(p) \/ Drop(p)
Recover(p) == Finish(p) \/ Compare(p) \/ Reap(p) \/ Clear(p)

Step(p) == Acquire(p) \/ Release(p) \/ Suspect(p) \/ Mark(p) \/ Recover(p) \/ Wait(p)

Next == \E p \in Proc : Step(p) \/ Crash(p)

Spec == Init /\ [][Next]_vars

\* Live processes run and keep calling, and a lock that stays grows stale.
Fairness == \A p \in Proc : WF_vars(Step(p)) /\ SF_vars(StatStale(p))

FairSpec == Spec /\ Fairness

----------------------------------------------------------------------------
(***************************************************************************)
(* Properties                                                              *)
(***************************************************************************)

Label == {Idle, "check", "create", "write", "action", "release", "unlink", "stat", "observe",
          "judge", "link", "capture", "drop", "finish", "compare", "reap", "clear", "wait"}

TypeOK ==
  /\ path \in Token \cup {None}
  /\ reap \in Token \cup {None}
  /\ written \subseteq Token
  /\ alive \in [Proc -> BOOLEAN]
  /\ pc \in [Proc -> Label]
  /\ created \in [Proc -> 0 .. MaxLocks]
  /\ seen \in [Proc -> Token \cup {None}]
  /\ overlapped \in BOOLEAN

Critical(p) == At(p, "action")

\* Two live processes never run their actions under the lock together.
MutualExclusion == \A p, q \in Proc : Critical(p) /\ Critical(q) => p = q

\* Exclusion can be lost in one way only: two processes were between reading
\* a dead owner's marker and removing it at the same time.  As long as that has
\* not happened, a lock that is held is the file at the lock path: nobody
\* removes or replaces it before its owner does.
ExclusiveUnlessReapersOverlap ==
  ~overlapped =>
    /\ MutualExclusion
    /\ \A p \in Proc : pc[p] \in {"write", "action", "unlink"} /\ alive[p] => path = Mine(p)

\* A live process has locks left to take (MaxLocks bounds them).
SomebodyStillCalls == \E p \in Proc : alive[p] /\ created[p] < MaxLocks

\* A dead process's lock, and the reap marker that keeps every caller out
\* while its lock is removed, do not stay in place while others keep calling,
\* provided the lock's content had been written.
AbandonedLockIsReaped ==
  []<>~(SomebodyStillCalls /\ \E t \in {path, reap} : Readable(t) /\ OwnerIsDead(t))
=============================================================================
