--------------------------- MODULE Reviews_proofs ---------------------------
(***************************************************************************)
(* Proofs about Reviews, for any number of tasks, sessions, revisions and   *)
(* findings.  The board and the succession below it are proved along.       *)
(***************************************************************************)
EXTENDS Reviews, SessionLineages_proofs, SequenceTheorems

\* What the properties lack to be inductive: how many revisions there are, and
\* that a task not yet created has neither an owner nor a revision.
RevisionsAreBounded == \A t \in Task : Len(review[t]) <= MaxRevision

AbsentIsUntouched ==
  \A t \in Task : ~Created(t) => task[t].owner = None /\ Len(review[t]) = 0

ReviewInv ==
  /\ LineageInv
  /\ ReviewTypeOK
  /\ RevisionsAreBounded
  /\ AbsentIsUntouched
  /\ OneActiveReview
  /\ ApprovedHasNoOpenBlocker
  /\ DoneIsApproved

----------------------------------------------------------------------------

LEMMA ReviewInitInv == ReviewInit => ReviewInv
<1> SUFFICES ASSUME ReviewInit PROVE ReviewInv
  OBVIOUS
<1> USE DEF ReviewInit, BoardInit
<1>1. LineageInv
  BY LineageInitInv
<1>2. \A t \in Task : review[t] = <<>> /\ Len(review[t]) = 0 /\ DOMAIN review[t] = {}
                      /\ review[t] \in Seq(ReviewRow)
  BY EmptySeq
<1>3. BoardTypeOK
  <2>1. NoTask \in TaskRow
    BY DEF NoTask, TaskRow
  <2>2. QED
    BY <1>1, <2>1 DEF BoardTypeOK, LineageInv, Heard
<1>4. ReviewTypeOK
  BY <1>2, <1>3 DEF ReviewTypeOK
<1>5. RevisionsAreBounded /\ AbsentIsUntouched
  BY <1>2, ReviewConstants DEF RevisionsAreBounded, AbsentIsUntouched, NoTask
<1>6. OneActiveReview /\ ApprovedHasNoOpenBlocker
  BY <1>2 DEF OneActiveReview, ApprovedHasNoOpenBlocker, ActiveOf
<1>7. DoneIsApproved
  BY DEF DoneIsApproved, NoTask
<1>8. QED
  BY <1>1, <1>4, <1>5, <1>6, <1>7 DEF ReviewInv

----------------------------------------------------------------------------
(* Steps that write no revision.                                           *)

\* Whatever else happens to task t, it neither vanishes nor becomes DONE, or
\* owned while DONE, without its gate.
KeepsGate(t) ==
  /\ task'[t].status = "ABSENT" => task[t].status = "ABSENT" /\ task'[t].owner = task[t].owner
  /\ task'[t].status = "DONE" =>
       \/ t \in ReviewRequired => CompletionGate(t)
       \/ task[t].status = "DONE" /\ (task'[t].owner = None \/ task[t].owner # None)
       \/ task[t].status = "ABSENT" /\ task'[t].owner = None

LEMMA BoardStepInv ==
  ASSUME ReviewInv, LineageInv', BoardTypeOK',
         currentReview' \in [Session -> ReviewId \cup {None}], UNCHANGED review,
         \A t \in Task : KeepsGate(t)
  PROVE  ReviewInv'
<1> USE DEF ReviewInv
<1>1. ReviewTypeOK'
  BY DEF ReviewTypeOK
<1>2. RevisionsAreBounded' /\ OneActiveReview' /\ ApprovedHasNoOpenBlocker'
  BY DEF RevisionsAreBounded, OneActiveReview, ApprovedHasNoOpenBlocker, ActiveOf, Row, NoOpenBlocker
<1>3. AbsentIsUntouched'
  BY DEF AbsentIsUntouched, KeepsGate, Created
<1>4. DoneIsApproved'
  <2> SUFFICES ASSUME NEW t \in ReviewRequired \cap Task, task'[t].status = "DONE",
                      task'[t].owner # None \/ Len(review[t]) > 0
               PROVE  /\ Len(review[t]) > 0
                      /\ Row(t, Len(review[t])).status = "APPROVED"
                      /\ NoOpenBlocker(t, Len(review[t]))
    BY DEF DoneIsApproved, Row, NoOpenBlocker
  <2>1. CASE CompletionGate(t)
    BY <2>1 DEF CompletionGate
  <2>2. CASE task[t].status = "DONE" /\ (task'[t].owner = None \/ task[t].owner # None)
    BY <2>2 DEF DoneIsApproved
  <2>3. CASE task[t].status = "ABSENT" /\ task'[t].owner = None
    BY <2>3 DEF AbsentIsUntouched, Created
  <2>4. QED
    BY <2>1, <2>2, <2>3 DEF KeepsGate
<1>5. QED
  BY <1>1, <1>2, <1>3, <1>4

\* A step that keeps the sessions.
LEMMA SameSessions == ASSUME ReviewInv, UNCHANGED lineageVars PROVE LineageInv' /\ LineageTypeOK'
BY LineageNextInv DEF ReviewInv, lineageVars, LineageInv

LEMMA CreateTaskInv ==
  ASSUME ReviewInv, UNCHANGED reviewVars,
         NEW t \in Task, NEW status \in TaskStatus, NEW deps \in SUBSET Task,
         CreateTask(t, status, deps)
  PROVE  ReviewInv'
<1> USE DEF ReviewInv, ReviewTypeOK, BoardTypeOK, reviewVars, CreateTask
<1>1. LineageInv' /\ LineageTypeOK'
  BY SameSessions
<1> DEFINE st == IF status = "READY" /\ \E d \in deps : task[d].status # "DONE"
                 THEN "BACKLOG" ELSE status
           row == [NoTask EXCEPT !.status = st, !.deps = deps]
<1>2. st \in TaskStatus
  BY DEF TaskStatus
<1>3. task' = [task EXCEPT ![t] = row]
  OBVIOUS
<1> HIDE DEF st
<1>4. row \in TaskRow /\ row.owner = None /\ row.status # "ABSENT"
  BY <1>2 DEF NoTask, TaskRow, TaskStatus
<1> HIDE DEF row
<1>5. BoardTypeOK'
  BY <1>1, <1>3, <1>4
<1>6. \A u \in Task : KeepsGate(u)
  BY <1>3, <1>4 DEF KeepsGate, Created
<1>7. QED
  BY <1>1, <1>5, <1>6, BoardStepInv

LEMMA SplitTaskInv ==
  ASSUME ReviewInv, UNCHANGED reviewVars,
         NEW s \in Session, NEW p \in Task, NEW children \in SUBSET Task,
         SplitTask(s, p, children)
  PROVE  ReviewInv'
<1> USE DEF ReviewInv, ReviewTypeOK, BoardTypeOK, reviewVars, SplitTask
<1>1. LineageInv' /\ LineageTypeOK'
  BY SameSessions
<1> DEFINE child == [NoTask EXCEPT !.status = "READY"]
           parent == [task[p] EXCEPT !.status = "BLOCKED"]
<1>2. child \in TaskRow /\ child.status = "READY" /\ parent \in TaskRow /\ parent.status = "BLOCKED"
  <2>1. child \in TaskRow /\ child.status = "READY"
    BY DEF NoTask, TaskRow, TaskStatus
  <2>2. task[p] \in TaskRow
    OBVIOUS
  <2>3. parent \in TaskRow /\ parent.status = "BLOCKED"
    BY <2>2 DEF TaskRow, TaskStatus
  <2>4. QED
    BY <2>1, <2>3
<1>3. task' = [t \in Task |-> IF t = p THEN parent ELSE IF t \in children THEN child ELSE task[t]]
  OBVIOUS
<1> HIDE DEF child, parent
<1>4. BoardTypeOK'
  BY <1>1, <1>2, <1>3
<1>5. \A u \in Task : KeepsGate(u)
  BY <1>2, <1>3 DEF KeepsGate
<1>6. QED
  BY <1>1, <1>4, <1>5, BoardStepInv

\* A step that writes one row of the board, and a current task with it.
WritesTask(t, row) ==
  /\ row \in TaskRow
  /\ task' = [task EXCEPT ![t] = row]
  /\ currentTask' \in [Session -> Task \cup {None}]
  /\ UNCHANGED lineageVars
  /\ UNCHANGED presence
  /\ row.status = "ABSENT" => task[t].status = "ABSENT" /\ row.owner = task[t].owner
  /\ row.status = "DONE" => \/ t \in ReviewRequired => CompletionGate(t)
                            \/ task[t].status = "DONE" /\ row.owner = task[t].owner

LEMMA OneTaskInv ==
  ASSUME ReviewInv, UNCHANGED reviewVars, NEW t \in Task, NEW row, WritesTask(t, row)
  PROVE  ReviewInv'
<1> USE DEF ReviewInv, ReviewTypeOK, BoardTypeOK, reviewVars, WritesTask
<1>1. LineageInv' /\ LineageTypeOK'
  BY SameSessions
<1>2. BoardTypeOK'
  BY <1>1
<1>3. \A u \in Task : KeepsGate(u)
  BY DEF KeepsGate
<1>4. QED
  BY <1>1, <1>2, <1>3, BoardStepInv

LEMMA UpdateTaskInv ==
  ASSUME ReviewInv, UNCHANGED reviewVars, NEW t \in Task, NEW status \in TaskStatus,
         UpdateTask(t, status, CompletionGate(t))
  PROVE  ReviewInv'
<1> DEFINE row == [task[t] EXCEPT !.status = status]
<1>1. task[t] \in TaskRow
  BY DEF ReviewInv, ReviewTypeOK, BoardTypeOK
<1>2. row \in TaskRow /\ row.status = status /\ status # "ABSENT"
  BY <1>1 DEF TaskRow, TaskStatus
<1>3. task' = [task EXCEPT ![t] = row] /\ UNCHANGED <<lineageVars, currentTask, presence>>
  BY DEF UpdateTask
<1>4. status = "DONE" => CompletionGate(t)
  BY DEF UpdateTask
<1>5. currentTask' \in [Session -> Task \cup {None}]
  BY <1>3 DEF ReviewInv, ReviewTypeOK, BoardTypeOK
<1> HIDE DEF row
<1>6. WritesTask(t, row)
  BY <1>2, <1>3, <1>4, <1>5 DEF WritesTask
<1>7. QED
  BY <1>6, OneTaskInv

LEMMA ClaimTaskInv ==
  ASSUME ReviewInv, UNCHANGED reviewVars, NEW s \in Session, NEW t \in Task, ClaimTask(s, t)
  PROVE  ReviewInv'
<1> DEFINE row == [task[t] EXCEPT !.status = "CLAIMED", !.owner = s, !.stale = FALSE]
<1>1. task[t] \in TaskRow /\ currentTask \in [Session -> Task \cup {None}]
  BY DEF ReviewInv, ReviewTypeOK, BoardTypeOK
<1>2. row \in TaskRow /\ row.status = "CLAIMED"
  BY <1>1 DEF TaskRow, TaskStatus
<1>3. task' = [task EXCEPT ![t] = row] /\ UNCHANGED <<lineageVars, presence>>
      /\ currentTask' \in [Session -> Task \cup {None}]
  BY <1>1 DEF ClaimTask
<1> HIDE DEF row
<1>4. WritesTask(t, row)
  BY <1>2, <1>3 DEF WritesTask
<1>5. QED
  BY <1>4, OneTaskInv

LEMMA ReleaseTaskInv ==
  ASSUME ReviewInv, UNCHANGED reviewVars, NEW s \in Session, NEW t \in Task, ReleaseTask(s, t)
  PROVE  ReviewInv'
<1> DEFINE row == [task[t] EXCEPT !.status = "READY", !.owner = None, !.stale = FALSE]
<1>1. task[t] \in TaskRow /\ currentTask \in [Session -> Task \cup {None}]
  BY DEF ReviewInv, ReviewTypeOK, BoardTypeOK
<1>2. row \in TaskRow /\ row.status = "READY"
  BY <1>1 DEF TaskRow, TaskStatus
<1>3. task' = [task EXCEPT ![t] = row] /\ UNCHANGED <<lineageVars, presence>>
      /\ currentTask' \in [Session -> Task \cup {None}]
  BY <1>1 DEF ReleaseTask
<1> HIDE DEF row
<1>4. WritesTask(t, row)
  BY <1>2, <1>3 DEF WritesTask
<1>5. QED
  BY <1>4, OneTaskInv

LEMMA HandoffTaskInv ==
  ASSUME ReviewInv, UNCHANGED reviewVars, NEW s \in Session, NEW t \in Task, HandoffTask(s, t)
  PROVE  ReviewInv'
<1> DEFINE row == [task[t] EXCEPT !.status = "WAITING_FOR_PEER", !.owner = None]
<1>1. task[t] \in TaskRow /\ currentTask \in [Session -> Task \cup {None}]
  BY DEF ReviewInv, ReviewTypeOK, BoardTypeOK
<1>2. row \in TaskRow /\ row.status = "WAITING_FOR_PEER"
  BY <1>1 DEF TaskRow, TaskStatus
<1>3. task' = [task EXCEPT ![t] = row] /\ UNCHANGED <<lineageVars, presence>>
      /\ currentTask' \in [Session -> Task \cup {None}]
  BY <1>1 DEF HandoffTask
<1> HIDE DEF row
<1>4. WritesTask(t, row)
  BY <1>2, <1>3 DEF WritesTask
<1>5. QED
  BY <1>4, OneTaskInv

\* Todo items only count.
LEMMA Counted ==
  ASSUME NEW row \in TaskRow, NEW k \in Nat, NEW n \in Nat
  PROVE  /\ [row EXCEPT !.incomplete = k] \in TaskRow
         /\ [row EXCEPT !.incomplete = k].status = row.status
         /\ [row EXCEPT !.incomplete = k].owner = row.owner
         /\ [row EXCEPT !.todos = n, !.incomplete = k] \in TaskRow
         /\ [row EXCEPT !.todos = n, !.incomplete = k].status = row.status
         /\ [row EXCEPT !.todos = n, !.incomplete = k].owner = row.owner
BY DEF TaskRow

LEMMA CreateTodoInv ==
  ASSUME ReviewInv, UNCHANGED reviewVars, NEW t \in Task, CreateTodo(t)
  PROVE  ReviewInv'
<1> DEFINE row == [task[t] EXCEPT !.todos = task[t].todos + 1,
                                  !.incomplete = task[t].incomplete + 1]
<1>1. task[t] \in TaskRow /\ currentTask \in [Session -> Task \cup {None}]
  BY DEF ReviewInv, ReviewTypeOK, BoardTypeOK
<1>2. row \in TaskRow /\ row.status = task[t].status /\ row.owner = task[t].owner
  <2>1. task[t].todos + 1 \in Nat /\ task[t].incomplete + 1 \in Nat
    BY <1>1 DEF TaskRow
  <2>2. QED
    BY <1>1, <2>1, Counted
<1>3. task' = [task EXCEPT ![t] = row] /\ UNCHANGED <<lineageVars, currentTask, presence>>
  BY DEF CreateTodo
<1> HIDE DEF row
<1>4. WritesTask(t, row)
  BY <1>1, <1>2, <1>3 DEF WritesTask
<1>5. QED
  BY <1>4, OneTaskInv

LEMMA UpdateTodoInv ==
  ASSUME ReviewInv, UNCHANGED reviewVars, NEW t \in Task, NEW finished \in BOOLEAN,
         UpdateTodo(t, finished)
  PROVE  ReviewInv'
<1> DEFINE left == IF finished THEN task[t].incomplete - 1 ELSE task[t].incomplete + 1
           row == [task[t] EXCEPT !.incomplete = left]
<1>1. task[t] \in TaskRow /\ currentTask \in [Session -> Task \cup {None}]
  BY DEF ReviewInv, ReviewTypeOK, BoardTypeOK
<1>2. left \in Nat
  BY <1>1 DEF UpdateTodo, TaskRow
<1>3. task' = [task EXCEPT ![t] = row] /\ UNCHANGED <<lineageVars, currentTask, presence>>
  BY DEF UpdateTodo
<1>4. row \in TaskRow /\ row.status = task[t].status /\ row.owner = task[t].owner
  BY <1>1, <1>2, Counted
<1> HIDE DEF row
<1>5. WritesTask(t, row)
  BY <1>1, <1>3, <1>4 DEF WritesTask
<1>6. QED
  BY <1>5, OneTaskInv

\* Presence may mark one claim stale.
LEMMA PresenceInv ==
  ASSUME ReviewInv, UNCHANGED reviewVars, PresenceStep
  PROVE  ReviewInv'
<1> USE DEF ReviewInv, ReviewTypeOK, BoardTypeOK, reviewVars
<1>1. UNCHANGED <<lineageVars, currentTask>>
  BY DEF PresenceStep, FallSilent, Heartbeat, RefreshPresence
<1>2. LineageInv' /\ LineageTypeOK'
  BY <1>1, SameSessions
<1>3. presence' \in [Session -> [offline : BOOLEAN, lag : 0 .. 2]]
  <2>0. presence \in [Session -> [offline : BOOLEAN, lag : 0 .. 2]]
    OBVIOUS
  <2>1. ASSUME NEW s \in Session, FallSilent(s)
        PROVE  presence' \in [Session -> [offline : BOOLEAN, lag : 0 .. 2]]
    <3>1. presence[s].lag + 1 \in 0 .. 2
      BY <2>0, <2>1, TaskConstants DEF FallSilent
    <3>2. presence' = [presence EXCEPT ![s] = [presence[s] EXCEPT !.lag = presence[s].lag + 1]]
      BY <2>1 DEF FallSilent
    <3>3. QED
      BY <2>0, <3>1, <3>2
  <2>2. ASSUME NEW s \in Session, Heartbeat(s)
        PROVE  presence' \in [Session -> [offline : BOOLEAN, lag : 0 .. 2]]
    BY <2>0, <2>2 DEF Heartbeat, Heard
  <2>3. ASSUME NEW s \in Session, RefreshPresence(s)
        PROVE  presence' \in [Session -> [offline : BOOLEAN, lag : 0 .. 2]]
    <3>1. presence' = [presence EXCEPT ![s] = [presence[s] EXCEPT !.offline = TRUE]]
      BY <2>3 DEF RefreshPresence
    <3>2. QED
      BY <2>0, <3>1
  <2>4. QED
    BY <2>1, <2>2, <2>3 DEF PresenceStep
<1>4. \/ task' = task
      \/ \E t \in Task : task' = [task EXCEPT ![t] = [task[t] EXCEPT !.stale = TRUE]]
  BY DEF PresenceStep, FallSilent, Heartbeat, RefreshPresence
<1>5. /\ task' \in [Task -> TaskRow]
      /\ \A t \in Task : task'[t].status = task[t].status /\ task'[t].owner = task[t].owner
  <2>1. ASSUME NEW t \in Task PROVE /\ [task[t] EXCEPT !.stale = TRUE] \in TaskRow
                                    /\ [task[t] EXCEPT !.stale = TRUE].status = task[t].status
                                    /\ [task[t] EXCEPT !.stale = TRUE].owner = task[t].owner
    <3>1. task[t] \in TaskRow
      OBVIOUS
    <3>2. QED
      BY <3>1 DEF TaskRow
  <2>2. QED
    BY <1>4, <2>1
<1>6. QED
  BY <1>1, <1>2, <1>3, <1>5, BoardStepInv DEF KeepsGate

LEMMA WorkerInv ==
  ASSUME ReviewInv, UNCHANGED review, WorkerStepWithReviews
  PROVE  ReviewInv'
<1> USE DEF ReviewInv, ReviewTypeOK, BoardTypeOK
<1>0. LineageInv /\ LineageTypeOK
  BY DEF LineageInv
<1>1. ASSUME UNCHANGED <<taskVars, currentReview>>, LineageInv'
      PROVE  ReviewInv'
  <2>1. LineageTypeOK'
    BY <1>1 DEF LineageInv
  <2>2. BoardTypeOK'
    BY <1>1, <2>1 DEF taskVars
  <2>3. \A t \in Task : KeepsGate(t)
    BY <1>1 DEF taskVars, KeepsGate
  <2>4. QED
    BY <1>1, <2>2, <2>3, BoardStepInv
<1>2. ASSUME NEW s \in Session, NEW l \in Lineage, NEW r \in Run \cup {None},
             NEW expected, RegisterWorker(s, l, r, expected), TransferReview(l, s)
      PROVE  ReviewInv'
  <2> DEFINE p == lineage[l].head
  <2>1. LineageInv' /\ LineageTypeOK'
    BY <1>0, <1>2, RegisterInv DEF RegisterWorker, LineageInv
  <2>2. p \in Session \cup {None}
    BY <1>0 DEF LineageTypeOK, LineageRow
  <2>3. /\ \/ UNCHANGED <<task, currentTask>>
           \/ p # None /\ TransferTasks(p, s)
        /\ presence' = [presence EXCEPT ![s] = Heard]
    BY <1>2 DEF RegisterWorker
  <2> HIDE DEF p
  <2>4. /\ task' \in [Task -> TaskRow]
        /\ \A t \in Task : /\ task'[t].status = task[t].status
                           /\ \/ task'[t].owner = task[t].owner
                              \/ task[t].status \notin Parked /\ task[t].owner # None
    <3>1. CASE UNCHANGED <<task, currentTask>>
      BY <3>1
    <3>2. CASE p # None /\ TransferTasks(p, s)
      <4>1. \A t \in Task :
              LET row == [task[t] EXCEPT !.owner = s, !.stale = FALSE] IN
              row \in TaskRow /\ row.status = task[t].status
        <5>1. ASSUME NEW row \in TaskRow
              PROVE  /\ [row EXCEPT !.owner = s, !.stale = FALSE] \in TaskRow
                     /\ [row EXCEPT !.owner = s, !.stale = FALSE].status = row.status
          BY DEF TaskRow
        <5>2. QED
          BY <5>1
      <4>2. task' = [t \in Task |->
                IF t \in Unfinished(p) THEN [task[t] EXCEPT !.owner = s, !.stale = FALSE] ELSE task[t]]
        BY <3>2 DEF TransferTasks
      <4>3. \A t \in Unfinished(p) : task[t].status \notin Parked /\ task[t].owner # None
        BY <3>2 DEF Unfinished
      <4>4. QED
        BY <4>1, <4>2, <4>3
    <3>3. QED
      BY <2>3, <3>1, <3>2
  <2>5. currentTask' \in [Session -> Task \cup {None}]
    BY <2>2, <2>3 DEF TransferTasks, Unfinished
  <2>6. presence' \in [Session -> [offline : BOOLEAN, lag : 0 .. 2]]
    BY <2>3 DEF Heard
  <2>7. currentReview' \in [Session -> ReviewId \cup {None}]
    BY <1>2, <2>2 DEF TransferReview, p
  <2>8. BoardTypeOK'
    BY <2>1, <2>4, <2>5, <2>6
  <2>9. \A t \in Task : KeepsGate(t)
    BY <2>4 DEF KeepsGate, Parked, AbsentIsUntouched, Created
  <2>10. QED
    BY <2>1, <2>7, <2>8, <2>9, BoardStepInv
<1>3. ASSUME NEW s \in Session, CloseWorker(s), UNCHANGED currentReview
      PROVE  ReviewInv'
  <2>1. LineageInv' /\ LineageTypeOK'
    BY <1>0, <1>3, CloseInv DEF CloseWorker, LineageInv
  <2>2. UNCHANGED <<task, currentTask>> /\ presence' = [presence EXCEPT ![s] = Heard]
    BY <1>3 DEF CloseWorker
  <2>3. BoardTypeOK'
    BY <2>1, <2>2 DEF Heard
  <2>4. \A t \in Task : KeepsGate(t)
    BY <2>2 DEF KeepsGate
  <2>5. QED
    BY <1>3, <2>1, <2>3, <2>4, BoardStepInv
<1>4. ASSUME NEW r \in Run, NEW l \in Lineage, ReserveLaunch(r, l), UNCHANGED <<taskVars, currentReview>>
      PROVE  ReviewInv'
  BY <1>0, <1>1, <1>4, ReserveLaunchInv
<1>5. ASSUME NEW s \in Session, RegisterGeneric(s), UNCHANGED <<taskVars, currentReview>>
      PROVE  ReviewInv'
  BY <1>0, <1>1, <1>5, GenericInv
<1>6. QED
  BY <1>2, <1>3, <1>4, <1>5 DEF WorkerStepWithReviews

----------------------------------------------------------------------------
(* Steps that write a revision.                                            *)

\* One row is written in the one active revision of t, and the board follows.
WritesReview(t, n, row) ==
  /\ n \in DOMAIN review[t]
  /\ ActiveOf(t) = {n}
  /\ row \in ReviewRow
  /\ row.status = "APPROVED" => \A f \in Finding : row.findings[f] # "OPEN"
  /\ review' = [review EXCEPT ![t][n] = row]
  /\ \/ task' = task
     \/ \E status \in TaskStatus :
          /\ task' = [task EXCEPT ![t] = [task[t] EXCEPT !.status = status]]
          /\ status = "DONE" => row.status = "APPROVED"
  /\ currentTask' \in [Session -> Task \cup {None}]
  /\ currentReview' \in [Session -> ReviewId \cup {None}]
  /\ UNCHANGED lineageVars
  /\ UNCHANGED presence

\* What a written row leaves of the revisions.
LEMMA RowWritten ==
  ASSUME ReviewInv, NEW t \in Task, NEW n \in DOMAIN review[t], NEW row \in ReviewRow,
         review' = [review EXCEPT ![t][n] = row]
  PROVE  /\ review' \in [Task -> Seq(ReviewRow)]
         /\ n \in 1 .. Len(review[t]) /\ Len(review[t]) \in Nat
         /\ DOMAIN review[t] = 1 .. Len(review[t])
         /\ Len(review'[t]) = Len(review[t]) /\ DOMAIN review'[t] = DOMAIN review[t]
         /\ \A k \in DOMAIN review[t] : review'[t][k] = IF k = n THEN row ELSE review[t][k]
         /\ \A u \in Task \ {t} : review'[u] = review[u]
<1>1. review \in [Task -> Seq(ReviewRow)] /\ review[t] \in Seq(ReviewRow)
  BY DEF ReviewInv, ReviewTypeOK
<1>2. DOMAIN review[t] = 1 .. Len(review[t]) /\ Len(review[t]) \in Nat
  BY <1>1, LenProperties
<1> DEFINE rows == [review[t] EXCEPT ![n] = row]
<1>3. /\ rows \in Seq(ReviewRow) /\ Len(rows) = Len(review[t])
      /\ \A k \in 1 .. Len(review[t]) : rows[k] = IF k = n THEN row ELSE review[t][k]
  BY <1>1, <1>2, ExceptSeq
<1>4. DOMAIN rows = DOMAIN review[t]
  OBVIOUS
<1>5. review' = [review EXCEPT ![t] = rows]
  OBVIOUS
<1> HIDE DEF rows
<1>6. review'[t] = rows /\ \A u \in Task \ {t} : review'[u] = review[u]
  BY <1>1, <1>5
<1>7. review' \in [Task -> Seq(ReviewRow)]
  BY <1>1, <1>3, <1>5
<1>8. QED
  BY <1>2, <1>3, <1>4, <1>6, <1>7

LEMMA WritesReviewInv ==
  ASSUME ReviewInv, NEW t \in Task, NEW n, NEW row, WritesReview(t, n, row)
  PROVE  ReviewInv'
<1> USE DEF ReviewInv
<1>1. /\ review' \in [Task -> Seq(ReviewRow)]
      /\ n \in 1 .. Len(review[t]) /\ Len(review[t]) \in Nat
      /\ DOMAIN review[t] = 1 .. Len(review[t])
      /\ Len(review'[t]) = Len(review[t]) /\ DOMAIN review'[t] = DOMAIN review[t]
      /\ \A k \in DOMAIN review[t] : review'[t][k] = IF k = n THEN row ELSE review[t][k]
      /\ \A u \in Task \ {t} : review'[u] = review[u]
  BY RowWritten DEF WritesReview
<1>2. ActiveOf(t) = {n} /\ n = Len(review[t])
  BY <1>1 DEF WritesReview, OneActiveReview
<1>3. LineageInv' /\ LineageTypeOK'
  BY SameSessions DEF WritesReview
<1> DEFINE BoardFollows ==
      /\ task' \in [Task -> TaskRow]
      /\ \A u \in Task : task'[u].owner = task[u].owner
      /\ \A u \in Task \ {t} : task'[u] = task[u]
      /\ task'[t].status = task[t].status \/ task'[t].status # "ABSENT"
      /\ task'[t].status = "DONE" => task[t].status = "DONE" \/ row.status = "APPROVED"
<1>4. BoardFollows
  <2>0. task \in [Task -> TaskRow]
    BY DEF ReviewTypeOK, BoardTypeOK
  <2>1. CASE task' = task
    BY <2>0, <2>1
  <2>2. ASSUME NEW status \in TaskStatus,
               task' = [task EXCEPT ![t] = [task[t] EXCEPT !.status = status]],
               status = "DONE" => row.status = "APPROVED"
        PROVE  BoardFollows
    <3>1. /\ [task[t] EXCEPT !.status = status] \in TaskRow
          /\ [task[t] EXCEPT !.status = status].owner = task[t].owner
          /\ [task[t] EXCEPT !.status = status].status = status
      BY <2>0 DEF TaskRow
    <3>2. status # "ABSENT"
      BY DEF TaskStatus
    <3>3. QED
      BY <2>0, <2>2, <3>1, <3>2
  <2>3. QED
    BY <2>1, <2>2 DEF WritesReview
<1>5. ReviewTypeOK'
  BY <1>1, <1>3, <1>4 DEF ReviewTypeOK, BoardTypeOK, WritesReview
<1>6. RevisionsAreBounded'
  BY <1>1 DEF RevisionsAreBounded
<1>7. AbsentIsUntouched'
  <2>1. task'[t].status # "ABSENT"
    BY <1>1, <1>4 DEF AbsentIsUntouched, Created
  <2>2. QED
    BY <1>1, <1>4, <2>1 DEF AbsentIsUntouched, Created
<1>8. OneActiveReview'
  <2> SUFFICES ASSUME NEW u \in Task, NEW k \in DOMAIN review'[u], review'[u][k].status \in Active
               PROVE  k = Len(review'[u])
    BY DEF OneActiveReview, ActiveOf, Row
  <2>1. CASE u # t
    BY <1>1, <2>1 DEF OneActiveReview, ActiveOf, Row
  <2>2. CASE u = t
    BY <1>1, <1>2, <2>2 DEF ActiveOf, Row
  <2>3. QED
    BY <2>1, <2>2
<1>9. ApprovedHasNoOpenBlocker'
  <2> SUFFICES ASSUME NEW u \in Task, NEW k \in DOMAIN review'[u], review'[u][k].status = "APPROVED",
                      NEW f \in Finding
               PROVE  review'[u][k].findings[f] # "OPEN"
    BY DEF ApprovedHasNoOpenBlocker, NoOpenBlocker, Row
  <2>1. CASE u # t
    BY <1>1, <2>1 DEF ApprovedHasNoOpenBlocker, NoOpenBlocker, Row
  <2>2. CASE u = t /\ k # n
    BY <1>1, <2>2 DEF ApprovedHasNoOpenBlocker, NoOpenBlocker, Row
  <2>3. CASE u = t /\ k = n
    BY <1>1, <2>3 DEF WritesReview
  <2>4. QED
    BY <2>1, <2>2, <2>3
<1>10. DoneIsApproved'
  <2> SUFFICES ASSUME NEW u \in ReviewRequired \cap Task, task'[u].status = "DONE",
                      task'[u].owner # None \/ Len(review'[u]) > 0
               PROVE  /\ Len(review'[u]) > 0
                      /\ review'[u][Len(review'[u])].status = "APPROVED"
                      /\ \A f \in Finding : review'[u][Len(review'[u])].findings[f] # "OPEN"
    BY DEF DoneIsApproved, NoOpenBlocker, Row
  <2>1. CASE u # t
    BY <1>1, <1>4, <2>1 DEF DoneIsApproved, NoOpenBlocker, Row
  <2>2. CASE u = t
    <3>1. Row(t, n).status \in Active
      BY <1>2 DEF ActiveOf
    <3>2. task[t].status # "DONE"
      BY <1>1, <1>2, <2>2, <3>1 DEF DoneIsApproved, Active
    <3>3. row.status = "APPROVED"
      BY <1>4, <2>2, <3>2
    <3>4. QED
      BY <1>1, <1>2, <2>2, <3>3 DEF WritesReview
  <2>3. QED
    BY <2>1, <2>2
<1>11. QED
  BY <1>3, <1>5, <1>6, <1>7, <1>8, <1>9, <1>10

\* What every row in hand looks like.
LEMMA RowInHand ==
  ASSUME ReviewInv, NEW t \in Task, NEW n \in DOMAIN review[t]
  PROVE  /\ Row(t, n) \in ReviewRow
         /\ <<t, n>> \in ReviewId
         /\ review[t] \in Seq(ReviewRow)
         /\ task \in [Task -> TaskRow]
         /\ currentTask \in [Session -> Task \cup {None}]
         /\ currentReview \in [Session -> ReviewId \cup {None}]
<1>1. /\ review[t] \in Seq(ReviewRow) /\ Len(review[t]) <= MaxRevision
      /\ task \in [Task -> TaskRow]
      /\ currentTask \in [Session -> Task \cup {None}]
      /\ currentReview \in [Session -> ReviewId \cup {None}]
  BY DEF ReviewInv, ReviewTypeOK, BoardTypeOK, RevisionsAreBounded
<1>2. n \in 1 .. Len(review[t]) /\ Len(review[t]) \in Nat
  BY <1>1, LenProperties
<1>3. Row(t, n) \in ReviewRow
  BY <1>1, <1>2, ElementOfSeq DEF Row
<1>4. <<t, n>> \in ReviewId
  BY <1>1, <1>2, ReviewConstants DEF ReviewId
<1>5. QED
  BY <1>1, <1>3, <1>4

LEMMA StatusWritten ==
  ASSUME NEW row \in ReviewRow, NEW status \in Active \cup {"APPROVED"}
  PROVE  /\ [row EXCEPT !.status = status] \in ReviewRow
         /\ [row EXCEPT !.status = status].status = status
         /\ [row EXCEPT !.status = status].findings = row.findings
         /\ [row EXCEPT !.status = status].author = row.author
         /\ [row EXCEPT !.status = status].reviewer = row.reviewer
BY DEF ReviewRow

LEMMA FindingWritten ==
  ASSUME NEW row \in ReviewRow, NEW f \in Finding, NEW answer \in {"OPEN", "SETTLED"}
  PROVE  LET written == [row EXCEPT !.findings = [row.findings EXCEPT ![f] = answer]] IN
         /\ written \in ReviewRow /\ written.status = row.status
         /\ written.author = row.author /\ written.reviewer = row.reviewer
BY DEF ReviewRow

LEMMA BeginReviewWrites ==
  ASSUME ReviewInv, NEW s \in Session, NEW t \in Task, NEW n \in DOMAIN review[t],
         BeginReview(s, t, n)
  PROVE  \E row : WritesReview(t, n, row)
<1> DEFINE row == [Row(t, n) EXCEPT !.status = "IN_REVIEW"]
<1>1. row \in ReviewRow /\ row.status = "IN_REVIEW"
  BY RowInHand, StatusWritten DEF Active
<1>2. /\ review' = [review EXCEPT ![t][n] = row]
      /\ task' = [task EXCEPT ![t] = [task[t] EXCEPT !.status = "IN_REVIEW"]]
      /\ UNCHANGED <<lineageVars, currentTask, presence>>
      /\ ActiveOf(t) = {n}
  BY DEF BeginReview, MayReview, Row
<1>3. /\ currentTask' \in [Session -> Task \cup {None}]
      /\ currentReview' \in [Session -> ReviewId \cup {None}]
  BY <1>2, RowInHand DEF BeginReview
<1> HIDE DEF row
<1>4. WritesReview(t, n, row)
  BY <1>1, <1>2, <1>3 DEF WritesReview, TaskStatus
<1>5. QED
  BY <1>4

LEMMA CreateFindingWrites ==
  ASSUME ReviewInv, NEW s \in Session, NEW t \in Task, NEW n \in DOMAIN review[t],
         NEW f \in Finding, CreateFinding(s, t, n, f)
  PROVE  \E row : WritesReview(t, n, row)
<1> DEFINE row == [Row(t, n) EXCEPT !.findings = [Row(t, n).findings EXCEPT ![f] = "OPEN"]]
<1>1. row \in ReviewRow /\ row.status = Row(t, n).status
  BY RowInHand, FindingWritten
<1>2. /\ review' = [review EXCEPT ![t][n] = row]
      /\ UNCHANGED <<lineageVars, taskVars, currentReview>>
      /\ ActiveOf(t) = {n}
  BY DEF CreateFinding, MayReview, Row
<1>3. /\ currentTask' \in [Session -> Task \cup {None}]
      /\ currentReview' \in [Session -> ReviewId \cup {None}]
  BY <1>2, RowInHand DEF taskVars
<1>4. Row(t, n).status # "APPROVED"
  BY <1>2 DEF ActiveOf, Active
<1> HIDE DEF row
<1>5. WritesReview(t, n, row)
  BY <1>1, <1>2, <1>3, <1>4 DEF WritesReview, taskVars
<1>6. QED
  BY <1>5

LEMMA ResolveFindingWrites ==
  ASSUME ReviewInv, NEW s \in Session, NEW t \in Task, NEW n \in DOMAIN review[t],
         NEW f \in Finding, NEW settled \in BOOLEAN, ResolveFinding(s, t, n, f, settled)
  PROVE  \E row : WritesReview(t, n, row)
<1> DEFINE answer == IF settled THEN "SETTLED" ELSE "OPEN"
           row == [Row(t, n) EXCEPT !.findings = [Row(t, n).findings EXCEPT ![f] = answer]]
<1>1. answer \in {"OPEN", "SETTLED"}
  OBVIOUS
<1>2. /\ review' = [review EXCEPT ![t][n] = row]
      /\ UNCHANGED <<lineageVars, taskVars, currentReview>>
      /\ ActiveOf(t) = {n}
  BY DEF ResolveFinding, Row
<1> HIDE DEF answer
<1>3. row \in ReviewRow /\ row.status = Row(t, n).status
  BY <1>1, RowInHand, FindingWritten
<1>4. /\ currentTask' \in [Session -> Task \cup {None}]
      /\ currentReview' \in [Session -> ReviewId \cup {None}]
  BY <1>2, RowInHand DEF taskVars
<1>5. Row(t, n).status # "APPROVED"
  BY <1>2 DEF ActiveOf, Active
<1> HIDE DEF row
<1>6. WritesReview(t, n, row)
  BY <1>2, <1>3, <1>4, <1>5 DEF WritesReview, taskVars
<1>7. QED
  BY <1>6

LEMMA ApproveWrites ==
  ASSUME ReviewInv, NEW s \in Session, NEW t \in Task, NEW n \in DOMAIN review[t],
         Approve(s, t, n)
  PROVE  \E row : WritesReview(t, n, row)
<1> DEFINE row == [Row(t, n) EXCEPT !.status = "APPROVED"]
<1>1. row \in ReviewRow /\ row.status = "APPROVED" /\ row.findings = Row(t, n).findings
  BY RowInHand, StatusWritten
<1>2. /\ review' = [review EXCEPT ![t][n] = row]
      /\ task' = [task EXCEPT ![t] = [task[t] EXCEPT !.status = "DONE"]]
      /\ UNCHANGED <<lineageVars, presence>>
      /\ ActiveOf(t) = {n}
      /\ \A f \in Finding : Row(t, n).findings[f] # "OPEN"
  BY DEF Approve, MayReview, NoOpenBlocker, Row
<1>3. /\ currentTask' \in [Session -> Task \cup {None}]
      /\ currentReview' \in [Session -> ReviewId \cup {None}]
  BY RowInHand DEF Approve
<1> HIDE DEF row
<1>4. WritesReview(t, n, row)
  BY <1>1, <1>2, <1>3 DEF WritesReview, TaskStatus
<1>5. QED
  BY <1>4

LEMMA RequestChangesWrites ==
  ASSUME ReviewInv, NEW s \in Session, NEW t \in Task, NEW n \in DOMAIN review[t],
         RequestChanges(s, t, n)
  PROVE  \E row : WritesReview(t, n, row)
<1> DEFINE row == [Row(t, n) EXCEPT !.status = "CHANGES_REQUESTED"]
<1>1. row \in ReviewRow /\ row.status = "CHANGES_REQUESTED"
  BY RowInHand, StatusWritten DEF Active
<1>2. /\ review' = [review EXCEPT ![t][n] = row]
      /\ task' = [task EXCEPT ![t] = [task[t] EXCEPT !.status = "CHANGES_REQUESTED"]]
      /\ UNCHANGED <<lineageVars, currentTask, presence>>
      /\ ActiveOf(t) = {n}
  BY DEF RequestChanges, MayReview, Row
<1>3. /\ currentTask' \in [Session -> Task \cup {None}]
      /\ currentReview' \in [Session -> ReviewId \cup {None}]
  BY <1>2, RowInHand DEF RequestChanges
<1> HIDE DEF row
<1>4. WritesReview(t, n, row)
  BY <1>1, <1>2, <1>3 DEF WritesReview, TaskStatus
<1>5. QED
  BY <1>4

LEMMA RevisionWrites ==
  ASSUME ReviewInv, NEW s \in Session, NEW t \in Task, NEW n \in DOMAIN review[t],
         \/ BeginReview(s, t, n)
         \/ \E f \in Finding : CreateFinding(s, t, n, f)
         \/ \E f \in Finding, settled \in BOOLEAN : ResolveFinding(s, t, n, f, settled)
         \/ Approve(s, t, n)
         \/ RequestChanges(s, t, n)
  PROVE  \E row : WritesReview(t, n, row)
BY BeginReviewWrites, CreateFindingWrites, ResolveFindingWrites, ApproveWrites, RequestChangesWrites

\* Another revision behind the others, of which none is active any more and
\* the judged ones stay as they were.
LEMMA RequestedRows ==
  ASSUME ReviewInv, NEW s \in Session, NEW t \in Task, NEW reviewer \in Agent
  PROVE  LET old == review[t]
             rows == Append(Superseded(t), NewReview(s, reviewer)) IN
         /\ rows \in Seq(ReviewRow) /\ Len(old) \in Nat /\ Len(rows) = Len(old) + 1
         /\ DOMAIN rows = 1 .. Len(rows) /\ DOMAIN old = 1 .. Len(old)
         /\ rows[Len(rows)] = NewReview(s, reviewer) /\ rows[Len(rows)].status = "PENDING"
         /\ \A k \in 1 .. Len(old) :
              /\ rows[k].status \in {"APPROVED", "SUPERSEDED"}
              /\ rows[k].status = "APPROVED" => rows[k] = old[k]
              /\ old[k].status \in {"APPROVED", "SUPERSEDED"} => rows[k] = old[k]
              /\ rows[k].author = old[k].author /\ rows[k].reviewer = old[k].reviewer
<1> DEFINE old == review[t]
           sup == Superseded(t)
           new == NewReview(s, reviewer)
           rows == Append(sup, new)
<1>1. old \in Seq(ReviewRow) /\ Len(old) \in Nat /\ DOMAIN old = 1 .. Len(old)
      /\ \A k \in 1 .. Len(old) : old[k] \in ReviewRow
  <2>1. old \in Seq(ReviewRow)
    BY DEF ReviewInv, ReviewTypeOK
  <2>2. QED
    BY <2>1, LenProperties, ElementOfSeq
<1>2. \A k \in 1 .. Len(old) : k # Len(old) => old[k].status \notin Active
  BY <1>1 DEF ReviewInv, OneActiveReview, ActiveOf, Row
<1>3. \A k \in 1 .. Len(old) :
        /\ [old[k] EXCEPT !.status = "SUPERSEDED"] \in ReviewRow
        /\ [old[k] EXCEPT !.status = "SUPERSEDED"].status = "SUPERSEDED"
        /\ old[k].status = "SUPERSEDED" => [old[k] EXCEPT !.status = "SUPERSEDED"] = old[k]
        /\ [old[k] EXCEPT !.status = "SUPERSEDED"].author = old[k].author
        /\ [old[k] EXCEPT !.status = "SUPERSEDED"].reviewer = old[k].reviewer
        /\ old[k].status \in Active \cup {"APPROVED", "SUPERSEDED"}
  BY <1>1 DEF ReviewRow
<1>4. sup = [k \in 1 .. Len(old) |->
               IF k = Len(old) /\ old[k].status # "APPROVED"
               THEN [old[k] EXCEPT !.status = "SUPERSEDED"] ELSE old[k]]
  BY <1>1 DEF Superseded, Row
<1>5. \A k \in 1 .. Len(old) :
        /\ sup[k] \in ReviewRow
        /\ sup[k].status \in {"APPROVED", "SUPERSEDED"}
        /\ sup[k].status = "APPROVED" => sup[k] = old[k]
        /\ old[k].status \in {"APPROVED", "SUPERSEDED"} => sup[k] = old[k]
        /\ sup[k].author = old[k].author /\ sup[k].reviewer = old[k].reviewer
  BY <1>1, <1>2, <1>3, <1>4
<1>6. sup \in Seq(ReviewRow) /\ Len(sup) = Len(old)
  <2>1. DOMAIN sup = 1 .. Len(old) /\ sup = [k \in 1 .. Len(old) |-> sup[k]]
    BY <1>4
  <2> HIDE DEF sup
  <2>2. sup \in [1 .. Len(old) -> ReviewRow]
    BY <1>5, <2>1
  <2>3. QED
    BY <1>1, <2>2
<1>7. new \in ReviewRow /\ new.status = "PENDING"
  BY DEF NewReview, ReviewRow, Active
<1> HIDE DEF sup, new, old
<1>8. /\ rows \in Seq(ReviewRow) /\ Len(rows) = Len(old) + 1
      /\ \A k \in 1 .. Len(old) : rows[k] = sup[k]
      /\ rows[Len(old) + 1] = new
  BY <1>6, <1>7, AppendProperties
<1>9. DOMAIN rows = 1 .. Len(rows)
  BY <1>8, LenProperties
<1> HIDE DEF rows
<1>10. rows[Len(rows)] = new /\ rows[Len(rows)].status = "PENDING"
  BY <1>7, <1>8
<1>11. \A k \in 1 .. Len(old) :
        /\ rows[k].status \in {"APPROVED", "SUPERSEDED"}
        /\ rows[k].status = "APPROVED" => rows[k] = old[k]
        /\ old[k].status \in {"APPROVED", "SUPERSEDED"} => rows[k] = old[k]
        /\ rows[k].author = old[k].author /\ rows[k].reviewer = old[k].reviewer
  BY <1>5, <1>8
<1>12. QED
  BY <1>1, <1>8, <1>9, <1>10, <1>11 DEF rows, old, sup, new

LEMMA RequestReviewInv ==
  ASSUME ReviewInv, NEW s \in Session, NEW t \in Task, NEW reviewer \in Agent,
         RequestReview(s, t, reviewer)
  PROVE  ReviewInv'
<1> USE DEF ReviewInv
<1> DEFINE old == review[t]
           rows == Append(Superseded(t), NewReview(s, reviewer))
<1>1. /\ rows \in Seq(ReviewRow) /\ Len(old) \in Nat /\ Len(rows) = Len(old) + 1
      /\ DOMAIN rows = 1 .. Len(rows) /\ DOMAIN old = 1 .. Len(old)
      /\ rows[Len(rows)].status = "PENDING"
      /\ \A k \in 1 .. Len(old) :
           /\ rows[k].status \in {"APPROVED", "SUPERSEDED"}
           /\ rows[k].status = "APPROVED" => rows[k] = old[k]
  BY RequestedRows
<1>2. /\ review \in [Task -> Seq(ReviewRow)] /\ task \in [Task -> TaskRow]
      /\ currentReview \in [Session -> ReviewId \cup {None}]
  BY DEF ReviewTypeOK, BoardTypeOK
<1>3. /\ review' = [review EXCEPT ![t] = rows]
      /\ task' = [task EXCEPT ![t] = [task[t] EXCEPT !.status = "REVIEW_PENDING"]]
      /\ currentReview' = [currentReview EXCEPT ![s] = <<t, Len(rows)>>]
      /\ UNCHANGED <<lineageVars, currentTask, presence>>
      /\ Len(rows) <= MaxRevision
      /\ Len(rows) \in Nat
  BY <1>1 DEF RequestReview
<1> HIDE DEF rows, old
<1>4. review'[t] = rows /\ \A u \in Task \ {t} : review'[u] = review[u]
  BY <1>2, <1>3
<1>5. LineageInv' /\ LineageTypeOK'
  BY <1>3, SameSessions
<1>6. /\ task' \in [Task -> TaskRow]
      /\ task'[t].status = "REVIEW_PENDING"
      /\ \A u \in Task \ {t} : task'[u] = task[u]
  <2>1. [task[t] EXCEPT !.status = "REVIEW_PENDING"] \in TaskRow
        /\ [task[t] EXCEPT !.status = "REVIEW_PENDING"].status = "REVIEW_PENDING"
    <3>1. task[t] \in TaskRow
      BY <1>2
    <3>2. QED
      BY <3>1 DEF TaskRow, TaskStatus
  <2>2. QED
    BY <1>2, <1>3, <2>1
<1>7. ReviewTypeOK'
  <2>1. <<t, Len(rows)>> \in ReviewId
    BY <1>1, <1>3, ReviewConstants DEF ReviewId
  <2>2. currentReview' \in [Session -> ReviewId \cup {None}]
    BY <1>2, <1>3, <2>1
  <2>3. review' \in [Task -> Seq(ReviewRow)]
    BY <1>1, <1>2, <1>3
  <2>4. BoardTypeOK'
    BY <1>3, <1>5, <1>6 DEF ReviewTypeOK, BoardTypeOK
  <2>5. QED
    BY <2>2, <2>3, <2>4 DEF ReviewTypeOK
<1>8. RevisionsAreBounded' /\ AbsentIsUntouched'
  BY <1>3, <1>4, <1>6 DEF RevisionsAreBounded, AbsentIsUntouched, Created
<1>9. OneActiveReview'
  <2> SUFFICES ASSUME NEW u \in Task, NEW k \in DOMAIN review'[u], review'[u][k].status \in Active
               PROVE  k = Len(review'[u])
    BY DEF OneActiveReview, ActiveOf, Row
  <2>1. CASE u # t
    BY <1>4, <2>1 DEF OneActiveReview, ActiveOf, Row
  <2>2. CASE u = t
    BY <1>1, <1>4, <2>2 DEF Active
  <2>3. QED
    BY <2>1, <2>2
<1>10. ApprovedHasNoOpenBlocker'
  <2> SUFFICES ASSUME NEW u \in Task, NEW k \in DOMAIN review'[u], review'[u][k].status = "APPROVED",
                      NEW f \in Finding
               PROVE  review'[u][k].findings[f] # "OPEN"
    BY DEF ApprovedHasNoOpenBlocker, NoOpenBlocker, Row
  <2>1. CASE u # t
    BY <1>4, <2>1 DEF ApprovedHasNoOpenBlocker, NoOpenBlocker, Row
  <2>2. CASE u = t
    <3>1. k \in 1 .. Len(old) /\ rows[k] = old[k]
      BY <1>1, <1>4, <2>2
    <3>2. QED
      BY <1>1, <1>4, <2>2, <3>1 DEF ApprovedHasNoOpenBlocker, NoOpenBlocker, Row, old
  <2>3. QED
    BY <2>1, <2>2
<1>11. DoneIsApproved'
  <2> SUFFICES ASSUME NEW u \in ReviewRequired \cap Task, task'[u].status = "DONE",
                      task'[u].owner # None \/ Len(review'[u]) > 0
               PROVE  /\ Len(review'[u]) > 0
                      /\ review'[u][Len(review'[u])].status = "APPROVED"
                      /\ \A f \in Finding : review'[u][Len(review'[u])].findings[f] # "OPEN"
    BY DEF DoneIsApproved, NoOpenBlocker, Row
  <2>1. u # t
    BY <1>6
  <2>2. QED
    BY <1>4, <1>6, <2>1 DEF DoneIsApproved, NoOpenBlocker, Row
<1>12. QED
  BY <1>5, <1>7, <1>8, <1>9, <1>10, <1>11

----------------------------------------------------------------------------
(* The theorems.                                                           *)

LEMMA ReviewNextInv == ReviewInv /\ [Next]_vars => ReviewInv'
<1> SUFFICES ASSUME ReviewInv, [Next]_vars PROVE ReviewInv'
  OBVIOUS
<1>1. CASE WorkerStepWithReviews /\ UNCHANGED review
  BY <1>1, WorkerInv
<1>2. CASE PresenceStep /\ UNCHANGED reviewVars
  BY <1>2, PresenceInv
<1>3. CASE TaskStep /\ UNCHANGED reviewVars
  BY <1>3, CreateTaskInv, SplitTaskInv, ClaimTaskInv, ReleaseTaskInv, HandoffTaskInv,
     CreateTodoInv, UpdateTodoInv DEF TaskStep
<1>4. ASSUME NEW t \in Task, NEW status \in TaskStatus,
             UpdateTask(t, status, CompletionGate(t)), UNCHANGED reviewVars
      PROVE  ReviewInv'
  BY <1>4, UpdateTaskInv
<1>5. ASSUME NEW s \in Session, NEW t \in Task, NEW reviewer \in Agent,
             RequestReview(s, t, reviewer)
      PROVE  ReviewInv'
  BY <1>5, RequestReviewInv
<1>6. ASSUME NEW s \in Session, NEW t \in Task, NEW n \in DOMAIN review[t],
             \/ BeginReview(s, t, n)
             \/ \E f \in Finding : CreateFinding(s, t, n, f)
             \/ \E f \in Finding, settled \in BOOLEAN : ResolveFinding(s, t, n, f, settled)
             \/ Approve(s, t, n)
             \/ RequestChanges(s, t, n)
      PROVE  ReviewInv'
  <2>1. PICK row : WritesReview(t, n, row)
    BY <1>6, RevisionWrites
  <2>2. QED
    BY <2>1, WritesReviewInv
<1>7. CASE UNCHANGED vars
  <2>1. UNCHANGED <<lineageVars, task, currentTask, presence, review, currentReview>>
    BY <1>7 DEF vars, lineageVars
  <2>2. LineageInv' /\ LineageTypeOK'
    BY <2>1, SameSessions
  <2>3. BoardTypeOK' /\ currentReview' \in [Session -> ReviewId \cup {None}]
    BY <2>1, <2>2 DEF ReviewInv, ReviewTypeOK, BoardTypeOK
  <2>4. \A t \in Task : KeepsGate(t)
    BY <2>1 DEF KeepsGate
  <2>5. QED
    BY <2>1, <2>2, <2>3, <2>4, BoardStepInv
<1>8. CASE ReviewStep
  BY <1>5, <1>6, <1>8 DEF ReviewStep
<1>9. QED
  BY <1>1, <1>2, <1>3, <1>4, <1>7, <1>8 DEF Next

\* Every reachable state of any instance satisfies the inductive invariant.
THEOREM ReviewInvariant == Spec => []ReviewInv
<1>1. ReviewInit => ReviewInv
  BY ReviewInitInv
<1>2. ReviewInv /\ [Next]_vars => ReviewInv'
  BY ReviewNextInv
<1>3. QED
  BY <1>1, <1>2, PTL DEF Spec

\* Whatever is requested, filed, answered, judged, released, split, updated or
\* replaced meanwhile: one revision is under review at a time, none is approved
\* over an open blocker, and no task gets past its gate.
THEOREM ReviewSafety ==
  Spec => [](ReviewTypeOK /\ OneActiveReview /\ ApprovedHasNoOpenBlocker /\ DoneIsApproved)
<1>1. ReviewInv => ReviewTypeOK /\ OneActiveReview /\ ApprovedHasNoOpenBlocker /\ DoneIsApproved
  BY DEF ReviewInv
<1>2. QED
  BY <1>1, ReviewInvariant, PTL

JudgedStep ==
  \A t \in Task : \A n \in DOMAIN review[t] :
    /\ n \in DOMAIN review'[t]
    /\ Row(t, n).status \in {"APPROVED", "SUPERSEDED"} => review'[t][n] = Row(t, n)

LEMMA NextJudged == ReviewInv /\ [Next]_vars => [JudgedStep]_vars
<1> SUFFICES ASSUME ReviewInv, Next PROVE JudgedStep
  OBVIOUS
<1>1. CASE UNCHANGED review
  BY <1>1 DEF JudgedStep, Row
<1>2. ASSUME NEW s \in Session, NEW t \in Task, NEW reviewer \in Agent,
             RequestReview(s, t, reviewer)
      PROVE  JudgedStep
  <2> DEFINE rows == Append(Superseded(t), NewReview(s, reviewer))
  <2>1. /\ DOMAIN rows = 1 .. Len(rows) /\ DOMAIN review[t] = 1 .. Len(review[t])
        /\ Len(review[t]) \in Nat /\ Len(rows) = Len(review[t]) + 1
        /\ \A k \in 1 .. Len(review[t]) :
             review[t][k].status \in {"APPROVED", "SUPERSEDED"} => rows[k] = review[t][k]
    BY RequestedRows
  <2>2. review' = [review EXCEPT ![t] = rows]
    BY <1>2 DEF RequestReview
  <2> HIDE DEF rows
  <2>3. review'[t] = rows /\ \A u \in Task \ {t} : review'[u] = review[u]
    BY <2>2 DEF ReviewInv, ReviewTypeOK
  <2>4. QED
    BY <2>1, <2>3 DEF JudgedStep, Row
<1>3. ASSUME NEW t \in Task, NEW n \in DOMAIN review[t], NEW row, WritesReview(t, n, row)
      PROVE  JudgedStep
  <2>1. /\ DOMAIN review'[t] = DOMAIN review[t]
        /\ \A k \in DOMAIN review[t] : review'[t][k] = IF k = n THEN row ELSE review[t][k]
        /\ \A u \in Task \ {t} : review'[u] = review[u]
    BY <1>3, RowWritten DEF WritesReview
  <2>2. Row(t, n).status \notin {"APPROVED", "SUPERSEDED"}
    BY <1>3 DEF WritesReview, ActiveOf, Active
  <2>3. QED
    BY <2>1, <2>2 DEF JudgedStep, Row
<1>4. CASE ReviewStep
  BY <1>2, <1>3, <1>4, RevisionWrites DEF ReviewStep
<1>5. QED
  BY <1>1, <1>4 DEF Next, reviewVars

\* What was judged stays as it was judged.
THEOREM ReviewHistory == Spec => JudgedIsImmutable
<1>1. ReviewInv /\ [Next]_vars => [JudgedStep]_vars
  BY NextJudged
<1>2. QED
  BY <1>1, ReviewInvariant, PTL DEF Spec, JudgedIsImmutable, JudgedStep

DoneStep ==
  \A t \in Task :
    Created(t) /\ task[t].status # "DONE" /\ task'[t].status = "DONE" => task'[t].incomplete = 0

LEMMA NextDone == ReviewInv /\ [Next]_vars => [DoneStep]_vars
<1> SUFFICES ASSUME ReviewInv, Next PROVE DoneStep
  OBVIOUS
<1>0. task \in [Task -> TaskRow]
  BY DEF ReviewInv, ReviewTypeOK, BoardTypeOK
<1>1. CASE \A t \in Task : \/ task'[t].status = task[t].status
                           \/ task'[t].status # "DONE"
                           \/ ~Created(t)
  BY <1>1 DEF DoneStep
<1>2. ASSUME NEW t \in Task, NEW status \in TaskStatus, UpdateTask(t, status, CompletionGate(t))
      PROVE  DoneStep
  <2>1. /\ \A u \in Task \ {t} : task'[u] = task[u]
        /\ task'[t].status = status /\ task'[t].incomplete = task[t].incomplete
    BY <1>0, <1>2 DEF UpdateTask, TaskRow
  <2>2. status = "DONE" => task[t].incomplete = 0
    BY <1>2 DEF UpdateTask, CompletionGate
  <2>3. QED
    BY <2>1, <2>2 DEF DoneStep
<1>3. ASSUME NEW s \in Session, NEW t \in Task, NEW n, Approve(s, t, n)
      PROVE  DoneStep
  <2>1. /\ \A u \in Task \ {t} : task'[u] = task[u]
        /\ task'[t].incomplete = task[t].incomplete
        /\ task[t].incomplete = 0
    BY <1>0, <1>3 DEF Approve, TaskRow
  <2>2. QED
    BY <2>1 DEF DoneStep
<1>4. CASE TaskStep
  <2>1. ASSUME NEW t \in Task, NEW status \in TaskStatus, NEW deps \in SUBSET Task,
               CreateTask(t, status, deps)
        PROVE  DoneStep
    BY <1>0, <1>1, <2>1 DEF CreateTask
  <2>2. ASSUME NEW s \in Session, NEW p \in Task, NEW children \in SUBSET Task,
               SplitTask(s, p, children)
        PROVE  DoneStep
    BY <1>0, <1>1, <2>2 DEF SplitTask, NoTask, TaskRow
  <2>3. ASSUME NEW s \in Session, NEW t \in Task,
               ClaimTask(s, t) \/ ReleaseTask(s, t) \/ HandoffTask(s, t)
        PROVE  DoneStep
    <3>1. CASE ClaimTask(s, t)
      BY <1>0, <1>1, <3>1 DEF ClaimTask, TaskRow
    <3>2. CASE ReleaseTask(s, t)
      BY <1>0, <1>1, <3>2 DEF ReleaseTask, TaskRow
    <3>3. CASE HandoffTask(s, t)
      BY <1>0, <1>1, <3>3 DEF HandoffTask, TaskRow
    <3>4. QED
      BY <2>3, <3>1, <3>2, <3>3
  <2>4. ASSUME NEW t \in Task, NEW finished \in BOOLEAN, CreateTodo(t) \/ UpdateTodo(t, finished)
        PROVE  DoneStep
    <3>1. task[t] \in TaskRow
      BY <1>0
    <3>2. \E todos, incomplete :
            task' = [task EXCEPT ![t] = [task[t] EXCEPT !.todos = todos, !.incomplete = incomplete]]
      <4>1. CASE CreateTodo(t)
        BY <4>1 DEF CreateTodo
      <4>2. CASE UpdateTodo(t, finished)
        <5> DEFINE left == IF finished THEN task[t].incomplete - 1 ELSE task[t].incomplete + 1
        <5>1. task' = [task EXCEPT ![t] = [task[t] EXCEPT !.incomplete = left]]
          BY <1>0, <4>2 DEF UpdateTodo
        <5>2. [task[t] EXCEPT !.incomplete = left]
                = [task[t] EXCEPT !.todos = task[t].todos, !.incomplete = left]
          BY <3>1 DEF TaskRow
        <5>3. QED
          BY <5>1, <5>2
      <4>3. QED
        BY <2>4, <4>1, <4>2
    <3>3. \A u \in Task : task'[u].status = task[u].status
      BY <1>0, <3>1, <3>2 DEF TaskRow
    <3>4. QED
      BY <1>1, <3>3
  <2>5. QED
    BY <1>4, <2>1, <2>2, <2>3, <2>4 DEF TaskStep
<1>5. CASE PresenceStep
  <2>1. \/ task' = task
        \/ \E t \in Task : task' = [task EXCEPT ![t] = [task[t] EXCEPT !.stale = TRUE]]
    BY <1>5 DEF PresenceStep, FallSilent, Heartbeat, RefreshPresence, ReviewInv, ReviewTypeOK, BoardTypeOK
  <2>2. QED
    BY <1>0, <1>1, <2>1 DEF TaskRow
<1>6. CASE WorkerStepWithReviews
  <2>1. \/ task' = task
        \/ \E p, s \in Session \cup {None} :
             task' = [t \in Task |-> IF t \in Unfinished(p)
                                     THEN [task[t] EXCEPT !.owner = s, !.stale = FALSE] ELSE task[t]]
    <3>1. \A l \in Lineage : lineage[l].head \in Session \cup {None}
      BY DEF ReviewInv, LineageInv, LineageTypeOK, LineageRow
    <3>2. ASSUME NEW s \in Session, NEW l \in Lineage, NEW r, NEW expected,
                 RegisterWorker(s, l, r, expected)
          PROVE  <2>1
      <4>1. task' = task \/ TransferTasks(lineage[l].head, s)
        BY <3>2 DEF RegisterWorker
      <4>2. QED
        <5>1. lineage[l].head \in Session \cup {None} /\ s \in Session \cup {None}
          BY <3>1
        <5>2. CASE TransferTasks(lineage[l].head, s)
          <6> DEFINE p == lineage[l].head
          <6>1. task' = [t \in Task |-> IF t \in Unfinished(p)
                          THEN [task[t] EXCEPT !.owner = s, !.stale = FALSE] ELSE task[t]]
            BY <5>2 DEF TransferTasks
          <6>2. p \in Session \cup {None}
            BY <5>1
          <6> HIDE DEF p
          <6>3. QED
            BY <5>1, <6>1, <6>2, Zenon
        <5>3. QED
          BY <4>1, <5>2
    <3>3. CASE \/ \E r \in Run, l \in Lineage : ReserveLaunch(r, l) /\ UNCHANGED taskVars
               \/ \E s \in Session : RegisterGeneric(s) /\ UNCHANGED taskVars
               \/ \E s \in Session : CloseWorker(s)
      BY <3>3 DEF taskVars, CloseWorker
    <3>4. QED
      BY <1>6, <3>2, <3>3 DEF WorkerStepWithReviews, taskVars
  <2>2. QED
    BY <1>0, <1>1, <2>1 DEF TaskRow
<1>7. CASE ReviewStep
  <2>1. ASSUME NEW s \in Session, NEW t \in Task, NEW reviewer \in Agent, RequestReview(s, t, reviewer)
        PROVE  DoneStep
    BY <1>0, <1>1, <2>1 DEF RequestReview, TaskRow
  <2>2. ASSUME NEW s \in Session, NEW t \in Task, NEW n,
               BeginReview(s, t, n) \/ RequestChanges(s, t, n)
        PROVE  DoneStep
    BY <1>0, <1>1, <2>2 DEF BeginReview, RequestChanges, TaskRow
  <2>3. ASSUME NEW s \in Session, NEW t \in Task, NEW n, NEW f,
               CreateFinding(s, t, n, f) \/ \E settled \in BOOLEAN : ResolveFinding(s, t, n, f, settled)
        PROVE  DoneStep
    BY <1>1, <2>3 DEF CreateFinding, ResolveFinding, taskVars
  <2>4. QED
    BY <1>3, <1>7, <2>1, <2>2, <2>3 DEF ReviewStep
<1>8. QED
  BY <1>2, <1>4, <1>5, <1>6, <1>7 DEF Next

\* No update, verdict or release finishes a task over an unfinished todo item.
THEOREM ReviewTodos == Spec => DoneHasNoTodosLeft
<1>1. ReviewInv /\ [Next]_vars => [DoneStep]_vars
  BY NextDone
<1>2. QED
  BY <1>1, ReviewInvariant, PTL DEF Spec, DoneHasNoTodosLeft, DoneStep

\* Board and reviews change no session but by the steps of the succession, so
\* everything proved of lineages holds under them.
THEOREM ReviewsPreserveLineages == Spec => LineageSpec
<1>1. ReviewInit => LineageInit
  BY DEF ReviewInit, BoardInit
<1>2. [Next]_vars => [LineageNext]_lineageVars
  <2> SUFFICES ASSUME [Next]_vars PROVE [LineageNext]_lineageVars
    OBVIOUS
  <2>1. CASE WorkerStepWithReviews
    BY <2>1 DEF WorkerStepWithReviews, RegisterWorker, CloseWorker, LineageNext
  <2>2. CASE TaskStep
    BY <2>2 DEF TaskStep, CreateTask, SplitTask, ClaimTask, ReleaseTask, HandoffTask, CreateTodo,
                UpdateTodo
  <2>3. CASE PresenceStep \/ \E t \in Task, status \in TaskStatus : UpdateTask(t, status, CompletionGate(t))
    BY <2>3 DEF PresenceStep, FallSilent, Heartbeat, RefreshPresence, UpdateTask
  <2>4. CASE ReviewStep
    BY <2>4 DEF ReviewStep, RequestReview, BeginReview, CreateFinding, ResolveFinding, Approve,
                RequestChanges
  <2>5. CASE UNCHANGED vars
    BY <2>5 DEF vars, lineageVars
  <2>6. QED
    BY <2>1, <2>2, <2>3, <2>4, <2>5 DEF Next
<1>3. QED
  BY <1>1, <1>2, PTL DEF Spec, LineageSpec

----------------------------------------------------------------------------
(* The claims of the board, with and without reviews beside it.            *)

BoardInv == LineageInv /\ BoardTypeOK

\* The bodies of FreshClaimIsKept, ClaimsWaitForDependencies and
\* ReplacementCarriesTheWork.
KeptStep ==
  \A t \in Task :
    LET old == task[t].owner  new == task'[t].owner IN
    old # None /\ ~task[t].stale /\ new \notin {old, None} =>
      /\ session'[old].supersededBy = new
      /\ session[old].lineage # None
      /\ lineage'[session[old].lineage].head = new

WaitStep ==
  \A t \in Task : task[t].owner = None /\ task'[t].owner # None => DependenciesDone(t)

CarriedStep ==
  \A l \in Lineage :
    LET old == lineage[l].head  new == lineage'[l].head IN
    old # None /\ new # old =>
      /\ \A t \in Task : task[t].owner = old /\ task[t].status \notin Parked =>
           task'[t].owner = new /\ ~task'[t].stale
      /\ (\E t \in Task : task[t].owner = old /\ task[t].status \notin Parked) =>
           \E t \in Task : currentTask'[new] = t /\ task'[t].owner = new

ClaimsStep == KeptStep /\ WaitStep /\ CarriedStep

\* Any step but a registration moves no head, and gives a task to somebody only
\* from the free or stale ones with finished dependencies.
HeadsStay == \A l \in Lineage : lineage'[l].head = lineage[l].head

GivenByRule ==
  \A t \in Task :
    \/ task'[t].owner \in {task[t].owner, None}
    \/ (task[t].owner # None => task[t].stale) /\ DependenciesDone(t)

LEMMA RuledStep == HeadsStay /\ GivenByRule => ClaimsStep
BY DEF HeadsStay, GivenByRule, ClaimsStep, KeptStep, WaitStep, CarriedStep

LEMMA TaskStepRuled == ASSUME BoardTypeOK, TaskStep PROVE ClaimsStep
<1>0. task \in [Task -> TaskRow]
  BY DEF BoardTypeOK
<1>1. UNCHANGED lineageVars
  BY DEF TaskStep, CreateTask, SplitTask, ClaimTask, ReleaseTask, HandoffTask, CreateTodo, UpdateTodo
<1>2. HeadsStay
  BY <1>1 DEF HeadsStay, lineageVars
<1>3. ASSUME NEW t \in Task, NEW status \in TaskStatus, NEW deps \in SUBSET Task,
             CreateTask(t, status, deps)
      PROVE  GivenByRule
  BY <1>0, <1>3 DEF CreateTask, GivenByRule, NoTask
<1>4. ASSUME NEW s \in Session, NEW p \in Task, NEW children \in SUBSET Task,
             SplitTask(s, p, children)
      PROVE  GivenByRule
  <2>1. task[p] \in TaskRow
    BY <1>0
  <2>2. [task[p] EXCEPT !.status = "BLOCKED"].owner = task[p].owner
    BY <2>1 DEF TaskRow
  <2>3. QED
    BY <1>0, <1>4, <2>2 DEF SplitTask, GivenByRule, NoTask
<1>5. ASSUME NEW s \in Session, NEW t \in Task, ClaimTask(s, t)
      PROVE  GivenByRule
  <2>1. /\ task[t].owner # None => task[t].stale
        /\ DependenciesDone(t)
        /\ \A u \in Task \ {t} : task'[u] = task[u]
    BY <1>0, <1>5 DEF ClaimTask
  <2>2. QED
    BY <2>1 DEF GivenByRule
<1>6. ASSUME NEW s \in Session, NEW t \in Task, ReleaseTask(s, t)
      PROVE  GivenByRule
  BY <1>0, <1>6 DEF ReleaseTask, GivenByRule, TaskRow
<1>7. ASSUME NEW s \in Session, NEW t \in Task, HandoffTask(s, t)
      PROVE  GivenByRule
  BY <1>0, <1>7 DEF HandoffTask, GivenByRule, TaskRow
<1>8. ASSUME NEW t \in Task, CreateTodo(t)
      PROVE  GivenByRule
  BY <1>0, <1>8 DEF CreateTodo, GivenByRule, TaskRow
<1>9. ASSUME NEW t \in Task, NEW finished \in BOOLEAN, UpdateTodo(t, finished)
      PROVE  GivenByRule
  BY <1>0, <1>9 DEF UpdateTodo, GivenByRule, TaskRow
<1>10. QED
  BY <1>2, <1>3, <1>4, <1>5, <1>6, <1>7, <1>8, <1>9, RuledStep DEF TaskStep

\* A step that changes no owner and no head, an update or a verdict for one.
LEMMA OwnersStayRuled ==
  ASSUME BoardTypeOK, UNCHANGED lineageVars, NEW t, NEW status,
         \/ task' = task
         \/ task' = [task EXCEPT ![t] = [task[t] EXCEPT !.status = status]]
  PROVE  ClaimsStep
<1>1. HeadsStay
  BY DEF HeadsStay, lineageVars
<1>2. GivenByRule
  BY DEF GivenByRule, BoardTypeOK, TaskRow
<1>3. QED
  BY <1>1, <1>2, RuledStep

LEMMA PresenceRuled == ASSUME BoardTypeOK, PresenceStep PROVE ClaimsStep
<1>1. UNCHANGED lineageVars
      /\ \/ task' = task
         \/ \E t \in Task : task' = [task EXCEPT ![t] = [task[t] EXCEPT !.stale = TRUE]]
  BY DEF PresenceStep, FallSilent, Heartbeat, RefreshPresence, BoardTypeOK
<1>2. HeadsStay
  BY <1>1 DEF HeadsStay, lineageVars
<1>3. GivenByRule
  BY <1>1 DEF GivenByRule, BoardTypeOK, TaskRow
<1>4. QED
  BY <1>2, <1>3, RuledStep

\* A registration gives the predecessor's unfinished tasks to the new head.
LEMMA RegisterCarries ==
  ASSUME BoardInv, NEW s \in Session, NEW l \in Lineage, NEW r \in Run \cup {None}, NEW expected,
         RegisterWorker(s, l, r, expected)
  PROVE  ClaimsStep
<1> DEFINE p == lineage[l].head
<1> USE ConstantsDisjoint
<1>1. /\ LineageTypeOK /\ ChainIsContiguous /\ BlankUntilInserted
      /\ task \in [Task -> TaskRow]
      /\ currentTask \in [Session -> Task \cup {None}]
  BY DEF BoardInv, LineageInv, BoardTypeOK
<1>2. WritesSessions(s, l) /\ WritesLineages(s, l, r)
  BY <1>1, SessionEffect, HeadEffect DEF RegisterWorker, RegisterIncarnation
<1>3. /\ lineage'[l].head = s
      /\ \A k \in Lineage \ {l} : lineage'[k].head = lineage[k].head
  BY <1>2 DEF WritesLineages
<1>4. p # None => p \in Session /\ p # s /\ session[p].lineage = l
  <2>1. p # None => p \in Session /\ session[p].lineage = l
    BY <1>1 DEF LineageTypeOK, LineageRow, ChainIsContiguous
  <2>2. session[s].lineage = None
    BY <1>1 DEF RegisterWorker, RegisterIncarnation, BlankUntilInserted, NoSession
  <2>3. QED
    BY <2>1, <2>2
<1>5. CASE p = None
  <2>1. UNCHANGED task
    BY <1>5 DEF RegisterWorker
  <2>2. QED
    BY <1>3, <1>5, <2>1 DEF ClaimsStep, KeptStep, WaitStep, CarriedStep
<1>6. CASE p # None
  <2>1. TransferTasks(p, s)
    BY <1>6 DEF RegisterWorker
  <2>2. \A t \in Task :
          IF t \in Unfinished(p) THEN task'[t].owner = s /\ ~task'[t].stale
          ELSE task'[t] = task[t]
    <3>1. ASSUME NEW row \in TaskRow
          PROVE  /\ [row EXCEPT !.owner = s, !.stale = FALSE].owner = s
                 /\ ~[row EXCEPT !.owner = s, !.stale = FALSE].stale
      BY DEF TaskRow
    <3>2. \A t \in Task : task[t] \in TaskRow
      BY <1>1
    <3>3. task' = [t \in Task |->
            IF t \in Unfinished(p) THEN [task[t] EXCEPT !.owner = s, !.stale = FALSE] ELSE task[t]]
      BY <2>1 DEF TransferTasks
    <3> HIDE DEF p
    <3>4. QED
      BY <3>1, <3>2, <3>3
  <2>3. KeptStep
    <3>1. session'[p].supersededBy = s
      BY <1>2, <1>4, <1>6 DEF WritesSessions
    <3>2. QED
      BY <1>3, <1>4, <1>6, <2>2, <3>1 DEF KeptStep, Unfinished
  <2>4. WaitStep
    BY <1>6, <2>2 DEF WaitStep, Unfinished
  <2>5. CarriedStep
    <3>1. ASSUME Unfinished(p) # {}
          PROVE  \E t \in Task : currentTask'[s] = t /\ task'[t].owner = s
      <4>1. PICK t \in Unfinished(p) : currentTask' = [currentTask EXCEPT ![s] = t, ![p] = None]
        BY <2>1, <3>1 DEF TransferTasks
      <4>2. currentTask'[s] = t
        BY <1>1, <1>4, <1>6, <4>1
      <4>3. t \in Task /\ task'[t].owner = s
        BY <2>2, <4>1 DEF Unfinished
      <4>4. QED
        BY <4>2, <4>3
    <3>2. QED
      BY <1>3, <2>2, <3>1 DEF CarriedStep, Unfinished
  <2>6. QED
    BY <2>3, <2>4, <2>5 DEF ClaimsStep
<1>7. QED
  BY <1>5, <1>6

\* Reserving a launch, a generic registration and a close move no head and no
\* task.
LEMMA WorkerRuled ==
  ASSUME BoardInv, UNCHANGED task,
         \/ \E r \in Run, l \in Lineage : ReserveLaunch(r, l)
         \/ \E s \in Session : RegisterGeneric(s)
         \/ \E s \in Session : CloseSession(s)
  PROVE  ClaimsStep
<1>1. LineageTypeOK
  BY DEF BoardInv, LineageInv
<1>2. HeadsStay
  <2>1. ASSUME NEW r \in Run, NEW l \in Lineage, ReserveLaunch(r, l) PROVE HeadsStay
    BY <1>1, <2>1 DEF HeadsStay, ReserveLaunch, LineageTypeOK, LineageRow
  <2>2. ASSUME UNCHANGED lineage PROVE HeadsStay
    BY <2>2 DEF HeadsStay
  <2>3. QED
    BY <2>1, <2>2 DEF RegisterGeneric, CloseSession
<1>3. GivenByRule
  BY DEF GivenByRule
<1>4. QED
  BY <1>2, <1>3, RuledStep

\* Steps of the board with whatever gate decides over updates.
BoardStep ==
  \/ \E s \in Session, l \in Lineage, r \in Run \cup {None},
        expected \in Session \cup {None, Unspecified} :
       RegisterWorker(s, l, r, expected)
  \/ /\ \/ \E r \in Run, l \in Lineage : ReserveLaunch(r, l)
        \/ \E s \in Session : RegisterGeneric(s)
        \/ \E s \in Session : CloseSession(s)
     /\ UNCHANGED task
  \/ PresenceStep
  \/ TaskStep
  \/ \E t, status : /\ UNCHANGED lineageVars
                    /\ \/ task' = task
                       \/ task' = [task EXCEPT ![t] = [task[t] EXCEPT !.status = status]]

LEMMA BoardStepRuled == BoardInv /\ BoardStep => ClaimsStep
BY RegisterCarries, WorkerRuled, PresenceRuled, TaskStepRuled, OwnersStayRuled DEF BoardStep, BoardInv

\* With reviews beside it, the board takes no other steps.
LEMMA ReviewsTakeBoardSteps == [Next]_vars => [BoardStep]_boardVars
<1> SUFFICES ASSUME [Next]_vars, boardVars' # boardVars PROVE BoardStep
  OBVIOUS
<1>1. CASE WorkerStepWithReviews
  BY <1>1 DEF WorkerStepWithReviews, BoardStep, CloseWorker, taskVars
<1>2. CASE PresenceStep \/ TaskStep
  BY <1>2 DEF BoardStep
<1>3. ASSUME NEW t \in Task, NEW status, NEW gateOpen, UpdateTask(t, status, gateOpen)
      PROVE  BoardStep
  BY <1>3 DEF UpdateTask, BoardStep
<1>4. CASE ReviewStep
  <2>1. ASSUME UNCHANGED lineageVars, NEW t, NEW status,
               task' = [task EXCEPT ![t] = [task[t] EXCEPT !.status = status]] \/ task' = task
        PROVE  BoardStep
    BY <2>1 DEF BoardStep
  <2>2. ASSUME NEW s, NEW t, NEW reviewer, RequestReview(s, t, reviewer)
        PROVE  BoardStep
    BY <2>1, <2>2 DEF RequestReview
  <2>3. ASSUME NEW s, NEW t, NEW n, BeginReview(s, t, n) \/ Approve(s, t, n) \/ RequestChanges(s, t, n)
        PROVE  BoardStep
    BY <2>1, <2>3 DEF BeginReview, Approve, RequestChanges
  <2>4. ASSUME NEW s, NEW t, NEW n, NEW f, NEW settled,
               CreateFinding(s, t, n, f) \/ ResolveFinding(s, t, n, f, settled)
        PROVE  BoardStep
    BY <2>1, <2>4 DEF CreateFinding, ResolveFinding, taskVars
  <2>5. QED
    BY <1>4, <2>2, <2>3, <2>4 DEF ReviewStep
<1>5. CASE UNCHANGED vars
  BY <1>5 DEF vars, boardVars
<1>6. QED
  BY <1>1, <1>2, <1>3, <1>4, <1>5 DEF Next

LEMMA BoardStepsLineages == [BoardNext]_boardVars => [LineageNext]_lineageVars
<1> SUFFICES ASSUME [BoardNext]_boardVars PROVE [LineageNext]_lineageVars
  OBVIOUS
<1>1. CASE WorkerStep
  BY <1>1 DEF WorkerStep, RegisterWorker, CloseWorker, LineageNext
<1>2. CASE TaskStep
  BY <1>2 DEF TaskStep, CreateTask, SplitTask, ClaimTask, ReleaseTask, HandoffTask, CreateTodo,
              UpdateTodo
<1>3. CASE PresenceStep \/ UpdateStep
  BY <1>3 DEF PresenceStep, FallSilent, Heartbeat, RefreshPresence, UpdateStep, UpdateTask
<1>4. CASE UNCHANGED boardVars
  BY <1>4 DEF boardVars, lineageVars
<1>5. QED
  BY <1>1, <1>2, <1>3, <1>4 DEF BoardNext

\* The rows a board action writes.
LEMMA TaskRowWritten ==
  ASSUME NEW row \in TaskRow, NEW status \in TaskStatus, NEW owner \in Session \cup {None},
         NEW stale \in BOOLEAN
  PROVE  /\ [row EXCEPT !.status = status] \in TaskRow
         /\ [row EXCEPT !.status = status, !.owner = owner] \in TaskRow
         /\ [row EXCEPT !.status = status, !.owner = owner, !.stale = stale] \in TaskRow
BY DEF TaskRow

LEMMA TaskStepTypes ==
  ASSUME BoardTypeOK, TaskStep \/ UpdateStep
  PROVE  /\ task' \in [Task -> TaskRow]
         /\ currentTask' \in [Session -> Task \cup {None}]
         /\ UNCHANGED presence
<1>0. /\ task \in [Task -> TaskRow] /\ currentTask \in [Session -> Task \cup {None}]
      /\ \A t \in Task : task[t] \in TaskRow
  BY DEF BoardTypeOK
<1>1. UNCHANGED presence
  BY DEF TaskStep, CreateTask, SplitTask, ClaimTask, ReleaseTask, HandoffTask, CreateTodo,
         UpdateTodo, UpdateStep, UpdateTask
<1>2. currentTask' \in [Session -> Task \cup {None}]
  BY <1>0 DEF TaskStep, CreateTask, SplitTask, ClaimTask, ReleaseTask, HandoffTask, CreateTodo,
         UpdateTodo, UpdateStep, UpdateTask
<1>3. ASSUME NEW t \in Task, NEW status \in TaskStatus, NEW deps \in SUBSET Task,
             CreateTask(t, status, deps)
      PROVE  task' \in [Task -> TaskRow]
  <2> DEFINE st == IF status = "READY" /\ \E d \in deps : task[d].status # "DONE"
                   THEN "BACKLOG" ELSE status
             row == [NoTask EXCEPT !.status = st, !.deps = deps]
  <2>1. st \in TaskStatus
    BY DEF TaskStatus
  <2> HIDE DEF st
  <2>2. row \in TaskRow
    BY <2>1 DEF NoTask, TaskRow
  <2>3. task' = [task EXCEPT ![t] = row]
    BY <1>3 DEF CreateTask, st
  <2> HIDE DEF row
  <2>4. QED
    BY <1>0, <2>2, <2>3
<1>4. ASSUME NEW s \in Session, NEW p \in Task, NEW children \in SUBSET Task,
             SplitTask(s, p, children)
      PROVE  task' \in [Task -> TaskRow]
  <2>1. [NoTask EXCEPT !.status = "READY"] \in TaskRow
    BY DEF NoTask, TaskRow, TaskStatus
  <2>2. [task[p] EXCEPT !.status = "BLOCKED"] \in TaskRow
    BY <1>0 DEF TaskRow, TaskStatus
  <2>3. QED
    BY <1>0, <1>4, <2>1, <2>2 DEF SplitTask
<1>5. ASSUME NEW t \in Task, NEW row \in TaskRow, task' = [task EXCEPT ![t] = row]
      PROVE  task' \in [Task -> TaskRow]
  BY <1>0, <1>5
<1>6. {"CLAIMED", "READY", "WAITING_FOR_PEER"} \subseteq TaskStatus
  BY DEF TaskStatus
<1>7. ASSUME NEW s \in Session, NEW t \in Task, ClaimTask(s, t)
      PROVE  task' \in [Task -> TaskRow]
  BY <1>0, <1>5, <1>6, <1>7, TaskRowWritten DEF ClaimTask
<1>8. ASSUME NEW s \in Session, NEW t \in Task, ReleaseTask(s, t)
      PROVE  task' \in [Task -> TaskRow]
  BY <1>0, <1>5, <1>6, <1>8, TaskRowWritten DEF ReleaseTask
<1>9. ASSUME NEW s \in Session, NEW t \in Task, HandoffTask(s, t)
      PROVE  task' \in [Task -> TaskRow]
  BY <1>0, <1>5, <1>6, <1>9, TaskRowWritten DEF HandoffTask
<1>10. ASSUME NEW t \in Task, CreateTodo(t)
       PROVE  task' \in [Task -> TaskRow]
  <2>1. task[t].todos + 1 \in Nat /\ task[t].incomplete + 1 \in Nat
    BY <1>0 DEF TaskRow
  <2> DEFINE row == [task[t] EXCEPT !.todos = task[t].todos + 1,
                                    !.incomplete = task[t].incomplete + 1]
  <2>2. row \in TaskRow
    BY <1>0, <2>1, Counted
  <2>3. task' = [task EXCEPT ![t] = row]
    BY <1>10 DEF CreateTodo
  <2> HIDE DEF row
  <2>4. QED
    BY <1>5, <2>2, <2>3
<1>11. ASSUME NEW t \in Task, NEW finished \in BOOLEAN, UpdateTodo(t, finished)
       PROVE  task' \in [Task -> TaskRow]
  <2> DEFINE left == IF finished THEN task[t].incomplete - 1 ELSE task[t].incomplete + 1
  <2>1. left \in Nat
    BY <1>0, <1>11 DEF UpdateTodo, TaskRow
  <2>2. task' = [task EXCEPT ![t] = [task[t] EXCEPT !.incomplete = left]]
    BY <1>11 DEF UpdateTodo
  <2> HIDE DEF left
  <2> DEFINE row == [task[t] EXCEPT !.incomplete = left]
  <2>3. row \in TaskRow
    BY <1>0, <2>1, Counted
  <2>4. QED
    BY <1>5, <2>2, <2>3
<1>12. ASSUME NEW t \in Task, NEW status \in TaskStatus, NEW gateOpen, UpdateTask(t, status, gateOpen)
       PROVE  task' \in [Task -> TaskRow]
  <2>1. task' = [task EXCEPT ![t] = [task[t] EXCEPT !.status = status]]
    BY <1>12 DEF UpdateTask
  <2>2. QED
    BY <1>0, <1>5, <2>1, TaskRowWritten
<1>13. task' \in [Task -> TaskRow]
  BY <1>3, <1>4, <1>7, <1>8, <1>9, <1>10, <1>11, <1>12 DEF TaskStep, UpdateStep
<1>14. QED
  BY <1>1, <1>2, <1>13

LEMMA TaskRowMarked ==
  ASSUME NEW row \in TaskRow, NEW owner \in Session \cup {None}
  PROVE  /\ [row EXCEPT !.stale = TRUE] \in TaskRow
         /\ [row EXCEPT !.owner = owner, !.stale = FALSE] \in TaskRow
BY DEF TaskRow

LEMMA PresenceTypes ==
  ASSUME BoardTypeOK, PresenceStep
  PROVE  /\ task' \in [Task -> TaskRow]
         /\ presence' \in [Session -> [offline : BOOLEAN, lag : 0 .. 2]]
         /\ UNCHANGED currentTask
<1>0. /\ task \in [Task -> TaskRow] /\ currentTask \in [Session -> Task \cup {None}]
      /\ presence \in [Session -> [offline : BOOLEAN, lag : 0 .. 2]]
      /\ \A t \in Task : task[t] \in TaskRow
  BY DEF BoardTypeOK
<1>1. ASSUME NEW s \in Session, FallSilent(s)
      PROVE  presence' \in [Session -> [offline : BOOLEAN, lag : 0 .. 2]]
  <2>1. presence[s].lag + 1 \in 0 .. 2
    BY <1>0, <1>1, TaskConstants DEF FallSilent
  <2>2. presence' = [presence EXCEPT ![s] = [presence[s] EXCEPT !.lag = presence[s].lag + 1]]
    BY <1>1 DEF FallSilent
  <2>3. QED
    BY <1>0, <2>1, <2>2
<1>2. ASSUME NEW s \in Session, Heartbeat(s)
      PROVE  presence' \in [Session -> [offline : BOOLEAN, lag : 0 .. 2]]
  BY <1>0, <1>2 DEF Heartbeat, Heard
<1>3. ASSUME NEW s \in Session, RefreshPresence(s)
      PROVE  presence' \in [Session -> [offline : BOOLEAN, lag : 0 .. 2]]
  <2>1. presence' = [presence EXCEPT ![s] = [presence[s] EXCEPT !.offline = TRUE]]
    BY <1>3 DEF RefreshPresence
  <2>2. QED
    BY <1>0, <2>1
<1>4. UNCHANGED currentTask
      /\ \/ task' = task
         \/ \E t \in Task : task' = [task EXCEPT ![t] = [task[t] EXCEPT !.stale = TRUE]]
  BY <1>0 DEF PresenceStep, FallSilent, Heartbeat, RefreshPresence
<1>5. task' \in [Task -> TaskRow]
  <2>1. \A t \in Task : [task[t] EXCEPT !.stale = TRUE] \in TaskRow
    BY <1>0, TaskRowMarked
  <2>2. QED
    BY <1>0, <1>4, <2>1
<1>6. QED
  BY <1>1, <1>2, <1>3, <1>4, <1>5 DEF PresenceStep

LEMMA WorkerTypes ==
  ASSUME BoardTypeOK, WorkerStep
  PROVE  /\ task' \in [Task -> TaskRow]
         /\ currentTask' \in [Session -> Task \cup {None}]
         /\ presence' \in [Session -> [offline : BOOLEAN, lag : 0 .. 2]]
<1> DEFINE Types == /\ task' \in [Task -> TaskRow]
                    /\ currentTask' \in [Session -> Task \cup {None}]
                    /\ presence' \in [Session -> [offline : BOOLEAN, lag : 0 .. 2]]
<1>0. /\ task \in [Task -> TaskRow] /\ currentTask \in [Session -> Task \cup {None}]
      /\ presence \in [Session -> [offline : BOOLEAN, lag : 0 .. 2]]
      /\ \A t \in Task : task[t] \in TaskRow
      /\ \A l \in Lineage : lineage[l].head \in Session \cup {None}
  BY DEF BoardTypeOK, LineageTypeOK, LineageRow
<1>1. CASE UNCHANGED taskVars
  BY <1>0, <1>1 DEF taskVars
<1>2. ASSUME NEW s \in Session, CloseWorker(s)
      PROVE  Types
  BY <1>0, <1>2 DEF CloseWorker, Heard
<1>3. ASSUME NEW s \in Session, NEW l \in Lineage, NEW r, NEW expected,
             RegisterWorker(s, l, r, expected)
      PROVE  Types
  <2> DEFINE p == lineage[l].head
  <2>1. /\ UNCHANGED <<task, currentTask>> \/ TransferTasks(p, s)
        /\ presence' = [presence EXCEPT ![s] = Heard]
    BY <1>3 DEF RegisterWorker
  <2>2. presence' \in [Session -> [offline : BOOLEAN, lag : 0 .. 2]]
    BY <1>0, <2>1 DEF Heard
  <2> HIDE DEF p
  <2>3. CASE UNCHANGED <<task, currentTask>>
    BY <1>0, <2>2, <2>3
  <2>4. CASE TransferTasks(p, s)
    <3>1. \A t \in Task : [task[t] EXCEPT !.owner = s, !.stale = FALSE] \in TaskRow
      BY <1>0, TaskRowMarked
    <3>2. task' = [t \in Task |-> IF t \in Unfinished(p)
                    THEN [task[t] EXCEPT !.owner = s, !.stale = FALSE] ELSE task[t]]
      BY <2>4 DEF TransferTasks
    <3>3. task' \in [Task -> TaskRow]
      BY <1>0, <3>1, <3>2
    <3>4. currentTask' \in [Session -> Task \cup {None}]
      BY <1>0, <2>4 DEF TransferTasks, Unfinished
    <3>5. QED
      BY <2>2, <3>3, <3>4
  <2>5. QED
    BY <2>1, <2>3, <2>4
<1>4. QED
  BY <1>1, <1>2, <1>3 DEF WorkerStep

LEMMA BoardNextInv == BoardInv /\ [BoardNext]_boardVars => BoardInv'
<1> SUFFICES ASSUME BoardInv, [BoardNext]_boardVars PROVE BoardInv'
  OBVIOUS
<1> USE DEF BoardInv
<1>1. LineageInv' /\ LineageTypeOK'
  BY BoardStepsLineages, LineageNextInv DEF LineageInv
<1>2. CASE UNCHANGED boardVars
  BY <1>1, <1>2 DEF boardVars, BoardTypeOK
<1>3. CASE TaskStep \/ UpdateStep
  BY <1>1, <1>3, TaskStepTypes DEF BoardTypeOK
<1>4. CASE PresenceStep
  BY <1>1, <1>4, PresenceTypes DEF BoardTypeOK
<1>5. CASE WorkerStep
  BY <1>1, <1>5, WorkerTypes DEF BoardTypeOK
<1>6. QED
  BY <1>2, <1>3, <1>4, <1>5 DEF BoardNext

LEMMA BoardTakesBoardSteps == [BoardNext]_boardVars => [BoardStep]_boardVars
<1> SUFFICES ASSUME [BoardNext]_boardVars, boardVars' # boardVars PROVE BoardStep
  OBVIOUS
<1>1. CASE WorkerStep
  BY <1>1 DEF WorkerStep, BoardStep, CloseWorker, taskVars
<1>2. CASE PresenceStep \/ TaskStep
  BY <1>2 DEF BoardStep
<1>3. CASE UpdateStep
  BY <1>3 DEF UpdateStep, UpdateTask, BoardStep
<1>4. QED
  BY <1>1, <1>2, <1>3 DEF BoardNext

LEMMA BoardInitInv == BoardInit => BoardInv
<1> SUFFICES ASSUME BoardInit PROVE BoardInv
  OBVIOUS
<1>1. LineageInv
  BY LineageInitInv DEF BoardInit
<1>2. NoTask \in TaskRow
  BY DEF NoTask, TaskRow
<1>3. QED
  BY <1>1, <1>2 DEF BoardInv, BoardInit, BoardTypeOK, LineageInv, Heard

\* Types and succession are invariant on a board without reviews too.
THEOREM BoardInvariant == BoardSpec => []BoardInv
BY BoardInitInv, BoardNextInv, PTL DEF BoardSpec

LEMMA BoardNextClaims ==
  BoardInv /\ [BoardNext]_boardVars =>
    [KeptStep]_boardVars /\ [WaitStep]_boardVars /\ [CarriedStep]_boardVars
BY BoardTakesBoardSteps, BoardStepRuled DEF ClaimsStep

\* Nobody but the worker's own successor ever gets a claim that was neither
\* given up nor marked stale.
THEOREM ClaimsAreKept == BoardSpec => FreshClaimIsKept
BY BoardInvariant, BoardNextClaims, PTL DEF BoardSpec, FreshClaimIsKept, KeptStep

\* No claim and no take-over reaches a task before its dependencies are DONE.
THEOREM ClaimsWait == BoardSpec => ClaimsWaitForDependencies
BY BoardInvariant, BoardNextClaims, PTL DEF BoardSpec, ClaimsWaitForDependencies, WaitStep

\* A registered successor holds everything its predecessor was working on.
THEOREM WorkIsCarried == BoardSpec => ReplacementCarriesTheWork
BY BoardInvariant, BoardNextClaims, PTL DEF BoardSpec, ReplacementCarriesTheWork, CarriedStep

\* Requests, verdicts and the transfer of reviews leave all three as they are.
THEOREM ReviewsKeepClaims ==
  Spec => FreshClaimIsKept /\ ClaimsWaitForDependencies /\ ReplacementCarriesTheWork
<1>1. ReviewInv /\ [Next]_vars =>
        [KeptStep]_boardVars /\ [WaitStep]_boardVars /\ [CarriedStep]_boardVars
  BY ReviewsTakeBoardSteps, BoardStepRuled DEF ClaimsStep, ReviewInv, ReviewTypeOK, BoardInv
<1>2. QED
  BY <1>1, ReviewInvariant, PTL DEF Spec, FreshClaimIsKept, ClaimsWaitForDependencies,
     ReplacementCarriesTheWork, KeptStep, WaitStep, CarriedStep

----------------------------------------------------------------------------
(* Who sees which review.                                                  *)

\* A party of row: its reviewer's agent, its author, or another incarnation of
\* the author's worker.
IsParty(s, row) ==
  \/ AgentOf[s] = row.reviewer
  \/ s = row.author
  \/ session[s].lineage # None /\ session[s].lineage = session[row.author].lineage

\* What the property lacks to be inductive: a review that is shown exists, the
\* sessions of a lineage speak for its agent, and only the sessions of a lineage
\* are ever replaced.
ShownExists ==
  \A s \in Session : currentReview[s] # None =>
    /\ currentReview[s][1] \in Task
    /\ currentReview[s][2] \in DOMAIN review[currentReview[s][1]]

WorkersShareTheirAgent ==
  \A s \in Session : session[s].lineage # None => AgentOf[s] = WorkerOf[session[s].lineage]

GenericIsNeverReplaced ==
  \A s \in Session : session[s].lineage = None => session[s].supersededBy = None

PartyInv ==
  /\ ReviewsAreShownToTheirParties
  /\ ShownExists
  /\ WorkersShareTheirAgent
  /\ GenericIsNeverReplaced

LEMMA PartyInitInv == ReviewInit => PartyInv
BY DEF ReviewInit, BoardInit, LineageInit, NoSession, PartyInv, ReviewsAreShownToTheirParties,
       ShownExists, WorkersShareTheirAgent, GenericIsNeverReplaced

\* An open session was not replaced, and neither was a head.
LEMMA OpenIsNotReplaced ==
  ASSUME LineageInv, PartyInv, NEW s \in Session, IsOpen(s)
  PROVE  session[s].supersededBy = None
<1>1. CASE session[s].lineage = None
  BY <1>1 DEF PartyInv, GenericIsNeverReplaced
<1>2. CASE session[s].lineage # None
  <2>1. session[s].lineage \in Lineage /\ lineage[session[s].lineage].head = s
    BY <1>2 DEF LineageInv, LineageTypeOK, SessionRow, OnlyHeadIsOpen
  <2>2. QED
    BY <2>1, ConstantsDisjoint DEF LineageInv, ChainIsContiguous
<1>3. QED
  BY <1>1, <1>2

LEMMA AuthorHeadIsParty ==
  ASSUME LineageInv, PartyInv, NEW t \in Task, NEW n, Row(t, n).author \in Session,
         AuthorHead(t, n) \in Session
  PROVE  /\ session[AuthorHead(t, n)].supersededBy = None
         /\ IsParty(AuthorHead(t, n), Row(t, n))
<1> DEFINE a == Row(t, n).author
<1>1. CASE session[a].lineage = None
  BY <1>1 DEF AuthorHead, PartyInv, GenericIsNeverReplaced, IsParty
<1>2. CASE session[a].lineage # None
  <2>1. session[a].lineage \in Lineage
    BY <1>2 DEF LineageInv, LineageTypeOK, SessionRow
  <2>2. AuthorHead(t, n) = lineage[session[a].lineage].head
    BY <1>2 DEF AuthorHead
  <2>3. lineage[session[a].lineage].head # None
    BY <2>2, ConstantsDisjoint
  <2>4. /\ session[AuthorHead(t, n)].lineage = session[a].lineage
        /\ session[AuthorHead(t, n)].supersededBy = None
    BY <2>1, <2>2, <2>3 DEF LineageInv, ChainIsContiguous
  <2>5. QED
    BY <1>2, <2>4 DEF IsParty
<1>3. QED
  BY <1>1, <1>2

\* A step within the succession as it is: rows keep their parties, and a review
\* is shown to somebody new only if he is one of them.
ShowsToParties ==
  /\ UNCHANGED session
  /\ \A t \in Task : \A n \in DOMAIN review[t] :
       /\ n \in DOMAIN review'[t]
       /\ review'[t][n].author = review[t][n].author
       /\ review'[t][n].reviewer = review[t][n].reviewer
  /\ \A s \in Session :
       \/ currentReview'[s] \in {None, currentReview[s]}
       \/ \E t \in Task : \E n \in DOMAIN review'[t] :
            /\ currentReview'[s] = <<t, n>>
            /\ session[s].supersededBy = None
            /\ IsParty(s, review'[t][n])

LEMMA ShowsInv == PartyInv /\ ShowsToParties => PartyInv'
<1> SUFFICES ASSUME PartyInv, ShowsToParties PROVE PartyInv'
  OBVIOUS
<1>1. WorkersShareTheirAgent' /\ GenericIsNeverReplaced'
  BY DEF PartyInv, ShowsToParties, WorkersShareTheirAgent, GenericIsNeverReplaced
<1>2. ASSUME NEW s \in Session, currentReview'[s] # None
      PROVE  LET cr == currentReview'[s] IN
             /\ cr[1] \in Task /\ cr[2] \in DOMAIN review'[cr[1]]
             /\ session[s].supersededBy = None
             /\ IsParty(s, review'[cr[1]][cr[2]])
  <2>1. CASE currentReview'[s] = currentReview[s]
    <3>1. /\ currentReview[s][1] \in Task
          /\ currentReview[s][2] \in DOMAIN review[currentReview[s][1]]
          /\ session[s].supersededBy = None
          /\ IsParty(s, review[currentReview[s][1]][currentReview[s][2]])
      BY <1>2, <2>1 DEF PartyInv, ShownExists, ReviewsAreShownToTheirParties, IsParty, Row
    <3>2. QED
      BY <2>1, <3>1 DEF ShowsToParties, IsParty
  <2>2. CASE \E t \in Task : \E n \in DOMAIN review'[t] :
               /\ currentReview'[s] = <<t, n>>
               /\ session[s].supersededBy = None
               /\ IsParty(s, review'[t][n])
    BY <2>2
  <2>3. QED
    BY <1>2, <2>1, <2>2 DEF ShowsToParties
<1>3. ShownExists'
  BY <1>2 DEF ShownExists
<1>4. ReviewsAreShownToTheirParties'
  BY <1>2 DEF ReviewsAreShownToTheirParties, ShowsToParties, IsParty, Row
<1>5. QED
  BY <1>1, <1>3, <1>4 DEF PartyInv

\* One row of a revision is written, its parties are kept, and the review is
\* shown to nobody or to a party.
LEMMA WrittenShows ==
  ASSUME ReviewInv, UNCHANGED session, NEW t \in Task, NEW n \in DOMAIN review[t],
         NEW row \in ReviewRow, review' = [review EXCEPT ![t][n] = row],
         row.author = Row(t, n).author, row.reviewer = Row(t, n).reviewer,
         \A q \in Session :
           \/ currentReview'[q] \in {None, currentReview[q]}
           \/ /\ currentReview'[q] = <<t, n>>
              /\ session[q].supersededBy = None
              /\ IsParty(q, Row(t, n))
  PROVE  ShowsToParties
<1>1. /\ DOMAIN review'[t] = DOMAIN review[t]
      /\ \A k \in DOMAIN review[t] : review'[t][k] = IF k = n THEN row ELSE review[t][k]
      /\ \A u \in Task \ {t} : review'[u] = review[u]
  BY RowWritten
<1>2. \A q \in Session : IsParty(q, Row(t, n)) => IsParty(q, review'[t][n])
  BY <1>1 DEF IsParty
<1>3. QED
  BY <1>1, <1>2 DEF ShowsToParties, Row

LEMMA BeginShows ==
  ASSUME ReviewInv, PartyInv, NEW s \in Session, NEW t \in Task, NEW n \in DOMAIN review[t],
         BeginReview(s, t, n)
  PROVE  ShowsToParties
<1> DEFINE row == [Row(t, n) EXCEPT !.status = "IN_REVIEW"]
<1>1. row \in ReviewRow /\ row.author = Row(t, n).author /\ row.reviewer = Row(t, n).reviewer
  BY RowInHand, StatusWritten DEF Active
<1>2. review' = [review EXCEPT ![t][n] = row] /\ UNCHANGED session
      /\ currentReview' = [currentReview EXCEPT ![s] = <<t, n>>]
  BY DEF BeginReview, lineageVars, Row
<1>3. session[s].supersededBy = None /\ IsParty(s, Row(t, n))
  BY OpenIsNotReplaced DEF ReviewInv, BeginReview, MayReview, IsParty
<1>4. \A q \in Session : currentReview'[q] = IF q = s THEN <<t, n>> ELSE currentReview[q]
  BY <1>2, RowInHand
<1> HIDE DEF row
<1>5. QED
  BY <1>1, <1>2, <1>3, <1>4, WrittenShows

LEMMA FindingShows ==
  ASSUME ReviewInv, PartyInv, NEW t \in Task, NEW n \in DOMAIN review[t], NEW f \in Finding,
         NEW answer \in {"OPEN", "SETTLED"}, UNCHANGED <<session, currentReview>>,
         review' = [review EXCEPT ![t][n].findings[f] = answer]
  PROVE  ShowsToParties
<1> DEFINE row == [Row(t, n) EXCEPT !.findings = [Row(t, n).findings EXCEPT ![f] = answer]]
<1>1. row \in ReviewRow /\ row.author = Row(t, n).author /\ row.reviewer = Row(t, n).reviewer
  <2>1. Row(t, n) \in ReviewRow
    BY RowInHand
  <2>2. QED
    BY <2>1, FindingWritten
<1>2. review' = [review EXCEPT ![t][n] = row]
  BY DEF Row
<1> HIDE DEF row
<1>3. QED
  BY <1>1, <1>2, WrittenShows

LEMMA ApproveShows ==
  ASSUME ReviewInv, PartyInv, NEW s \in Session, NEW t \in Task, NEW n \in DOMAIN review[t],
         Approve(s, t, n)
  PROVE  ShowsToParties
<1> DEFINE row == [Row(t, n) EXCEPT !.status = "APPROVED"]
<1>1. row \in ReviewRow /\ row.author = Row(t, n).author /\ row.reviewer = Row(t, n).reviewer
  BY RowInHand, StatusWritten
<1>2. review' = [review EXCEPT ![t][n] = row] /\ UNCHANGED session
  BY DEF Approve, lineageVars, Row
<1>3. \A q \in Session : currentReview'[q] \in {None, currentReview[q]}
  BY RowInHand DEF Approve
<1> HIDE DEF row
<1>4. QED
  BY <1>1, <1>2, <1>3, WrittenShows

LEMMA ChangesShow ==
  ASSUME ReviewInv, PartyInv, NEW s \in Session, NEW t \in Task, NEW n \in DOMAIN review[t],
         RequestChanges(s, t, n)
  PROVE  ShowsToParties
<1> DEFINE row == [Row(t, n) EXCEPT !.status = "CHANGES_REQUESTED"]
           h == AuthorHead(t, n)
<1>1. row \in ReviewRow /\ row.author = Row(t, n).author /\ row.reviewer = Row(t, n).reviewer
      /\ Row(t, n).author \in Session
  BY RowInHand, StatusWritten DEF Active, ReviewRow
<1>2. review' = [review EXCEPT ![t][n] = row] /\ UNCHANGED session
      /\ currentReview' = [currentReview EXCEPT ![h] = <<t, n>>, ![s] = None]
  BY DEF RequestChanges, lineageVars, Row
<1>3. h \in Session => session[h].supersededBy = None /\ IsParty(h, Row(t, n))
  BY <1>1, AuthorHeadIsParty DEF ReviewInv
<1> HIDE DEF row, h
<1>4. \A q \in Session : currentReview'[q] = IF q = s THEN None
                                             ELSE IF q = h THEN <<t, n>> ELSE currentReview[q]
  BY <1>2, RowInHand
<1>5. \A q \in Session :
        \/ currentReview'[q] \in {None, currentReview[q]}
        \/ /\ currentReview'[q] = <<t, n>>
           /\ session[q].supersededBy = None
           /\ IsParty(q, Row(t, n))
  BY <1>3, <1>4
<1>6. QED
  BY <1>1, <1>2, <1>5, WrittenShows

LEMMA RequestShows ==
  ASSUME ReviewInv, PartyInv, NEW s \in Session, NEW t \in Task, NEW reviewer \in Agent,
         RequestReview(s, t, reviewer)
  PROVE  ShowsToParties
<1> DEFINE old == review[t]
           rows == Append(Superseded(t), NewReview(s, reviewer))
<1>1. /\ Len(old) \in Nat /\ Len(rows) = Len(old) + 1
      /\ DOMAIN rows = 1 .. Len(rows) /\ DOMAIN old = 1 .. Len(old)
      /\ rows[Len(rows)] = NewReview(s, reviewer)
      /\ \A k \in 1 .. Len(old) :
           rows[k].author = old[k].author /\ rows[k].reviewer = old[k].reviewer
  BY RequestedRows
<1>2. /\ review \in [Task -> Seq(ReviewRow)]
      /\ currentReview \in [Session -> ReviewId \cup {None}]
  BY DEF ReviewInv, ReviewTypeOK
<1>3. /\ review' = [review EXCEPT ![t] = rows] /\ UNCHANGED session
      /\ currentReview' = [currentReview EXCEPT ![s] = <<t, Len(rows)>>]
      /\ IsOpen(s)
  BY <1>1 DEF RequestReview, lineageVars
<1> HIDE DEF rows
<1>4. review'[t] = rows /\ \A u \in Task \ {t} : review'[u] = review[u]
  BY <1>2, <1>3
<1>5. \A q \in Session : currentReview'[q] = IF q = s THEN <<t, Len(rows)>> ELSE currentReview[q]
  BY <1>2, <1>3
<1>6. session[s].supersededBy = None
  BY <1>3, OpenIsNotReplaced DEF ReviewInv
<1>7. IsParty(s, review'[t][Len(rows)]) /\ Len(rows) \in DOMAIN review'[t]
  BY <1>1, <1>4 DEF IsParty, NewReview
<1>8. \A u \in Task : \A k \in DOMAIN review[u] :
        /\ k \in DOMAIN review'[u]
        /\ review'[u][k].author = review[u][k].author
        /\ review'[u][k].reviewer = review[u][k].reviewer
  BY <1>1, <1>4
<1>9. QED
  BY <1>3, <1>5, <1>6, <1>7, <1>8 DEF ShowsToParties

LEMMA ReviewStepShows == ReviewInv /\ PartyInv /\ ReviewStep => PartyInv'
<1> SUFFICES ASSUME ReviewInv, PartyInv, ReviewStep PROVE ShowsToParties
  BY ShowsInv
<1>1. ASSUME NEW s \in Session, NEW t \in Task, NEW n \in DOMAIN review[t], NEW f \in Finding,
             CreateFinding(s, t, n, f)
      PROVE  ShowsToParties
  BY <1>1, FindingShows DEF CreateFinding, lineageVars
<1>2. ASSUME NEW s \in Session, NEW t \in Task, NEW n \in DOMAIN review[t], NEW f \in Finding,
             NEW settled \in BOOLEAN, ResolveFinding(s, t, n, f, settled)
      PROVE  ShowsToParties
  <2> DEFINE answer == IF settled THEN "SETTLED" ELSE "OPEN"
  <2>1. answer \in {"OPEN", "SETTLED"}
    OBVIOUS
  <2>2. /\ review' = [review EXCEPT ![t][n].findings[f] = answer]
        /\ UNCHANGED <<session, currentReview>>
    BY <1>2 DEF ResolveFinding, lineageVars
  <2> HIDE DEF answer
  <2>3. QED
    BY <2>1, <2>2, FindingShows
<1>3. QED
  BY <1>1, <1>2, RequestShows, BeginShows, ApproveShows, ChangesShow DEF ReviewStep

\* A registration hands the review shown to the predecessor to its successor,
\* who speaks for the same agent in the same lineage.
LEMMA RegisterParty ==
  ASSUME ReviewInv, PartyInv, UNCHANGED review,
         NEW s \in Session, NEW l \in Lineage, NEW r \in Run \cup {None}, NEW expected,
         RegisterWorker(s, l, r, expected), TransferReview(l, s)
  PROVE  PartyInv'
<1> DEFINE p == lineage[l].head
<1> USE ConstantsDisjoint
<1>1. /\ LineageTypeOK /\ ChainIsContiguous /\ BlankUntilInserted
      /\ currentReview \in [Session -> ReviewId \cup {None}]
      /\ review \in [Task -> Seq(ReviewRow)]
  BY DEF ReviewInv, LineageInv, ReviewTypeOK
<1>2. WritesSessions(s, l)
  BY <1>1, SessionEffect DEF RegisterWorker, RegisterIncarnation
<1>3. session[s].lineage = None
  BY <1>1 DEF RegisterWorker, RegisterIncarnation, BlankUntilInserted, NoSession
<1>4. p # None => p \in Session /\ p # s /\ session[p].lineage = l
  <2>1. p # None => p \in Session /\ session[p].lineage = l
    BY <1>1 DEF LineageTypeOK, LineageRow, ChainIsContiguous
  <2>2. QED
    BY <1>3, <2>1
<1>5. AgentOf[s] = WorkerOf[l]
  BY DEF RegisterWorker
<1>6. \A q \in Session :
        /\ session'[q].lineage = IF q = s THEN l ELSE session[q].lineage
        /\ q # p => session'[q].supersededBy = IF q = s THEN None ELSE session[q].supersededBy
  BY <1>2 DEF WritesSessions
<1>7. \A q \in Session :
        currentReview'[q] = IF p = None THEN currentReview[q]
                            ELSE IF q = p THEN None
                            ELSE IF q = s THEN currentReview[p] ELSE currentReview[q]
  BY <1>1, <1>4 DEF TransferReview
<1>8. WorkersShareTheirAgent' /\ GenericIsNeverReplaced'
  <2>1. WorkersShareTheirAgent'
    BY <1>5, <1>6 DEF PartyInv, WorkersShareTheirAgent
  <2>2. GenericIsNeverReplaced'
    BY <1>4, <1>6 DEF PartyInv, GenericIsNeverReplaced
  <2>3. QED
    BY <2>1, <2>2
<1> DEFINE Stays(q, row) ==
      \/ AgentOf[q] = row.reviewer
      \/ q = row.author
      \/ session'[q].lineage # None /\ session'[q].lineage = session'[row.author].lineage
<1>9. ASSUME NEW q \in Session, currentReview'[q] # None
      PROVE  LET cr == currentReview'[q] IN
             /\ cr[1] \in Task /\ cr[2] \in DOMAIN review[cr[1]]
             /\ session'[q].supersededBy = None
             /\ Stays(q, review[cr[1]][cr[2]])
  <2> DEFINE from == IF p # None /\ q = s THEN p ELSE q
             row == review[currentReview[from][1]][currentReview[from][2]]
  <2>1. from \in Session /\ currentReview'[q] = currentReview[from] /\ q # p
    BY <1>4, <1>7, <1>9
  <2>2. /\ currentReview[from][1] \in Task
        /\ currentReview[from][2] \in DOMAIN review[currentReview[from][1]]
        /\ session[from].supersededBy = None
        /\ IsParty(from, row)
    BY <1>9, <2>1 DEF PartyInv, ShownExists, ReviewsAreShownToTheirParties, IsParty, Row
  <2>3. session'[q].supersededBy = None
    BY <1>6, <2>1, <2>2
  <2>4. row.author \in Session
    <3>1. \A t \in Task : \A n \in DOMAIN review[t] : review[t][n] \in ReviewRow
      BY RowInHand DEF Row
    <3>2. row \in ReviewRow
      BY <2>2, <3>1
    <3>3. QED
      BY <3>2 DEF ReviewRow
  <2> HIDE DEF row
  <2>5. from # s /\ session[from].lineage # None /\ session[from].lineage = session[row.author].lineage
        => session'[q].lineage # None /\ session'[q].lineage = session'[row.author].lineage
    BY <1>3, <1>4, <1>6, <2>1, <2>4
  <2>6. Stays(q, row)
    <3>1. CASE from = q
      BY <1>3, <2>2, <2>5, <3>1 DEF IsParty, row
    <3>2. CASE from # q
      <4>1. q = s /\ from = p /\ session[p].lineage = l /\ p # s
        BY <1>4, <3>2
      <4>2. AgentOf[s] = AgentOf[p]
        BY <1>5, <2>1, <4>1 DEF PartyInv, WorkersShareTheirAgent
      <4>3. session'[p].lineage = l /\ session'[s].lineage = l
        BY <1>6, <2>1, <4>1
      <4>4. QED
        BY <2>2, <2>5, <4>1, <4>2, <4>3 DEF IsParty, row
    <3>3. QED
      BY <3>1, <3>2
  <2>7. QED
    BY <2>1, <2>2, <2>3, <2>6 DEF row
<1>10. ShownExists'
  BY <1>9 DEF ShownExists
<1>11. ReviewsAreShownToTheirParties'
  BY <1>9 DEF ReviewsAreShownToTheirParties, Row
<1>12. QED
  BY <1>8, <1>10, <1>11 DEF PartyInv

LEMMA PartyNextInv == ReviewInv /\ PartyInv /\ [Next]_vars => PartyInv'
<1> SUFFICES ASSUME ReviewInv, PartyInv, [Next]_vars PROVE PartyInv'
  OBVIOUS
<1>0. LineageTypeOK
  BY DEF ReviewInv, LineageInv
<1>1. ASSUME UNCHANGED <<session, review, currentReview>> PROVE PartyInv'
  BY <1>1, ShowsInv DEF ShowsToParties
<1>2. ASSUME UNCHANGED <<review, currentReview>>,
             \A q \in Session : /\ session'[q].lineage = session[q].lineage
                                /\ session'[q].supersededBy = session[q].supersededBy
      PROVE  PartyInv'
  <2>1. \A q \in Session : currentReview[q] # None =>
          review[currentReview[q][1]][currentReview[q][2]].author \in Session
    <3>1. \A t \in Task : \A n \in DOMAIN review[t] : review[t][n] \in ReviewRow
      BY RowInHand DEF Row
    <3>2. QED
      BY <3>1 DEF PartyInv, ShownExists, ReviewRow
  <2>2. ReviewsAreShownToTheirParties'
    BY <1>2, <2>1 DEF PartyInv, ReviewsAreShownToTheirParties, Row
  <2>3. ShownExists'
    BY <1>2 DEF PartyInv, ShownExists
  <2>4. WorkersShareTheirAgent' /\ GenericIsNeverReplaced'
    BY <1>2 DEF PartyInv, WorkersShareTheirAgent, GenericIsNeverReplaced
  <2>5. QED
    BY <2>2, <2>3, <2>4 DEF PartyInv
<1>3. CASE WorkerStepWithReviews /\ UNCHANGED review
  <2>1. ASSUME NEW r \in Run, NEW l \in Lineage, ReserveLaunch(r, l), UNCHANGED currentReview
        PROVE  PartyInv'
    BY <1>1, <1>3, <2>1 DEF ReserveLaunch
  <2>2. ASSUME NEW s \in Session, RegisterGeneric(s), UNCHANGED currentReview
        PROVE  PartyInv'
    <3>1. session[s] = NoSession
      BY <2>2 DEF RegisterGeneric, ReviewInv, LineageInv, BlankUntilInserted
    <3>2. \A q \in Session : /\ session'[q].lineage = session[q].lineage
                             /\ session'[q].supersededBy = session[q].supersededBy
      BY <1>0, <2>2, <3>1 DEF RegisterGeneric, LineageTypeOK, NoSession
    <3>3. QED
      BY <1>2, <1>3, <2>2, <3>2
  <2>3. ASSUME NEW s \in Session, CloseWorker(s), UNCHANGED currentReview
        PROVE  PartyInv'
    <3>1. \A q \in Session : /\ session'[q].lineage = session[q].lineage
                             /\ session'[q].supersededBy = session[q].supersededBy
      BY <1>0, <2>3 DEF CloseWorker, CloseSession, LineageTypeOK, SessionRow
    <3>2. QED
      BY <1>2, <1>3, <2>3, <3>1
  <2>4. QED
    BY <1>3, <2>1, <2>2, <2>3, RegisterParty DEF WorkerStepWithReviews
<1>4. CASE (PresenceStep \/ TaskStep) /\ UNCHANGED reviewVars
  BY <1>1, <1>4 DEF PresenceStep, FallSilent, Heartbeat, RefreshPresence, TaskStep, CreateTask,
     SplitTask, ClaimTask, ReleaseTask, HandoffTask, CreateTodo, UpdateTodo, reviewVars, lineageVars
<1>5. ASSUME NEW t, NEW status, NEW gateOpen, UpdateTask(t, status, gateOpen), UNCHANGED reviewVars
      PROVE  PartyInv'
  BY <1>1, <1>5 DEF UpdateTask, reviewVars, lineageVars
<1>6. CASE UNCHANGED vars
  BY <1>1, <1>6 DEF vars
<1>7. QED
  BY <1>3, <1>4, <1>5, <1>6, ReviewStepShows DEF Next

\* No registration, verdict or request leaves a review in front of a replaced
\* session or of somebody who has no part in it.
THEOREM ReviewParties == Spec => []ReviewsAreShownToTheirParties
<1>1. ReviewInit => ReviewInv /\ PartyInv
  BY ReviewInitInv, PartyInitInv
<1>2. ReviewInv /\ PartyInv /\ [Next]_vars => ReviewInv' /\ PartyInv'
  BY ReviewNextInv, PartyNextInv
<1>3. PartyInv => ReviewsAreShownToTheirParties
  BY DEF PartyInv
<1>4. QED
  BY <1>1, <1>2, <1>3, PTL DEF Spec

\* A review-required task that was worked on is DONE only over its approval.
THEOREM ReviewGate == Spec => []DoneIsApproved
<1>1. ReviewInv => DoneIsApproved
  BY DEF ReviewInv
<1>2. QED
  BY <1>1, ReviewInvariant, PTL
=============================================================================
