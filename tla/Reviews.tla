------------------------------ MODULE Reviews ------------------------------
(***************************************************************************)
(* Review bundles of a task and the gate they put before DONE.              *)
(*                                                                         *)
(* The owner of a task freezes a revision and asks an agent to review it.   *)
(* Any open session of that agent begins the review, files findings and     *)
(* gives the verdict; an approval completes the task in the same            *)
(* transaction.  A request for another revision supersedes the one before.  *)
(*                                                                         *)
(* Source: apps/hub/src/services/store/reviews.ts and the completion gate   *)
(* in tasks.ts.  Findings are the blocking ones: no other kind matters to a *)
(* verdict or to the gate.  "OPEN" stands for OPEN, ACCEPTED, DISPUTED and  *)
(* FIXED, "SETTLED" for VERIFIED and WONT_FIX.  Patches, evidence and the   *)
(* messages sent to reviewer and author are left out.                      *)
(***************************************************************************)
EXTENDS Tasks, Sequences

CONSTANTS
  Finding,      \* ids of blocking findings within one revision
  MaxRevision   \* bound on the revisions of a task

ASSUME ReviewConstants == MaxRevision \in Nat

VARIABLES
  review,         \* the revisions of every task, oldest first
  currentReview   \* agent_sessions.current_review_id

reviewVars == <<review, currentReview>>
vars == <<session, lineage, reservation, task, currentTask, presence, review, currentReview>>

----------------------------------------------------------------------------

\* DELIVERED is accepted by the guards but written nowhere.
Active == {"PENDING", "IN_REVIEW", "CHANGES_REQUESTED"}

ReviewRow ==
  [author : Session, reviewer : Agent,
   status : Active \cup {"APPROVED", "SUPERSEDED"},
   findings : [Finding -> {"ABSENT", "OPEN", "SETTLED"}]]

ReviewId == Task \X (1 .. MaxRevision)

Row(t, n) == review[t][n]

ActiveOf(t) == {n \in DOMAIN review[t] : Row(t, n).status \in Active}

NoOpenBlocker(t, n) == \A f \in Finding : Row(t, n).findings[f] # "OPEN"

\* Mutant: any approved revision opens the gate.
GateOfAnyRevision(t) ==
  /\ task[t].incomplete = 0
  /\ t \in ReviewRequired =>
       \E n \in DOMAIN review[t] : Row(t, n).status = "APPROVED" /\ NoOpenBlocker(t, n)

(* assertTaskCompletionGate: the latest revision counts. *)
CompletionGate(t) ==
  LET n == Len(review[t]) IN
  /\ task[t].incomplete = 0
  /\ t \in ReviewRequired =>
       n > 0 /\ Row(t, n).status = "APPROVED" /\ NoOpenBlocker(t, n)

(* currentAuthorProjectionSessionId: who stands for the author now. *)
AuthorHead(t, n) ==
  LET a == Row(t, n).author IN
  IF session[a].lineage = None THEN a ELSE lineage[session[a].lineage].head

\* Mutant: any revision still active may be worked on, whatever else is.
MayReviewOldRevision(s, t, n) ==
  /\ IsOpen(s)
  /\ AgentOf[s] = Row(t, n).reviewer
  /\ Row(t, n).status # "APPROVED"

(* assignedReviewerSession with assertLatestActiveReview. *)
MayReview(s, t, n) ==
  /\ IsOpen(s)
  /\ AgentOf[s] = Row(t, n).reviewer
  /\ ActiveOf(t) = {n}

ReviewInit ==
  /\ BoardInit
  /\ review = [t \in Task |-> <<>>]
  /\ currentReview = [s \in Session |-> None]

----------------------------------------------------------------------------

\* The statuses from which a review may be asked for; CLAIMED passes through
\* IN_PROGRESS.
Reviewable == {"CLAIMED"} \cup {st \in TaskStatus : "REVIEW_PENDING" \in Transitions[st]}

\* Mutant: a revision with requested changes stays as it is.
SupersedePending(t) ==
  [n \in DOMAIN review[t] |->
    IF n = Len(review[t]) /\ Row(t, n).status \in {"PENDING", "IN_REVIEW"}
    THEN [Row(t, n) EXCEPT !.status = "SUPERSEDED"] ELSE Row(t, n)]

\* The revisions of a task once another one is requested.
Superseded(t) ==
  [n \in DOMAIN review[t] |->
    IF n = Len(review[t]) /\ Row(t, n).status # "APPROVED"
    THEN [Row(t, n) EXCEPT !.status = "SUPERSEDED"] ELSE Row(t, n)]

NewReview(s, reviewer) ==
  [author |-> s, reviewer |-> reviewer, status |-> "PENDING",
   findings |-> [f \in Finding |-> "ABSENT"]]

(* requestReview by the owner. *)
RequestReview(s, t, reviewer) ==
  LET n == Len(review[t]) + 1 IN
  /\ n <= MaxRevision
  /\ IsOpen(s)
  /\ task[t].owner = s
  /\ task[t].incomplete = 0
  /\ Cardinality(ActiveOf(t)) <= 1
  /\ task[t].status \in Reviewable
  /\ review' = [review EXCEPT ![t] = Append(Superseded(t), NewReview(s, reviewer))]
  /\ task' = [task EXCEPT ![t].status = "REVIEW_PENDING"]
  /\ currentReview' = [currentReview EXCEPT ![s] = <<t, n>>]
  /\ UNCHANGED <<lineageVars, currentTask, presence>>

(* beginReview: the task follows whatever its status has become. *)
BeginReview(s, t, n) ==
  /\ MayReview(s, t, n)
  /\ Row(t, n).status = "PENDING"
  /\ review' = [review EXCEPT ![t][n].status = "IN_REVIEW"]
  /\ task' = [task EXCEPT ![t].status = "IN_REVIEW"]
  /\ currentReview' = [currentReview EXCEPT ![s] = <<t, n>>]
  /\ UNCHANGED <<lineageVars, currentTask, presence>>

(* createFinding, blocking. *)
CreateFinding(s, t, n, f) ==
  /\ MayReview(s, t, n)
  /\ Row(t, n).findings[f] = "ABSENT"
  /\ review' = [review EXCEPT ![t][n].findings[f] = "OPEN"]
  /\ UNCHANGED <<lineageVars, taskVars, currentReview>>

(* resolveFinding: the reviewer settles it, the author responds, which      *)
(* opens a settled one again.                                              *)
ResolveFinding(s, t, n, f, settled) ==
  /\ IsOpen(s)
  /\ ActiveOf(t) = {n}
  /\ Row(t, n).findings[f] # "ABSENT"
  /\ AgentOf[s] = IF settled THEN Row(t, n).reviewer ELSE AgentOf[Row(t, n).author]
  /\ review' = [review EXCEPT ![t][n].findings[f] = IF settled THEN "SETTLED" ELSE "OPEN"]
  /\ UNCHANGED <<lineageVars, taskVars, currentReview>>

\* Mutant: an approval looks only at the findings.
ApproveIncomplete(s, t, n) ==
  /\ MayReview(s, t, n)
  /\ Row(t, n).status = "IN_REVIEW"
  /\ NoOpenBlocker(t, n)
  /\ review' = [review EXCEPT ![t][n].status = "APPROVED"]
  /\ task' = [task EXCEPT ![t].status = "DONE"]
  /\ currentTask' = [currentTask EXCEPT ![AuthorHead(t, n)] = None, ![s] = None]
  /\ currentReview' = [currentReview EXCEPT ![AuthorHead(t, n)] = None, ![s] = None]
  /\ UNCHANGED <<lineageVars, presence>>

(* submitReviewVerdict APPROVED: the gate is asked again with the verdict   *)
(* written, so only the todo items can still hold it.  Both parties'        *)
(* current task and review are cleared, whichever they were.               *)
Approve(s, t, n) ==
  /\ MayReview(s, t, n)
  /\ Row(t, n).status = "IN_REVIEW"
  /\ NoOpenBlocker(t, n)
  /\ task[t].incomplete = 0
  /\ review' = [review EXCEPT ![t][n].status = "APPROVED"]
  /\ task' = [task EXCEPT ![t].status = "DONE"]
  /\ currentTask' = [currentTask EXCEPT ![AuthorHead(t, n)] = None, ![s] = None]
  /\ currentReview' = [currentReview EXCEPT ![AuthorHead(t, n)] = None, ![s] = None]
  /\ UNCHANGED <<lineageVars, presence>>

\* Mutant: the verdict is shown to the session that asked for the review.
ChangesToRequester(s, t, n) ==
  /\ MayReview(s, t, n)
  /\ Row(t, n).status = "IN_REVIEW"
  /\ review' = [review EXCEPT ![t][n].status = "CHANGES_REQUESTED"]
  /\ task' = [task EXCEPT ![t].status = "CHANGES_REQUESTED"]
  /\ currentReview' = [currentReview EXCEPT ![Row(t, n).author] = <<t, n>>, ![s] = None]
  /\ UNCHANGED <<lineageVars, currentTask, presence>>

(* submitReviewVerdict CHANGES_REQUESTED. *)
RequestChanges(s, t, n) ==
  /\ MayReview(s, t, n)
  /\ Row(t, n).status = "IN_REVIEW"
  /\ review' = [review EXCEPT ![t][n].status = "CHANGES_REQUESTED"]
  /\ task' = [task EXCEPT ![t].status = "CHANGES_REQUESTED"]
  /\ currentReview' = [currentReview EXCEPT ![AuthorHead(t, n)] = <<t, n>>, ![s] = None]
  /\ UNCHANGED <<lineageVars, currentTask, presence>>

ReviewStep ==
  \/ \E s \in Session, t \in Task, reviewer \in Agent : RequestReview(s, t, reviewer)
  \/ \E s \in Session, t \in Task : \E n \in DOMAIN review[t] :
       \/ BeginReview(s, t, n)
       \/ \E f \in Finding : CreateFinding(s, t, n, f)
       \/ \E f \in Finding, settled \in BOOLEAN : ResolveFinding(s, t, n, f, settled)
       \/ Approve(s, t, n)
       \/ RequestChanges(s, t, n)

(* The review part of registerSession: the projection goes to the successor. *)
TransferReview(l, s) ==
  LET p == lineage[l].head IN
  currentReview' = IF p = None THEN currentReview
                   ELSE [currentReview EXCEPT ![s] = currentReview[p], ![p] = None]

\* The steps of Tasks.WorkerStep, with the review projection.
WorkerStepWithReviews ==
  \/ \E r \in Run, l \in Lineage : ReserveLaunch(r, l) /\ UNCHANGED <<taskVars, currentReview>>
  \/ \E s \in Session, l \in Lineage, r \in Run \cup {None},
        expected \in Session \cup {None, Unspecified} :
       RegisterWorker(s, l, r, expected) /\ TransferReview(l, s)
  \/ \E s \in Session : RegisterGeneric(s) /\ UNCHANGED <<taskVars, currentReview>>
  \/ \E s \in Session : CloseWorker(s) /\ UNCHANGED currentReview

Next ==
  \/ WorkerStepWithReviews /\ UNCHANGED review
  \/ (PresenceStep \/ TaskStep) /\ UNCHANGED reviewVars
  \/ \E t \in Task, status \in TaskStatus :
       UpdateTask(t, status, CompletionGate(t)) /\ UNCHANGED reviewVars
  \/ ReviewStep

Spec == ReviewInit /\ [][Next]_vars

----------------------------------------------------------------------------
(***************************************************************************)
(* Properties                                                              *)
(***************************************************************************)

ReviewTypeOK ==
  /\ BoardTypeOK
  /\ review \in [Task -> Seq(ReviewRow)]
  /\ currentReview \in [Session -> ReviewId \cup {None}]

\* Two frozen revisions of a task are never under review at a time, and the
\* one that is, is the latest: a verdict never falls on outdated work.
OneActiveReview ==
  \A t \in Task : \A n \in ActiveOf(t) : n = Len(review[t])

\* No order of filing, answering, reopening and judging leaves a blocking
\* finding open under an approval.
ApprovedHasNoOpenBlocker ==
  \A t \in Task : \A n \in DOMAIN review[t] :
    Row(t, n).status = "APPROVED" => NoOpenBlocker(t, n)

\* What was judged stays as it was judged: an approved or superseded revision,
\* its findings included, is never written again, and revisions never vanish.
JudgedIsImmutable ==
  [][\A t \in Task : \A n \in DOMAIN review[t] :
       /\ n \in DOMAIN review'[t]
       /\ Row(t, n).status \in {"APPROVED", "SUPERSEDED"} => review'[t][n] = Row(t, n)]_vars

\* A current review is shown only to a party of it, and never to a session that
\* was replaced: the author's successor has the verdict, not the session that
\* asked for the review.
ReviewsAreShownToTheirParties ==
  \A s \in Session : currentReview[s] # None =>
    LET row == Row(currentReview[s][1], currentReview[s][2]) IN
    /\ session[s].supersededBy = None
    /\ \/ AgentOf[s] = row.reviewer
       \/ s = row.author
       \/ session[s].lineage # None /\ session[s].lineage = session[row.author].lineage

\* A review-required task that somebody worked on is DONE only while its latest
\* revision is approved without an open blocker.  (One created as DONE has
\* neither an owner nor a revision.)
DoneIsApproved ==
  \A t \in ReviewRequired \cap Task :
    LET n == Len(review[t]) IN
    task[t].status = "DONE" /\ (task[t].owner # None \/ n > 0) =>
      n > 0 /\ Row(t, n).status = "APPROVED" /\ NoOpenBlocker(t, n)

\* No path but creation leads to DONE past an unfinished todo item, whoever
\* adds or reopens items between the request, the verdict and the update.
DoneHasNoTodosLeft ==
  [][\A t \in Task :
       Created(t) /\ task[t].status # "DONE" /\ task'[t].status = "DONE" =>
         task'[t].incomplete = 0]_vars
=============================================================================
