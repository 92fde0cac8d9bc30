---------------------------- MODULE TaskClaims ----------------------------
(* What the repository says of tasks and reviews, where the code differs.   *)
EXTENDS MCReviews

\* README.md: "A review-required task cannot reach DONE while a blocking
\* finding is open."  A request for another revision leaves the findings of the
\* one before as they are, and nothing may resolve them from then on.
NoFindingIsOpenAtDone ==
  \A t \in ReviewRequired \cap Task : task[t].status = "DONE" =>
    \A n \in DOMAIN review[t] : NoOpenBlocker(t, n)
=============================================================================
