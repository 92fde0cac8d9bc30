----------------------- MODULE DurableFileLockClaims -----------------------
(***************************************************************************)
(* What a comment beside the file lock says of it, checked as it is.       *)
(***************************************************************************)
EXTENDS MCDurableFileLock

\* Two live processes never run their actions under the lock together.
\* surface-journal.ts:363: "Contenders cannot replace it, and acquisition
\* remains blocked until the captured generation is checked and released."
OneCallerAtATime == MutualExclusion
=============================================================================
