------------------------- MODULE AtMostOnceSurface -------------------------
(***************************************************************************)
(* What the Hub promises about showing a message to a model: one attempt   *)
(* at a time, a new attempt only after the last one was withdrawn as       *)
(* proven unused, and an attempt in doubt stays in doubt until it turns    *)
(* out to have surfaced.  Who attempts, and which process speaks for whom  *)
(* at the time, does not matter here; see MessageSurfaces for that.        *)
(***************************************************************************)
EXTENDS Naturals

CONSTANT Message

VARIABLES
  phase,  \* of each message: idle, attempting, doubtful or surfaced
  tries   \* attempts made so far

abstractVars == <<phase, tries>>

AbstractInit ==
  /\ phase = [m \in Message |-> "idle"]
  /\ tries = [m \in Message |-> 0]

Attempt(m) ==
  /\ phase[m] = "idle"
  /\ phase' = [phase EXCEPT ![m] = "attempting"]
  /\ tries' = [tries EXCEPT ![m] = @ + 1]

Withdraw(m) ==
  /\ phase[m] = "attempting"
  /\ phase' = [phase EXCEPT ![m] = "idle"]
  /\ UNCHANGED tries

\* The attempts of several messages can fall in doubt at once.
Doubt(ms) ==
  /\ \A m \in ms : phase[m] = "attempting"
  /\ phase' = [m \in Message |-> IF m \in ms THEN "doubtful" ELSE phase[m]]
  /\ UNCHANGED tries

Surface(m) ==
  /\ phase[m] \in {"attempting", "doubtful"}
  /\ phase' = [phase EXCEPT ![m] = "surfaced"]
  /\ UNCHANGED tries

AbstractNext ==
  \/ \E m \in Message : Attempt(m) \/ Withdraw(m) \/ Surface(m)
  \/ \E ms \in SUBSET Message : Doubt(ms)

AbstractSpec == AbstractInit /\ [][AbstractNext]_abstractVars
=============================================================================
