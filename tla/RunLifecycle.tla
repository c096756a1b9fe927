----------------------------- MODULE RunLifecycle -----------------------------
(***************************************************************************)
(* What the hub promises of its mutation runs.  One run is open at a time. *)
(* The project is changed only for an authorized run; a run is closed as   *)
(* failed without its validation only while it has changed nothing; what   *)
(* has changed something is closed by its validation or by the operator.   *)
(***************************************************************************)
EXTENDS RunRecord

CONSTANT Run

VARIABLES
  state,   \* the state of each run
  touched  \* the runs that have changed the project

vars == <<state, touched>>

Init == state = [r \in Run |-> "none"] /\ touched = {}

Become(r, s) == state' = [state EXCEPT ![r] = s] /\ UNCHANGED touched

Start(r) ==
  /\ state[r] = "none"
  /\ \A q \in Run : state[q] \notin OpenState
  /\ Become(r, "started")

FinishNoop(r) == state[r] = "started" /\ Become(r, "finalized")

Authorize(r) == state[r] = "started" /\ Become(r, "authorized")

Touch(r) ==
  /\ state[r] = "authorized"
  /\ touched' = touched \cup {r}
  /\ UNCHANGED state

Commit(r) ==
  /\ state[r] = "authorized" /\ r \in touched
  /\ Become(r, "needs_validation")

Validated(r) ==
  /\ state[r] = "needs_validation"
  /\ Become(r, "finalized") \/ Become(r, "failed")

GiveUp(r) ==
  /\ state[r] \in {"started", "authorized"} /\ r \notin touched
  /\ Become(r, "failed")

Interrupt(r) ==
  /\ state[r] \in {"authorized", "needs_validation"}
  /\ Become(r, "interrupted")

Next == \E r \in Run :
          \/ Start(r) \/ FinishNoop(r) \/ Authorize(r) \/ Touch(r)
          \/ Commit(r) \/ Validated(r) \/ GiveUp(r) \/ Interrupt(r)

Spec == Init /\ [][Next]_vars

=============================================================================
