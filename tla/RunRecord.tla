------------------------------- MODULE RunRecord -------------------------------
(***************************************************************************)
(* The run record of the hub (godotforge_core/hub/run_record.py): the      *)
(* kinds of events of a run, when a sequence of them folds, and the state  *)
(* it folds to.                                                            *)
(***************************************************************************)
EXTENDS Integers, Sequences

(* _EVENT_ORDER: the position of a kind in the life of a run.  A failure   *)
(* and an interruption have none: they may come after anything.            *)
Order == [run_started |-> 1, authorization_recorded |-> 2, apply_committed |-> 3,
          validation_completed |-> 4, run_finalized |-> 5]

Lifecycle == DOMAIN Order

Terminal == {"run_finalized", "run_failed", "run_interrupted"}

RunEventKind == Lifecycle \cup Terminal

RunState == {"none", "started", "authorized", "needs_validation",
             "finalized", "failed", "interrupted"}

OpenState == {"started", "authorized", "needs_validation"}

Has(events, kind) == \E i \in DOMAIN events : events[i] = kind

-----------------------------------------------------------------------------
(* Each kind once, in the order of the life of a run, one terminal event.  *)
EventsOrdered(events) ==
  \A i, j \in DOMAIN events : i < j =>
     /\ events[i] # events[j]
     /\ {events[i], events[j]} \subseteq Lifecycle => Order[events[i]] < Order[events[j]]
     /\ ~ {events[i], events[j]} \subseteq Terminal

(* fold_run raises no error.  noop: the run recorded no plan.              *)
Folds(events, noop) ==
  /\ EventsOrdered(events)
  /\ Has(events, "run_started")
  /\ noop => ~\E k \in {"authorization_recorded", "apply_committed", "validation_completed"} :
                 Has(events, k)
  /\ Has(events, "run_finalized") => noop \/ Has(events, "validation_completed")

(* RunRecord.state: the first of these that has been recorded.             *)
FoldedState(events) ==
  IF events = <<>>                              THEN "none"
  ELSE IF Has(events, "run_failed")             THEN "failed"
  ELSE IF Has(events, "run_interrupted")        THEN "interrupted"
  ELSE IF Has(events, "run_finalized")          THEN "finalized"
  ELSE IF Has(events, "apply_committed") \/ Has(events, "validation_completed")
                                                THEN "needs_validation"
  ELSE IF Has(events, "authorization_recorded") THEN "authorized"
  ELSE "started"

=============================================================================
