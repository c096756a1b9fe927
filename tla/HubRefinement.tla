----------------------------- MODULE HubRefinement -----------------------------
(***************************************************************************)
(* HubRun implements RunLifecycle when one process at a time works on the  *)
(* project: dying calls, resumed runs and somebody else's edits included.  *)
(***************************************************************************)
EXTENDS HubRun

Lifecycles == INSTANCE RunLifecycle
  WITH state <- [r \in Run |-> State(r)], touched <- {r \in Run : made[r] # {}}

(* Every behaviour of the hub is one of the abstract life of its runs.     *)
ImplementsRunLifecycle == Lifecycles!Spec
=============================================================================
