---------------------------- MODULE ReversiblePatch ----------------------------
(***************************************************************************)
(* What the patch engine promises of the project tree for as long as       *)
(* nobody else writes it: the tree is always the approved tree with some operations of *)
(* the plan performed, entirely or not at all.  Operations are performed   *)
(* in plan order; all of them before the transaction is committed.  A      *)
(* transaction that stops is only ever undone operation by operation, and  *)
(* is rolled back when at most the last operation, the one in doubt, is    *)
(* still in effect.                                                        *)
(***************************************************************************)
EXTENDS PatchPlans

CONSTANTS Plans, Trees

VARIABLES
  tree,    \* the project files
  base,    \* the files before the transaction
  plan,    \* the operations
  outcome  \* what is known of the transaction

vars == <<tree, base, plan, outcome>>

Ops == DOMAIN plan

Outcome == {"open", "stopped", "committed", "rolled_back", "void"}

Init ==
  /\ tree \in Trees /\ base = tree
  /\ plan \in Plans
  /\ outcome = "open"

Performed(i)    == \A p \in Touched(plan[i]) : tree[p] = Effect(plan[i], base)[p]
NotPerformed(i) == \A p \in Touched(plan[i]) : tree[p] = base[p]

(* The next operation of the plan.                                         *)
Perform(i) ==
  /\ outcome = "open"
  /\ \A j \in Ops : IF j < i THEN Performed(j) ELSE NotPerformed(j)
  /\ tree' = Effect(plan[i], tree)
  /\ UNCHANGED <<base, plan, outcome>>

Commit ==
  /\ outcome = "open"
  /\ \A i \in Ops : Performed(i)
  /\ outcome' = "committed"
  /\ UNCHANGED <<tree, base, plan>>

Stop ==
  /\ outcome = "open"
  /\ outcome' = "stopped"
  /\ UNCHANGED <<tree, base, plan>>

Undo(i) ==
  /\ outcome = "stopped"
  /\ Performed(i)
  /\ tree' = [p \in Path |-> IF p \in Touched(plan[i]) THEN base[p] ELSE tree[p]]
  /\ UNCHANGED <<base, plan, outcome>>

FinishRollback ==
  /\ outcome = "stopped"
  /\ \A i, j \in Ops : NotPerformed(i) \/ NotPerformed(j) \/ i = j
  /\ outcome' = "rolled_back"
  /\ UNCHANGED <<tree, base, plan>>

(* Somebody else writes the project or the backup: from here on this       *)
(* specification promises nothing.                                         *)
Interfere == outcome' = "void" /\ UNCHANGED plan

Next == \/ \E i \in Ops : Perform(i) \/ Undo(i)
        \/ Commit \/ Stop \/ FinishRollback \/ Interfere

Spec == Init /\ [][Next]_vars

=============================================================================
