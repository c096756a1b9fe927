------------------------ MODULE PatchTransactionProofs ------------------------
(***************************************************************************)
(* Proofs about PatchTransaction, for every project, every set of plans    *)
(* and every bound: type correctness, the journal is ahead of the tree and *)
(* tells the truth about it, and rollback only restores; then what the     *)
(* engine promises, the refinement of ReversiblePatch included.            *)
(***************************************************************************)
EXTENDS PatchRefinement, TLAPS

(* The operations of a plan are numbered from 1 and well formed.           *)
LEMMA PlanOps ==
  ASSUME NEW pl \in Plans
  PROVE  /\ Len(pl) \in Nat
         /\ DOMAIN pl = 1..Len(pl)
         /\ \A i \in DOMAIN pl : pl[i] \in PatchOperation
BY PlanAssumption

(* Performing an operation gives a tree, and changes only the operation's  *)
(* own paths.                                                              *)
LEMMA EffectTouches ==
  ASSUME NEW op \in PatchOperation, NEW t \in Tree,
         WritesContent(op) => op.content # NoHash
  PROVE  /\ Effect(op, t) \in Tree
         /\ \A p \in Path \ Touched(op) : Effect(op, t)[p] = t[p]
<1>1. op.path \in Path /\ op.content \in Hash
  BY DEF PatchOperation
<1>2. Directory \in Node /\ Absent \in Node /\ (WritesContent(op) => op.content \in Node)
  BY <1>1 DEF Node, Hash
<1> QED
  BY <1>1, <1>2 DEF Effect, Tree, Touched

(* The same for the inverse of an operation, with the backup in place.     *)
LEMMA UndoTouches ==
  ASSUME TypeOK, NEW i \in Ops, backup # <<>>
  PROVE  /\ UndoEffect(i) \in Tree
         /\ \A p \in Path \ Touched(plan[i]) : UndoEffect(i)[p] = tree[p]
<1>1. plan[i].path \in Path /\ plan[i].to \in Path
  BY PlanOps DEF TypeOK, Ops, PatchOperation
<1>2. backup[i] \in Node /\ tree \in [Path -> Node] /\ Absent \in Node
  BY DEF TypeOK, Tree, Node
<1> QED
  BY <1>1, <1>2 DEF UndoEffect, Tree, Touched

(* A new journal has a pending entry for every operation.                  *)
LEMMA NewJournalType ==
  ASSUME TypeOK
  PROVE  /\ NewJournal \in [Ops -> [state: JournalState, post: Hash]]
         /\ NewJournal # <<>>
         /\ \A i \in Ops : NewJournal[i].state = "pending"
<1>1. \A i \in Ops : plan[i].expected \in Hash /\ plan[i].desired \in Hash
  BY PlanOps DEF TypeOK, Ops, PatchOperation
<1>2. NoHash \in Hash /\ "pending" \in JournalState
  BY DEF Hash, JournalState
<1>3. 1 \in Ops
  BY PlanOps, PlanAssumption DEF TypeOK, Ops
<1>4. DOMAIN NewJournal = Ops
  BY DEF NewJournal
<1> QED
  BY <1>1, <1>2, <1>3, <1>4 DEF NewJournal

(* A step that uses up one more of a bound stays within it.                *)
LEMMA Bounded ==
  ASSUME used \in Used
  PROVE  /\ used.edits < MaxEdits => [used EXCEPT !.edits = @ + 1] \in Used
         /\ used.crashes < MaxCrashes => [used EXCEPT !.crashes = @ + 1] \in Used
         /\ used.faults < MaxFaults => [used EXCEPT !.faults = @ + 1] \in Used
         /\ used.rollbacks < MaxRollbacks => [used EXCEPT !.rollbacks = @ + 1] \in Used
<1>1. /\ used.edits \in 0..MaxEdits /\ used.crashes \in 0..MaxCrashes
      /\ used.faults \in 0..MaxFaults /\ used.rollbacks \in 0..MaxRollbacks
  BY DEF Used
<1>2. used.edits < MaxEdits => used.edits + 1 \in 0..MaxEdits
  BY <1>1, BoundAssumption
<1>3. used.crashes < MaxCrashes => used.crashes + 1 \in 0..MaxCrashes
  BY <1>1, BoundAssumption
<1>4. used.faults < MaxFaults => used.faults + 1 \in 0..MaxFaults
  BY <1>1, BoundAssumption
<1>5. used.rollbacks < MaxRollbacks => used.rollbacks + 1 \in 0..MaxRollbacks
  BY <1>1, BoundAssumption
<1> QED
  BY <1>1, <1>2, <1>3, <1>4, <1>5 DEF Used

-----------------------------------------------------------------------------
(* The inductive invariant behind the type invariant.                      *)
Inv == TypeOK /\ PhaseOK

(* The invariant holds before the transaction.                             *)
LEMMA InitInv == Init => Inv
<1> SUFFICES ASSUME Init PROVE Inv
  OBVIOUS
<1>1. Len(plan) \in Nat
  BY PlanOps DEF Init
<1>2. TypeOK
  BY <1>1, PlanAssumption, BoundAssumption
     DEF Init, TypeOK, Used, Tree, Node, Hash, Phase, Status, Reason, NoConflicts, NoFiles
<1>3. PhaseOK
  BY DEF Init, PhaseOK
<1> QED
  BY <1>2, <1>3 DEF Inv

(* The facts every step below starts from.                                 *)
LEMMA CursorFacts ==
  ASSUME Inv
  PROVE  /\ Len(plan) \in Nat /\ Ops = 1..Len(plan) /\ pos \in Int
         /\ \A i \in Ops : plan[i] \in PatchOperation
         /\ \A i \in Ops : plan[i].path \in Path /\ plan[i].to \in Path
BY PlanOps DEF Inv, TypeOK, Ops, PatchOperation

(* Completing an entry leaves a journal, and the other entries.            *)
LEMMA CompletedJournalType ==
  ASSUME Inv, phase = "effected"
  PROVE  /\ CompletedJournal \in [Ops -> [state: JournalState, post: Hash]]
         /\ CompletedJournal # <<>>
         /\ CompletedJournal[pos].state = "completed"
         /\ \A i \in Ops \ {pos} : CompletedJournal[i] = journal[i]
<1>1. journal \in [Ops -> [state: JournalState, post: Hash]] /\ pos \in Ops
  BY DEF Inv, TypeOK, PhaseOK
<1>2. FileHash(tree, Op.path) \in Hash /\ journal[pos].post \in Hash
  BY <1>1 DEF FileHash, Hash
<1>3. "completed" \in JournalState
  BY DEF JournalState
<1> DEFINE done == [state |-> "completed",
                    post  |-> IF WritesContent(Op) THEN FileHash(tree, Op.path)
                                                   ELSE journal[pos].post]
<1>4. done \in [state: JournalState, post: Hash] /\ done.state = "completed"
  BY <1>2, <1>3
<1>5. CompletedJournal = [journal EXCEPT ![pos] = done]
  BY DEF CompletedJournal
<1> HIDE DEF done
<1> QED
  BY <1>1, <1>4, <1>5

(* The check of the plan and the steps of create_backup keep it            *)
(* (backup.py).                                                            *)
LEMMA BackupInv == ASSUME Inv, CheckPlan \/ Backup PROVE Inv'
<1> USE CursorFacts DEF Inv, disk, safety, outcome, history, Ops, Op, Return
<1>1. CASE CheckPlan
  <2>1. [p \in Path |-> FileHash(tree, p)] \in [Path -> Hash]
    BY DEF FileHash, Hash
  <2>2. TypeOK'
    BY <1>1, <2>1 DEF CheckPlan, TypeOK, Phase, Status
  <2>3. PhaseOK'
    BY <1>1 DEF CheckPlan, PhaseOK
  <2> QED
    BY <2>2, <2>3
<1>2. CASE BeginBackup
  BY <1>2 DEF BeginBackup, TypeOK, PhaseOK, Phase, NoFiles, Node
<1>3. CASE CopySource
  <2>1. staging' \in [Ops -> Node]
    BY <1>3 DEF CopySource, TypeOK, NoFiles, Node, Tree
  <2>2. TypeOK'
    BY <1>3, <2>1 DEF CopySource, TypeOK, Phase, Status
  <2>3. PhaseOK'
    BY <1>3 DEF CopySource, PhaseOK, TypeOK
  <2> QED
    BY <2>2, <2>3
<1>4. CASE PromoteBackup
  BY <1>4 DEF PromoteBackup, TypeOK, PhaseOK, Phase, NoFiles, Node
<1> QED
  BY <1>1, <1>2, <1>3, <1>4 DEF Backup

(* So do the steps of apply_plan (apply.py).                               *)
LEMMA ApplyInv == ASSUME Inv, Apply PROVE Inv'
<1> USE CursorFacts DEF Inv, disk, safety, outcome, history, Ops, Op, Return
<1>1. CASE ValidateApply
  BY <1>1 DEF ValidateApply, TypeOK, PhaseOK, Phase, Status
<1>2. CASE WriteJournal
  BY <1>2, NewJournalType DEF WriteJournal, TypeOK, PhaseOK, Phase, Status
<1>3. CASE StartOperation
  <2>1. journal \in [Ops -> [state: JournalState, post: Hash]] /\ pos \in Ops
    BY <1>3 DEF StartOperation, TypeOK, PhaseOK
  <2>2. journal' \in [Ops -> [state: JournalState, post: Hash]] /\ journal' # <<>>
    BY <1>3, <2>1 DEF StartOperation, SetEntry, JournalState
  <2>3. journal'[pos].state = "started"
    BY <1>3, <2>1 DEF StartOperation, SetEntry
  <2> QED
    BY <1>3, <2>1, <2>2, <2>3 DEF StartOperation, TypeOK, PhaseOK, Phase
<1>4. CASE VerifyTarget
  <2>1. strays' \subseteq Path
    BY <1>4 DEF VerifyTarget, TypeOK, PhaseOK
  <2> QED
    BY <1>4, <2>1 DEF VerifyTarget, TypeOK, PhaseOK, Phase, Status
<1>5. CASE PerformEffect
  <2>1. pos \in Ops /\ ContentOk(plan) /\ tree \in Tree
    BY <1>5 DEF PerformEffect, TypeOK, PhaseOK
  <2>2. Effect(Op, tree) \in Tree
    BY <2>1, EffectTouches DEF ContentOk
  <2> QED
    BY <1>5, <2>1, <2>2 DEF PerformEffect, TypeOK, PhaseOK, Phase, Status
<1>6. CASE CompleteOperation
  <2>1. journal' \in {journal, CompletedJournal} /\ phase = "effected"
    BY <1>6 DEF CompleteOperation
  <2>2. journal' \in [Ops -> [state: JournalState, post: Hash]] /\ journal' # <<>>
    BY <2>1, CompletedJournalType DEF TypeOK, PhaseOK
  <2>3. pos \in Ops
    BY <2>1 DEF PhaseOK
  <2>4. TypeOK'
    BY <1>6, <2>2, <2>3 DEF CompleteOperation, TypeOK, Phase, Status
  <2>5. PhaseOK'
    BY <1>6, <2>2, <2>3 DEF CompleteOperation, PhaseOK
  <2> QED
    BY <2>4, <2>5
<1>7. CASE Commit
  BY <1>7 DEF Commit, TypeOK, PhaseOK, Phase, Status
<1> QED
  BY <1>1, <1>2, <1>3, <1>4, <1>5, <1>6, <1>7 DEF Apply

(* So do the steps of rollback_transaction (rollback.py 360-462).          *)
LEMMA RollbackInv == ASSUME Inv, StartRollback \/ Rollback PROVE Inv'
<1> USE CursorFacts DEF Inv, disk, safety, outcome, history, Ops, Op, Return
<1>1. CASE StartRollback
  <2>1. used' \in Used
    BY <1>1, Bounded DEF StartRollback, TypeOK
  <2> QED
    BY <1>1, <2>1 DEF StartRollback, TypeOK, PhaseOK, Phase, NoConflicts, Reason
<1>2. CASE SkipEntry
  BY <1>2 DEF SkipEntry, TypeOK, PhaseOK
<1>3. CASE VerifyUndo
  <2>1. strays' \subseteq Path /\ conflicts' \in [Ops -> Reason]
    BY <1>3 DEF VerifyUndo, TypeOK, Reason
  <2> QED
    BY <1>3, <2>1 DEF VerifyUndo, AfterConflict, TypeOK, PhaseOK, Phase
<1>4. CASE PerformUndo
  <2>1. UndoEffect(pos) \in Tree
    BY <1>4, UndoTouches DEF PerformUndo, PhaseOK
  <2>2. strays' \subseteq Path /\ conflicts' \in [Ops -> Reason]
    BY <1>4 DEF PerformUndo, TypeOK, Reason
  <2> QED
    BY <1>4, <2>1, <2>2 DEF PerformUndo, TypeOK, PhaseOK, Phase
<1>5. CASE FinishRollback
  BY <1>5 DEF FinishRollback, TypeOK, PhaseOK, Phase, Status
<1> QED
  BY <1>1, <1>2, <1>3, <1>4, <1>5 DEF Rollback

(* So do errors, crashes and the editor.                                   *)
LEMMA EnvironmentInv == ASSUME Inv, IoError \/ Crash \/ Editor PROVE Inv'
<1> USE CursorFacts DEF Inv, disk, safety, outcome, history, Ops, Op, Return
<1>1. CASE IoError
  <2>1. used' \in Used
    BY <1>1, Bounded DEF IoError, TypeOK
  <2>2. strays' \subseteq Path /\ conflicts' \in [Ops -> Reason]
    BY <1>1 DEF IoError, TypeOK, Reason
  <2>3. staging' \in [Ops -> Node]
    BY <1>1 DEF IoError, TypeOK, NoFiles, Node
  <2>4. pos' \in 0..Len(plan) + 1 /\ applied' \in Nat /\ phase' \in Phase /\ status' \in Status
    BY <1>1 DEF IoError, TypeOK, PhaseOK, Phase, Status
  <2>5. journal' \in [Ops -> [state: JournalState, post: Hash]] \cup {<<>>}
    BY <1>1, CompletedJournalType, NewJournalType DEF IoError, TypeOK
  <2>6. TypeOK'
    BY <1>1, <2>1, <2>2, <2>3, <2>4, <2>5 DEF IoError, TypeOK
  <2>7. PhaseOK'
    BY <1>1 DEF IoError, TypeOK, PhaseOK
  <2> QED
    BY <2>6, <2>7
<1>2. CASE Crash
  <2>1. used' \in Used
    BY <1>2, Bounded DEF Crash, TypeOK
  <2> QED
    BY <1>2, <2>1 DEF Crash, TypeOK, PhaseOK, Phase, Status
<1>3. ASSUME NEW p \in Path, NEW n \in Content \cup {Absent},
             used' = [used EXCEPT !.edits = @ + 1], CanEdit,
             tree' = [tree EXCEPT ![p] = n], edited' = edited \cup {p},
             UNCHANGED <<strays, plan, phase, pos, safety, journal, outcome, base>>
      PROVE  Inv'
  <2>1. used' \in Used
    BY <1>3, Bounded DEF CanEdit, TypeOK
  <2>2. tree' \in Tree
    BY <1>3 DEF TypeOK, Tree, Node
  <2> QED
    BY <1>3, <2>1, <2>2 DEF TypeOK, PhaseOK
<1>4. ASSUME NEW i \in DOMAIN backup, LoseBackup(i)
      PROVE  Inv'
  <2>1. used' \in Used
    BY <1>4, Bounded DEF LoseBackup, TypeOK
  <2>2. backup' \in [Ops -> Node]
    BY <1>4 DEF LoseBackup, TypeOK, Node
  <2> QED
    BY <1>4, <2>1, <2>2 DEF LoseBackup, TypeOK, PhaseOK
<1> QED
  BY <1>1, <1>2, <1>3, <1>4 DEF Editor, EditorSave, EditorDelete

(***************************************************************************)
(* Every reachable state is well typed, and each phase of the transaction  *)
(* finds what it relies on: the operation under the cursor, its content,   *)
(* its journal entry and the backup.                                       *)
(***************************************************************************)
THEOREM TypeCorrect == Spec => [](TypeOK /\ PhaseOK)
<1>1. Inv /\ [Next]_vars => Inv'
  <2> SUFFICES ASSUME Inv, [Next]_vars PROVE Inv'
    OBVIOUS
  <2>1. CASE UNCHANGED vars
    BY <2>1 DEF vars, Inv, TypeOK, PhaseOK, Ops
  <2> QED
    BY <2>1, BackupInv, ApplyInv, RollbackInv, EnvironmentInv DEF Next, Engine
<1> QED
  BY InitInv, <1>1, PTL DEF Spec, Inv

-----------------------------------------------------------------------------
(* Every other step than those below leaves the tree, what it is compared  *)
(* with and the journal alone.                                             *)
LEMMA WriteAheadFrame ==
  ASSUME WriteAhead, UNCHANGED <<tree, plan, journal, base, edited>>
  PROVE  WriteAhead'
BY DEF WriteAhead, Journalled, Ops

(* A step changes the tree only at paths of a journalled operation.        *)
LEMMA WriteAheadTree ==
  ASSUME WriteAhead, NEW i \in Ops,
         Journalled(i, "started") \/ Journalled(i, "completed"),
         \A p \in Path \ Touched(plan[i]) : tree'[p] = tree[p],
         UNCHANGED <<plan, journal, base, edited>>
  PROVE  WriteAhead'
BY DEF WriteAhead, Journalled, Ops

(* A step only adds entries to those that are STARTED or COMPLETED.        *)
LEMMA WriteAheadJournal ==
  ASSUME WriteAhead, UNCHANGED <<tree, plan, base, edited>>,
         \A i \in Ops : Journalled(i, "started") \/ Journalled(i, "completed")
                          => Journalled(i, "started")' \/ Journalled(i, "completed")'
  PROVE  WriteAhead'
BY DEF WriteAhead, Ops

(* Every step keeps the journal ahead of the tree (apply.py 291-348).      *)
LEMMA WriteAheadStep == ASSUME Inv, WriteAhead, Next PROVE WriteAhead'
<1> USE CursorFacts DEF disk, safety, outcome, history
<1>1. CASE CheckPlan
  BY <1>1 DEF CheckPlan, WriteAhead
<1>2. CASE Backup
  BY <1>2, WriteAheadFrame DEF Backup, BeginBackup, CopySource, PromoteBackup
<1>3. CASE ValidateApply \/ VerifyTarget \/ Commit
  BY <1>3, WriteAheadFrame DEF ValidateApply, VerifyTarget, Commit
<1>4. CASE WriteJournal
  <2>1. journal = <<>>
    BY <1>4 DEF WriteJournal, Inv, PhaseOK
  <2> QED
    BY <1>4, <2>1, WriteAheadJournal DEF WriteJournal, Journalled
<1>5. CASE StartOperation
  <2>1. journal \in [Ops -> [state: JournalState, post: Hash]] /\ journal # <<>>
    BY <1>5 DEF StartOperation, Inv, TypeOK, PhaseOK
  <2>2. journal' # <<>> /\ journal'[pos].state = "started"
        /\ \A i \in Ops \ {pos} : journal'[i] = journal[i]
    BY <1>5, <2>1 DEF StartOperation, SetEntry
  <2> QED
    BY <1>5, <2>2, WriteAheadJournal DEF StartOperation, Journalled
<1>6. CASE PerformEffect
  <2>1. pos \in Ops /\ ContentOk(plan) /\ tree \in Tree /\ Journalled(pos, "started")
    BY <1>6 DEF PerformEffect, Inv, TypeOK, PhaseOK, Journalled
  <2>2. \A p \in Path \ Touched(Op) : Effect(Op, tree)[p] = tree[p]
    BY <2>1, EffectTouches DEF ContentOk, Op, Ops
  <2> QED
    BY <1>6, <2>1, <2>2, WriteAheadTree DEF PerformEffect, Op
<1>7. CASE CompleteOperation
  <2>1. journal' \in {journal, CompletedJournal} /\ phase = "effected"
    BY <1>7 DEF CompleteOperation
  <2>2. \/ UNCHANGED journal
        \/ /\ journal' # <<>> /\ journal'[pos].state = "completed"
           /\ \A i \in Ops \ {pos} : journal'[i] = journal[i]
    BY <2>1, CompletedJournalType
  <2> QED
    BY <1>7, <2>2, WriteAheadJournal DEF CompleteOperation, Journalled
<1>8. CASE StartRollback \/ SkipEntry \/ VerifyUndo \/ FinishRollback
  BY <1>8, WriteAheadFrame DEF StartRollback, SkipEntry, VerifyUndo, FinishRollback
<1>9. CASE PerformUndo
  <2>1. pos \in Ops /\ Journalled(pos, "completed") /\ TypeOK /\ backup # <<>>
    BY <1>9 DEF PerformUndo, Inv, PhaseOK, Journalled
  <2>2. \A p \in Path \ Touched(plan[pos]) : UndoEffect(pos)[p] = tree[p]
    BY <2>1, UndoTouches
  <2> QED
    BY <1>9, <2>1, <2>2, WriteAheadTree DEF PerformUndo
<1>10. CASE Crash
  BY <1>10, WriteAheadFrame DEF Crash
<1>11. CASE IoError
  <2>1. CASE UNCHANGED journal
    BY <1>11, <2>1, WriteAheadFrame DEF IoError
  <2>2. CASE phase = "journaling"
    <3>1. journal = <<>> /\ UNCHANGED <<tree, plan, base, edited>>
      BY <1>11, <2>2 DEF IoError, Inv, PhaseOK
    <3> QED
      BY <3>1, WriteAheadJournal DEF Journalled
  <2>3. CASE phase = "effected" /\ journal' = CompletedJournal
    <3>1. /\ journal' # <<>> /\ journal'[pos].state = "completed"
          /\ \A i \in Ops \ {pos} : journal'[i] = journal[i]
      BY <2>3, CompletedJournalType
    <3>2. UNCHANGED <<tree, plan, base, edited>>
      BY <1>11 DEF IoError
    <3> QED
      BY <3>1, <3>2, WriteAheadJournal DEF Journalled
  <2> QED
    BY <1>11, <2>1, <2>2, <2>3 DEF IoError
<1>12. CASE Editor
  <2>1. ASSUME NEW p \in Path, NEW n, tree' = [tree EXCEPT ![p] = n],
               edited' = edited \cup {p}, UNCHANGED <<plan, journal, base>>
        PROVE  WriteAhead'
    <3>1. \A q \in Path \ {p} : tree'[q] = tree[q]
      BY <2>1 DEF Inv, TypeOK, Tree
    <3> QED
      BY <2>1, <3>1 DEF WriteAhead, Journalled, Ops
  <2>2. ASSUME NEW i \in DOMAIN backup, LoseBackup(i) PROVE WriteAhead'
    BY <2>2, WriteAheadFrame DEF LoseBackup
  <2> QED
    BY <1>12, <2>1, <2>2 DEF Editor, EditorSave, EditorDelete
<1> QED
  BY <1>1, <1>2, <1>3, <1>4, <1>5, <1>6, <1>7, <1>8, <1>9, <1>10, <1>11, <1>12
     DEF Next, Engine, Apply, Rollback

(***************************************************************************)
(* The apply journal is a write-ahead log: whatever the engine has changed *)
(* belongs to an operation whose entry is STARTED or COMPLETED on the      *)
(* disk, at every point at which the process may die.                      *)
(***************************************************************************)
THEOREM WriteAheadHolds == Spec => []WriteAhead
<1>1. Init => WriteAhead
  BY DEF Init, WriteAhead
<1>2. Inv /\ WriteAhead /\ [Next]_vars => WriteAhead'
  <2>1. ASSUME WriteAhead, UNCHANGED vars PROVE WriteAhead'
    BY <2>1, WriteAheadFrame DEF vars
  <2> QED
    BY <2>1, WriteAheadStep
<1>3. Spec => []Inv
  BY TypeCorrect, PTL DEF Inv
<1> QED
  BY <1>1, <1>2, <1>3, PTL DEF Spec

-----------------------------------------------------------------------------
(***************************************************************************)
(* The journal tells the truth, and rollback only restores.  These proofs  *)
(* build on the inductive invariant Inv and on WriteAhead.                 *)
(***************************************************************************)

(* A file that is moved back must not change between the check of its hash *)
(* and the rename: the rollback has no second look at it.                  *)
QuietUndo == "rb_verified" \notin EditorWindows

(* The plan of a journal has been validated.                               *)
Validated == journal # <<>> \/ phase = "journaling" => NoOverlap(plan)

(* How far the entries have come is where the cursor is.                   *)
EntriesFollowCursor ==
  \A i \in Ops :
     /\ phase = "applying" =>
          IF i < pos THEN journal[i].state = "completed" ELSE journal[i].state = "pending"
     /\ phase \in {"started", "verified", "effected"} =>
          /\ i < pos => journal[i].state = "completed"
          /\ i > pos => journal[i].state = "pending"

(* A final answer is the end of the last call; a rollback starts at the    *)
(* last entry.                                                             *)
AnswersAreFinal ==
  /\ status \in {"committed", "rolled_back"} => phase = "done"
  /\ status = "committed" => \A i \in Ops : Journalled(i, "completed")
  /\ phase \in {"rolling_back", "rb_verified"} => used.rollbacks # 0 /\ pos <= Len(plan)

(* The operation under the cursor has done nothing, or all it does.        *)
CursorIsClean ==
  /\ phase \in {"started", "verified"} =>
       \A p \in Touched(Op) \ edited : tree[p] = base[p]
  /\ phase = "effected" /\ Undisturbed(pos) => InEffect(pos)

(* The approved tree is one the plan can be applied to.                    *)
Approved ==
  journal # <<>> \/ phase \in {"checked", "copying", "backed_up", "journaling"} => PlanOk(plan, base)

(* What has been copied is what was approved.                              *)
CopiesAreApproved ==
  /\ phase \in {"checked", "copying"} => \A p \in Path : snapshot[p] = FileHash(base, p)
  /\ phase = "copying" =>
       \A i \in Ops : i < pos /\ HasBackup(plan[i]) => staging[i] = base[plan[i].path]
  /\ phase \in {"planned", "checked", "copying"} => backup = <<>> /\ manifest = <<>>
  /\ backup # <<>> => manifest # <<>>
  /\ manifest # <<>> => \A i \in Ops : HasBackup(plan[i]) => manifest[i] = base[plan[i].path]

(* The post hash of a rename is its expected hash.                         *)
RenamePosts ==
  journal # <<>> => \A i \in Ops : plan[i].kind = "rename" => journal[i].post = plan[i].expected

(* What a rollback has checked is still so when it acts.                   *)
UndoIsReady == QuietUndo /\ phase = "rb_verified" => Undoable(pos)

Restored(i) == \A p \in Touched(plan[i]) \ edited : tree[p] = base[p]

(* As long as nothing is in conflict, all behind the cursor is restored.   *)
RestoredBehindCursor ==
  QuietUndo /\ phase \in {"rolling_back", "rb_verified"} /\ (\A i \in Ops : conflicts[i] = "none") =>
    \A i \in Ops : i > pos /\ Journalled(i, "completed") => Restored(i)

RolledBackTruly == QuietUndo => RolledBackRestores

Base == Inv /\ WriteAhead

Extra ==
  /\ Validated /\ EntriesFollowCursor /\ AnswersAreFinal /\ CursorIsClean
  /\ Approved /\ CopiesAreApproved /\ RenamePosts
  /\ JournalTruthful /\ UndoIsReady /\ RestoredBehindCursor /\ RolledBackTruly

-----------------------------------------------------------------------------
(* A step of the editor changes one path, which is edited from then on.    *)
EditorStep ==
  /\ phase \in EditorWindows
  /\ \E p \in Path : /\ edited' = edited \cup {p}
                     /\ \A q \in Path \ {p} : tree'[q] = tree[q]
  /\ used'.rollbacks = used.rollbacks
  /\ UNCHANGED <<strays, plan, phase, pos, safety, journal, outcome, base>>

(* A lost backup file changes nothing else.                                *)
LossStep ==
  /\ phase \in {"backed_up", "done", "crashed"} /\ backup # <<>> /\ backup' # <<>>
  /\ used'.rollbacks = used.rollbacks
  /\ UNCHANGED <<disk, plan, phase, pos, snapshot, staging, manifest, journal, outcome,
                 base, edited>>

(* The editor changes one path, or takes a copy from the backup.           *)
LEMMA EditorSteps == ASSUME Inv, Editor PROVE EditorStep \/ LossStep
<1>1. tree \in [Path -> Node] /\ backup \in [Ops -> Node] \cup {<<>>} /\ used \in Used
  BY DEF Inv, TypeOK, Tree
<1>2. [used EXCEPT !.edits = @ + 1].rollbacks = used.rollbacks
  BY <1>1 DEF Used
<1>3. ASSUME NEW p \in Path, NEW c \in Content, EditorSave(p, c)
      PROVE  EditorStep
  BY <1>1, <1>2, <1>3 DEF EditorSave, EditorStep, CanEdit, safety, outcome
<1>4. ASSUME NEW p \in Path, EditorDelete(p)
      PROVE  EditorStep
  BY <1>1, <1>2, <1>4 DEF EditorDelete, EditorStep, CanEdit, safety, outcome
<1>5. ASSUME NEW i \in DOMAIN backup, LoseBackup(i)
      PROVE  LossStep
  <2>1. backup # <<>> /\ i \in DOMAIN [backup EXCEPT ![i] = Absent]
    BY <1>5
  <2>2. backup' # <<>>
    BY <1>5, <2>1 DEF LoseBackup
  <2> QED
    BY <1>2, <1>5, <2>1, <2>2 DEF LoseBackup, LossStep, disk, outcome
<1> QED
  BY <1>3, <1>4, <1>5 DEF Editor

(* Only the start of a rollback counts as one.                             *)
LEMMA CrashCounts ==
  ASSUME Inv
  PROVE  /\ Crash => used'.rollbacks = used.rollbacks
         /\ IoError => used'.rollbacks = used.rollbacks
         /\ StartRollback => used'.rollbacks = used.rollbacks + 1 /\ used.rollbacks \in Nat
<1>1. used \in Used
  BY DEF Inv, TypeOK
<1> QED
  BY <1>1, BoundAssumption DEF Crash, IoError, StartRollback, Used

-----------------------------------------------------------------------------
(* A plan that gets a journal has no overlapping operations.               *)
LEMMA ValidatedStep == ASSUME Inv, Extra, Next PROVE Validated'
<1> USE DEF Extra, Validated, disk, safety, outcome, history, Return
<1>1. CASE CheckPlan \/ Backup
  BY <1>1 DEF CheckPlan, Backup, BeginBackup, CopySource, PromoteBackup, Inv, PhaseOK
<1>2. CASE Apply
  BY <1>2 DEF Apply, ValidateApply, WriteJournal, StartOperation, VerifyTarget, PerformEffect,
              CompleteOperation, Commit, Inv, PhaseOK
<1>3. CASE StartRollback \/ Rollback
  BY <1>3 DEF StartRollback, Rollback, SkipEntry, VerifyUndo, PerformUndo, FinishRollback
<1>4. CASE IoError
  BY <1>4 DEF IoError, Inv, PhaseOK
<1>5. CASE Crash \/ Editor
  BY <1>5, EditorSteps DEF Crash, EditorStep, LossStep
<1> QED
  BY <1>1, <1>2, <1>3, <1>4, <1>5 DEF Next, Engine

(* The states of the entries follow the cursor.                            *)
LEMMA EntriesStep == ASSUME Inv, Extra, Next PROVE EntriesFollowCursor'
<1> USE CursorFacts DEF Extra, EntriesFollowCursor, disk, safety, outcome, history, Return, Ops, Op
<1>1. CASE CheckPlan \/ Backup
  BY <1>1 DEF CheckPlan, Backup, BeginBackup, CopySource, PromoteBackup
<1>2. CASE WriteJournal
  BY <1>2, NewJournalType DEF WriteJournal, Inv
<1>3. CASE StartOperation
  <2>1. journal \in [Ops -> [state: JournalState, post: Hash]]
    BY <1>3 DEF StartOperation, Inv, TypeOK, PhaseOK
  <2>2. \A i \in Ops \ {pos} : journal'[i] = journal[i]
    BY <1>3, <2>1 DEF StartOperation, SetEntry
  <2> QED
    BY <1>3, <2>2 DEF StartOperation
<1>4. CASE CompleteOperation
  <2>1. CASE Readable
    BY <1>4, <2>1, CompletedJournalType DEF CompleteOperation
  <2>2. CASE ~Readable
    BY <1>4, <2>2 DEF CompleteOperation
  <2> QED
    BY <2>1, <2>2
<1>5. CASE ValidateApply \/ VerifyTarget \/ PerformEffect \/ Commit
  BY <1>5 DEF ValidateApply, VerifyTarget, PerformEffect, Commit
<1>6. CASE StartRollback \/ Rollback
  BY <1>6 DEF StartRollback, Rollback, SkipEntry, VerifyUndo, PerformUndo, FinishRollback
<1>7. CASE IoError \/ Crash
  BY <1>7 DEF IoError, Crash
<1>8. CASE Editor
  BY <1>8, EditorSteps DEF EditorStep, LossStep
<1> QED
  BY <1>1, <1>2, <1>3, <1>4, <1>5, <1>6, <1>7, <1>8 DEF Next, Engine, Apply

(* An answer is given at the end of a call, and COMMITTED only when every  *)
(* entry is COMPLETED.                                                     *)
LEMMA AnswersStep == ASSUME Inv, Extra, Next PROVE AnswersAreFinal'
<1> USE CursorFacts DEF Extra, AnswersAreFinal, disk, safety, outcome, history, Return, Ops, Op
<1>1. CASE CheckPlan \/ Backup
  BY <1>1 DEF CheckPlan, Backup, BeginBackup, CopySource, PromoteBackup
<1>2. CASE ValidateApply \/ WriteJournal \/ StartOperation \/ VerifyTarget \/ PerformEffect
             \/ CompleteOperation
  BY <1>2 DEF ValidateApply, WriteJournal, StartOperation, VerifyTarget, PerformEffect,
              CompleteOperation
<1>3. CASE Commit
  <2>1. \A i \in Ops : i < pos
    BY <1>3 DEF Commit, Inv, TypeOK, PhaseOK
  <2>2. \A i \in Ops : Journalled(i, "completed")
    BY <1>3, <2>1 DEF Commit, EntriesFollowCursor, Journalled, Inv, PhaseOK
  <2> QED
    BY <1>3, <2>2 DEF Commit, Journalled
<1>4. CASE StartRollback
  BY <1>4, CrashCounts DEF StartRollback, CanRollback, Inv, TypeOK
<1>5. CASE Rollback
  BY <1>5 DEF Rollback, SkipEntry, VerifyUndo, AfterConflict, PerformUndo, FinishRollback
<1>6. CASE IoError \/ Crash
  BY <1>6, CrashCounts DEF IoError, Crash
<1>7. CASE Editor
  BY <1>7, EditorSteps DEF EditorStep, LossStep, Journalled
<1> QED
  BY <1>1, <1>2, <1>3, <1>4, <1>5, <1>6, <1>7 DEF Next, Engine, Apply

(* The target of an operation that has only been started is as it was.     *)
LEMMA CleanStep == ASSUME Inv, Base, Extra, Next PROVE CursorIsClean'
<1> USE CursorFacts DEF Extra, disk, safety, outcome, history, Return, Op
<1>1. CASE CheckPlan \/ Backup
  BY <1>1 DEF CheckPlan, Backup, BeginBackup, CopySource, PromoteBackup, CursorIsClean
<1>2. CASE ValidateApply \/ WriteJournal \/ CompleteOperation \/ Commit
  BY <1>2 DEF ValidateApply, WriteJournal, CompleteOperation, Commit, CursorIsClean
<1>3. CASE StartOperation
  <2>1. pos \in Ops /\ journal # <<>> /\ journal[pos].state = "pending" /\ NoOverlap(plan)
    BY <1>3 DEF StartOperation, EntriesFollowCursor, Validated, Inv, PhaseOK
  <2>2. ASSUME NEW p \in Touched(Op) \ edited PROVE tree[p] = base[p]
    <3>1. p \in Path \ edited
      BY <2>1, <2>2 DEF Touched
    <3>2. ASSUME NEW i \in Ops, p \in Touched(plan[i]) PROVE i = pos
      BY <2>1, <2>2, <3>2 DEF NoOverlap, Ops
    <3> QED
      BY <2>1, <3>1, <3>2 DEF Base, WriteAhead, Journalled
  <2> QED
    BY <1>3, <2>2 DEF StartOperation, CursorIsClean
<1>4. CASE VerifyTarget
  BY <1>4 DEF VerifyTarget, CursorIsClean
<1>5. CASE PerformEffect
  <2>1. \A p \in Touched(Op) \ edited : tree[p] = base[p]
    BY <1>5 DEF PerformEffect, CursorIsClean
  <2>2. pos \in Ops /\ Op.path \in Touched(Op) /\ Op.path \in Path /\ Op.to \in Path
    BY <1>5 DEF PerformEffect, Inv, PhaseOK, Touched
  <2>3. ASSUME Undisturbed(pos), tree' = Effect(Op, tree), UNCHANGED <<plan, pos, base>>
        PROVE  InEffect(pos)'
    <3>1. \A p \in Touched(Op) : tree[p] = base[p]
      BY <2>1, <2>3 DEF Undisturbed
    <3>2. \A p \in Touched(Op) : Effect(Op, tree)[p] = Effect(Op, base)[p]
      BY <2>2, <3>1 DEF Effect, Touched
    <3> QED
      BY <2>3, <3>2 DEF InEffect
  <2> QED
    BY <1>5, <2>3 DEF PerformEffect, CursorIsClean, Undisturbed
<1>6. CASE StartRollback \/ Rollback
  BY <1>6 DEF StartRollback, Rollback, SkipEntry, VerifyUndo, PerformUndo, FinishRollback,
              CursorIsClean
<1>7. CASE IoError \/ Crash
  BY <1>7 DEF IoError, Crash, CursorIsClean
<1>8. CASE LossStep
  BY <1>8 DEF LossStep, CursorIsClean, Undisturbed, InEffect
<1>9. CASE EditorStep
  <2>1. PICK q \in Path : edited' = edited \cup {q} /\ \A p \in Path \ {q} : tree'[p] = tree[p]
    BY <1>9 DEF EditorStep
  <2>2. pos \in Ops => Touched(Op) \subseteq Path
    BY DEF Touched
  <2>3. phase \in {"started", "verified", "effected"} => pos \in Ops
    BY DEF Inv, PhaseOK
  <2> QED
    BY <1>9, <2>1, <2>2, <2>3 DEF EditorStep, CursorIsClean, Undisturbed, InEffect
<1> QED
  BY <1>1, <1>2, <1>3, <1>4, <1>5, <1>6, <1>7, <1>8, <1>9, EditorSteps DEF Next, Engine, Apply

(* The approved tree is one the plan can be applied to.                    *)
LEMMA ApprovedStep == ASSUME Inv, Extra, Next PROVE Approved'
<1> USE DEF Extra, Approved, disk, safety, outcome, history, Return
<1>1. CASE CheckPlan
  BY <1>1 DEF CheckPlan, Inv, PhaseOK
<1>2. CASE Backup
  BY <1>2 DEF Backup, BeginBackup, CopySource, PromoteBackup
<1>3. CASE Apply
  BY <1>3 DEF Apply, ValidateApply, WriteJournal, StartOperation, VerifyTarget, PerformEffect,
              CompleteOperation, Commit, Inv, PhaseOK
<1>4. CASE StartRollback \/ Rollback
  BY <1>4 DEF StartRollback, Rollback, SkipEntry, VerifyUndo, PerformUndo, FinishRollback
<1>5. CASE IoError
  BY <1>5 DEF IoError, Inv, PhaseOK
<1>6. CASE Crash \/ Editor
  BY <1>6, EditorSteps DEF Crash, EditorStep, LossStep
<1> QED
  BY <1>1, <1>2, <1>3, <1>4, <1>5, <1>6 DEF Next, Engine

(* An intact source has the bytes it was approved with.                    *)
LEMMA UnchangedSource ==
  ASSUME NEW op \in PatchOperation, SourceUnchanged(op),
         snapshot[op.path] = FileHash(base, op.path)
  PROVE  tree[op.path] = base[op.path]
BY NodeAssumption DEF SourceUnchanged, FileHash, IsFile

(* A copy in the backup is what was approved (backup.py 239).              *)
LEMMA CopiesStep == ASSUME Inv, Extra, Next PROVE CopiesAreApproved'
<1> USE CursorFacts DEF Extra, disk, safety, outcome, history, Return, Op
<1>1. CASE CheckPlan
  <2>1. backup = <<>> /\ manifest = <<>>
    BY <1>1 DEF CheckPlan, CopiesAreApproved
  <2>2. \A p \in Path : [r \in Path |-> FileHash(tree, r)][p] = FileHash(tree, p)
    OBVIOUS
  <2> QED
    BY <1>1, <2>1, <2>2 DEF CheckPlan, CopiesAreApproved, FileHash
<1>2. CASE BeginBackup
  BY <1>2 DEF BeginBackup, CopiesAreApproved, FileHash, Ops
<1>3. CASE CopySource
  <2>1. phase = "copying" /\ staging \in [Ops -> Node] /\ pos \in Ops
    BY <1>3 DEF CopySource, Inv, TypeOK
  <2>2. HasBackup(Op) /\ SourceUnchanged(Op) => tree[Op.path] = base[Op.path]
    BY <2>1, UnchangedSource DEF CopiesAreApproved
  <2>3. ASSUME HasBackup(Op) => SourceUnchanged(Op), pos' = pos + 1, UNCHANGED <<plan, base>>,
               staging' = IF HasBackup(Op) THEN [staging EXCEPT ![pos] = tree[Op.path]] ELSE staging,
               NEW i \in Ops, i < pos', HasBackup(plan[i])
        PROVE  staging'[i] = base[plan[i].path]
    <3>1. CASE i = pos
      BY <2>1, <2>2, <2>3, <3>1
    <3>2. CASE i # pos
      <4>1. i < pos /\ staging'[i] = staging[i]
        BY <2>1, <2>3, <3>2
      <4> QED
        BY <2>1, <2>3, <4>1 DEF CopiesAreApproved
    <3> QED
      BY <3>1, <3>2
  <2>4. \A p \in Path : snapshot'[p] = FileHash(base', p)
    BY <1>3, <2>1 DEF CopySource, CopiesAreApproved, FileHash
  <2>5. UNCHANGED <<plan, base, backup, manifest>> /\ backup = <<>> /\ manifest = <<>>
    BY <1>3, <2>1 DEF CopySource, CopiesAreApproved
  <2>6. phase' = "copying" =>
          \A i \in Ops : i < pos' /\ HasBackup(plan[i]) => staging'[i] = base[plan[i].path]
    BY <1>3, <2>1, <2>3, <2>5 DEF CopySource
  <2> QED
    BY <2>4, <2>5, <2>6 DEF CopiesAreApproved, Ops
<1>4. CASE PromoteBackup
  <2>1. \A i \in Ops : i < pos
    BY <1>4 DEF PromoteBackup, Inv, TypeOK, PhaseOK
  <2>2. \A i \in Ops : HasBackup(plan[i]) => staging[i] = base[plan[i].path]
    BY <1>4, <2>1 DEF PromoteBackup, CopiesAreApproved
  <2> QED
    BY <1>4, <2>2 DEF PromoteBackup, CopiesAreApproved, Ops
<1>5. CASE Apply
  BY <1>5 DEF Apply, ValidateApply, WriteJournal, StartOperation, VerifyTarget, PerformEffect,
              CompleteOperation, Commit, CopiesAreApproved, Ops
<1>6. CASE StartRollback \/ Rollback
  BY <1>6 DEF StartRollback, Rollback, SkipEntry, VerifyUndo, PerformUndo, FinishRollback,
              CopiesAreApproved, Ops
<1>7. CASE IoError \/ Crash
  BY <1>7 DEF IoError, Crash, CopiesAreApproved, Ops
<1>8. CASE EditorStep
  BY <1>8 DEF EditorStep, CopiesAreApproved, FileHash, Ops
<1>9. CASE LossStep
  BY <1>9 DEF LossStep, CopiesAreApproved, FileHash, Ops
<1> QED
  BY <1>1, <1>2, <1>3, <1>4, <1>5, <1>6, <1>7, <1>8, <1>9, EditorSteps DEF Next, Engine, Backup

(* The post hash of a rename is the hash it declared (journal.py 122).     *)
LEMMA PostsStep == ASSUME Inv, Extra, Next PROVE RenamePosts'
<1> USE DEF Extra, RenamePosts, disk, safety, outcome, history, Return, Ops, Op
<1>1. ASSUME journal' = NewJournal, UNCHANGED plan PROVE RenamePosts'
  BY <1>1 DEF NewJournal
<1>2. ASSUME phase = "effected", journal' = CompletedJournal, UNCHANGED plan PROVE RenamePosts'
  <2>1. journal \in [Ops -> [state: JournalState, post: Hash]] /\ pos \in Ops /\ journal # <<>>
    BY <1>2 DEF Inv, TypeOK, PhaseOK
  <2>2. \A i \in Ops \ {pos} : journal'[i] = journal[i]
    BY <1>2, <2>1, CompletedJournalType
  <2>3. Op.kind = "rename" => journal'[pos].post = journal[pos].post
    BY <1>2, <2>1 DEF CompletedJournal, WritesContent
  <2> QED
    BY <1>2, <2>1, <2>2, <2>3
<1>3. CASE CheckPlan \/ Backup
  BY <1>3 DEF CheckPlan, Backup, BeginBackup, CopySource, PromoteBackup, Inv, PhaseOK
<1>4. CASE StartOperation
  <2>1. journal \in [Ops -> [state: JournalState, post: Hash]] /\ pos \in Ops /\ journal # <<>>
    BY <1>4 DEF StartOperation, Inv, TypeOK, PhaseOK
  <2>2. \A i \in Ops : journal'[i].post = journal[i].post
    BY <1>4, <2>1 DEF StartOperation, SetEntry
  <2> QED
    BY <1>4, <2>1, <2>2 DEF StartOperation
<1>5. CASE WriteJournal
  BY <1>1, <1>5 DEF WriteJournal
<1>6. CASE CompleteOperation
  BY <1>2, <1>6 DEF CompleteOperation
<1>7. CASE ValidateApply \/ VerifyTarget \/ PerformEffect \/ Commit
  BY <1>7 DEF ValidateApply, VerifyTarget, PerformEffect, Commit
<1>8. CASE StartRollback \/ Rollback
  BY <1>8 DEF StartRollback, Rollback, SkipEntry, VerifyUndo, PerformUndo, FinishRollback
<1>9. CASE IoError
  <2>1. UNCHANGED plan /\ (\/ UNCHANGED journal \/ journal' = NewJournal
                           \/ phase = "effected" /\ journal' = CompletedJournal)
    BY <1>9 DEF IoError
  <2> QED
    BY <1>1, <1>2, <2>1
<1>10. CASE Crash \/ Editor
  BY <1>10, EditorSteps DEF Crash, EditorStep, LossStep
<1> QED
  BY <1>3, <1>4, <1>5, <1>6, <1>7, <1>8, <1>9, <1>10 DEF Next, Engine, Apply

-----------------------------------------------------------------------------
(* A COMPLETED entry is true: the parts the journal is kept by.            *)

(* What a step does not disturb stays in effect.                           *)
LEMMA StaysInEffect ==
  ASSUME NEW i \in Ops, InEffect(i), UNCHANGED <<plan, base>>,
         \A p \in Touched(plan[i]) : tree'[p] = tree[p]
  PROVE  InEffect(i)'
BY DEF InEffect

(* Every step keeps the journal truthful.                                  *)
LEMMA TruthfulStep == ASSUME Inv, Base, Extra, Next PROVE JournalTruthful'
<1> USE CursorFacts DEF Extra, disk, safety, outcome, history, Return, Op
<1> DEFINE Truthful == used.rollbacks = 0 =>
             \A i \in Ops : Journalled(i, "completed") /\ Undisturbed(i) => InEffect(i)
<1> SUFFICES Truthful'
  BY AnswersStep DEF AnswersAreFinal, JournalTruthful
<1>1. Truthful
  BY DEF JournalTruthful
<1>2. ASSUME UNCHANGED <<tree, plan, journal, base, edited>>, used'.rollbacks = used.rollbacks
      PROVE  Truthful'
  BY <1>1, <1>2 DEF Journalled, Undisturbed, InEffect, Ops
<1>3. ASSUME UNCHANGED <<tree, plan, base, edited>>, used'.rollbacks = used.rollbacks,
             phase = "effected", journal' = CompletedJournal
      PROVE  Truthful'
  <2>1. journal # <<>> /\ \A i \in Ops \ {pos} : journal'[i] = journal[i]
    BY <1>3, CompletedJournalType DEF Inv, PhaseOK
  <2>2. Undisturbed(pos) => InEffect(pos)
    BY <1>3 DEF CursorIsClean
  <2> QED
    BY <1>1, <1>3, <2>1, <2>2 DEF Journalled, Undisturbed, InEffect, Ops
<1>4. ASSUME UNCHANGED <<tree, plan, base, edited>>, journal' = NewJournal PROVE Truthful'
  BY <1>4, NewJournalType DEF Journalled, Inv, Ops
<1>5. CASE CheckPlan
  BY <1>5 DEF CheckPlan, Inv, PhaseOK, Journalled
<1>6. CASE Backup \/ ValidateApply \/ VerifyTarget \/ Commit \/ SkipEntry \/ VerifyUndo
             \/ FinishRollback
  BY <1>2, <1>6 DEF Backup, BeginBackup, CopySource, PromoteBackup, ValidateApply, VerifyTarget,
                    Commit, SkipEntry, VerifyUndo, FinishRollback
<1>7. CASE WriteJournal
  BY <1>4, <1>7 DEF WriteJournal
<1>8. CASE StartOperation
  <2>1. journal \in [Ops -> [state: JournalState, post: Hash]] /\ pos \in Ops /\ journal # <<>>
    BY <1>8 DEF StartOperation, Inv, TypeOK, PhaseOK
  <2>2. /\ journal'[pos].state = "started"
        /\ \A i \in Ops \ {pos} : journal'[i] = journal[i]
    BY <1>8, <2>1 DEF StartOperation, SetEntry
  <2> QED
    BY <1>1, <1>8, <2>1, <2>2 DEF StartOperation, Journalled, Undisturbed, InEffect, Ops
<1>9. CASE PerformEffect
  <2>1. CASE UNCHANGED tree
    BY <1>2, <1>9, <2>1 DEF PerformEffect
  <2>2. CASE tree' = Effect(Op, tree)
    <3>1. /\ pos \in Ops /\ ContentOk(plan) /\ tree \in Tree /\ NoOverlap(plan)
          /\ journal # <<>> /\ journal[pos].state = "started"
      BY <1>9 DEF PerformEffect, Inv, TypeOK, PhaseOK, Validated
    <3>2. \A p \in Path \ Touched(Op) : Effect(Op, tree)[p] = tree[p]
      BY <3>1, EffectTouches DEF ContentOk, Ops
    <3>3. ASSUME NEW i \in Ops, Journalled(i, "completed"), InEffect(i) PROVE InEffect(i)'
      <4>1. i # pos
        BY <3>1, <3>3 DEF Journalled
      <4>2. Touched(plan[i]) \cap Touched(Op) = {} /\ Touched(plan[i]) \subseteq Path
        BY <3>1, <4>1 DEF NoOverlap, Ops, Touched
      <4>3. \A p \in Touched(plan[i]) : tree'[p] = tree[p]
        BY <2>2, <3>2, <4>2
      <4> QED
        BY <1>9, <3>3, <4>3, StaysInEffect DEF PerformEffect
    <3> QED
      BY <1>1, <1>9, <3>3 DEF PerformEffect, Journalled, Undisturbed, Ops
  <2> QED
    BY <1>9, <2>1, <2>2 DEF PerformEffect
<1>10. CASE CompleteOperation
  BY <1>2, <1>3, <1>10 DEF CompleteOperation
<1>11. CASE StartRollback
  <2>1. used'.rollbacks # 0
    BY <1>11, CrashCounts
  <2> QED
    BY <2>1
<1>12. CASE PerformUndo
  <2>1. used'.rollbacks # 0
    BY <1>12 DEF PerformUndo, AnswersAreFinal
  <2> QED
    BY <2>1
<1>13. CASE IoError
  <2>1. used'.rollbacks = used.rollbacks /\ UNCHANGED <<tree, plan, base, edited>>
    BY <1>13, CrashCounts DEF IoError
  <2>2. \/ UNCHANGED journal \/ journal' = NewJournal
        \/ phase = "effected" /\ journal' = CompletedJournal
    BY <1>13 DEF IoError
  <2> QED
    BY <1>2, <1>3, <1>4, <2>1, <2>2
<1>14. CASE Crash
  BY <1>2, <1>14, CrashCounts DEF Crash
<1>15. CASE LossStep
  BY <1>2, <1>15 DEF LossStep
<1>16. CASE EditorStep
  <2>1. PICK q \in Path : edited' = edited \cup {q} /\ \A p \in Path \ {q} : tree'[p] = tree[p]
    BY <1>16 DEF EditorStep
  <2>2. ASSUME NEW i \in Ops, Undisturbed(i)' PROVE Undisturbed(i) /\ q \notin Touched(plan[i])
    BY <1>16, <2>1, <2>2 DEF EditorStep, Undisturbed
  <2>3. ASSUME NEW i \in Ops, InEffect(i), q \notin Touched(plan[i]) PROVE InEffect(i)'
    <3>1. Touched(plan[i]) \subseteq Path
      BY DEF Touched
    <3> QED
      BY <1>16, <2>1, <2>3, <3>1, StaysInEffect DEF EditorStep
  <2> QED
    BY <1>1, <1>16, <2>2, <2>3 DEF EditorStep, Journalled, Ops
<1> QED
  BY <1>5, <1>6, <1>7, <1>8, <1>9, <1>10, <1>11, <1>12, <1>13, <1>14, <1>15, <1>16, EditorSteps
     DEF Next, Engine, Apply, Rollback

-----------------------------------------------------------------------------
(* What a rollback does.                                                   *)

(* With an editor that keeps out of the gap, a checked undo is ready at    *)
(* its use.                                                                *)
LEMMA UndoReadyStep == ASSUME Inv, Extra, Next PROVE UndoIsReady'
<1> USE DEF Extra, UndoIsReady, disk, safety, outcome, history, Return, Op
<1>1. CASE CheckPlan \/ Backup
  BY <1>1 DEF CheckPlan, Backup, BeginBackup, CopySource, PromoteBackup
<1>2. CASE Apply
  BY <1>2 DEF Apply, ValidateApply, WriteJournal, StartOperation, VerifyTarget, PerformEffect,
              CompleteOperation, Commit
<1>3. CASE VerifyUndo
  <2>1. ASSUME Undoable(pos), UNCHANGED <<plan, pos, tree, backup, manifest, journal>>,
               strays' = IF Op.kind \in {"update", "delete"} THEN strays \cup {Op.path} ELSE strays
        PROVE  Undoable(pos)'
    BY <2>1 DEF Undoable, FileHash, Exists, ParentIsDir, IsEmptyDirectory
  <2> QED
    BY <1>3, <2>1 DEF VerifyUndo
<1>4. CASE StartRollback \/ SkipEntry \/ PerformUndo \/ FinishRollback
  BY <1>4 DEF StartRollback, SkipEntry, PerformUndo, FinishRollback
<1>5. CASE IoError \/ Crash
  BY <1>5 DEF IoError, Crash
<1>6. CASE Editor
  BY <1>6, EditorSteps DEF EditorStep, LossStep, QuietUndo
<1> QED
  BY <1>1, <1>2, <1>3, <1>4, <1>5, <1>6 DEF Next, Engine, Rollback

(* What is put back is what was approved.                                  *)
LEMMA UndoRestores ==
  ASSUME Inv, Extra, phase = "rb_verified", Undoable(pos)
  PROVE  \A p \in Touched(Op) : UndoEffect(pos)[p] = base[p]
<1>1. /\ pos \in Ops /\ Op \in PatchOperation /\ journal # <<>> /\ backup # <<>>
      /\ Op.path \in Path /\ Op.to \in Path
  BY CursorFacts DEF Inv, PhaseOK, Op
<1>2. Undoable(pos) /\ Precondition(Op, base)
  BY <1>1 DEF Extra, Approved, PlanOk, Ops, Op
<1>3. Op.kind \in Kind /\ (Op.kind = "rename" <=> Op.to # Op.path)
  BY <1>1 DEF PatchOperation
<1>4. CASE Op.kind \in {"create", "mkdir"}
  <2>1. base[Op.path] = Absent /\ Op.to = Op.path
    BY <1>2, <1>3, <1>4 DEF Precondition, Exists
  <2> QED
    BY <1>1, <1>4, <2>1 DEF UndoEffect, Touched, HasBackup, Op
<1>5. CASE Op.kind \in {"update", "delete"}
  <2>1. backup[pos] = base[Op.path] /\ Op.to = Op.path
    BY <1>1, <1>2, <1>3, <1>5 DEF Undoable, Extra, CopiesAreApproved, HasBackup, Op
  <2> QED
    BY <1>1, <1>5, <2>1 DEF UndoEffect, Touched, HasBackup, Op
<1>6. CASE Op.kind = "rename"
  <2>1. FileHash(tree, Op.to) = Op.expected /\ Op.expected # NoHash
    BY <1>1, <1>2, <1>6 DEF Undoable, Extra, RenamePosts, Op
  <2>2. FileHash(base, Op.path) = Op.expected /\ base[Op.to] = Absent
    BY <1>2, <1>6, <2>1 DEF Precondition, Exists
  <2>3. tree[Op.to] = base[Op.path]
    BY <2>1, <2>2 DEF FileHash
  <2> QED
    BY <1>1, <1>3, <1>6, <2>2, <2>3 DEF UndoEffect, Touched, Op
<1> QED
  BY <1>3, <1>4, <1>5, <1>6 DEF Kind

(* What lies behind the cursor of a rollback is restored or in conflict    *)
(* (rollback.py 386-451).                                                  *)
LEMMA RestoredStep == ASSUME Inv, Extra, Next PROVE RestoredBehindCursor'
<1> USE CursorFacts DEF Extra, disk, safety, outcome, history, Return, Op
<1>1. CASE CheckPlan \/ Backup
  BY <1>1 DEF CheckPlan, Backup, BeginBackup, CopySource, PromoteBackup, RestoredBehindCursor
<1>2. CASE Apply
  BY <1>2 DEF Apply, ValidateApply, WriteJournal, StartOperation, VerifyTarget, PerformEffect,
              CompleteOperation, Commit, RestoredBehindCursor
<1>3. CASE StartRollback
  BY <1>3 DEF StartRollback, RestoredBehindCursor, Ops
<1>4. CASE SkipEntry
  <2>1. ~Journalled(pos, "completed") /\ pos' = pos - 1 /\ phase = "rolling_back"
    BY <1>4 DEF SkipEntry, Journalled
  <2>2. \A i \in Ops : i > pos' => i = pos \/ i > pos
    BY <2>1
  <2> QED
    BY <1>4, <2>1, <2>2 DEF SkipEntry, RestoredBehindCursor, Journalled, Restored, Ops
<1>5. CASE VerifyUndo
  <2>1. CASE UNCHANGED <<pos, conflicts>>
    BY <1>5, <2>1 DEF VerifyUndo, RestoredBehindCursor, Journalled, Restored, Ops
  <2>2. CASE conflicts' = [conflicts EXCEPT ![pos] = "guard"]
    <3>1. pos \in Ops /\ conflicts'[pos] = "guard" /\ UNCHANGED plan
      BY <1>5, <2>2 DEF VerifyUndo, Inv, TypeOK
    <3> QED
      BY <3>1 DEF RestoredBehindCursor, Ops
  <2> QED
    BY <1>5, <2>1, <2>2 DEF VerifyUndo
<1>6. ASSUME pos \in Ops, conflicts' = [conflicts EXCEPT ![pos] = "io"], UNCHANGED plan
      PROVE  RestoredBehindCursor'
  <2>1. conflicts'[pos] = "io"
    BY <1>6 DEF Inv, TypeOK
  <2> QED
    BY <1>6, <2>1 DEF RestoredBehindCursor, Ops
<1>7. CASE PerformUndo
  <2>1. pos \in Ops /\ phase = "rb_verified" /\ backup # <<>> /\ journal # <<>> /\ pos' = pos - 1
        /\ UNCHANGED <<plan, journal, base, edited>>
    BY <1>7 DEF PerformUndo, Inv, PhaseOK
  <2>2. CASE conflicts' = [conflicts EXCEPT ![pos] = "io"]
    BY <1>6, <2>1, <2>2
  <2>3. CASE tree' = UndoEffect(pos) /\ UNCHANGED conflicts
    <3>1. NoOverlap(plan)
      BY <2>1 DEF Validated
    <3>2. \A p \in Path \ Touched(Op) : tree'[p] = tree[p]
      BY <2>1, <2>3, UndoTouches DEF Inv
    <3>3. ASSUME QuietUndo, NEW i \in Ops, i = pos PROVE Restored(i)'
      BY <2>1, <2>3, <3>3, UndoRestores DEF Restored, UndoIsReady
    <3>4. ASSUME NEW i \in Ops, i # pos, Restored(i) PROVE Restored(i)'
      <4>1. Touched(plan[i]) \cap Touched(Op) = {} /\ Touched(plan[i]) \subseteq Path
        BY <2>1, <3>1, <3>4 DEF NoOverlap, Ops, Touched
      <4> QED
        BY <2>1, <3>2, <3>4, <4>1 DEF Restored
    <3>5. \A i \in Ops : i > pos' => i = pos \/ i > pos
      BY <2>1
    <3> QED
      BY <2>1, <2>3, <3>3, <3>4, <3>5 DEF RestoredBehindCursor, Journalled, Ops
  <2> QED
    BY <1>7, <2>2, <2>3 DEF PerformUndo
<1>8. CASE FinishRollback \/ Crash
  BY <1>8 DEF FinishRollback, Crash, RestoredBehindCursor
<1>9. CASE IoError
  <2>1. CASE phase = "rb_verified"
    <3>1. pos \in Ops /\ conflicts' = [conflicts EXCEPT ![pos] = "io"] /\ UNCHANGED plan
      BY <1>9, <2>1 DEF IoError, Inv, PhaseOK
    <3> QED
      BY <1>6, <3>1
  <2>2. CASE phase # "rb_verified"
    BY <1>9, <2>2 DEF IoError, RestoredBehindCursor
  <2> QED
    BY <2>1, <2>2
<1>10. CASE LossStep
  BY <1>10 DEF LossStep, RestoredBehindCursor
<1>11. CASE EditorStep
  <2>1. PICK q \in Path : edited' = edited \cup {q} /\ \A p \in Path \ {q} : tree'[p] = tree[p]
    BY <1>11 DEF EditorStep
  <2>2. ASSUME NEW i \in Ops, Restored(i) PROVE Restored(i)'
    <3>1. Touched(plan[i]) \subseteq Path
      BY DEF Touched
    <3> QED
      BY <1>11, <2>1, <2>2, <3>1 DEF EditorStep, Restored
  <2> QED
    BY <1>11, <2>2 DEF EditorStep, RestoredBehindCursor, Journalled, Ops
<1> QED
  BY <1>1, <1>2, <1>3, <1>4, <1>5, <1>7, <1>8, <1>9, <1>10, <1>11, EditorSteps
     DEF Next, Engine, Rollback

(* The answer ROLLED_BACK is given only when nothing is in conflict        *)
(* (rollback.py 453).                                                      *)
LEMMA RolledBackStep == ASSUME Inv, Base, Extra, Next PROVE RolledBackTruly'
<1> USE CursorFacts DEF Extra, disk, safety, outcome, history, Return, Op
<1> SUFFICES ASSUME QuietUndo, status' = "rolled_back" PROVE RolledBackRestores'
  BY DEF RolledBackTruly, RolledBackRestores
<1>1. RolledBackRestores /\ (status = "rolled_back" => phase = "done")
  BY DEF RolledBackTruly, AnswersAreFinal
<1>2. CASE FinishRollback
  <2>1. NothingInConflict /\ phase = "rolling_back" /\ pos \notin Ops
    BY <1>2 DEF FinishRollback
  <2>2. \A i \in Ops : conflicts[i] = "none" /\ i > pos
    BY <2>1 DEF NothingInConflict, NoConflicts, AnswersAreFinal, Inv, TypeOK
  <2>3. \A i \in Ops : Journalled(i, "completed") => Restored(i)
    BY <2>1, <2>2 DEF RestoredBehindCursor
  <2>4. ASSUME NEW p \in Path \ edited, tree[p] # base[p]
        PROVE  \E i \in Ops : p \in Touched(plan[i]) /\ Journalled(i, "started")
    BY <2>3, <2>4 DEF Base, WriteAhead, Restored
  <2> QED
    BY <1>2, <2>4 DEF FinishRollback, RolledBackRestores, Journalled, Ops
<1>3. CASE CheckPlan \/ Backup
  BY <1>1, <1>3 DEF CheckPlan, Backup, BeginBackup, CopySource, PromoteBackup
<1>4. CASE Apply
  BY <1>1, <1>4 DEF Apply, ValidateApply, WriteJournal, StartOperation, VerifyTarget,
                    PerformEffect, CompleteOperation, Commit
<1>5. CASE StartRollback \/ SkipEntry \/ VerifyUndo \/ PerformUndo
  BY <1>1, <1>5 DEF StartRollback, CanRollback, SkipEntry, VerifyUndo, PerformUndo
<1>6. CASE IoError \/ Crash
  BY <1>1, <1>6 DEF IoError, Crash
<1>7. CASE LossStep
  BY <1>1, <1>7 DEF LossStep, RolledBackRestores, Journalled, Ops
<1>8. CASE EditorStep
  BY <1>1, <1>8 DEF EditorStep, RolledBackRestores, Journalled, Ops
<1> QED
  BY <1>2, <1>3, <1>4, <1>5, <1>6, <1>7, <1>8, EditorSteps DEF Next, Engine, Rollback

-----------------------------------------------------------------------------
(* The invariant holds before the transaction.                             *)
LEMMA InitExtra == Init => Extra
<1> SUFFICES ASSUME Init PROVE Extra
  OBVIOUS
<1>1. Validated /\ EntriesFollowCursor /\ AnswersAreFinal /\ CursorIsClean /\ Approved
  BY DEF Init, Validated, EntriesFollowCursor, AnswersAreFinal, CursorIsClean, Approved
<1>2. CopiesAreApproved /\ RenamePosts /\ JournalTruthful /\ UndoIsReady
  BY DEF Init, CopiesAreApproved, RenamePosts, JournalTruthful, Journalled, UndoIsReady
<1>3. RestoredBehindCursor /\ RolledBackTruly
  BY DEF Init, RestoredBehindCursor, RolledBackTruly, RolledBackRestores
<1> QED
  BY <1>1, <1>2, <1>3 DEF Extra

(* A stutter keeps it.                                                     *)
LEMMA StutterExtra == ASSUME Extra, UNCHANGED vars PROVE Extra'
<1> USE DEF vars, Ops, Op
<1>1. Validated' /\ EntriesFollowCursor' /\ AnswersAreFinal'
  BY DEF Extra, Validated, NoOverlap, EntriesFollowCursor, AnswersAreFinal, Journalled
<1>2. CursorIsClean' /\ Approved' /\ CopiesAreApproved' /\ RenamePosts'
  BY DEF Extra, CursorIsClean, Undisturbed, InEffect, Approved, CopiesAreApproved, FileHash,
         RenamePosts
<1>3. JournalTruthful' /\ UndoIsReady'
  BY DEF Extra, JournalTruthful, Journalled, Undisturbed, InEffect, UndoIsReady, Undoable,
         FileHash, Exists, ParentIsDir, IsEmptyDirectory
<1>4. RestoredBehindCursor' /\ RolledBackTruly'
  BY DEF Extra, RestoredBehindCursor, Restored, Journalled, RolledBackTruly, RolledBackRestores
<1> QED
  BY <1>1, <1>2, <1>3, <1>4 DEF Extra

(* It holds in every reachable state.                                      *)
LEMMA ExtraHolds == Spec => [](Inv /\ Extra)
<1>1. Base /\ Extra /\ [Next]_vars => Extra'
  <2> SUFFICES ASSUME Base, Extra, Next PROVE Extra'
    BY StutterExtra
  <2>1. Inv
    BY DEF Base
  <2> QED
    BY <2>1, ValidatedStep, EntriesStep, AnswersStep, CleanStep, ApprovedStep, CopiesStep,
       PostsStep, TruthfulStep, UndoReadyStep, RestoredStep, RolledBackStep DEF Extra
<1>2. Spec => []Inv
  BY TypeCorrect, PTL DEF Inv
<1>3. Base <=> Inv /\ WriteAhead
  BY DEF Base
<1> QED
  BY <1>1, <1>2, <1>3, WriteAheadHolds, InitExtra, PTL DEF Spec

(***************************************************************************)
(* Until a rollback has begun an entry that says COMPLETED is true of the  *)
(* project, whoever edits files and whenever: apply_plan journals what it  *)
(* has done, and COMMITTED is all of it.                                   *)
(***************************************************************************)
THEOREM JournalTruthfulHolds == Spec => []JournalTruthful
BY ExtraHolds, PTL DEF Extra

(***************************************************************************)
(* A rollback puts nothing in the project but what check_plan has approved *)
(* there, unless a file changes between the check of its hash and the      *)
(* write: the backup it uses may be damaged, the files edited, the call    *)
(* repeated after a crash (rollback.py 90-118).                            *)
(***************************************************************************)
THEOREM RollbackOnlyRestoresHolds == ASSUME QuietUndo PROVE Spec => RollbackOnlyRestores
<1>1. ASSUME Inv, Extra, [Next]_vars, phase = "rb_verified", NEW p \in Path, tree'[p] # tree[p]
      PROVE  tree'[p] = base[p]
  <2>1. PerformUndo /\ tree' = UndoEffect(pos)
    <3>1. ~EditorStep
      BY <1>1 DEF EditorStep, QuietUndo
    <3>2. tree' # tree
      BY <1>1
    <3> QED
      BY <1>1, <3>1, <3>2, EditorSteps
         DEF vars, disk, Next, Engine, CheckPlan, Backup, BeginBackup, CopySource, PromoteBackup,
             Apply, ValidateApply, WriteJournal, StartOperation, VerifyTarget, PerformEffect,
             CompleteOperation, Commit, Rollback, SkipEntry, VerifyUndo, PerformUndo,
             FinishRollback, StartRollback, IoError, Crash, LossStep
  <2>2. p \in Touched(Op)
    BY <1>1, <2>1, UndoTouches DEF Inv, PhaseOK, Op
  <2> QED
    BY <1>1, <2>1, <2>2, UndoRestores DEF Extra, UndoIsReady
<1>2. Inv /\ Extra /\ [Next]_vars =>
        (phase = "rb_verified" => \A p \in Path : tree'[p] # tree[p] => tree'[p] = base[p])
  BY <1>1
<1> QED
  BY <1>2, ExtraHolds, PTL DEF Spec, RollbackOnlyRestores

(***************************************************************************)
(* ROLLED_BACK can be relied on, for every plan and every course of        *)
(* edits, crashes and I/O errors: what nobody else has written is as       *)
(* before, but for operations in doubt.                                    *)
(***************************************************************************)
THEOREM RolledBackHolds == ASSUME QuietUndo PROVE Spec => []RolledBackRestores
<1>1. Extra => RolledBackRestores
  BY DEF Extra, RolledBackTruly
<1> QED
  BY <1>1, ExtraHolds, PTL

-----------------------------------------------------------------------------
(***************************************************************************)
(* What the engine promises.  inspect_recovery never misleads              *)
(* (RecoverySound).  When an editor keeps away from the steps between a    *)
(* check and the use of its answer, the engine destroys no bytes it cannot *)
(* bring back (EngineLosesNothing), and it implements the abstract         *)
(* reversible patch (ImplementsReversiblePatch).  A rollback that was      *)
(* interrupted may be repeated (RollbackConverges).                        *)
(***************************************************************************)

(* A journalled plan has its contents.                                     *)
ContentsKnown == journal # <<>> => ContentOk(plan)

(* Nothing is started before all earlier entries are completed.            *)
EntriesInOrder ==
  journal # <<>> =>
    \A i, j \in Ops : i < j /\ journal[j].state # "pending" => journal[i].state = "completed"

(* An operation in doubt is performed as a whole, or not at all.           *)
InDoubtIsClean ==
  used.rollbacks = 0 =>
    \A i \in Ops : Journalled(i, "started") /\ Undisturbed(i) => InEffect(i) \/ NotInEffect(i)

Recoverable == ContentsKnown /\ EntriesInOrder /\ InDoubtIsClean

(* How a step changes the entries, the cursor's or none.                   *)
LEMMA JournalSteps ==
  ASSUME Inv, Next
  PROVE  /\ plan' = plan
         /\ \/ UNCHANGED journal
            \/ phase = "journaling" /\ journal' = NewJournal
            \/ /\ phase = "applying" /\ pos \in Ops /\ journal # <<>> /\ journal' # <<>>
               /\ journal'[pos].state = "started" /\ UNCHANGED <<tree, base, edited>>
               /\ phase' = "started" /\ pos' = pos
               /\ \A i \in Ops \ {pos} : journal'[i] = journal[i]
            \/ /\ phase = "effected" /\ pos \in Ops /\ journal # <<>> /\ journal' # <<>>
               /\ journal'[pos].state = "completed" /\ UNCHANGED <<tree, base, edited>>
               /\ used'.rollbacks = used.rollbacks
               /\ \A i \in Ops \ {pos} : journal'[i] = journal[i]
<1> USE DEF disk, safety, outcome, history, Ops
<1>1. CASE CheckPlan \/ Backup
  BY <1>1 DEF CheckPlan, Backup, BeginBackup, CopySource, PromoteBackup
<1>2. CASE WriteJournal
  BY <1>2 DEF WriteJournal
<1>3. CASE StartOperation
  <2>1. journal \in [Ops -> [state: JournalState, post: Hash]] /\ pos \in Ops /\ journal # <<>>
    BY <1>3 DEF StartOperation, Inv, TypeOK, PhaseOK
  <2>2. /\ journal' # <<>> /\ journal'[pos].state = "started"
        /\ \A i \in Ops \ {pos} : journal'[i] = journal[i]
    BY <1>3, <2>1 DEF StartOperation, SetEntry
  <2> QED
    BY <1>3, <2>1, <2>2 DEF StartOperation
<1>4. CASE CompleteOperation
  <2>1. phase = "effected" /\ pos \in Ops /\ journal # <<>>
    BY <1>4 DEF CompleteOperation, Inv, PhaseOK
  <2>2. journal' \in {journal, CompletedJournal} /\ UNCHANGED <<tree, plan, base, edited, used>>
    BY <1>4 DEF CompleteOperation
  <2>3. /\ CompletedJournal # <<>> /\ CompletedJournal[pos].state = "completed"
        /\ \A i \in Ops \ {pos} : CompletedJournal[i] = journal[i]
    BY <2>1, CompletedJournalType
  <2>4. CASE journal' = CompletedJournal
    BY <2>1, <2>2, <2>3, <2>4
  <2> QED
    BY <2>2, <2>4
<1>5. CASE ValidateApply \/ VerifyTarget \/ PerformEffect \/ Commit
  BY <1>5 DEF ValidateApply, VerifyTarget, PerformEffect, Commit
<1>6. CASE StartRollback \/ Rollback
  BY <1>6 DEF StartRollback, Rollback, SkipEntry, VerifyUndo, PerformUndo, FinishRollback
<1>7. CASE IoError
  <2>1. CASE UNCHANGED journal \/ (phase = "journaling" /\ journal' = NewJournal)
    BY <1>7, <2>1 DEF IoError
  <2>2. CASE phase = "effected" /\ journal' = CompletedJournal
    <3>1. pos \in Ops /\ journal # <<>>
      BY <2>2 DEF Inv, PhaseOK
    <3>2. UNCHANGED <<tree, plan, base, edited>>
      BY <1>7 DEF IoError
    <3>3. used'.rollbacks = used.rollbacks
      BY <1>7, CrashCounts
    <3> QED
      BY <2>2, <3>1, <3>2, <3>3, CompletedJournalType
  <2> QED
    BY <1>7, <2>1, <2>2 DEF IoError
<1>8. CASE Crash \/ Editor
  BY <1>8, EditorSteps DEF Crash, EditorStep, LossStep
<1> QED
  BY <1>1, <1>2, <1>3, <1>4, <1>5, <1>6, <1>7, <1>8 DEF Next, Engine, Apply

(* Once there is a journal, the content of every operation is known, after *)
(* every step.                                                             *)
LEMMA ContentsStep == ASSUME Inv, Recoverable, Next PROVE ContentsKnown'
BY JournalSteps DEF Recoverable, ContentsKnown, Inv, PhaseOK

(* Every step starts an operation only when all earlier ones are completed *)
(* (apply.py 291-348).                                                     *)
LEMMA OrderStep == ASSUME Inv, Extra, Recoverable, Next PROVE EntriesInOrder'
<1> USE CursorFacts
<1>1. EntriesInOrder /\ EntriesFollowCursor /\ plan' = plan
  BY JournalSteps DEF Recoverable, Extra
<1>2. CASE UNCHANGED journal
  BY <1>1, <1>2 DEF EntriesInOrder, Ops
<1>3. CASE journal' = NewJournal
  BY <1>1, <1>3, NewJournalType DEF EntriesInOrder, Inv, Ops
<1>4. ASSUME phase \in {"applying", "effected"}, pos \in Ops, journal # <<>>,
             \A i \in Ops \ {pos} : journal'[i] = journal[i]
      PROVE  EntriesInOrder'
  <2>1. \A i \in Ops : (i < pos => journal'[i].state = "completed")
                       /\ (i > pos => journal'[i].state = "pending")
    BY <1>1, <1>4 DEF EntriesFollowCursor
  <2> QED
    BY <1>1, <1>4, <2>1 DEF EntriesInOrder, Ops
<1> QED
  BY <1>2, <1>3, <1>4, JournalSteps

(* An operation in doubt is performed as a whole or not at all, after      *)
(* every step (apply.py 291-348).                                          *)
LEMMA InDoubtStep == ASSUME Inv, Base, Extra, Recoverable, Next PROVE InDoubtIsClean'
<1> USE CursorFacts DEF disk, safety, outcome, history, Return, Op
<1> SUFFICES ASSUME used'.rollbacks = 0, NEW i \in Ops, Journalled(i, "started")', Undisturbed(i)'
             PROVE  InEffect(i)' \/ NotInEffect(i)'
  BY JournalSteps DEF InDoubtIsClean, Ops
<1> DEFINE Clean == Journalled(i, "started") /\ Undisturbed(i) => InEffect(i) \/ NotInEffect(i)
<1>1. used.rollbacks = 0 => Clean
  BY DEF Recoverable, InDoubtIsClean
<1>2. CursorIsClean'
  BY CleanStep
<1>3. ASSUME UNCHANGED <<tree, plan, journal, base, edited>>, used'.rollbacks = used.rollbacks
      PROVE  InEffect(i)' \/ NotInEffect(i)'
  BY <1>1, <1>3 DEF Journalled, Undisturbed, InEffect, NotInEffect
<1>4. CASE ~UNCHANGED journal
  <2>1. CASE journal' = NewJournal
    BY <2>1, NewJournalType, JournalSteps DEF Journalled, Inv, Ops
  <2>2. CASE /\ phase = "applying" /\ pos \in Ops /\ journal # <<>>
             /\ UNCHANGED <<tree, plan, base, edited>> /\ phase' = "started" /\ pos' = pos
             /\ \A k \in Ops \ {pos} : journal'[k] = journal[k]
    <3>1. i = pos
      BY <2>2 DEF Extra, EntriesFollowCursor, Journalled
    <3>2. \A p \in Touched(plan[i]) : tree'[p] = base'[p]
      BY <1>2, <2>2, <3>1 DEF CursorIsClean, Undisturbed
    <3> QED
      BY <2>2, <3>2 DEF NotInEffect
  <2>3. CASE /\ phase = "effected" /\ pos \in Ops /\ journal # <<>>
             /\ journal'[pos].state = "completed"
             /\ \A k \in Ops \ {pos} : journal'[k] = journal[k]
    BY <2>3 DEF Extra, EntriesFollowCursor, Journalled
  <2> QED
    BY <1>4, <2>1, <2>2, <2>3, JournalSteps
<1>5. CASE CheckPlan
  BY <1>5 DEF CheckPlan, Inv, PhaseOK, Journalled
<1>6. CASE Backup \/ ValidateApply \/ VerifyTarget \/ Commit \/ SkipEntry \/ VerifyUndo
             \/ FinishRollback
  BY <1>3, <1>6 DEF Backup, BeginBackup, CopySource, PromoteBackup, ValidateApply, VerifyTarget,
                    Commit, SkipEntry, VerifyUndo, FinishRollback
<1>7. CASE PerformEffect
  <2>1. /\ UNCHANGED <<plan, pos, journal, base, edited, used>> /\ phase = "verified"
        /\ UNCHANGED tree \/ phase' = "effected"
    BY <1>7 DEF PerformEffect
  <2>2. i = pos
    BY <2>1 DEF Extra, EntriesFollowCursor, Journalled
  <2>3. CASE phase' = "effected"
    BY <1>2, <2>1, <2>2, <2>3 DEF CursorIsClean, Undisturbed, InEffect
  <2> QED
    BY <1>3, <2>1, <2>3
<1>8. CASE WriteJournal \/ StartOperation
  <2>1. journal' # journal \/ UNCHANGED <<tree, plan, journal, base, edited, used>>
    BY <1>8 DEF WriteJournal, StartOperation
  <2> QED
    BY <1>3, <1>4, <2>1
<1>9. CASE CompleteOperation
  BY <1>3, <1>4, <1>9 DEF CompleteOperation
<1>10. CASE StartRollback \/ PerformUndo
  BY <1>10, CrashCounts DEF PerformUndo, Extra, AnswersAreFinal
<1>11. CASE IoError \/ Crash
  BY <1>3, <1>4, <1>11, CrashCounts DEF IoError, Crash
<1>12. CASE LossStep
  BY <1>3, <1>12 DEF LossStep
<1>13. CASE EditorStep
  <2>1. PICK q \in Path : edited' = edited \cup {q} /\ \A p \in Path \ {q} : tree'[p] = tree[p]
    BY <1>13 DEF EditorStep
  <2>2. Undisturbed(i) /\ \A p \in Touched(plan[i]) : tree'[p] = tree[p]
    BY <1>13, <2>1 DEF EditorStep, Undisturbed, Touched
  <2> QED
    BY <1>1, <1>13, <2>2 DEF EditorStep, Journalled, InEffect, NotInEffect
<1> QED
  BY <1>5, <1>6, <1>7, <1>8, <1>9, <1>10, <1>11, <1>12, <1>13, EditorSteps
     DEF Next, Engine, Apply, Rollback

-----------------------------------------------------------------------------
(* What is pending has changed nothing.                                    *)
LEMMA PendingIsAbsent ==
  ASSUME Inv, Base, Extra, NEW i \in Ops, Journalled(i, "pending"), Undisturbed(i)
  PROVE  NotInEffect(i)
<1> SUFFICES ASSUME NEW p \in Touched(plan[i]) PROVE tree[p] = base[p]
  BY DEF NotInEffect
<1>1. p \in Path \ edited
  BY CursorFacts DEF Undisturbed, Touched
<1>2. ASSUME NEW k \in Ops, p \in Touched(plan[k]) PROVE k = i
  BY <1>2 DEF Extra, Validated, NoOverlap, Journalled, Ops
<1> QED
  BY <1>1, <1>2 DEF Base, WriteAhead, Journalled

(* An operation that has done nothing does not look as if it were done.    *)
LEMMA UndoneLooksUndone ==
  ASSUME NEW op \in PatchOperation, Precondition(op, base), tree \in Tree, base \in Tree,
         tree[op.path] = base[op.path], tree[op.to] = base[op.to], NEW post \in Hash,
         ~PreStateMatches(op, tree), PostStateMatches(op, tree, strays, post)
  PROVE  FALSE
<1>1. op.kind \in Kind /\ (op.kind = "rename" <=> op.to # op.path)
  BY DEF PatchOperation
<1>2. CASE op.kind \in {"create", "mkdir"}
  BY <1>2 DEF Precondition, PreStateMatches, HasBackup, Exists
<1>3. CASE op.kind = "update"
  BY <1>3 DEF Precondition, PreStateMatches, HasBackup, FileHash
<1>4. CASE op.kind \in {"delete", "rename"}
  BY <1>4, NodeAssumption DEF Precondition, PostStateMatches, Exists, IsFile
<1> QED
  BY <1>1, <1>2, <1>3, <1>4 DEF Kind

(* An operation that is done looks undone only if it changes nothing.      *)
LEMMA DoneLooksDone ==
  ASSUME NEW op \in PatchOperation, Precondition(op, base), tree \in Tree, base \in Tree,
         tree[op.path] = Effect(op, base)[op.path], tree[op.to] = Effect(op, base)[op.to],
         WritesContent(op) => op.content # NoHash, PreStateMatches(op, tree)
  PROVE  tree[op.path] = base[op.path] /\ tree[op.to] = base[op.to]
<1>1. /\ op.kind \in Kind /\ (op.kind = "rename" <=> op.to # op.path)
      /\ op.path \in Path /\ op.to \in Path /\ op.content \in Hash
  BY DEF PatchOperation
<1>2. CASE op.kind \in {"create", "mkdir"}
  <2>1. tree[op.path] \in Content \cup {Directory}
    BY <1>1, <1>2 DEF Effect, WritesContent, Hash
  <2> QED
    BY <1>2, <2>1, NodeAssumption DEF PreStateMatches, Exists
<1>3. CASE op.kind = "update"
  <2>1. tree[op.path] \in Content
    BY <1>1, <1>3 DEF Effect, WritesContent, Hash
  <2>2. tree[op.path] = op.expected /\ base[op.path] = op.expected
    BY <1>3, <2>1 DEF Precondition, PreStateMatches, HasBackup, FileHash, IsFile
  <2> QED
    BY <1>1, <1>3, <2>2
<1>4. CASE op.kind = "delete"
  <2>1. tree[op.path] = Absent
    BY <1>1, <1>4 DEF Effect, WritesContent
  <2> QED
    BY <1>4, <2>1, NodeAssumption DEF Precondition, PreStateMatches, HasBackup, FileHash
<1>5. CASE op.kind = "rename"
  <2>1. tree[op.to] = base[op.path]
    BY <1>1, <1>5 DEF Effect
  <2> QED
    BY <1>5, <2>1, NodeAssumption DEF Precondition, PreStateMatches, Exists, IsFile
<1> QED
  BY <1>1, <1>2, <1>3, <1>4, <1>5 DEF Kind

(* What the invariant says of the journal is what recovery needs           *)
(* (recovery.py 275-316).                                                  *)
LEMMA RecoveryTells == ASSUME Inv, Base, Extra, Recoverable PROVE RecoverySound
<1> SUFFICES ASSUME journal # <<>>, used.rollbacks = 0
             PROVE  /\ \A i \in Ops : Undisturbed(i) =>
                         /\ RecoveryState(i) = "applied" => InEffect(i)
                         /\ RecoveryState(i) = "not_applied" => NotInEffect(i)
                    /\ RecoveryOk /\ edited = {} =>
                         \A i, j \in Ops : i < j /\ RecoveryState(j) = "applied"
                                             => RecoveryState(i) = "applied"
  BY DEF RecoverySound
<1>1. /\ journal \in [Ops -> [state: JournalState, post: Hash]]
      /\ tree \in Tree /\ base \in Tree
      /\ \A i \in Ops : plan[i] \in PatchOperation /\ Precondition(plan[i], base)
      /\ \A i \in Ops : WritesContent(plan[i]) => plan[i].content # NoHash
  BY CursorFacts DEF Inv, TypeOK, Extra, Approved, PlanOk, Recoverable, ContentsKnown,
                     ContentOk, Ops
<1>2. ASSUME NEW i \in Ops, Undisturbed(i), RecoveryState(i) = "applied" PROVE InEffect(i)
  <2>1. CASE journal[i].state = "completed"
    BY <1>2, <2>1 DEF Extra, JournalTruthful, Journalled
  <2>2. CASE journal[i].state # "completed"
    <3>1. /\ ~PreStateMatches(plan[i], tree)
          /\ PostStateMatches(plan[i], tree, strays, journal[i].post)
          /\ journal[i].state = "started"
      BY <1>1, <1>2, <2>2 DEF RecoveryState, JournalState
    <3>2. ~NotInEffect(i)
      BY <1>1, <3>1, UndoneLooksUndone DEF NotInEffect, Touched
    <3> QED
      BY <1>2, <3>1, <3>2 DEF Recoverable, InDoubtIsClean, Journalled
  <2> QED
    BY <2>1, <2>2
<1>3. ASSUME NEW i \in Ops, Undisturbed(i), RecoveryState(i) = "not_applied"
      PROVE  NotInEffect(i)
  <2>1. journal[i].state \in {"pending", "started"} /\ PreStateMatches(plan[i], tree)
    BY <1>1, <1>3 DEF RecoveryState, JournalState
  <2>2. CASE journal[i].state = "pending"
    BY <1>3, <2>2, PendingIsAbsent DEF Journalled
  <2>3. CASE InEffect(i)
    BY <1>1, <2>1, <2>3, DoneLooksDone DEF InEffect, NotInEffect, Touched
  <2> QED
    BY <1>3, <2>1, <2>2, <2>3 DEF Recoverable, InDoubtIsClean, Journalled
<1>4. ASSUME RecoveryOk, NEW i \in Ops, NEW j \in Ops, i < j, RecoveryState(j) = "applied"
      PROVE  RecoveryState(i) = "applied"
  <2>1. journal[j].state # "pending"
    BY <1>4 DEF RecoveryState
  <2>2. journal[i].state = "completed"
    BY <1>4, <2>1 DEF Recoverable, EntriesInOrder
  <2>3. RecoveryState(i) # "unknown"
    BY <1>4 DEF RecoveryOk
  <2> QED
    BY <2>2, <2>3 DEF RecoveryState
<1> QED
  BY <1>2, <1>3, <1>4

(* The invariant of recovery holds in every reachable state.               *)
LEMMA RecoverableHolds == Spec => [](Base /\ Recoverable)
<1>1. Init => Recoverable
  BY DEF Init, Recoverable, ContentsKnown, EntriesInOrder, InDoubtIsClean, Journalled
<1>2. Inv /\ Extra /\ Base /\ Recoverable /\ [Next]_vars => Recoverable'
  <2>1. ASSUME Recoverable, UNCHANGED vars PROVE Recoverable'
    BY <2>1 DEF vars, Recoverable, ContentsKnown, EntriesInOrder, InDoubtIsClean, Journalled,
                Undisturbed, InEffect, NotInEffect, Ops
  <2> QED
    BY <2>1, ContentsStep, OrderStep, InDoubtStep DEF Recoverable
<1>3. Inv /\ WriteAhead => Base
  BY DEF Base
<1> QED
  BY <1>1, <1>2, <1>3, ExtraHolds, WriteAheadHolds, PTL DEF Spec

(***************************************************************************)
(* Recovery never misleads: whatever an editor has done, wherever the      *)
(* process died and whichever I/O call failed, what inspect_recovery calls *)
(* applied is in effect, what it calls not applied has left no trace, and  *)
(* a report without unknowns is a prefix of the plan (recovery.py 275-316).*)
(***************************************************************************)
THEOREM RecoverySoundHolds == Spec => []RecoverySound
<1>1. Inv /\ Extra /\ Base /\ Recoverable => RecoverySound
  BY RecoveryTells
<1> QED
  BY <1>1, RecoverableHolds, ExtraHolds, PTL

-----------------------------------------------------------------------------
(***************************************************************************)
(* The promises that need an editor who keeps away from the gaps between a *)
(* check and its use.                                                      *)
(***************************************************************************)

(* The editor does not act between a check of a target and the write, nor  *)
(* between a write and its read-back.                                      *)
QuietApply == EditorWindows \cap {"verified", "effected", "rb_verified"} = {}

(* A backup that has been validated stays so while it is relied on.        *)
BackupReady ==
  phase \in {"journaling", "applying", "started", "verified", "effected"} => BackupIntact

(* Whatever is in the backup was a file.                                   *)
SourcesAreFiles ==
  /\ phase = "copying" =>
       \A i \in Ops : i < pos /\ HasBackup(plan[i]) => base[plan[i].path] \in Content
  /\ manifest # <<>> => \A i \in Ops : HasBackup(plan[i]) => base[plan[i].path] \in Content

(* The target is still what it was when it was checked.                    *)
TargetStillReady == QuietApply /\ phase = "verified" => TargetReady(Op, tree)

(* What was written is still there when it is read back.                   *)
ContentInPlace ==
  QuietApply /\ phase = "effected" /\ WritesContent(Op) => tree[Op.path] = Op.content

(* A post hash is the hash of the operation's own content.                 *)
PostsAreContents ==
  QuietApply /\ journal # <<>> =>
    \A i \in Ops : WritesContent(plan[i]) /\ journal[i].state = "completed"
                     => journal[i].post = plan[i].content

Kept ==
  /\ BackupReady /\ SourcesAreFiles /\ TargetStillReady /\ ContentInPlace /\ PostsAreContents

(* As long as an apply is at work its backup is intact.                    *)
LEMMA BackupReadyStep == ASSUME Inv, Kept, Next PROVE BackupReady'
<1> USE DEF Kept, BackupReady, BackupIntact, disk, safety, outcome, history, Return, Ops
<1>1. CASE CheckPlan \/ Backup
  BY <1>1 DEF CheckPlan, Backup, BeginBackup, CopySource, PromoteBackup
<1>2. CASE Apply
  BY <1>2 DEF Apply, ValidateApply, WriteJournal, StartOperation, VerifyTarget, PerformEffect,
              CompleteOperation, Commit
<1>3. CASE StartRollback \/ Rollback
  BY <1>3 DEF StartRollback, Rollback, SkipEntry, VerifyUndo, PerformUndo, FinishRollback
<1>4. CASE IoError \/ Crash
  BY <1>4 DEF IoError, Crash
<1>5. CASE LossStep
  BY <1>5 DEF LossStep
<1>6. ASSUME EditorStep, UNCHANGED backup PROVE BackupReady'
  BY <1>6 DEF EditorStep
<1>7. EditorStep => UNCHANGED backup
  BY DEF EditorStep
<1> QED
  BY <1>1, <1>2, <1>3, <1>4, <1>5, <1>6, <1>7, EditorSteps DEF Next, Engine

(* Whatever has been copied was a file.                                    *)
LEMMA SourcesStep == ASSUME Inv, Extra, Kept, Next PROVE SourcesAreFiles'
<1> USE CursorFacts DEF Kept, disk, safety, outcome, history, Return, Op
<1>1. CASE CheckPlan
  BY <1>1 DEF CheckPlan, SourcesAreFiles, Extra, CopiesAreApproved
<1>2. CASE BeginBackup
  BY <1>2 DEF BeginBackup, SourcesAreFiles, Ops
<1>3. CASE CopySource
  <2>1. phase = "copying" /\ pos \in Ops /\ UNCHANGED <<plan, base, manifest>>
        /\ (phase' = "copying" => pos' = pos + 1 /\ (HasBackup(Op) => SourceUnchanged(Op)))
    BY <1>3 DEF CopySource
  <2>2. HasBackup(Op) /\ SourceUnchanged(Op) => base[Op.path] \in Content
    <3>1. snapshot[Op.path] = FileHash(base, Op.path)
      BY <2>1 DEF Extra, CopiesAreApproved
    <3> QED
      BY <2>1, <3>1, UnchangedSource DEF SourceUnchanged, IsFile
  <2>3. \A i \in Ops : i < pos + 1 => i < pos \/ i = pos
    OBVIOUS
  <2> QED
    BY <2>1, <2>2, <2>3 DEF SourcesAreFiles, Ops
<1>4. CASE PromoteBackup
  <2>1. \A i \in Ops : i < pos
    BY <1>4 DEF PromoteBackup, Inv, TypeOK, PhaseOK
  <2> QED
    BY <1>4, <2>1 DEF PromoteBackup, SourcesAreFiles, Ops
<1>5. CASE Apply
  BY <1>5 DEF Apply, ValidateApply, WriteJournal, StartOperation, VerifyTarget, PerformEffect,
              CompleteOperation, Commit, SourcesAreFiles, Ops
<1>6. CASE StartRollback \/ Rollback
  BY <1>6 DEF StartRollback, Rollback, SkipEntry, VerifyUndo, PerformUndo, FinishRollback,
              SourcesAreFiles, Ops
<1>7. CASE IoError \/ Crash
  BY <1>7 DEF IoError, Crash, SourcesAreFiles, Ops
<1>8. CASE Editor
  BY <1>8, EditorSteps DEF EditorStep, LossStep, SourcesAreFiles, Ops
<1> QED
  BY <1>1, <1>2, <1>3, <1>4, <1>5, <1>6, <1>7, <1>8 DEF Next, Engine, Backup

(* With an editor that keeps out of the gaps, a checked target is still    *)
(* ready at its use.                                                       *)
LEMMA TargetStep == ASSUME Inv, Kept, Next PROVE TargetStillReady' /\ ContentInPlace'
<1> USE DEF Kept, disk, safety, outcome, history, Return, Op
<1> SUFFICES ASSUME QuietApply PROVE TargetStillReady' /\ ContentInPlace'
  BY DEF TargetStillReady, ContentInPlace
<1>1. CASE CheckPlan \/ Backup
  BY <1>1 DEF CheckPlan, Backup, BeginBackup, CopySource, PromoteBackup,
              TargetStillReady, ContentInPlace
<1>2. CASE ValidateApply \/ WriteJournal \/ StartOperation \/ CompleteOperation \/ Commit
  BY <1>2 DEF ValidateApply, WriteJournal, StartOperation, CompleteOperation, Commit,
              TargetStillReady, ContentInPlace
<1>3. CASE VerifyTarget
  <2>1. phase' = "verified" => TargetReady(Op, tree) /\ UNCHANGED <<tree, plan, pos>>
    BY <1>3 DEF VerifyTarget
  <2>2. phase' # "effected"
    BY <1>3 DEF VerifyTarget
  <2> QED
    BY <2>1, <2>2 DEF TargetStillReady, ContentInPlace
<1>4. CASE PerformEffect
  <2>1. Op.path \in Path
    BY <1>4, CursorFacts DEF PerformEffect, Inv, PhaseOK
  <2>2. WritesContent(Op) => Effect(Op, tree)[Op.path] = Op.content
    BY <2>1 DEF Effect, WritesContent
  <2> QED
    BY <1>4, <2>2 DEF PerformEffect, TargetStillReady, ContentInPlace
<1>5. CASE StartRollback \/ Rollback
  BY <1>5 DEF StartRollback, Rollback, SkipEntry, VerifyUndo, PerformUndo, FinishRollback,
              TargetStillReady, ContentInPlace
<1>6. CASE IoError \/ Crash
  BY <1>6 DEF IoError, Crash, TargetStillReady, ContentInPlace
<1>7. CASE Editor
  BY <1>7, EditorSteps DEF EditorStep, LossStep, QuietApply, TargetStillReady, ContentInPlace
<1> QED
  BY <1>1, <1>2, <1>3, <1>4, <1>5, <1>6, <1>7 DEF Next, Engine, Apply

(* With that editor a completed write has the post hash of its content     *)
(* (apply.py 341-348).                                                     *)
LEMMA ContentsPostStep == ASSUME Inv, Kept, Next PROVE PostsAreContents'
<1> USE CursorFacts DEF Kept, disk, safety, outcome, history, Return, Op
<1> SUFFICES ASSUME QuietApply PROVE PostsAreContents'
  BY DEF PostsAreContents
<1>1. ASSUME UNCHANGED <<plan, journal>> PROVE PostsAreContents'
  BY <1>1 DEF PostsAreContents, Ops
<1>2. ASSUME journal' = NewJournal, UNCHANGED plan PROVE PostsAreContents'
  BY <1>2, NewJournalType DEF PostsAreContents, Inv, Ops
<1>3. ASSUME phase = "effected", Readable, journal' = CompletedJournal, UNCHANGED plan
      PROVE  PostsAreContents'
  <2>1. journal \in [Ops -> [state: JournalState, post: Hash]] /\ pos \in Ops /\ journal # <<>>
    BY <1>3 DEF Inv, TypeOK, PhaseOK
  <2>2. WritesContent(Op) => FileHash(tree, Op.path) = Op.content
    BY <1>3 DEF ContentInPlace, Readable, IsFile, FileHash
  <2>3. WritesContent(Op) => journal'[pos].post = Op.content
    BY <1>3, <2>1, <2>2 DEF CompletedJournal
  <2>4. \A i \in Ops \ {pos} : journal'[i] = journal[i]
    BY <1>3, CompletedJournalType
  <2> QED
    BY <1>3, <2>1, <2>3, <2>4 DEF PostsAreContents, Ops
<1>4. CASE CheckPlan \/ Backup
  BY <1>1, <1>4 DEF CheckPlan, Backup, BeginBackup, CopySource, PromoteBackup
<1>5. CASE WriteJournal
  BY <1>2, <1>5 DEF WriteJournal
<1>6. CASE StartOperation
  <2>1. journal \in [Ops -> [state: JournalState, post: Hash]] /\ pos \in Ops /\ journal # <<>>
    BY <1>6 DEF StartOperation, Inv, TypeOK, PhaseOK
  <2>2. journal'[pos].state = "started" /\ \A i \in Ops \ {pos} : journal'[i] = journal[i]
    BY <1>6, <2>1 DEF StartOperation, SetEntry
  <2> QED
    BY <1>6, <2>1, <2>2 DEF StartOperation, PostsAreContents, Ops
<1>7. CASE CompleteOperation
  BY <1>1, <1>3, <1>7 DEF CompleteOperation
<1>8. CASE ValidateApply \/ VerifyTarget \/ PerformEffect \/ Commit
  BY <1>1, <1>8 DEF ValidateApply, VerifyTarget, PerformEffect, Commit
<1>9. CASE StartRollback \/ Rollback
  BY <1>1, <1>9 DEF StartRollback, Rollback, SkipEntry, VerifyUndo, PerformUndo, FinishRollback
<1>10. CASE IoError
  <2>1. UNCHANGED plan /\ (\/ UNCHANGED journal \/ journal' = NewJournal
                           \/ phase = "effected" /\ Readable /\ journal' = CompletedJournal)
    BY <1>10 DEF IoError
  <2> QED
    BY <1>1, <1>2, <1>3, <2>1
<1>11. CASE Crash \/ Editor
  BY <1>1, <1>11, EditorSteps DEF Crash, EditorStep, LossStep
<1> QED
  BY <1>4, <1>5, <1>6, <1>7, <1>8, <1>9, <1>10, <1>11 DEF Next, Engine, Apply

-----------------------------------------------------------------------------
(* The bytes an operation takes from a path are in the backup, or move.    *)
LEMMA EffectKeeps ==
  ASSUME Inv, Extra, Kept, QuietApply, phase = "verified", tree' = Effect(Op, tree),
         NEW p \in Path, IsFile(tree, p), tree'[p] # tree[p]
  PROVE  BytesKept(p)
<1>1. /\ pos \in Ops /\ Op \in PatchOperation /\ journal # <<>> /\ ContentOk(plan)
      /\ tree \in Tree /\ Op.path \in Path /\ Op.to \in Path
  BY CursorFacts DEF Inv, TypeOK, PhaseOK, Op
<1>2. TargetReady(Op, tree) /\ Precondition(Op, base) /\ BackupIntact
  BY <1>1 DEF Kept, TargetStillReady, BackupReady, Extra, Approved, PlanOk, Op, Ops
<1>3. Op.kind \in Kind /\ (Op.kind = "rename" <=> Op.to # Op.path)
  BY <1>1 DEF PatchOperation
<1>4. p \in Touched(Op)
  BY <1>1, EffectTouches DEF ContentOk, Op, Ops
<1>5. CASE Op.kind \in {"create", "mkdir"}
  BY <1>2, <1>3, <1>4, <1>5, NodeAssumption DEF TargetReady, Exists, IsFile, Touched
<1>6. CASE Op.kind \in {"update", "delete"}
  <2>1. p = Op.path /\ HasBackup(Op)
    BY <1>3, <1>4, <1>6 DEF Touched, HasBackup
  <2>2. manifest[pos] = base[Op.path] /\ base[Op.path] \in Content /\ backup # <<>>
    <3>1. backup # <<>> /\ manifest # <<>>
      BY <1>2 DEF BackupIntact, Extra, CopiesAreApproved
    <3> QED
      BY <1>1, <2>1, <3>1 DEF Extra, CopiesAreApproved, Kept, SourcesAreFiles, Op
  <2>3. base[Op.path] = Op.expected /\ Op.expected # NoHash
    BY <1>2, <1>6, <2>2, NodeAssumption DEF Precondition, FileHash, IsFile
  <2>4. tree[p] = Op.expected
    BY <1>2, <2>1, <2>3 DEF TargetReady, FileHash, IsFile
  <2>5. backup[pos] = tree[p]
    BY <1>1, <1>2, <2>2, <2>3, <2>4 DEF BackupIntact
  <2> QED
    BY <1>1, <1>4, <2>2, <2>5 DEF BytesKept, Op
<1>7. CASE Op.kind = "rename"
  <2>1. ~Exists(tree, Op.to)
    BY <1>2, <1>7 DEF TargetReady
  <2>2. p = Op.path
    BY <1>4, <2>1, NodeAssumption DEF Touched, Exists, IsFile
  <2>3. tree'[Op.to] = tree[p]
    BY <1>1, <1>7, <2>2 DEF Effect
  <2>4. tree[Op.to] # tree[p]
    BY <2>1, NodeAssumption DEF Exists, IsFile
  <2> QED
    BY <1>1, <2>3, <2>4 DEF BytesKept
<1> QED
  BY <1>3, <1>5, <1>6, <1>7 DEF Kind

(* The bytes a rollback takes from a path are the plan's own, or move.     *)
LEMMA UndoKeeps ==
  ASSUME Inv, Extra, Kept, QuietApply, phase = "rb_verified", tree' = UndoEffect(pos),
         NEW p \in Path, IsFile(tree, p), tree'[p] # tree[p]
  PROVE  BytesKept(p)
<1>1. /\ pos \in Ops /\ Op \in PatchOperation /\ journal # <<>> /\ journal[pos].state = "completed"
      /\ backup # <<>> /\ tree \in Tree /\ Op.path \in Path /\ Op.to \in Path
  BY CursorFacts DEF Inv, TypeOK, PhaseOK, Op
<1>2. Undoable(pos)
  BY DEF Extra, UndoIsReady, QuietApply, QuietUndo
<1>3. Op.kind \in Kind /\ (Op.kind = "rename" <=> Op.to # Op.path)
  BY <1>1 DEF PatchOperation
<1>4. p \in Touched(Op)
  BY <1>1, UndoTouches DEF Inv, Op
<1>5. CASE WritesContent(Op)
  <2>1. p = Op.path /\ p = Op.to
    BY <1>3, <1>4, <1>5 DEF Touched, WritesContent
  <2>2. tree[p] = journal[pos].post
    BY <1>2, <1>5, <2>1 DEF Undoable, WritesContent, FileHash, IsFile, Op
  <2>3. journal[pos].post = Op.content
    BY <1>1, <1>5 DEF Kept, PostsAreContents, Op
  <2> QED
    BY <1>1, <1>4, <2>2, <2>3 DEF BytesKept, Op
<1>6. CASE Op.kind = "mkdir"
  BY <1>2, <1>3, <1>4, <1>6, NodeAssumption
     DEF Undoable, IsEmptyDirectory, IsFile, Touched, Op
<1>7. CASE Op.kind = "delete"
  BY <1>2, <1>3, <1>4, <1>7, NodeAssumption DEF Undoable, Exists, IsFile, Touched, Op
<1>8. CASE Op.kind = "rename"
  <2>1. ~Exists(tree, Op.path)
    BY <1>2, <1>8 DEF Undoable, Op
  <2>2. p = Op.to
    BY <1>4, <2>1, NodeAssumption DEF Touched, Exists, IsFile
  <2>3. tree'[Op.path] = tree[p]
    BY <1>1, <1>8, <2>2 DEF UndoEffect, Op
  <2>4. tree[Op.path] # tree[p]
    BY <2>1, NodeAssumption DEF Exists, IsFile
  <2> QED
    BY <1>1, <2>3, <2>4 DEF BytesKept
<1> QED
  BY <1>3, <1>5, <1>6, <1>7, <1>8 DEF Kind, WritesContent

(* Nothing else changes the tree, without counting as an edit.             *)
LEMMA OnlyEffects ==
  ASSUME Inv, [Next]_vars, used' = used, tree' # tree
  PROVE  \/ phase = "verified" /\ tree' = Effect(Op, tree)
         \/ phase = "rb_verified" /\ tree' = UndoEffect(pos)
<1>1. used.edits \in Int /\ used \in Used
  BY BoundAssumption DEF Inv, TypeOK, Used
<1>2. [used EXCEPT !.edits = @ + 1] # used
  BY <1>1 DEF Used
<1>3. ~Editor
  BY <1>2 DEF Editor, EditorSave, EditorDelete, LoseBackup
<1>4. CASE CheckPlan \/ Backup
  BY <1>4 DEF CheckPlan, Backup, BeginBackup, CopySource, PromoteBackup, disk
<1>5. CASE Apply
  BY <1>5 DEF Apply, ValidateApply, WriteJournal, StartOperation, VerifyTarget, PerformEffect,
              CompleteOperation, Commit, disk
<1>6. CASE StartRollback \/ Rollback
  BY <1>6 DEF StartRollback, Rollback, SkipEntry, VerifyUndo, PerformUndo, FinishRollback, disk
<1>7. CASE IoError \/ Crash
  BY <1>7 DEF IoError, Crash, disk
<1> QED
  BY <1>3, <1>4, <1>5, <1>6, <1>7 DEF Next, Engine, vars

(* With that editor the invariant holds in every reachable state.          *)
LEMMA KeptHolds == Spec => []Kept
<1>1. Init => Kept
  BY DEF Init, Kept, BackupReady, SourcesAreFiles, TargetStillReady, ContentInPlace,
         PostsAreContents
<1>2. Inv /\ Extra /\ Kept /\ [Next]_vars => Kept'
  <2>1. ASSUME Kept, UNCHANGED vars PROVE Kept'
    <3>1. BackupReady' /\ SourcesAreFiles' /\ PostsAreContents'
      BY <2>1 DEF vars, Kept, BackupReady, BackupIntact, SourcesAreFiles, PostsAreContents, Ops
    <3>2. TargetStillReady' /\ ContentInPlace'
      BY <2>1 DEF vars, Kept, TargetStillReady, ContentInPlace, Op
    <3> QED
      BY <3>1, <3>2 DEF Kept
  <2> QED
    BY <2>1, BackupReadyStep, SourcesStep, TargetStep, ContentsPostStep DEF Kept
<1> QED
  BY <1>1, <1>2, ExtraHolds, PTL DEF Spec

(***************************************************************************)
(* The engine destroys no bytes it cannot bring back, for every plan and   *)
(* every course of crashes, I/O errors, damages to the backup and edits    *)
(* outside the steps between a check and its use: what it takes from a     *)
(* path is in the backup, or is the plan's own content, or has moved       *)
(* (apply.py 296-312, rollback.py 185, 226, 259, 305).                     *)
(***************************************************************************)
THEOREM EngineLosesNothingHolds == ASSUME QuietApply PROVE Spec => EngineLosesNothing
<1>1. ASSUME Inv, Extra, Kept, [Next]_vars, used' = used,
             NEW p \in Path, IsFile(tree, p), tree'[p] # tree[p]
      PROVE  BytesKept(p)
  BY <1>1, OnlyEffects, EffectKeeps, UndoKeeps
<1>2. Inv /\ Extra /\ Kept /\ [Next]_vars =>
        (used' = used => \A p \in Path : IsFile(tree, p) /\ tree'[p] # tree[p] => BytesKept(p))
  BY <1>1
<1> QED
  BY <1>2, KeptHolds, ExtraHolds, PTL DEF Spec, EngineLosesNothing

-----------------------------------------------------------------------------
(* The refinement.                                                         *)

(* The phases of a transaction that has not ended in any way.              *)
Early == {"planned", "checked", "copying", "backed_up", "journaling",
          "applying", "started", "verified", "effected"}

(* Until somebody else writes, what was approved is what was there.        *)
Alone == used.edits = 0 => edited = {} /\ (phase = "planned" => tree = base)

EarlyIsOpen == phase \in Early => status = "none" /\ used.rollbacks = 0

(* What is known of the transaction, spelt out.                            *)
OutcomeSays ==
  used.edits = 0 =>
    /\ status \in {"committed", "rolled_back"} => Outcome = status
    /\ status \in {"raised", "failed"} => Outcome = "stopped"
    /\ status = "none" => Outcome = IF phase \in {"crashed", "rolling_back", "rb_verified"}
                                      THEN "stopped" ELSE "open"

(* The outcome that the mapping shows is that of the answer, before and    *)
(* after a step.                                                           *)
LEMMA OutcomeIs == OutcomeSays /\ OutcomeSays'
BY DEF OutcomeSays, Outcome

(* Only a step of the editor counts as an edit.                            *)
LEMMA EditsCount ==
  ASSUME Inv, Next
  PROVE  /\ Editor => used'.edits > 0
         /\ ~Editor => used'.edits = used.edits
         /\ used.edits \in Nat
<1>1. used \in Used /\ used.edits \in Nat
  BY BoundAssumption DEF Inv, TypeOK, Used
<1>2. Editor => used'.edits = used.edits + 1
  <2>1. [used EXCEPT !.edits = @ + 1].edits = used.edits + 1
    BY <1>1 DEF Used
  <2>2. Editor => used' = [used EXCEPT !.edits = @ + 1]
    BY DEF Editor, EditorSave, EditorDelete, LoseBackup
  <2> QED
    BY <2>1, <2>2
<1>3. CheckPlan \/ Backup \/ Apply \/ Rollback => UNCHANGED used
  <2>1. CheckPlan \/ Backup => UNCHANGED used
    BY DEF CheckPlan, Backup, BeginBackup, CopySource, PromoteBackup, history
  <2>2. Apply => UNCHANGED used
    BY DEF Apply, ValidateApply, WriteJournal, StartOperation, VerifyTarget, PerformEffect,
           CompleteOperation, Commit, history
  <2>3. Rollback => UNCHANGED used
    BY DEF Rollback, SkipEntry, VerifyUndo, PerformUndo, FinishRollback, history
  <2> QED
    BY <2>1, <2>2, <2>3
<1>4. StartRollback \/ IoError \/ Crash => used'.edits = used.edits
  <2>1. /\ [used EXCEPT !.rollbacks = @ + 1].edits = used.edits
        /\ [used EXCEPT !.faults = @ + 1].edits = used.edits
        /\ [used EXCEPT !.crashes = @ + 1].edits = used.edits
    BY <1>1 DEF Used
  <2>2. /\ StartRollback => used' = [used EXCEPT !.rollbacks = @ + 1]
        /\ IoError => used' = [used EXCEPT !.faults = @ + 1]
        /\ Crash => used' = [used EXCEPT !.crashes = @ + 1]
    BY DEF StartRollback, IoError, Crash
  <2> QED
    BY <2>1, <2>2
<1> QED
  BY <1>1, <1>2, <1>3, <1>4 DEF Next, Engine

(* Until the first edit no path counts as edited, and a new plan is for    *)
(* the approved tree.                                                      *)
LEMMA AloneStep == ASSUME Inv, Alone, Next PROVE Alone'
<1> SUFFICES ASSUME ~Editor, used.edits = 0, edited = {} PROVE edited' = {} /\ phase' # "planned"
  BY EditsCount DEF Alone
<1>1. CASE Engine
  BY <1>1 DEF Engine, CheckPlan, Backup, BeginBackup, CopySource, PromoteBackup, Apply,
              ValidateApply, WriteJournal, StartOperation, VerifyTarget, PerformEffect,
              CompleteOperation, Commit, Rollback, SkipEntry, VerifyUndo, PerformUndo,
              FinishRollback, history, Return
<1>2. CASE StartRollback \/ IoError \/ Crash
  BY <1>2 DEF StartRollback, IoError, Crash, Return
<1> QED
  BY <1>1, <1>2 DEF Next

(* Before the apply there is no answer and there was no rollback.          *)
LEMMA EarlyStep == ASSUME Inv, EarlyIsOpen, Next PROVE EarlyIsOpen'
<1> USE DEF EarlyIsOpen, Early, Return, outcome, history
<1>1. CASE CheckPlan \/ Backup
  BY <1>1 DEF CheckPlan, Backup, BeginBackup, CopySource, PromoteBackup
<1>2. CASE Apply
  BY <1>2 DEF Apply, ValidateApply, WriteJournal, StartOperation, VerifyTarget, PerformEffect,
              CompleteOperation, Commit
<1>3. CASE StartRollback \/ Rollback
  BY <1>3 DEF StartRollback, Rollback, SkipEntry, VerifyUndo, PerformUndo, FinishRollback
<1>4. CASE IoError \/ Crash
  BY <1>4 DEF IoError, Crash
<1>5. CASE Editor
  BY <1>5, EditorSteps DEF EditorStep, LossStep
<1> QED
  BY <1>1, <1>2, <1>3, <1>4, <1>5 DEF Next, Engine

(* The two modules mean the same by an operation in effect.                *)
LEMMA SameMeaning ==
  /\ Reversible!Ops = Ops
  /\ \A i : Reversible!Performed(i) <=> InEffect(i)
  /\ \A i : Reversible!NotPerformed(i) <=> NotInEffect(i)
  /\ \A op, t : Reversible!Effect(op, t) = Effect(op, t)
  /\ \A op : Reversible!Touched(op) = Touched(op)
BY DEF Reversible!Ops, Ops, Reversible!Performed, InEffect, Reversible!NotPerformed, NotInEffect,
       Reversible!Effect, Effect, Reversible!Touched, Touched, Reversible!WritesContent,
       WritesContent

(* The operation under the cursor is the next one of the plan.             *)
LEMMA NextToPerform ==
  ASSUME Inv, Base, Extra, edited = {}, used.rollbacks = 0, phase = "verified"
  PROVE  \A j \in Ops : IF j < pos THEN InEffect(j) ELSE NotInEffect(j)
<1> TAKE j \in Ops
<1>1. journal # <<>> /\ pos \in Ops /\ Undisturbed(j)
  BY DEF Inv, PhaseOK, Undisturbed
<1>2. CASE j < pos
  <2>1. Journalled(j, "completed")
    BY <1>1, <1>2 DEF Extra, EntriesFollowCursor, Journalled
  <2> QED
    BY <1>1, <1>2, <2>1 DEF Extra, JournalTruthful
<1>3. CASE j = pos
  <2>1. \A p \in Touched(plan[pos]) \ edited : tree[p] = base[p]
    BY DEF Extra, CursorIsClean, Op
  <2>2. \A p \in Touched(plan[pos]) : p \notin edited
    OBVIOUS
  <2> QED
    BY <1>1, <1>3, <2>1, <2>2, CursorFacts DEF NotInEffect
<1>4. CASE j > pos
  BY <1>1, <1>4, PendingIsAbsent DEF Extra, EntriesFollowCursor, Journalled
<1> QED
  BY <1>1, <1>2, <1>3, <1>4, CursorFacts

(* What a rollback is about to undo is in effect.                          *)
LEMMA UndoableIsInEffect ==
  ASSUME QuietApply, Inv, Extra, Kept, phase = "rb_verified"
  PROVE  InEffect(pos)
<1>1. /\ pos \in Ops /\ Op \in PatchOperation /\ journal # <<>> /\ journal[pos].state = "completed"
      /\ Op.path \in Path /\ Op.to \in Path /\ tree \in Tree /\ base \in Tree
  BY CursorFacts DEF Inv, TypeOK, PhaseOK, Op
<1>2. Undoable(pos) /\ Precondition(Op, base)
  BY <1>1 DEF Extra, UndoIsReady, QuietApply, QuietUndo, Approved, PlanOk, Ops, Op
<1>3. Op.kind \in Kind /\ (Op.kind = "rename" <=> Op.to # Op.path)
  BY <1>1 DEF PatchOperation
<1>4. CASE Op.kind \in {"create", "update"}
  <2>1. FileHash(tree, Op.path) = Op.content /\ Op.content # NoHash
    BY <1>1, <1>2, <1>3, <1>4 DEF Undoable, Kept, PostsAreContents, WritesContent, Op
  <2>2. tree[Op.path] = Op.content
    BY <2>1 DEF FileHash
  <2> QED
    BY <1>1, <1>3, <1>4, <2>2 DEF InEffect, Touched, Effect, WritesContent, Op
<1>5. CASE Op.kind = "delete"
  <2>1. tree[Op.path] = Absent
    BY <1>2, <1>5 DEF Undoable, Exists, Op
  <2> QED
    BY <1>1, <1>3, <1>5, <2>1 DEF InEffect, Touched, Effect, WritesContent, Op
<1>6. CASE Op.kind = "mkdir"
  <2>1. tree[Op.path] = Directory
    BY <1>2, <1>6 DEF Undoable, IsEmptyDirectory, Op
  <2> QED
    BY <1>1, <1>3, <1>6, <2>1 DEF InEffect, Touched, Effect, WritesContent, Op
<1>7. CASE Op.kind = "rename"
  <2>1. tree[Op.path] = Absent /\ FileHash(tree, Op.to) = Op.expected /\ Op.expected # NoHash
    BY <1>1, <1>2, <1>7 DEF Undoable, Exists, Extra, RenamePosts, Op
  <2>2. FileHash(base, Op.path) = Op.expected
    BY <1>2, <1>7, <2>1 DEF Precondition
  <2>3. tree[Op.to] = base[Op.path]
    BY <2>1, <2>2 DEF FileHash
  <2> QED
    BY <1>1, <1>3, <1>7, <2>1, <2>3 DEF InEffect, Touched, Effect, WritesContent, Op
<1> QED
  BY <1>3, <1>4, <1>5, <1>6, <1>7 DEF Kind

(* At most the operation in doubt is left in effect.                       *)
LEMMA OneInDoubt ==
  ASSUME Inv, Extra, Recoverable, edited = {}, journal # <<>>,
         \A p \in Path \ edited :
            \/ tree[p] = base[p]
            \/ \E i \in Ops : p \in Touched(plan[i]) /\ Journalled(i, "started")
  PROVE  \A i, j \in Ops : NotInEffect(i) \/ NotInEffect(j) \/ i = j
<1>1. ASSUME NEW i \in Ops, ~NotInEffect(i) PROVE journal[i].state = "started"
  <2>1. PICK p \in Touched(plan[i]) : tree[p] # base[p]
    BY <1>1 DEF NotInEffect
  <2>2. p \in Path \ edited
    BY CursorFacts DEF Touched
  <2>3. PICK k \in Ops : p \in Touched(plan[k]) /\ Journalled(k, "started")
    BY <2>1, <2>2
  <2>4. k = i
    BY <2>1, <2>3 DEF Extra, Validated, NoOverlap, Ops
  <2> QED
    BY <2>3, <2>4 DEF Journalled
<1>2. ASSUME NEW i \in Ops, NEW j \in Ops, journal[i].state = "started", journal[j].state = "started"
      PROVE  i = j
  BY <1>2, CursorFacts DEF Recoverable, EntriesInOrder
<1> QED
  BY <1>1, <1>2

(* Each step of the engine is a step of ReversiblePatch under the mapping, *)
(* or a stutter.                                                           *)
LEMMA AbstractStep ==
  ASSUME QuietApply, Inv, Base, Extra, Recoverable, Kept, Alone, EarlyIsOpen, Next,
         Extra', EarlyIsOpen'
  PROVE  [Reversible!Next]_(Reversible!vars)
<1> USE DEF disk, safety, outcome, history, Return
<1>1. plan' = plan
  BY JournalSteps
<1>2. CASE used'.edits > 0
  BY <1>1, <1>2 DEF Outcome, Reversible!Next, Reversible!Interfere
<1>3. CASE ~(used'.edits > 0)
  <2>1. ~Editor /\ used.edits = 0 /\ used'.edits = 0 /\ edited = {} /\ (phase = "planned" => tree = base)
    BY <1>3, EditsCount DEF Alone
  <2>2. status \in Status /\ (status \in {"committed", "rolled_back"} => phase = "done")
    BY DEF Inv, TypeOK, Extra, AnswersAreFinal
  <2>a. phase \in {"rolling_back", "rb_verified", "crashed"} => Outcome = "stopped"
    BY <2>1, <2>2, OutcomeIs DEF OutcomeSays, Status
  <2>b. phase \in Early => Outcome = "open" /\ status = "none" /\ used.rollbacks = 0
    BY <2>1, OutcomeIs DEF OutcomeSays, EarlyIsOpen, Early
  <2>c. status' \in {"raised", "failed"} => Outcome' = "stopped"
    BY <2>1, OutcomeIs DEF OutcomeSays
  <2>d. phase' \in Early => Outcome' = "open"
    BY <2>1, OutcomeIs DEF OutcomeSays, EarlyIsOpen, Early
  <2>e. status' \notin {"committed", "rolled_back"} /\ status' \in Status
          /\ phase' \in {"rolling_back", "rb_verified", "crashed"} => Outcome' = "stopped"
    BY <2>1, OutcomeIs DEF OutcomeSays, Status
  <2>3. ASSUME UNCHANGED <<tree, base>>,
               Outcome' = Outcome \/ (Outcome = "open" /\ Outcome' = "stopped")
        PROVE  [Reversible!Next]_(Reversible!vars)
    BY <1>1, <2>3 DEF Reversible!vars, Reversible!Next, Reversible!Stop
  <2>4. CASE CheckPlan \/ Backup
    <3>1. /\ phase \in Early /\ UNCHANGED <<tree, base>>
          /\ phase' \in Early \/ status' \in {"raised", "failed"}
      BY <2>1, <2>4 DEF CheckPlan, Backup, BeginBackup, CopySource, PromoteBackup, Early
    <3> QED
      BY <2>3, <2>b, <2>c, <2>d, <3>1
  <2>5. CASE ValidateApply \/ WriteJournal \/ StartOperation \/ VerifyTarget \/ CompleteOperation
    <3>1. /\ phase \in Early /\ UNCHANGED <<tree, base>>
          /\ phase' \in Early \/ status' = "failed"
      BY <2>5 DEF ValidateApply, WriteJournal, StartOperation, VerifyTarget, CompleteOperation,
                  Early
    <3> QED
      BY <2>3, <2>b, <2>c, <2>d, <3>1
  <2>6. CASE PerformEffect
    <3>1. phase = "verified" /\ pos \in Ops /\ UNCHANGED base
      BY <2>6 DEF PerformEffect, Inv, PhaseOK
    <3>2. CASE status' = "failed" /\ UNCHANGED tree
      BY <2>3, <2>b, <2>c, <3>1, <3>2 DEF Early
    <3>3. CASE tree' = Effect(Op, tree) /\ phase' = "effected"
      <4>1. \A j \in Ops : IF j < pos THEN InEffect(j) ELSE NotInEffect(j)
        BY <2>1, <2>b, <3>1, NextToPerform DEF Early
      <4>2. Outcome = "open" /\ Outcome' = "open"
        BY <2>b, <2>d, <3>1, <3>3 DEF Early
      <4>3. Reversible!Perform(pos)
        BY <1>1, <3>1, <3>3, <4>1, <4>2, SameMeaning DEF Reversible!Perform, Op
      <4> QED
        BY <3>1, <4>3, SameMeaning DEF Reversible!Next
    <3> QED
      BY <2>6, <3>2, <3>3 DEF PerformEffect
  <2>7. CASE Commit
    <3>1. /\ phase = "applying" /\ status' = "committed" /\ UNCHANGED <<tree, base>>
          /\ \A i \in Ops : Journalled(i, "completed")'
      BY <2>7 DEF Commit, Extra, AnswersAreFinal, Ops
    <3>2. \A i \in Ops : InEffect(i)
      <4>1. UNCHANGED journal
        BY <2>7 DEF Commit
      <4>2. \A i \in Ops : Journalled(i, "completed") /\ Undisturbed(i)
        BY <2>1, <3>1, <4>1 DEF Journalled, Undisturbed
      <4> QED
        BY <2>b, <3>1, <4>2 DEF Extra, JournalTruthful, Early
    <3>3. Outcome = "open" /\ Outcome' = "committed"
      BY <2>1, <2>b, <3>1, OutcomeIs DEF OutcomeSays, Early
    <3> QED
      BY <1>1, <3>1, <3>2, <3>3, SameMeaning DEF Reversible!Next, Reversible!Commit
  <2>8. CASE StartRollback
    <3>1. /\ phase \in {"done", "crashed"} /\ phase' = "rolling_back" /\ status' = status
          /\ status \notin {"committed", "rolled_back"} /\ UNCHANGED <<tree, base>>
      BY <2>8 DEF StartRollback, CanRollback
    <3>2. Outcome \in {"open", "stopped"}
      BY <2>1, <2>2, <3>1, OutcomeIs DEF OutcomeSays, Status
    <3> QED
      BY <2>2, <2>3, <2>e, <3>1, <3>2
  <2>9. CASE SkipEntry \/ VerifyUndo
    <3>1. /\ phase = "rolling_back" /\ phase' \in {"rolling_back", "rb_verified"}
          /\ UNCHANGED <<tree, base, status>>
      BY <2>9 DEF SkipEntry, VerifyUndo
    <3> QED
      BY <2>2, <2>3, <2>a, <2>e, <3>1
  <2>10. CASE PerformUndo
    <3>1. /\ phase = "rb_verified" /\ phase' = "rolling_back" /\ UNCHANGED <<base, status>>
          /\ UNCHANGED tree \/ tree' = UndoEffect(pos)
      BY <2>10 DEF PerformUndo
    <3>2. Outcome = "stopped" /\ Outcome' = "stopped"
      BY <2>2, <2>a, <2>e, <3>1
    <3>3. CASE tree' = UndoEffect(pos)
      <4>1. pos \in Ops /\ InEffect(pos)
        BY <3>1, UndoableIsInEffect DEF Inv, PhaseOK
      <4>2. \A p \in Touched(Op) : UndoEffect(pos)[p] = base[p]
        BY <3>1, UndoRestores DEF Extra, UndoIsReady, QuietApply, QuietUndo
      <4>3. tree' = [p \in Path |-> IF p \in Touched(Op) THEN base[p] ELSE tree[p]]
        BY <3>3, <4>2 DEF UndoEffect, Touched, Op
      <4>4. Reversible!Undo(pos)
        BY <1>1, <3>1, <3>2, <4>1, <4>3, SameMeaning DEF Reversible!Undo, Op
      <4> QED
        BY <4>1, <4>4, SameMeaning DEF Reversible!Next
    <3> QED
      BY <2>3, <3>1, <3>2, <3>3
  <2>11. CASE FinishRollback
    <3>1. /\ phase = "rolling_back" /\ status' \in {"rolled_back", "failed"}
          /\ UNCHANGED <<tree, base, edited, journal>> /\ journal # <<>>
      BY <2>11 DEF FinishRollback, Inv, PhaseOK
    <3>2. CASE status' = "failed"
      BY <2>3, <2>a, <2>c, <3>1, <3>2
    <3>3. CASE status' = "rolled_back"
      <4>1. RolledBackRestores'
        BY DEF Extra, RolledBackTruly, QuietApply, QuietUndo
      <4>2. \A p \in Path \ edited :
               \/ tree[p] = base[p]
               \/ \E i \in Ops : p \in Touched(plan[i]) /\ Journalled(i, "started")
        BY <1>1, <3>1, <3>3, <4>1 DEF RolledBackRestores, Journalled, Ops
      <4>3. \A i, j \in Ops : NotInEffect(i) \/ NotInEffect(j) \/ i = j
        BY <2>1, <3>1, <4>2, OneInDoubt
      <4>4. Outcome = "stopped" /\ Outcome' = "rolled_back"
        BY <2>1, <2>a, <3>1, <3>3, OutcomeIs DEF OutcomeSays
      <4> QED
        BY <1>1, <3>1, <4>3, <4>4, SameMeaning DEF Reversible!Next, Reversible!FinishRollback
    <3> QED
      BY <3>1, <3>2, <3>3
  <2>12. CASE IoError
    <3>1. UNCHANGED <<tree, base>>
      BY <2>12 DEF IoError
    <3>2. \/ phase \in Early /\ status' \in {"raised", "failed"}
          \/ phase = "rb_verified" /\ phase' = "rolling_back" /\ status' = status
      BY <2>12 DEF IoError, Early
    <3> QED
      BY <2>2, <2>3, <2>a, <2>b, <2>c, <2>e, <3>1, <3>2
  <2>13. CASE Crash
    <3>1. /\ phase \in Early \cup {"rolling_back", "rb_verified"} /\ phase' = "crashed"
          /\ status' = "none" /\ UNCHANGED <<tree, base>>
      BY <2>13 DEF Crash, Early, Inv, TypeOK, Phase
    <3> QED
      BY <2>3, <2>a, <2>b, <2>e, <3>1 DEF Status
  <2> QED
    BY <2>1, <2>4, <2>5, <2>6, <2>7, <2>8, <2>9, <2>10, <2>11, <2>12, <2>13
       DEF Next, Engine, Apply, Rollback
<1> QED
  BY <1>2, <1>3

(***************************************************************************)
(* Every course of a transaction is one of the abstract reversible patch:  *)
(* for as long as nobody else writes, the tree is the approved tree with   *)
(* some operations of the plan performed, each of them entirely or not at  *)
(* all, all of them when it is committed, and at most the one in doubt     *)
(* when it is rolled back (apply.py 271-391, rollback.py 90-340).          *)
(***************************************************************************)
THEOREM ReversiblePatchHolds == ASSUME QuietApply PROVE Spec => ImplementsReversiblePatch
<1>1. Init => Reversible!Init /\ Alone /\ EarlyIsOpen
  BY DEF Init, Reversible!Init, Outcome, Alone, EarlyIsOpen
<1>2. Inv /\ Alone /\ EarlyIsOpen /\ [Next]_vars => Alone' /\ EarlyIsOpen'
  <2>1. ASSUME Alone, EarlyIsOpen, UNCHANGED vars PROVE Alone' /\ EarlyIsOpen'
    BY <2>1 DEF vars, Alone, EarlyIsOpen
  <2> QED
    BY <2>1, AloneStep, EarlyStep
<1>3. ASSUME Inv, Base, Extra, Recoverable, Kept, Alone, EarlyIsOpen, [Next]_vars,
             Extra', EarlyIsOpen'
      PROVE  [Reversible!Next]_(Reversible!vars)
  <2>1. UNCHANGED vars => UNCHANGED Reversible!vars
    BY DEF vars, Reversible!vars, Outcome
  <2> QED
    BY <1>3, <2>1, AbstractStep
<1>4. Inv /\ Base /\ Extra /\ Recoverable /\ Kept /\ Alone /\ EarlyIsOpen /\ [Next]_vars
        /\ Extra' /\ EarlyIsOpen' => [Reversible!Next]_(Reversible!vars)
  BY <1>3
<1> QED
  BY <1>1, <1>2, <1>4, KeptHolds, RecoverableHolds, ExtraHolds, PTL
     DEF Spec, ImplementsReversiblePatch, Reversible!Spec

-----------------------------------------------------------------------------
(* A rollback that may be repeated.                                        *)

WellFormed(t) == \A p \in Path : Exists(t, p) => ParentIsDir(t, p)

(* The kinds that put something where nothing was.                         *)
Places == {"create", "mkdir", "rename"}

(* The trees are file trees, and directories that were approved stay.      *)
TreesAreWhole ==
  /\ WellFormed(tree) /\ WellFormed(base)
  /\ \A p \in Path : base[p] = Directory => tree[p] = Directory
  /\ phase = "verified" /\ Op.kind \in Places => ParentIsDir(tree, Op.to)

(* A temporary file lies beside a file that was approved, or beside one    *)
(* whose create is in doubt.                                               *)
StraysAreKnown ==
  /\ \A q \in strays : \E i \in Ops :
        /\ q = plan[i].path
        /\ plan[i].kind \in {"update", "delete"}
             \/ (plan[i].kind = "create" /\ Journalled(i, "started"))
  /\ phase = "effected" => Op.path \notin strays

(* While nobody edits, what a rollback has checked is so when it acts.     *)
UndoIsReadyAlone == edited = {} /\ phase = "rb_verified" => Undoable(pos)

(* While nobody edits, a post hash is that of the operation's content.     *)
PostsAreWritten ==
  edited = {} /\ journal # <<>> =>
    \A i \in Ops : WritesContent(plan[i]) /\ journal[i].state = "completed"
                     => journal[i].post = plan[i].content

(* What is put into a directory the plan makes, is put there later.        *)
DirectoriesFirst ==
  edited = {} =>
    \A i, j \in Ops :
       j < i /\ plan[i].kind = "mkdir" /\ Journalled(j, "completed") /\ plan[j].kind \in Places
         => Parent[plan[j].to] # plan[i].path

(* While nobody edits, a completed operation is in effect or undone.       *)
AllOrNothing ==
  edited = {} => \A i \in Ops : Journalled(i, "completed") => InEffect(i) \/ NotInEffect(i)

(* A backup file is whole or gone.                                         *)
BackupDecays == backup # <<>> => \A i \in Ops : backup[i] \in {manifest[i], Absent}

(* Whoever rolls back has a journal and a backup.                          *)
RollbacksHaveAll == used.rollbacks # 0 => journal # <<>> /\ backup # <<>>

(* The conflicts of a rollback are behind its cursor.                      *)
ConflictsFollowCursor ==
  phase \in {"rolling_back", "rb_verified"} =>
    \A i \in Ops : i <= pos => conflicts[i] = "none"

(* Nothing stands in the way of the rollback: the files are untouched, the *)
(* backup is whole, no operation is in doubt, no I/O call has failed, and  *)
(* every rename declares its hash.                                         *)
Clear ==
  /\ edited = {} /\ backup = manifest
  /\ \A i \in Ops : /\ conflicts[i] # "io"
                    /\ journal[i].state # "started"
                    /\ plan[i].kind = "rename" => plan[i].expected # NoHash

(* Then all behind the cursor is as approved, conflicts or not.            *)
UndoneBehindCursor ==
  Clear =>
    /\ phase \in {"rolling_back", "rb_verified"} => \A i \in Ops : i > pos => NotInEffect(i)
    /\ phase = "done" /\ used.rollbacks # 0 => \A i \in Ops : NotInEffect(i)

Converging ==
  /\ TreesAreWhole /\ StraysAreKnown /\ UndoIsReadyAlone /\ PostsAreWritten /\ DirectoriesFirst
  /\ AllOrNothing /\ EarlyIsOpen /\ BackupDecays /\ RollbacksHaveAll /\ ConflictsFollowCursor
  /\ UndoneBehindCursor

(* The steps that change the tree.                                         *)
EditedAt(p) ==
  /\ edited' # {} /\ tree[p] # Directory
  /\ \E x \in Content \cup {Absent} :
        /\ tree' = [tree EXCEPT ![p] = x]
        /\ x # Absent => ParentIsDir(tree, p)
  /\ UNCHANGED <<base, plan, phase, pos>>

(* The tree is changed by the effect of an operation, by an undo and by an *)
(* edit, and by nothing else.                                              *)
LEMMA TreeSteps ==
  ASSUME Inv, Next
  PROVE  \/ UNCHANGED tree
         \/ PerformEffect /\ SyscallOk(Op, tree) /\ tree' = Effect(Op, tree)
         \/ PerformUndo /\ UndoSyscallOk(Op) /\ tree' = UndoEffect(pos)
         \/ \E p \in Path : EditedAt(p)
<1>1. CASE CheckPlan \/ Backup
  BY <1>1 DEF CheckPlan, Backup, BeginBackup, CopySource, PromoteBackup, disk
<1>2. CASE Apply
  BY <1>2 DEF Apply, ValidateApply, WriteJournal, StartOperation, VerifyTarget, PerformEffect,
              CompleteOperation, Commit, disk
<1>3. CASE StartRollback \/ Rollback
  BY <1>3 DEF StartRollback, Rollback, SkipEntry, VerifyUndo, PerformUndo, FinishRollback, disk
<1>4. CASE IoError \/ Crash
  BY <1>4 DEF IoError, Crash, disk
<1>5. ASSUME NEW p \in Path, EditorDelete(p) PROVE EditedAt(p)
  <2>1. tree[p] # Directory
    BY <1>5, NodeAssumption DEF EditorDelete, IsFile
  <2> QED
    BY <1>5, <2>1 DEF EditorDelete, EditedAt
<1>6. ASSUME NEW p \in Path, NEW c \in Content, EditorSave(p, c) PROVE EditedAt(p)
  BY <1>6 DEF EditorSave, EditedAt
<1>7. ASSUME NEW i \in DOMAIN backup, LoseBackup(i) PROVE UNCHANGED tree
  BY <1>7 DEF LoseBackup, disk
<1> QED
  BY <1>1, <1>2, <1>3, <1>4, <1>5, <1>6, <1>7 DEF Next, Engine, Editor

(* An operation keeps a file tree one, and every directory in it.          *)
LEMMA EffectKeepsTrees ==
  ASSUME NEW t \in Tree, NEW op \in PatchOperation, WellFormed(t), SyscallOk(op, t),
         ParentIsDir(t, op.to), WritesContent(op) => op.content \in Content
  PROVE  /\ WellFormed(Effect(op, t))
         /\ \A p \in Path : t[p] = Directory => Effect(op, t)[p] = Directory
<1> DEFINE n == Effect(op, t)
<1>1. op.path \in Path /\ op.to \in Path /\ op.kind \in Kind
      /\ (op.kind = "rename" <=> op.to # op.path)
  BY DEF PatchOperation
<1>2. ASSUME NEW p \in Path, t[p] = Directory PROVE n[p] = Directory
  BY <1>1, <1>2, NodeAssumption DEF Effect, SyscallOk, WritesContent, IsFile, Exists, Kind
<1>3. ASSUME NEW p \in Path, n[p] # Absent PROVE ParentIsDir(t, p)
  BY <1>1, <1>3, NodeAssumption DEF Effect, WellFormed, WritesContent, Exists, Kind
<1>4. ASSUME NEW p \in Path, ParentIsDir(t, p) PROVE ParentIsDir(n, p)
  BY <1>2, <1>4, PathAssumption DEF ParentIsDir
<1> HIDE DEF n
<1>5. WellFormed(n)
  BY <1>3, <1>4 DEF WellFormed, Exists
<1> QED
  BY <1>2, <1>5 DEF n

(* So does undoing one, whatever the backup holds.                         *)
LEMMA UndoKeepsTrees ==
  ASSUME Inv, WellFormed(tree), WellFormed(base), pos \in Ops, backup # <<>>,
         \A p \in Path : base[p] = Directory => tree[p] = Directory,
         Precondition(Op, base), UndoSyscallOk(Op)
  PROVE  /\ WellFormed(UndoEffect(pos))
         /\ \A p \in Path : base[p] = Directory => UndoEffect(pos)[p] = Directory
<1> DEFINE n == UndoEffect(pos)
<1>1. /\ Op.path \in Path /\ Op.to \in Path /\ Op.kind \in Kind
      /\ (Op.kind = "rename" <=> Op.to # Op.path)
  BY CursorFacts DEF Op, PatchOperation
<1>2. Op = plan[pos]
  BY DEF Op
<1>3. CASE Op.kind = "mkdir"
  <2>1. /\ tree[Op.path] = Directory /\ base[Op.path] = Absent
        /\ \A q \in Path : Parent[q] = Op.path => tree[q] = Absent
        /\ n = [p \in Path |-> IF p = Op.path THEN Absent ELSE tree[p]]
    BY <1>1, <1>2, <1>3 DEF UndoSyscallOk, IsEmptyDirectory, Exists, Precondition, UndoEffect,
       HasBackup
  <2> HIDE DEF n
  <2>2. \A p \in Path : base[p] = Directory => n[p] = Directory
    BY <2>1, NodeAssumption
  <2>3. ASSUME NEW p \in Path, n[p] # Absent PROVE ParentIsDir(n, p)
    <3>1. n[p] = tree[p] /\ Parent[p] # Op.path /\ ParentIsDir(tree, p)
      BY <2>1, <2>3 DEF WellFormed, Exists
    <3> QED
      BY <2>1, <3>1, PathAssumption DEF ParentIsDir
  <2> QED
    BY <2>2, <2>3 DEF WellFormed, Exists, n
<1>4. CASE Op.kind # "mkdir"
  <2>1. ASSUME NEW p \in Path, tree[p] = Directory PROVE n[p] = Directory
    <3>1. p # Op.path /\ p # Op.to
      BY <1>1, <1>4, <2>1, NodeAssumption DEF UndoSyscallOk, IsFile, Kind
    <3> QED
      BY <1>2, <2>1, <3>1 DEF UndoEffect
  <2>2. ASSUME NEW p \in Path, n[p] # Absent PROVE ParentIsDir(tree, p)
    <3>1. CASE tree[p] # Absent
      BY <3>1 DEF WellFormed, Exists
    <3>2. CASE tree[p] = Absent
      <4>1. p = Op.path /\ Op.kind \in {"update", "delete", "rename"}
        BY <1>1, <1>2, <1>4, <2>2, <3>2 DEF UndoEffect, HasBackup, Kind
      <4>2. base[p] # Absent
        BY <4>1, NodeAssumption DEF Precondition, IsFile, Exists
      <4> QED
        BY <4>2, PathAssumption DEF WellFormed, Exists, ParentIsDir
    <3> QED
      BY <3>1, <3>2
  <2> HIDE DEF n
  <2>3. ASSUME NEW p \in Path, n[p] # Absent PROVE ParentIsDir(n, p)
    <3>1. ParentIsDir(tree, p)
      BY <2>2, <2>3
    <3> QED
      BY <2>1, <3>1, PathAssumption DEF ParentIsDir
  <2> QED
    BY <2>1, <2>3 DEF WellFormed, Exists, n
<1> QED
  BY <1>3, <1>4

(* The operation being performed was found applicable, to the approved     *)
(* tree too.                                                               *)
LEMMA PerformedIsApproved ==
  ASSUME Inv, Extra, phase \in {"started", "verified", "effected", "rb_verified"}
  PROVE  /\ pos \in Ops /\ Op \in PatchOperation /\ Precondition(Op, base) /\ journal # <<>>
         /\ Op.path \in Path /\ Op.to \in Path
<1>1. pos \in Ops /\ journal # <<>>
  BY DEF Inv, PhaseOK
<1> QED
  BY <1>1, CursorFacts DEF Extra, Approved, PlanOk, Ops, Op

(* Every step leaves a tree: what exists has a directory around it.        *)
LEMMA WholeStep == ASSUME Inv, Extra, Converging, Next PROVE TreesAreWhole'
<1> USE DEF disk, safety, outcome, history, Return, Op
<1>1. /\ WellFormed(tree) /\ WellFormed(base)
      /\ \A p \in Path : base[p] = Directory => tree[p] = Directory
      /\ phase = "verified" /\ Op.kind \in Places => ParentIsDir(tree, Op.to)
  BY DEF Converging, TreesAreWhole
<1>2. base' = base \/ (base' = tree /\ tree' = tree /\ phase' # "verified")
  <2>1. CASE CheckPlan
    BY <2>1 DEF CheckPlan
  <2>2. CASE Backup \/ Apply \/ Rollback
    BY <2>2 DEF Backup, BeginBackup, CopySource, PromoteBackup, Apply, ValidateApply, WriteJournal,
       StartOperation, VerifyTarget, PerformEffect, CompleteOperation, Commit, Rollback, SkipEntry,
       VerifyUndo, PerformUndo, FinishRollback
  <2>3. CASE StartRollback \/ IoError \/ Crash
    BY <2>3 DEF StartRollback, IoError, Crash
  <2>4. CASE Editor
    BY <2>4, EditorSteps DEF EditorStep, LossStep
  <2> QED
    BY <2>1, <2>2, <2>3, <2>4 DEF Next, Engine
<1>3. phase' = "verified" =>
        \/ VerifyTarget /\ TargetReady(Op, tree) /\ UNCHANGED <<tree, plan, pos>>
        \/ phase = "verified" /\ UNCHANGED <<plan, pos>>
  <2>1. CASE CheckPlan \/ Backup
    BY <2>1 DEF CheckPlan, Backup, BeginBackup, CopySource, PromoteBackup
  <2>2. CASE Apply
    BY <2>2 DEF Apply, ValidateApply, WriteJournal, StartOperation, VerifyTarget, PerformEffect,
       CompleteOperation, Commit
  <2>3. CASE StartRollback \/ Rollback \/ IoError \/ Crash
    BY <2>3 DEF StartRollback, Rollback, SkipEntry, VerifyUndo, PerformUndo, FinishRollback, IoError,
       Crash
  <2>4. CASE Editor
    BY <2>4, EditorSteps DEF EditorStep, LossStep
  <2> QED
    BY <2>1, <2>2, <2>3, <2>4 DEF Next, Engine
<1>4. CASE UNCHANGED tree
  <2>1. phase' = "verified" /\ Op'.kind \in Places => ParentIsDir(tree', Op'.to)
    BY <1>1, <1>3, <1>4 DEF TargetReady, Places, ParentIsDir, VerifyTarget
  <2>2. /\ WellFormed(tree') /\ WellFormed(base')
        /\ \A p \in Path : base'[p] = Directory => tree'[p] = Directory
    BY <1>1, <1>2, <1>4
  <2> QED
    BY <2>1, <2>2 DEF TreesAreWhole, WellFormed, ParentIsDir, Exists
<1>5. CASE PerformEffect /\ SyscallOk(Op, tree) /\ tree' = Effect(Op, tree)
  <2>1. phase = "verified" /\ phase' # "verified" /\ base' = base
    BY <1>2, <1>5 DEF PerformEffect
  <2>2. /\ pos \in Ops /\ Op \in PatchOperation /\ Precondition(Op, base) /\ tree \in Tree
        /\ Op.path \in Path
    BY <2>1, PerformedIsApproved DEF Inv, TypeOK
  <2>3. ContentOk(plan)
    BY <2>1 DEF Inv, PhaseOK
  <2>4. WritesContent(Op) => Op.content \in Content
    BY <2>2, <2>3 DEF ContentOk, PatchOperation, Hash, Ops
  <2>5. ParentIsDir(tree, Op.to)
    <3>1. CASE Op.kind \in Places
      BY <1>1, <2>1, <3>1
    <3>2. CASE Op.kind \notin Places
      <4>1. Op.kind \in {"update", "delete"} /\ Op.to = Op.path
        BY <2>2, <3>2 DEF PatchOperation, Kind, Places
      <4>2. base[Op.path] # Absent
        BY <2>2, <4>1, NodeAssumption DEF Precondition, IsFile, Exists
      <4> QED
        BY <1>1, <2>2, <4>1, <4>2, PathAssumption DEF WellFormed, Exists, ParentIsDir
    <3> QED
      BY <3>1, <3>2
  <2>6. /\ WellFormed(Effect(Op, tree))
        /\ \A p \in Path : tree[p] = Directory => Effect(Op, tree)[p] = Directory
    BY <1>1, <1>5, <2>2, <2>4, <2>5, EffectKeepsTrees
  <2>7. /\ WellFormed(tree') /\ WellFormed(base')
        /\ \A p \in Path : base'[p] = Directory => tree'[p] = Directory
    BY <1>1, <1>5, <2>1, <2>6
  <2> QED
    BY <2>1, <2>7 DEF TreesAreWhole, WellFormed, ParentIsDir, Exists
<1>6. CASE PerformUndo /\ UndoSyscallOk(Op) /\ tree' = UndoEffect(pos)
  <2>1. phase = "rb_verified" /\ phase' # "verified" /\ base' = base /\ backup # <<>>
    BY <1>2, <1>6 DEF PerformUndo, Inv, PhaseOK
  <2>2. pos \in Ops /\ Precondition(Op, base)
    BY <2>1, PerformedIsApproved
  <2>3. /\ WellFormed(UndoEffect(pos))
        /\ \A p \in Path : base[p] = Directory => UndoEffect(pos)[p] = Directory
    BY <1>1, <1>6, <2>1, <2>2, UndoKeepsTrees
  <2>4. /\ WellFormed(tree') /\ WellFormed(base')
        /\ \A p \in Path : base'[p] = Directory => tree'[p] = Directory
    BY <1>1, <1>6, <2>1, <2>3
  <2> QED
    BY <2>1, <2>4 DEF TreesAreWhole, WellFormed, ParentIsDir, Exists
<1>7. CASE \E p \in Path : EditedAt(p)
  <2>1. PICK p \in Path : EditedAt(p)
    BY <1>7
  <2>2. PICK x \in Content \cup {Absent} :
          tree' = [tree EXCEPT ![p] = x] /\ (x # Absent => ParentIsDir(tree, p))
    BY <2>1 DEF EditedAt
  <2>3. /\ tree \in [Path -> Node] /\ tree[p] # Directory /\ base' = base
        /\ UNCHANGED <<plan, phase, pos>>
    BY <2>1 DEF EditedAt, Inv, TypeOK, Tree
  <2>4. \A q \in Path : tree'[q] = IF q = p THEN x ELSE tree[q]
    BY <2>2, <2>3
  <2>5. \A q \in Path : tree[q] = Directory => tree'[q] = Directory
    BY <2>3, <2>4
  <2>6. ASSUME NEW q \in Path, ParentIsDir(tree, q) PROVE ParentIsDir(tree', q)
    BY <2>5, <2>6, PathAssumption DEF ParentIsDir
  <2>7. ASSUME NEW q \in Path, tree'[q] # Absent PROVE ParentIsDir(tree, q)
    BY <1>1, <2>2, <2>4, <2>7 DEF WellFormed, Exists
  <2>8. WellFormed(tree')
    BY <2>6, <2>7 DEF WellFormed, Exists
  <2>9. phase' = "verified" /\ Op'.kind \in Places => ParentIsDir(tree', Op'.to)
    <3>1. phase = "verified" => Op.to \in Path
      BY PerformedIsApproved
    <3> QED
      BY <1>1, <2>3, <2>6, <3>1
  <2>10. WellFormed(base') /\ \A q \in Path : base'[q] = Directory => tree'[q] = Directory
    BY <1>1, <2>3, <2>5
  <2> QED
    BY <2>8, <2>9, <2>10 DEF TreesAreWhole, WellFormed, ParentIsDir, Exists
<1> QED
  BY <1>4, <1>5, <1>6, <1>7, TreeSteps

(* Only the step that completes it takes an entry out of doubt.            *)
LEMMA DoubtStays ==
  ASSUME Inv, Next, NEW i \in Ops, Journalled(i, "started")
  PROVE  Journalled(i, "started")' \/ (phase = "effected" /\ i = pos)
<1>1. journal # <<>> /\ phase # "journaling"
  BY DEF Journalled, Inv, PhaseOK
<1> QED
  BY <1>1, JournalSteps DEF Journalled

(* Every temporary file that was left behind is beside a target of the     *)
(* plan.                                                                   *)
LEMMA StraysStep == ASSUME Inv, Extra, Converging, Next PROVE StraysAreKnown'
<1> USE DEF disk, safety, outcome, history, Return, Op
<1> DEFINE Lies(q, i) == /\ q = plan[i].path
                         /\ plan[i].kind \in {"update", "delete"}
                              \/ (plan[i].kind = "create" /\ Journalled(i, "started"))
<1>1. /\ \A q \in strays : \E i \in Ops : Lies(q, i)
      /\ phase = "effected" => Op.path \notin strays
  BY DEF Converging, StraysAreKnown
<1>2. plan' = plan /\ Ops' = Ops
  BY JournalSteps DEF Ops
<1>3. \/ strays' \subseteq strays
      \/ VerifyTarget /\ strays' = strays \cup {Op.path} /\ WritesContent(Op) /\ UNCHANGED journal
      \/ VerifyUndo /\ strays' = strays \cup {Op.path} /\ Op.kind \in {"update", "delete"}
  <2>1. CASE CheckPlan \/ Backup
    BY <2>1 DEF CheckPlan, Backup, BeginBackup, CopySource, PromoteBackup
  <2>2. CASE Apply
    BY <2>2 DEF Apply, ValidateApply, WriteJournal, StartOperation, VerifyTarget, PerformEffect,
       CompleteOperation, Commit
  <2>3. CASE StartRollback \/ Rollback \/ IoError \/ Crash
    BY <2>3 DEF StartRollback, Rollback, SkipEntry, VerifyUndo, PerformUndo, FinishRollback, IoError,
       Crash
  <2>4. CASE Editor
    BY <2>4, EditorSteps DEF EditorStep, LossStep
  <2> QED
    BY <2>1, <2>2, <2>3, <2>4 DEF Next, Engine
<1>4. ASSUME NEW q \in strays, NEW i \in Ops, Lies(q, i) PROVE Lies(q, i)'
  <2>1. ~(phase = "effected" /\ i = pos)
    BY <1>1, <1>4
  <2> QED
    BY <1>2, <1>4, <2>1, DoubtStays
<1>5. ASSUME NEW q \in strays' PROVE \E i \in Ops : Lies(q, i)'
  <2>1. CASE q \in strays
    BY <1>1, <1>4, <2>1
  <2>2. CASE VerifyTarget /\ q = Op.path /\ WritesContent(Op) /\ UNCHANGED journal
    <3>1. pos \in Ops /\ Journalled(pos, "started") /\ Op.kind \in {"create", "update"}
      BY <2>2 DEF VerifyTarget, Inv, PhaseOK, Journalled, WritesContent
    <3>2. Journalled(pos, "started")'
      BY <2>2, <3>1 DEF Journalled, VerifyTarget
    <3> QED
      BY <1>2, <2>2, <3>1, <3>2 DEF Journalled
  <2>3. CASE VerifyUndo /\ q = Op.path /\ Op.kind \in {"update", "delete"}
    BY <1>2, <2>3 DEF VerifyUndo
  <2> QED
    BY <1>3, <2>1, <2>2, <2>3
<1>6. phase' = "effected" => Op'.path \notin strays'
  <2>1. CASE PerformEffect
    BY <2>1 DEF PerformEffect
  <2>2. CASE CheckPlan \/ Backup
    BY <2>2 DEF CheckPlan, Backup, BeginBackup, CopySource, PromoteBackup
  <2>3. CASE ValidateApply \/ WriteJournal \/ StartOperation \/ VerifyTarget \/ CompleteOperation
               \/ Commit
    BY <2>3 DEF ValidateApply, WriteJournal, StartOperation, VerifyTarget, CompleteOperation, Commit
  <2>4. CASE StartRollback \/ Rollback \/ IoError \/ Crash
    BY <2>4 DEF StartRollback, Rollback, SkipEntry, VerifyUndo, PerformUndo, FinishRollback, IoError,
       Crash
  <2>5. CASE Editor
    BY <1>1, <2>5, EditorSteps DEF EditorStep, LossStep
  <2> QED
    BY <2>1, <2>2, <2>3, <2>4, <2>5 DEF Next, Engine, Apply
<1>7. \A q \in strays' : \E i \in Ops' : Lies(q, i)'
  BY <1>2, <1>5
<1> QED
  BY <1>6, <1>7 DEF StraysAreKnown

(* A checked undo is still possible at its use, as long as nobody edits.   *)
LEMMA ReadyAloneStep == ASSUME Inv, Converging, Next PROVE UndoIsReadyAlone'
<1> USE DEF disk, safety, outcome, history, Return, Op
<1>0. UndoIsReadyAlone
  BY DEF Converging
<1>1. CASE CheckPlan \/ Backup
  BY <1>1 DEF CheckPlan, Backup, BeginBackup, CopySource, PromoteBackup, UndoIsReadyAlone
<1>2. CASE Apply
  BY <1>2 DEF Apply, ValidateApply, WriteJournal, StartOperation, VerifyTarget, PerformEffect,
              CompleteOperation, Commit, UndoIsReadyAlone
<1>3. CASE VerifyUndo
  <2>1. ASSUME Undoable(pos), UNCHANGED <<plan, pos, tree, backup, manifest, journal>>,
               strays' = IF Op.kind \in {"update", "delete"} THEN strays \cup {Op.path} ELSE strays
        PROVE  Undoable(pos)'
    BY <2>1 DEF Undoable, FileHash, Exists, ParentIsDir, IsEmptyDirectory
  <2> QED
    BY <1>3, <2>1 DEF VerifyUndo, UndoIsReadyAlone
<1>4. CASE StartRollback \/ SkipEntry \/ PerformUndo \/ FinishRollback
  BY <1>4 DEF StartRollback, SkipEntry, PerformUndo, FinishRollback, UndoIsReadyAlone
<1>5. CASE IoError \/ Crash
  BY <1>5 DEF IoError, Crash, UndoIsReadyAlone
<1>6. CASE Editor
  BY <1>6, EditorSteps DEF EditorStep, LossStep, UndoIsReadyAlone
<1> QED
  BY <1>1, <1>2, <1>3, <1>4, <1>5, <1>6 DEF Next, Engine, Rollback

(* What nobody has edited, nobody edits later: only the approval of the    *)
(* tree starts afresh.                                                     *)
LEMMA EditedStays ==
  ASSUME Inv, Next
  PROVE  edited' = {} => \/ edited = {} /\ base' = base
                         \/ CheckPlan /\ journal' = <<>> /\ phase' \in {"checked", "done"}
<1>1. CASE CheckPlan
  BY <1>1 DEF CheckPlan, Inv, PhaseOK, Return
<1>2. CASE Backup \/ Apply \/ Rollback
  BY <1>2 DEF Backup, BeginBackup, CopySource, PromoteBackup, Apply, ValidateApply, WriteJournal,
     StartOperation, VerifyTarget, PerformEffect, CompleteOperation, Commit, Rollback, SkipEntry,
     VerifyUndo, PerformUndo, FinishRollback, history
<1>3. CASE StartRollback \/ IoError \/ Crash
  BY <1>3 DEF StartRollback, IoError, Crash
<1>4. CASE Editor
  BY <1>4, EditorSteps DEF EditorStep, LossStep
<1> QED
  BY <1>1, <1>2, <1>3, <1>4 DEF Next, Engine

(* Unless the editor acts, the tree changes by an operation or its undo.   *)
LEMMA QuietTreeSteps ==
  ASSUME Inv, Next, edited' = {}
  PROVE  \/ UNCHANGED tree
         \/ PerformEffect /\ tree' = Effect(Op, tree)
         \/ PerformUndo /\ tree' = UndoEffect(pos)
BY TreeSteps DEF EditedAt

(* What a step makes COMPLETED has just been performed.                    *)
LEMMA CompletingStep ==
  ASSUME Inv, Extra, Next, NEW i \in Ops, Journalled(i, "completed")'
  PROVE  \/ Journalled(i, "completed") /\ journal'[i] = journal[i]
         \/ /\ phase = "effected" /\ i = pos /\ UNCHANGED <<tree, base, edited>>
            /\ journal' = CompletedJournal
            /\ edited = {} => InEffect(pos)
<1>1. CASE UNCHANGED journal
  BY <1>1 DEF Journalled
<1>2. CASE phase = "journaling" /\ journal' = NewJournal
  BY <1>2, NewJournalType DEF Journalled, Inv
<1>3. CASE i # pos /\ journal'[i] = journal[i] /\ journal # <<>>
  BY <1>3 DEF Journalled
<1>4. CASE journal'[pos].state = "started" /\ i = pos
  BY <1>4 DEF Journalled
<1>5. CASE phase = "effected" /\ i = pos /\ UNCHANGED <<tree, base, edited>> /\ ~(UNCHANGED journal)
  <2>1. journal' = CompletedJournal
    <3>1. CASE CheckPlan \/ Backup
      BY <1>5, <3>1 DEF CheckPlan, Backup, BeginBackup, CopySource, PromoteBackup
    <3>2. CASE Apply
      BY <1>5, <3>2 DEF Apply, ValidateApply, WriteJournal, StartOperation, VerifyTarget,
         PerformEffect, CompleteOperation, Commit
    <3>3. CASE StartRollback \/ Rollback
      BY <1>5, <3>3 DEF StartRollback, Rollback, SkipEntry, VerifyUndo, PerformUndo, FinishRollback
    <3>4. CASE IoError \/ Crash
      BY <1>5, <3>4 DEF IoError, Crash
    <3>5. CASE Editor
      BY <1>5, <3>5, EditorSteps DEF EditorStep, LossStep
    <3> QED
      BY <3>1, <3>2, <3>3, <3>4, <3>5 DEF Next, Engine
  <2>2. edited = {} => InEffect(pos)
    BY <1>5 DEF Extra, CursorIsClean, Undisturbed
  <2> QED
    BY <1>5, <2>1, <2>2
<1> QED
  BY <1>1, <1>2, <1>3, <1>4, <1>5, JournalSteps

(* So it has while nobody edits at all.                                    *)
LEMMA PostsWrittenStep == ASSUME Inv, Extra, Recoverable, Converging, Next PROVE PostsAreWritten'
<1> SUFFICES ASSUME edited' = {}, journal' # <<>>, NEW i \in Ops, WritesContent(plan[i]),
                    journal'[i].state = "completed"
             PROVE  journal'[i].post = plan[i].content
  BY JournalSteps DEF PostsAreWritten, Ops
<1>1. edited = {}
  BY EditedStays
<1>2. Journalled(i, "completed")'
  BY DEF Journalled
<1>3. CASE Journalled(i, "completed") /\ journal'[i] = journal[i]
  BY <1>1, <1>3 DEF Converging, PostsAreWritten, Journalled
<1>4. CASE phase = "effected" /\ i = pos /\ journal' = CompletedJournal /\ InEffect(pos)
  <2>1. /\ Op = plan[i] /\ Op \in PatchOperation /\ WritesContent(Op) /\ ContentOk(plan)
        /\ journal \in [Ops -> [state: JournalState, post: Hash]]
    BY <1>4, CursorFacts DEF Op, Inv, TypeOK, PhaseOK
  <2>2. Op.content \in Content /\ Op.path \in Path /\ Op.kind \in {"create", "update"}
    BY <2>1 DEF ContentOk, PatchOperation, Hash, Ops, WritesContent
  <2>3. tree[Op.path] = Op.content
    BY <1>4, <2>1, <2>2 DEF InEffect, Effect, Touched
  <2>4. FileHash(tree, Op.path) = Op.content
    BY <2>2, <2>3 DEF FileHash
  <2>5. journal'[i].post = FileHash(tree, Op.path)
    BY <1>4, <2>1 DEF CompletedJournal
  <2> QED
    BY <2>1, <2>4, <2>5
<1> QED
  BY <1>1, <1>2, <1>3, <1>4, CompletingStep

(* A directory is made before what is put in it, so a rollback in reverse  *)
(* order finds it empty (rollback.py 386).                                 *)
LEMMA DirectoriesStep ==
  ASSUME Inv, Base, Extra, Recoverable, Converging, Next
  PROVE  DirectoriesFirst'
<1> SUFFICES ASSUME edited' = {}, NEW i \in Ops, NEW j \in Ops, j < i, plan[i].kind = "mkdir",
                    Journalled(j, "completed")', plan[j].kind \in Places,
                    Parent[plan[j].to] = plan[i].path
             PROVE  FALSE
  BY JournalSteps DEF DirectoriesFirst, Ops
<1>1. edited = {}
  BY EditedStays DEF Journalled
<1>2. CASE Journalled(j, "completed")
  BY <1>1, <1>2 DEF Converging, DirectoriesFirst
<1>3. CASE phase = "effected" /\ j = pos /\ InEffect(pos)
  <2>1. /\ Op = plan[j] /\ Op \in PatchOperation /\ ContentOk(plan) /\ journal # <<>>
        /\ Op.path \in Path /\ Op.to \in Path /\ Precondition(Op, base)
    BY <1>3, PerformedIsApproved DEF Op, Inv, PhaseOK
  <2>2. tree[Op.to] = Effect(Op, base)[Op.to]
    BY <1>3, <2>1 DEF InEffect, Touched
  <2>3. tree[Op.to] # Absent
    <3>1. Op.kind = "create" => Op.content \in Content
      BY <2>1 DEF ContentOk, WritesContent, PatchOperation, Hash, Ops
    <3> QED
      BY <2>1, <2>2, <3>1, NodeAssumption
         DEF Effect, Places, PatchOperation, WritesContent, Precondition, IsFile
  <2>4. plan[i].path \in Path /\ base[plan[i].path] = Absent
    BY <2>1, CursorFacts DEF Extra, Approved, PlanOk, Precondition, Exists, Ops
  <2>5. tree[plan[i].path] = Directory
    BY <2>1, <2>3, <2>4, PathAssumption DEF Converging, TreesAreWhole, WellFormed, Exists, ParentIsDir
  <2>6. PICK k \in Ops : /\ plan[i].path \in Touched(plan[k])
                         /\ Journalled(k, "started") \/ Journalled(k, "completed")
    BY <1>1, <2>4, <2>5, NodeAssumption DEF Base, WriteAhead
  <2>7. k = i
    <3>1. NoOverlap(plan) /\ plan[i].path \in Touched(plan[i])
      BY <2>1 DEF Extra, Validated, Touched
    <3> QED
      BY <2>6, <3>1 DEF NoOverlap, Ops
  <2>8. journal[i].state = "pending"
    BY <1>3 DEF Extra, EntriesFollowCursor
  <2> QED
    BY <2>6, <2>7, <2>8 DEF Journalled
<1> QED
  BY <1>1, <1>2, <1>3, CompletingStep

(* While nobody edits, a step keeps the paths of every operation but the   *)
(* one it performs or undoes, and that one it undoes whole.                *)
LEMMA QuietStepOn ==
  ASSUME Inv, Extra, Converging, Next, edited' = {}, edited = {}, journal # <<>>, NEW i \in Ops
  PROVE  \/ /\ ~(PerformEffect /\ i = pos)
            /\ \A p \in Touched(plan[i]) : tree'[p] = tree[p]
         \/ PerformEffect /\ i = pos
         \/ PerformUndo /\ i = pos /\ \A p \in Touched(plan[i]) : tree'[p] = base[p]
<1>1. CASE UNCHANGED tree
  BY <1>1
<1>2. Touched(plan[i]) \subseteq Path
  BY CursorFacts DEF Touched
<1>3. ASSUME pos \in Ops, i # pos, \A p \in Path \ Touched(Op) : tree'[p] = tree[p]
      PROVE  \A p \in Touched(plan[i]) : tree'[p] = tree[p]
  <2>1. Touched(plan[i]) \cap Touched(Op) = {}
    BY <1>3 DEF Extra, Validated, NoOverlap, Ops, Op
  <2> QED
    BY <1>2, <1>3, <2>1
<1>4. CASE PerformEffect /\ tree' = Effect(Op, tree)
  <2>1. /\ phase = "verified" /\ pos \in Ops /\ Op \in PatchOperation /\ tree \in Tree
        /\ ContentOk(plan)
    BY <1>4, PerformedIsApproved DEF PerformEffect, Inv, TypeOK, PhaseOK
  <2>2. \A p \in Path \ Touched(Op) : tree'[p] = tree[p]
    BY <1>4, <2>1, EffectTouches DEF ContentOk, Ops, Op
  <2> QED
    BY <1>3, <1>4, <2>1, <2>2
<1>5. CASE PerformUndo /\ tree' = UndoEffect(pos)
  <2>1. phase = "rb_verified" /\ pos \in Ops /\ backup # <<>> /\ Undoable(pos) /\ TypeOK
    BY <1>5 DEF PerformUndo, Inv, PhaseOK, Converging, UndoIsReadyAlone
  <2>2. \A p \in Path \ Touched(Op) : tree'[p] = tree[p]
    BY <1>5, <2>1, UndoTouches DEF Op
  <2>3. \A p \in Touched(Op) : tree'[p] = base[p]
    BY <1>5, <2>1, UndoRestores
  <2>4. ~PerformEffect
    BY <2>1 DEF PerformEffect
  <2> QED
    BY <1>3, <1>5, <2>1, <2>2, <2>3, <2>4 DEF Op
<1> QED
  BY <1>1, <1>4, <1>5, QuietTreeSteps

(* While nobody edits, a completed operation is in effect as a whole or    *)
(* not at all.                                                             *)
LEMMA AllOrNothingStep == ASSUME Inv, Extra, Converging, Next PROVE AllOrNothing'
<1> SUFFICES ASSUME edited' = {}, NEW i \in Ops, Journalled(i, "completed")'
             PROVE  InEffect(i)' \/ NotInEffect(i)'
  BY JournalSteps DEF AllOrNothing, Ops
<1>1. edited = {} /\ base' = base /\ plan' = plan
  BY EditedStays, JournalSteps DEF Journalled
<1>2. CASE Journalled(i, "completed")
  <2>1. InEffect(i) \/ NotInEffect(i)
    BY <1>1, <1>2 DEF Converging, AllOrNothing
  <2>2. ~(PerformEffect /\ i = pos)
    BY <1>2 DEF PerformEffect, Inv, PhaseOK, Journalled
  <2>3. journal # <<>>
    BY <1>2 DEF Journalled
  <2>4. CASE \A p \in Touched(plan[i]) : tree'[p] = tree[p]
    BY <1>1, <2>1, <2>4 DEF InEffect, NotInEffect
  <2>5. CASE \A p \in Touched(plan[i]) : tree'[p] = base[p]
    BY <1>1, <2>5 DEF NotInEffect
  <2> QED
    BY <1>1, <2>2, <2>3, <2>4, <2>5, QuietStepOn
<1>3. CASE UNCHANGED <<tree, base>> /\ i = pos /\ InEffect(pos)
  BY <1>1, <1>3 DEF InEffect
<1> QED
  BY <1>1, <1>2, <1>3, CompletingStep

(* A copy in the backup is whole or gone.                                  *)
LEMMA DecaysStep == ASSUME Inv, Converging, Next PROVE BackupDecays'
<1> USE DEF disk, safety, outcome, history, Return
<1>1. BackupDecays /\ Ops' = Ops
  BY JournalSteps DEF Converging, Ops
<1>2. CASE PromoteBackup
  BY <1>2 DEF PromoteBackup, BackupDecays
<1>3. CASE ~PromoteBackup /\ ~Editor
  <2>1. UNCHANGED <<backup, manifest>>
    BY <1>3 DEF Next, Engine, CheckPlan, Backup, BeginBackup, CopySource, Apply, ValidateApply,
       WriteJournal, StartOperation, VerifyTarget, PerformEffect, CompleteOperation, Commit,
       Rollback, SkipEntry, VerifyUndo, PerformUndo, FinishRollback, StartRollback, IoError, Crash
  <2> QED
    BY <1>1, <2>1 DEF BackupDecays
<1>4. ASSUME NEW i \in DOMAIN backup, LoseBackup(i) PROVE BackupDecays'
  <2>1. backup \in [Ops -> Node] /\ backup' = [backup EXCEPT ![i] = Absent] /\ manifest' = manifest
    BY <1>4 DEF LoseBackup, Inv, TypeOK
  <2>2. backup # <<>>
    BY <1>4
  <2> QED
    BY <1>1, <2>1, <2>2 DEF BackupDecays
<1>5. ASSUME UNCHANGED <<backup, manifest>> PROVE BackupDecays'
  BY <1>1, <1>5 DEF BackupDecays
<1>6. (\E p \in Path : EditorDelete(p) \/ \E c \in Content : EditorSave(p, c))
         => UNCHANGED <<backup, manifest>>
  BY DEF EditorDelete, EditorSave
<1> QED
  BY <1>2, <1>3, <1>4, <1>5, <1>6 DEF Editor

(* Whoever rolls back has a journal and a backup.                          *)
LEMMA HaveAllStep == ASSUME Inv, Converging, Next PROVE RollbacksHaveAll'
<1> USE DEF disk, safety, outcome, history, Return
<1>1. /\ used.rollbacks # 0 => journal # <<>> /\ backup # <<>> /\ phase \notin Early
  BY DEF Converging, RollbacksHaveAll, EarlyIsOpen
<1>2. journal' # <<>> \/ journal = <<>>
  BY JournalSteps, NewJournalType DEF Inv
<1>3. CASE CheckPlan \/ Backup
  BY <1>1, <1>3 DEF CheckPlan, Backup, BeginBackup, CopySource, PromoteBackup, RollbacksHaveAll, Early
<1>4. CASE Apply
  BY <1>1, <1>2, <1>4 DEF Apply, ValidateApply, WriteJournal, StartOperation, VerifyTarget,
     PerformEffect, CompleteOperation, Commit, RollbacksHaveAll
<1>5. CASE StartRollback
  BY <1>5 DEF StartRollback, RollbacksHaveAll
<1>6. CASE Rollback
  BY <1>1, <1>6 DEF Rollback, SkipEntry, VerifyUndo, PerformUndo, FinishRollback, RollbacksHaveAll
<1>7. CASE IoError \/ Crash
  BY <1>1, <1>2, <1>7, CrashCounts DEF IoError, Crash, RollbacksHaveAll
<1>8. CASE Editor
  BY <1>1, <1>2, <1>8, EditorSteps DEF EditorStep, LossStep, RollbacksHaveAll
<1> QED
  BY <1>3, <1>4, <1>5, <1>6, <1>7, <1>8 DEF Next, Engine

(* A rollback has found conflicts only behind its cursor.                  *)
LEMMA ConflictsStep == ASSUME Inv, Converging, Next PROVE ConflictsFollowCursor'
<1> USE CursorFacts DEF disk, safety, outcome, history, Return, AfterConflict
<1>1. ConflictsFollowCursor /\ Ops' = Ops
  BY JournalSteps DEF Converging, Ops
<1>2. CASE CheckPlan \/ Backup
  BY <1>2 DEF CheckPlan, Backup, BeginBackup, CopySource, PromoteBackup, ConflictsFollowCursor
<1>3. CASE Apply
  BY <1>3 DEF Apply, ValidateApply, WriteJournal, StartOperation, VerifyTarget, PerformEffect,
     CompleteOperation, Commit, ConflictsFollowCursor
<1>4. CASE StartRollback
  BY <1>1, <1>4 DEF StartRollback, ConflictsFollowCursor, NoConflicts
<1>5. ASSUME phase \in {"rolling_back", "rb_verified"}, pos' \in {pos, pos - 1},
             \A i \in Ops : i < pos => conflicts'[i] = conflicts[i],
             pos' = pos => conflicts' = conflicts
      PROVE  ConflictsFollowCursor'
  BY <1>1, <1>5 DEF ConflictsFollowCursor
<1>6. CASE SkipEntry
  BY <1>5, <1>6 DEF SkipEntry
<1>7. CASE VerifyUndo
  BY <1>5, <1>7 DEF VerifyUndo, Inv, TypeOK
<1>8. CASE PerformUndo
  BY <1>5, <1>8 DEF PerformUndo, Inv, TypeOK
<1>9. CASE IoError
  <2>1. CASE phase = "rb_verified"
    BY <1>5, <1>9, <2>1 DEF IoError, Inv, TypeOK
  <2>2. CASE phase # "rb_verified"
    BY <1>9, <2>2 DEF IoError, ConflictsFollowCursor
  <2> QED
    BY <2>1, <2>2
<1>10. CASE FinishRollback \/ Crash
  BY <1>10 DEF FinishRollback, Crash, ConflictsFollowCursor
<1>11. CASE Editor
  BY <1>1, <1>11, EditorSteps DEF EditorStep, LossStep, ConflictsFollowCursor
<1> QED
  BY <1>2, <1>3, <1>4, <1>6, <1>7, <1>8, <1>9, <1>10, <1>11 DEF Next, Engine, Rollback

(* In an approved tree nothing lies under a directory the plan makes, so   *)
(* that what is there later, the plan has put there.                       *)
LEMMA UnderMadeDirectory ==
  ASSUME Inv, Base, Extra, Converging, Clear, journal # <<>>, NEW i \in Ops,
         plan[i].kind = "mkdir", InEffect(i), \A j \in Ops : j > i => NotInEffect(j),
         NEW q \in Path, Parent[q] = plan[i].path
  PROVE  tree[q] = Absent /\ q \notin strays
<1>1. /\ PlanOk(plan, base) /\ edited = {} /\ WellFormed(base)
      /\ \A k \in Ops : /\ plan[k] \in PatchOperation /\ Precondition(plan[k], base)
                        /\ plan[k].path \in Path /\ plan[k].to \in Path
                        /\ journal[k].state # "started"
  BY CursorFacts DEF Extra, Approved, PlanOk, Clear, Converging, TreesAreWhole, Ops
<1>2. base[plan[i].path] = Absent /\ base[q] = Absent
  BY <1>1, PathAssumption, NodeAssumption DEF Precondition, Exists, WellFormed, ParentIsDir
<1>3. ASSUME NEW k \in Ops, plan[k].kind \in {"update", "delete"} PROVE q # plan[k].path
  BY <1>1, <1>2, <1>3, NodeAssumption DEF Precondition, IsFile, Exists
<1>4. q \notin strays
  BY <1>1, <1>3 DEF Converging, StraysAreKnown, Journalled
<1>5. ASSUME tree[q] # Absent PROVE FALSE
  <2>1. PICK k \in Ops : q \in Touched(plan[k]) /\ Journalled(k, "completed")
    BY <1>1, <1>2, <1>5 DEF Base, WriteAhead, Journalled
  <2>2. InEffect(k) /\ ~NotInEffect(k)
    BY <1>1, <1>2, <1>5, <2>1 DEF Converging, AllOrNothing, NotInEffect
  <2>3. plan[k].kind \in Places /\ q = plan[k].to
    <3>1. Effect(plan[k], base)[q] # Absent
      BY <1>5, <2>1, <2>2 DEF InEffect
    <3>2. Effect(plan[k], base)[q] # Absent /\ q = plan[k].path =>
             plan[k].kind \in {"create", "update", "mkdir"}
      BY <1>1 DEF Effect, WritesContent, PatchOperation
    <3>3. plan[k].kind \notin {"update", "delete"} \/ q # plan[k].path
      BY <1>3
    <3> QED
      BY <1>1, <2>1, <3>1, <3>2, <3>3 DEF Touched, PatchOperation, Places, Kind
  <2>4. k # i
    BY <1>1, <2>3, TreeAssumption DEF PatchOperation
  <2>5. k \in Int /\ i \in Int /\ ~(k > i)
    BY <2>2, CursorFacts
  <2> QED
    BY <1>1, <2>1, <2>3, <2>4, <2>5 DEF Converging, DirectoriesFirst
<1> QED
  BY <1>4, <1>5

(* What is in effect and in nobody's way can be undone.                    *)
LEMMA InEffectIsUndoable ==
  ASSUME Inv, Base, Extra, Recoverable, Converging, Clear, phase = "rolling_back", pos \in Ops,
         Journalled(pos, "completed"), InEffect(pos)
  PROVE  Undoable(pos)
<1>1. /\ journal # <<>> /\ ContentOk(plan) /\ edited = {} /\ backup = manifest /\ Op = plan[pos]
      /\ Op \in PatchOperation /\ Op.path \in Path /\ Op.to \in Path
      /\ journal[pos].state = "completed" /\ tree \in Tree /\ base \in Tree
  BY CursorFacts DEF Journalled, Recoverable, ContentsKnown, Clear, Op, Inv, TypeOK
<1>2. Op.kind \in Kind /\ (Op.kind = "rename" <=> Op.to # Op.path) /\ Precondition(Op, base)
  BY <1>1 DEF PatchOperation, Extra, Approved, PlanOk, Ops
<1>3. tree[Op.path] = Effect(Op, base)[Op.path] /\ tree[Op.to] = Effect(Op, base)[Op.to]
  BY <1>1 DEF InEffect, Touched
<1>4. CASE Op.kind \in {"create", "update"}
  <2>1. journal[pos].post = Op.content /\ Op.content \in Content /\ Op.to = Op.path
    BY <1>1, <1>2, <1>4
       DEF Converging, PostsAreWritten, WritesContent, ContentOk, PatchOperation, Hash, Ops
  <2>2. FileHash(tree, Op.to) = Op.content /\ Op.content # NoHash
    BY <1>1, <1>3, <1>4, <2>1, NodeAssumption DEF Effect, WritesContent, FileHash
  <2>3. Op.kind = "update" => ParentIsDir(tree, Op.path)
    <3>1. Op.kind = "update" => base[Op.path] # Absent
      BY <1>2, NodeAssumption DEF Precondition, IsFile
    <3> QED
      BY <1>1, <3>1, PathAssumption DEF Converging, TreesAreWhole, WellFormed, Exists, ParentIsDir
  <2> QED
    BY <1>1, <1>4, <2>1, <2>2, <2>3 DEF Undoable
<1>5. CASE Op.kind = "delete"
  <2>1. tree[Op.path] = Absent
    BY <1>1, <1>3, <1>5 DEF Effect, WritesContent
  <2>2. ParentIsDir(tree, Op.path)
    BY <1>1, <1>2, <1>5, PathAssumption
       DEF Precondition, Converging, TreesAreWhole, WellFormed, Exists, ParentIsDir
  <2> QED
    BY <1>1, <1>5, <2>1, <2>2 DEF Undoable, Exists
<1>6. CASE Op.kind = "rename"
  <2>1. journal[pos].post = Op.expected /\ Op.expected # NoHash
    BY <1>1, <1>6 DEF Extra, RenamePosts, Clear
  <2>2. base[Op.path] = Op.expected /\ Op.expected \in Content
    BY <1>2, <1>6, <2>1 DEF Precondition, FileHash, IsFile
  <2>3. tree[Op.to] = Op.expected /\ tree[Op.path] = Absent
    BY <1>1, <1>2, <1>3, <1>6, <2>2 DEF Effect, WritesContent
  <2> QED
    BY <1>1, <1>6, <2>1, <2>2, <2>3 DEF Undoable, FileHash, Exists
<1>7. CASE Op.kind = "mkdir"
  <2>1. tree[Op.path] = Directory
    BY <1>1, <1>2, <1>3, <1>7 DEF Effect, WritesContent
  <2>2. \A j \in Ops : j > pos => NotInEffect(j)
    BY DEF Converging, UndoneBehindCursor
  <2>3. \A q \in Path : Parent[q] = Op.path => tree[q] = Absent /\ q \notin strays
    BY <1>1, <1>7, <2>2, UnderMadeDirectory
  <2>4. IsEmptyDirectory(tree, strays, Op.path)
    <3>1. strays \subseteq Path
      BY DEF Inv, TypeOK
    <3> QED
      BY <2>1, <2>3, <3>1 DEF IsEmptyDirectory, Exists
  <2> QED
    BY <1>1, <1>7, <2>4 DEF Undoable
<1> QED
  BY <1>2, <1>4, <1>5, <1>6, <1>7 DEF Kind

(* The cursor passes an operation that is as approved.                     *)
LEMMA CursorPasses ==
  ASSUME Inv, Extra, Converging, Next, Clear, edited' = {}, journal # <<>>,
         phase \in {"rolling_back", "rb_verified"}, pos \in Ops, UNCHANGED base, ~PerformEffect,
         \A p \in Touched(Op) : tree'[p] = base[p]
  PROVE  \A i \in Ops : i > pos - 1 => NotInEffect(i)'
<1> SUFFICES ASSUME NEW i \in Ops, i > pos - 1 PROVE NotInEffect(i)'
  OBVIOUS
<1>1. edited = {} /\ plan' = plan
  BY JournalSteps DEF Clear
<1>2. CASE i = pos
  BY <1>1, <1>2 DEF NotInEffect, Op
<1>3. CASE i # pos
  <2>1. i > pos
    BY <1>3, CursorFacts
  <2>2. NotInEffect(i)
    BY <2>1 DEF Converging, UndoneBehindCursor
  <2>3. \A p \in Touched(plan[i]) : tree'[p] = tree[p]
    BY <1>1, <1>3, QuietStepOn
  <2> QED
    BY <1>1, <2>2, <2>3 DEF NotInEffect
<1> QED
  BY <1>2, <1>3

(* What lies behind the cursor of a rollback is not in effect, whether     *)
(* this call undid it or an earlier one did (rollback.py 386-451).         *)
LEMMA UndoneStep == ASSUME Inv, Base, Extra, Recoverable, Converging, Next PROVE UndoneBehindCursor'
<1> USE DEF disk, safety, outcome, history, Return
<1> SUFFICES ASSUME Clear'
             PROVE  /\ phase' \in {"rolling_back", "rb_verified"} =>
                         \A i \in Ops : i > pos' => NotInEffect(i)'
                    /\ phase' = "done" /\ used'.rollbacks # 0 => \A i \in Ops : NotInEffect(i)'
  BY JournalSteps DEF UndoneBehindCursor, Ops
<1>1. /\ edited' = {} /\ plan' = plan /\ Ops' = Ops
      /\ \A i \in Ops : /\ conflicts'[i] # "io" /\ journal'[i].state # "started"
                        /\ plan[i].kind = "rename" => plan[i].expected # NoHash
  BY JournalSteps DEF Clear, Ops
<1>2. UndoneBehindCursor /\ (phase \in Early => used.rollbacks = 0)
  BY DEF Converging, EarlyIsOpen
<1>3. ASSUME UNCHANGED <<edited, backup, manifest, journal>>, \A i \in Ops : conflicts[i] # "io"
      PROVE  Clear
  BY <1>1, <1>3 DEF Clear
<1>4. phase = "rolling_back" => journal # <<>>
  BY DEF Inv, PhaseOK
<1>5. CASE CheckPlan \/ Backup
  BY <1>2, <1>5 DEF CheckPlan, Backup, BeginBackup, CopySource, PromoteBackup, Early
<1>6. CASE Apply
  BY <1>2, <1>6 DEF Apply, ValidateApply, WriteJournal, StartOperation, VerifyTarget, PerformEffect,
     CompleteOperation, Commit, Early
<1>7. CASE StartRollback
  <2>1. \A i \in Ops : ~(i > pos')
    BY <1>7, CursorFacts DEF StartRollback
  <2> QED
    BY <1>7, <2>1 DEF StartRollback
<1>8. CASE SkipEntry
  <2>1. /\ UNCHANGED <<tree, base, edited, backup, manifest, journal, conflicts>> /\ pos' = pos - 1
        /\ phase' = "rolling_back" /\ phase = "rolling_back" /\ pos \in Ops /\ journal # <<>>
        /\ journal[pos].state # "completed"
    BY <1>4, <1>8 DEF SkipEntry
  <2>2. Clear
    BY <1>1, <1>3, <2>1
  <2>3. Journalled(pos, "pending") /\ Undisturbed(pos)
    BY <1>1, <2>1, <2>2 DEF Clear, Journalled, Undisturbed, Inv, TypeOK, JournalState
  <2>4. NotInEffect(pos)
    BY <2>1, <2>3, PendingIsAbsent DEF Base
  <2>5. \A i \in Ops : i > pos - 1 => NotInEffect(i)'
    BY <1>1, <1>8, <2>1, <2>2, <2>4, CursorPasses DEF NotInEffect, PerformEffect, Op
  <2> QED
    BY <2>1, <2>5
<1>9. CASE VerifyUndo
  <2>1. /\ UNCHANGED <<tree, base, edited, backup, manifest, journal>>
        /\ phase = "rolling_back" /\ pos \in Ops /\ Journalled(pos, "completed")
    BY <1>4, <1>9 DEF VerifyUndo, Journalled
  <2>2. CASE UNCHANGED <<pos, conflicts>> /\ phase' = "rb_verified"
    <3>1. Clear
      BY <1>1, <1>3, <2>1, <2>2
    <3>2. \A i \in Ops : i > pos => NotInEffect(i)
      BY <1>2, <2>1, <3>1 DEF UndoneBehindCursor
    <3> QED
      BY <1>1, <2>1, <2>2, <3>2 DEF NotInEffect
  <2>3. CASE /\ ~Undoable(pos) /\ pos' = pos - 1 /\ phase' = phase
             /\ conflicts' = [conflicts EXCEPT ![pos] = "guard"]
    <3>1. \A i \in Ops : conflicts[i] # "io"
      <4>1. conflicts \in [Ops -> Reason] /\ conflicts[pos] = "none"
        BY <2>1, CursorFacts DEF Inv, TypeOK, Converging, ConflictsFollowCursor
      <4>2. \A i \in Ops \ {pos} : conflicts'[i] = conflicts[i]
        BY <2>3, <4>1
      <4> QED
        BY <1>1, <4>1, <4>2
    <3>2. Clear
      BY <1>3, <2>1, <3>1
    <3>3. NotInEffect(pos)
      BY <2>1, <2>3, <3>2, InEffectIsUndoable DEF Converging, AllOrNothing, Clear
    <3>4. \A i \in Ops : i > pos - 1 => NotInEffect(i)'
      BY <1>1, <1>4, <1>9, <2>1, <3>2, <3>3, CursorPasses DEF NotInEffect, PerformEffect, Op
    <3> QED
      BY <2>1, <2>3, <3>4
  <2> QED
    BY <1>9, <2>2, <2>3 DEF VerifyUndo, AfterConflict
<1>10. CASE PerformUndo
  <2>1. /\ UNCHANGED <<base, edited, backup, manifest, journal>> /\ phase = "rb_verified"
        /\ phase' = "rolling_back" /\ pos \in Ops /\ journal # <<>> /\ pos' = pos - 1
    BY <1>10 DEF PerformUndo, Inv, PhaseOK
  <2>2. CASE conflicts' = [conflicts EXCEPT ![pos] = "io"]
    BY <1>1, <2>1, <2>2 DEF Inv, TypeOK
  <2>3. CASE tree' = UndoEffect(pos) /\ UNCHANGED conflicts
    <3>1. Clear
      BY <1>1, <1>3, <2>1, <2>3
    <3>2. Undoable(pos)
      BY <1>1, <2>1 DEF Converging, UndoIsReadyAlone
    <3>3. \A p \in Touched(Op) : tree'[p] = base[p]
      BY <2>1, <2>3, <3>2, UndoRestores
    <3>4. \A i \in Ops : i > pos - 1 => NotInEffect(i)'
      BY <1>1, <1>10, <2>1, <3>1, <3>3, CursorPasses DEF PerformEffect
    <3> QED
      BY <2>1, <3>4
  <2> QED
    BY <1>10, <2>2, <2>3 DEF PerformUndo
<1>11. CASE FinishRollback
  <2>1. /\ UNCHANGED <<tree, base, edited, backup, manifest, journal, conflicts>>
        /\ phase = "rolling_back" /\ phase' = "done" /\ pos \notin Ops
    BY <1>11 DEF FinishRollback
  <2>2. Clear
    BY <1>1, <1>3, <2>1
  <2>3. \A i \in Ops : i > pos
    BY <2>1, CursorFacts DEF Extra, AnswersAreFinal
  <2>4. \A i \in Ops : NotInEffect(i)
    BY <1>2, <2>1, <2>2, <2>3 DEF UndoneBehindCursor
  <2> QED
    BY <1>1, <2>1, <2>4 DEF NotInEffect
<1>12. CASE IoError
  <2>1. CASE phase = "rb_verified"
    <3>1. pos \in Ops /\ conflicts' = [conflicts EXCEPT ![pos] = "io"]
      BY <1>12, <2>1 DEF IoError, Inv, PhaseOK
    <3> QED
      BY <1>1, <3>1 DEF Inv, TypeOK
  <2>2. CASE phase # "rb_verified"
    <3>1. phase \in Early /\ phase' \notin {"rolling_back", "rb_verified"}
      BY <1>12, <2>2 DEF IoError, Early
    <3> QED
      BY <1>2, <1>12, <3>1, CrashCounts
  <2> QED
    BY <2>1, <2>2
<1>13. CASE Crash
  BY <1>13 DEF Crash
<1>14. CASE EditorStep
  BY <1>1, <1>14 DEF EditorStep
<1>15. CASE LossStep /\ Editor
  <2>1. UNCHANGED <<tree, base, edited, manifest, journal, conflicts, phase, pos>>
        /\ used'.rollbacks = used.rollbacks /\ backup # <<>>
    BY <1>15 DEF LossStep
  <2>2. backup' = manifest
    BY <2>1 DEF Clear
  <2>3. backup = manifest
    <3>1. CASE \E i \in DOMAIN backup : LoseBackup(i)
      <4>1. PICK i \in DOMAIN backup : LoseBackup(i)
        BY <3>1
      <4>2. /\ backup \in [Ops -> Node] /\ backup[i] # Absent /\ i \in Ops
            /\ backup' = [backup EXCEPT ![i] = Absent]
        BY <2>1, <4>1 DEF LoseBackup, Inv, TypeOK
      <4>3. backup[i] \in {manifest[i], Absent}
        BY <2>1, <4>2 DEF Converging, BackupDecays
      <4> QED
        BY <2>2, <4>2, <4>3
    <3>2. CASE ~(\E i \in DOMAIN backup : LoseBackup(i))
      <4>1. PICK p \in Path : EditorDelete(p) \/ \E c \in Content : EditorSave(p, c)
        BY <1>15, <3>2 DEF Editor
      <4>2. UNCHANGED backup
        BY <4>1 DEF EditorDelete, EditorSave
      <4> QED
        BY <2>2, <4>2
    <3> QED
      BY <3>1, <3>2
  <2>4. Clear
    BY <1>1, <2>1, <2>3 DEF Clear
  <2> QED
    BY <1>1, <1>2, <2>1, <2>4 DEF UndoneBehindCursor, NotInEffect
<1> QED
  BY <1>5, <1>6, <1>7, <1>8, <1>9, <1>10, <1>11, <1>12, <1>13, <1>14, <1>15, EditorSteps
     DEF Next, Engine, Rollback

(* A stutter keeps the invariant.                                          *)
LEMMA StutterConverging == ASSUME Converging, UNCHANGED vars PROVE Converging'
<1> USE DEF vars, Ops, Op, Converging
<1>1. TreesAreWhole' /\ StraysAreKnown'
  BY DEF TreesAreWhole, WellFormed, Exists, ParentIsDir, StraysAreKnown, Journalled
<1>2. UndoIsReadyAlone' /\ PostsAreWritten'
  BY DEF UndoIsReadyAlone, Undoable, FileHash, Exists, ParentIsDir, IsEmptyDirectory, PostsAreWritten
<1>3. DirectoriesFirst' /\ AllOrNothing'
  BY DEF DirectoriesFirst, AllOrNothing, InEffect, NotInEffect, Journalled
<1>4. EarlyIsOpen' /\ BackupDecays' /\ RollbacksHaveAll' /\ ConflictsFollowCursor'
  BY DEF EarlyIsOpen, BackupDecays, RollbacksHaveAll, ConflictsFollowCursor
<1>5. UndoneBehindCursor'
  BY DEF UndoneBehindCursor, Clear, NotInEffect
<1> QED
  BY <1>1, <1>2, <1>3, <1>4, <1>5

(* It holds before the transaction.                                        *)
LEMMA InitConverging == Init => Converging
<1> SUFFICES ASSUME Init PROVE Converging
  OBVIOUS
<1>1. TreesAreWhole
  BY TreeAssumption DEF Init, TreesAreWhole, WellFormed
<1>2. StraysAreKnown /\ UndoIsReadyAlone /\ PostsAreWritten
  BY DEF Init, StraysAreKnown, UndoIsReadyAlone, PostsAreWritten
<1>3. DirectoriesFirst /\ AllOrNothing
  BY DEF Init, DirectoriesFirst, AllOrNothing, Journalled
<1>4. EarlyIsOpen /\ BackupDecays /\ RollbacksHaveAll /\ ConflictsFollowCursor /\ UndoneBehindCursor
  BY DEF Init, EarlyIsOpen, BackupDecays, RollbacksHaveAll, ConflictsFollowCursor,
         UndoneBehindCursor
<1> QED
  BY <1>1, <1>2, <1>3, <1>4 DEF Converging

(* It holds in every reachable state.                                      *)
LEMMA ConvergingHolds == Spec => [](Inv /\ Base /\ Converging)
<1>1. Inv /\ Base /\ Extra /\ Recoverable /\ Converging /\ [Next]_vars => Converging'
  <2> SUFFICES ASSUME Inv, Base, Extra, Recoverable, Converging, Next PROVE Converging'
    BY StutterConverging
  <2>1. TreesAreWhole' /\ StraysAreKnown' /\ UndoIsReadyAlone' /\ PostsAreWritten'
    BY WholeStep, StraysStep, ReadyAloneStep, PostsWrittenStep
  <2>2. DirectoriesFirst' /\ AllOrNothing' /\ BackupDecays' /\ RollbacksHaveAll'
    BY DirectoriesStep, AllOrNothingStep, DecaysStep, HaveAllStep
  <2>3. EarlyIsOpen' /\ ConflictsFollowCursor' /\ UndoneBehindCursor'
    BY EarlyStep, ConflictsStep, UndoneStep DEF Converging
  <2> QED
    BY <2>1, <2>2, <2>3 DEF Converging
<1> QED
  BY <1>1, InitConverging, ExtraHolds, RecoverableHolds, PTL DEF Spec

(***************************************************************************)
(* A rollback may be interrupted and repeated, for every project, plan and *)
(* number of crashes: once a call gets to its end without an I/O error the *)
(* tree is the approved one, whatever conflicts it reports, provided that  *)
(* the files are left alone, the backup is whole, no operation is in doubt *)
(* and every rename declares its hash.                                     *)
(***************************************************************************)
THEOREM RollbackConvergesHolds == Spec => []RollbackConverges
<1>1. ASSUME Inv, Base, Converging PROVE RollbackConverges
  <2> SUFFICES ASSUME phase = "done", used.rollbacks > 0, Clear PROVE tree = base
    BY DEF RollbackConverges, Clear
  <2>1. used.rollbacks # 0 /\ edited = {}
    BY DEF Clear
  <2>2. \A i \in Ops : NotInEffect(i)
    BY <1>1, <2>1 DEF Converging, UndoneBehindCursor
  <2>3. ASSUME NEW p \in Path PROVE tree[p] = base[p]
    BY <1>1, <2>1, <2>2 DEF NotInEffect, Base, WriteAhead
  <2>4. tree \in [Path -> Node] /\ base \in [Path -> Node]
    BY <1>1 DEF Inv, TypeOK, Tree
  <2> QED
    BY <2>3, <2>4
<1>2. Inv /\ Base /\ Converging => RollbackConverges
  BY <1>1
<1> QED
  BY <1>2, ConvergingHolds, PTL
=============================================================================
