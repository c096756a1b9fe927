--------------------------- MODULE PatchTransaction ---------------------------
(***************************************************************************)
(* One transaction of the patch engine, from the plan to the rollback:     *)
(*                                                                         *)
(*   check_plan -> create_backup -> apply_plan      (patch/preconditions,  *)
(*        -> [inspect_recovery] -> rollback_transaction    backup, apply,  *)
(*                                  journal, recovery, rollback)           *)
(*                                                                         *)
(* A step of the model is what happens between two effects on the disk     *)
(* that another program could see: the backup directory, the apply journal *)
(* (replaced atomically), a temporary file beside its target, the target.  *)
(* Beside the engine three things act: an editor that saves and deletes    *)
(* project files, a crash of the process, and I/O errors.                  *)
(*                                                                         *)
(* A definition marked "Slip" is not part of the model: it is a plausible  *)
(* mistake in the definition that follows it, kept to show that the        *)
(* properties below notice it.                                             *)
(***************************************************************************)
EXTENDS PatchPlans, FiniteSets

CONSTANTS
  Plans,         \* the plans a transaction may run
  Trees,         \* the project trees it may start from
  EditorWindows, \* the phases during which the editor may save a file
  MaxEdits,      \* bound: editor steps, and damages to the backup
  MaxCrashes,    \* bound: crashes of the process
  MaxFaults,     \* bound: I/O errors
  MaxRollbacks   \* bound: calls of rollback_transaction

Phase == {"planned", "checked", "copying", "backed_up", "journaling",
          "applying", "started", "verified", "effected",
          "rolling_back", "rb_verified", "done", "crashed"}

(* "raised": the call ended in an exception instead of a PatchResult.      *)
Status == {"none", "raised", "failed", "committed", "rolled_back"}

JournalState == {"pending", "started", "completed"}

(* Why rollback_transaction recorded a conflict for an operation.          *)
Reason == {"none", "guard", "io"}

(* How much of each bound is used.                                         *)
Used == [edits: 0..MaxEdits, crashes: 0..MaxCrashes, faults: 0..MaxFaults,
         rollbacks: 0..MaxRollbacks]

VARIABLES
  tree,     \* the project files
  strays,   \* paths beside which a temporary file of _atomic_write lies
  plan,     \* the plan of this transaction
  phase,    \* where the engine is
  pos,      \* index of the operation being copied, applied or rolled back
  snapshot, \* hashes recorded by check_plan (in memory)
  staging,  \* <txid>.tmp: the file copied for each operation, or Absent
  backup,   \* <txid>: the promoted files, or <<>>: no such directory
  manifest, \* the hash the backup manifest records for each file
  journal,  \* apply_journal.json: one entry per operation, or <<>>
  status,   \* the status the last call returned
  applied,  \* PatchResult.applied
  conflicts,\* RollbackResult.conflicts: the reason per operation
  base,     \* history: the tree check_plan has approved
  edited,   \* history: paths the editor has written since then
  used      \* history: edits, crashes, faults and rollbacks so far

vars == <<tree, strays, plan, phase, pos, snapshot, staging, backup, manifest, journal,
          status, applied, conflicts, base, edited, used>>

disk    == <<tree, strays>>
safety  == <<snapshot, staging, backup, manifest>>
outcome == <<status, applied, conflicts>>
history == <<base, edited, used>>

Op == plan[pos]
Ops == DOMAIN plan

NoConflicts == [i \in Ops |-> "none"]
NoFiles     == [i \in Ops |-> Absent]

ASSUME BoundAssumption ==
  /\ MaxEdits \in Nat /\ MaxCrashes \in Nat /\ MaxFaults \in Nat /\ MaxRollbacks \in Nat
  /\ EditorWindows \subseteq Phase

ASSUME PlanAssumption ==
  /\ Plans \subseteq Seq(PatchOperation)
  /\ \A p \in Plans : p # <<>>
  /\ Trees \subseteq Tree

(* In a file tree what exists has a directory, and not itself.             *)
ASSUME TreeAssumption ==
  /\ \A p \in Path : Parent[p] # p
  /\ \A t \in Trees : \A p \in Path : Exists(t, p) => ParentIsDir(t, p)

Init ==
  /\ tree \in Trees
  /\ strays = {}
  /\ plan \in Plans
  /\ phase = "planned"
  /\ pos = 1
  /\ snapshot = [p \in Path |-> NoHash]
  /\ staging = NoFiles /\ backup = <<>> /\ manifest = <<>> /\ journal = <<>>
  /\ status = "none" /\ applied = 0 /\ conflicts = NoConflicts
  /\ base = tree /\ edited = {}
  /\ used = [edits |-> 0, crashes |-> 0, faults |-> 0, rollbacks |-> 0]

(* The call of this phase ends, and answers s.                             *)
Return(s) == phase' = "done" /\ status' = s

(***************************************************************************)
(* check_plan, called by the hub and the CLI before a transaction.  With   *)
(* an issue they stop: there is no transaction.                            *)
(***************************************************************************)
CheckPlan ==
  /\ phase = "planned"
  /\ base' = tree /\ edited' = {}
  /\ \/ /\ PlanOk(plan, tree)
        /\ snapshot' = [p \in Path |-> FileHash(tree, p)]
        /\ phase' = "checked" /\ UNCHANGED status
     \/ /\ ~PlanOk(plan, tree)
        /\ Return("failed") /\ UNCHANGED snapshot
  /\ UNCHANGED <<disk, plan, pos, staging, backup, manifest, journal, applied, conflicts, used>>

-----------------------------------------------------------------------------
(* create_backup.  Every failure removes the staging directory and raises. *)

BeginBackup ==
  /\ phase = "checked"
  /\ phase' = "copying" /\ pos' = 1 /\ staging' = NoFiles
  /\ UNCHANGED <<disk, plan, snapshot, backup, manifest, journal, outcome, history>>

(* Slip: the copy is taken without comparing hashes.                       *)
SourceUnchecked(op) == IsFile(tree, op.path)

(* The source of an operation is still what check_plan has seen.           *)
SourceUnchanged(op) ==
  /\ IsFile(tree, op.path)
  /\ FileHash(tree, op.path) = snapshot[op.path]
  /\ op.expected # NoHash => FileHash(tree, op.path) = op.expected

(* One operation's source is re-checked, copied and the copy re-read.  A   *)
(* save between the first read and the copy shows as a hash mismatch, and  *)
(* raises like a save before it: one step covers both.                     *)
CopySource ==
  /\ phase = "copying" /\ pos \in Ops
  /\ \/ /\ HasBackup(Op) => SourceUnchanged(Op)
        /\ staging' = IF HasBackup(Op) THEN [staging EXCEPT ![pos] = tree[Op.path]] ELSE staging
        /\ pos' = pos + 1
        /\ UNCHANGED <<phase, status>>
     \/ /\ HasBackup(Op) /\ ~SourceUnchanged(Op)
        /\ staging' = NoFiles
        /\ Return("raised")
        /\ UNCHANGED pos
  /\ UNCHANGED <<disk, plan, snapshot, backup, manifest, journal, applied, conflicts, history>>

(* The manifest is written and the staging directory renamed to its final  *)
(* name.                                                                   *)
PromoteBackup ==
  /\ phase = "copying" /\ pos \notin Ops
  /\ backup' = staging /\ manifest' = staging /\ staging' = NoFiles
  /\ phase' = "backed_up"
  /\ UNCHANGED <<disk, plan, pos, snapshot, journal, outcome, history>>

-----------------------------------------------------------------------------
(* apply_plan.                                                             *)

(* _validate_manifest: every file the manifest lists is there and intact.  *)
BackupIntact == backup # <<>> /\ \A i \in Ops : backup[i] = manifest[i]

(* Manifest, overlap, preconditions and content are validated before       *)
(* anything is written.                                                    *)
ValidateApply ==
  /\ phase = "backed_up"
  /\ LET ok == BackupIntact /\ NoOverlap(plan) /\ PlanOk(plan, tree) /\ ContentOk(plan)
     IN \/ ok  /\ phase' = "journaling" /\ UNCHANGED status
        \/ ~ok /\ Return("failed")
  /\ UNCHANGED <<disk, plan, pos, safety, journal, applied, conflicts, history>>

(* Slip: the last operation has no entry.                                  *)
ShortJournal ==
  [i \in Ops \ {Len(plan)} |-> [state |-> "pending", post |-> NoHash]]

(* new_journal: a rename carries its expected hash as post hash, create    *)
(* and update the declared hash, which may be missing.                     *)
NewJournal ==
  [i \in Ops |-> [state |-> "pending",
                  post  |-> IF plan[i].kind = "rename" THEN plan[i].expected
                            ELSE IF WritesContent(plan[i]) THEN plan[i].desired
                            ELSE NoHash]]

WriteJournal ==
  /\ phase = "journaling"
  /\ journal' = NewJournal
  /\ phase' = "applying" /\ pos' = 1
  /\ UNCHANGED <<disk, plan, safety, outcome, history>>

(* Slip: the entry is updated in memory but not written.                   *)
KeepEntry(i, s) == UNCHANGED journal

(* Slip: the entry is completed before the operation is performed.         *)
CompleteEarly(i, s) == journal' = [journal EXCEPT ![i].state = "completed"]

SetEntry(i, s) == journal' = [journal EXCEPT ![i].state = s]

StartOperation ==
  /\ phase = "applying" /\ pos \in Ops
  /\ SetEntry(pos, "started")
  /\ phase' = "started"
  /\ UNCHANGED <<disk, plan, pos, safety, outcome, history>>

(* The target is re-checked; a create or update writes its bytes to a      *)
(* temporary file beside the target.  Otherwise the call stops here.       *)
VerifyTarget ==
  /\ phase = "started"
  /\ \/ /\ TargetReady(Op, tree)
        /\ strays' = IF WritesContent(Op) THEN strays \cup {Op.path} ELSE strays
        /\ phase' = "verified" /\ UNCHANGED status
     \/ /\ ~TargetReady(Op, tree)
        /\ Return("failed") /\ UNCHANGED strays
  /\ UNCHANGED <<tree, plan, pos, safety, journal, applied, conflicts, history>>

(* os.replace, unlink or mkdir.                                            *)
PerformEffect ==
  /\ phase = "verified"
  /\ strays' = strays \ {Op.path}
  /\ \/ /\ SyscallOk(Op, tree)
        /\ tree' = Effect(Op, tree)
        /\ phase' = "effected" /\ UNCHANGED status
     \/ /\ ~SyscallOk(Op, tree)
        /\ Return("failed") /\ UNCHANGED tree
  /\ UNCHANGED <<plan, pos, safety, journal, applied, conflicts, history>>

(* The post hash of a create or update is read back from the target; it is *)
(* recorded as found, whatever it is.                                      *)
Readable == WritesContent(Op) => IsFile(tree, Op.path)

CompletedJournal ==
  [journal EXCEPT ![pos] = [state |-> "completed",
                            post  |-> IF WritesContent(Op) THEN FileHash(tree, Op.path)
                                                           ELSE @.post]]

CompleteOperation ==
  /\ phase = "effected"
  /\ applied' = applied + 1
  /\ \/ /\ Readable
        /\ journal' = CompletedJournal
        /\ phase' = "applying" /\ pos' = pos + 1 /\ UNCHANGED status
     \/ /\ ~Readable
        /\ Return("failed") /\ UNCHANGED <<pos, journal>>
  /\ UNCHANGED <<disk, plan, safety, conflicts, history>>

Commit ==
  /\ phase = "applying" /\ pos \notin Ops
  /\ Return("committed")
  /\ UNCHANGED <<disk, plan, pos, safety, journal, applied, conflicts, history>>

-----------------------------------------------------------------------------
(* inspect_recovery: read-only, evaluated on the tree and the journal.     *)

(* Slip: the post-state is tried before the pre-state.                     *)
RecoveryPostFirst(i) ==
  IF PostStateMatches(plan[i], tree, strays, journal[i].post) THEN "applied"
  ELSE IF PreStateMatches(plan[i], tree) THEN "not_applied" ELSE "unknown"

RecoveryState(i) ==
  LET op == plan[i]
      pre  == PreStateMatches(op, tree)
      post == PostStateMatches(op, tree, strays, journal[i].post)
  IN IF journal[i].state # "completed" /\ pre THEN "not_applied"
     ELSE IF journal[i].state # "pending" /\ post THEN "applied"
     ELSE "unknown"

(* RecoveryReport.ok                                                       *)
RecoveryOk == BackupIntact /\ \A i \in Ops : RecoveryState(i) # "unknown"

-----------------------------------------------------------------------------
(* rollback_transaction: the completed entries, last one first.            *)

(* The caller passes the status of the transaction; a committed one is     *)
(* refused.  Nobody repeats a rollback that has answered ROLLED_BACK.      *)
CanRollback == status \notin {"committed", "rolled_back"}

StartRollback ==
  /\ phase \in {"done", "crashed"}
  /\ CanRollback
  /\ journal # <<>> /\ backup # <<>>
  /\ used.rollbacks < MaxRollbacks
  /\ used' = [used EXCEPT !.rollbacks = @ + 1]
  /\ phase' = "rolling_back" /\ pos' = Len(plan)
  /\ conflicts' = NoConflicts
  /\ UNCHANGED <<disk, plan, safety, journal, status, applied, base, edited>>

(* The entry of this operation is not completed: nothing is done for it.   *)
SkipEntry ==
  /\ phase = "rolling_back" /\ pos \in Ops
  /\ journal[pos].state # "completed"
  /\ pos' = pos - 1
  /\ UNCHANGED <<disk, plan, phase, safety, journal, outcome, history>>

(* Slip: whatever is there now is replaced.                                *)
AlwaysUndoable(i) == plan[i].kind # "mkdir" /\ IsFile(tree, plan[i].to)

(* The tree still holds what the operation has put there, and the backup   *)
(* still holds the bytes to be put back.                                   *)
Undoable(i) ==
  LET op == plan[i]  post == journal[i].post IN
  /\ op.kind \in {"create", "update", "rename"} => post # NoHash /\ FileHash(tree, op.to) = post
  /\ op.kind \in {"delete", "rename"} => ~Exists(tree, op.path)
  /\ op.kind \in {"update", "delete"} => backup[i] = manifest[i] /\ ParentIsDir(tree, op.path)
  /\ op.kind = "mkdir" => IsEmptyDirectory(tree, strays, op.path)

(* Slips: a conflict ends the rollback; a conflict is retried for ever.    *)
StopAtConflict == 0
RetryConflict == pos

(* A conflict does not end the rollback: the earlier entries are next.     *)
AfterConflict == pos - 1

VerifyUndo ==
  /\ phase = "rolling_back" /\ pos \in Ops
  /\ journal[pos].state = "completed"
  /\ \/ /\ Undoable(pos)
        /\ strays' = IF Op.kind \in {"update", "delete"} THEN strays \cup {Op.path} ELSE strays
        /\ phase' = "rb_verified" /\ UNCHANGED <<pos, conflicts>>
     \/ /\ ~Undoable(pos)
        /\ conflicts' = [conflicts EXCEPT ![pos] = "guard"]
        /\ pos' = AfterConflict /\ UNCHANGED <<strays, phase>>
  /\ UNCHANGED <<tree, plan, safety, journal, status, applied, history>>

(* The inverse of an operation: backup bytes replace the target, a created *)
(* file or directory goes, a renamed file moves back.                      *)
UndoEffect(i) ==
  [p \in Path |->
     IF p = plan[i].path THEN IF plan[i].kind = "rename" THEN tree[plan[i].to]
                              ELSE IF HasBackup(plan[i]) THEN backup[i]
                              ELSE Absent
     ELSE IF p = plan[i].to THEN Absent
     ELSE tree[p]]

(* What the operating system checks when the guard's answer is stale.      *)
UndoSyscallOk(op) ==
  /\ op.kind \in {"update", "delete", "rename"} => tree[op.path] # Directory
  /\ op.kind \in {"create", "rename"} => IsFile(tree, op.to)
  /\ op.kind = "mkdir" => IsEmptyDirectory(tree, strays, op.path)

PerformUndo ==
  /\ phase = "rb_verified"
  /\ strays' = strays \ (IF Op.kind \in {"update", "delete"} THEN {Op.path} ELSE {})
  /\ \/ /\ UndoSyscallOk(Op)
        /\ tree' = UndoEffect(pos)
        /\ UNCHANGED conflicts
     \/ /\ ~UndoSyscallOk(Op)
        /\ conflicts' = [conflicts EXCEPT ![pos] = "io"]
        /\ UNCHANGED tree
  /\ phase' = "rolling_back" /\ pos' = pos - 1
  /\ UNCHANGED <<plan, safety, journal, status, applied, history>>

(* Slip: conflicts do not count.                                           *)
ConflictsIgnored == TRUE

NothingInConflict == conflicts = NoConflicts

FinishRollback ==
  /\ phase = "rolling_back" /\ pos \notin Ops
  /\ Return(IF NothingInConflict THEN "rolled_back" ELSE "failed")
  /\ UNCHANGED <<disk, plan, pos, safety, journal, applied, conflicts, history>>

-----------------------------------------------------------------------------
(* The environment.                                                        *)

(* An OSError in whatever the engine was about to do.  write_journal may   *)
(* fail after it has replaced the journal, in the fsync of the directory.  *)
IoError ==
  /\ used.faults < MaxFaults
  /\ used' = [used EXCEPT !.faults = @ + 1]
  /\ \/ /\ phase \in {"copying", "journaling"}
        /\ journal' \in {journal} \cup {j \in {NewJournal} : phase = "journaling"}
        /\ staging' = NoFiles
        /\ Return("raised")
        /\ UNCHANGED <<strays, pos, applied, conflicts>>
     \/ /\ phase \in {"started", "verified"} \/ (phase = "applying" /\ pos \in Ops)
        /\ strays' = strays \ {Op.path}
        /\ Return("failed")
        /\ UNCHANGED <<pos, staging, journal, applied, conflicts>>
     \/ /\ phase = "effected"
        /\ journal' \in {journal} \cup {j \in {CompletedJournal} : Readable}
        /\ applied' = applied + 1
        /\ Return("failed")
        /\ UNCHANGED <<strays, pos, staging, conflicts>>
     \/ /\ phase = "rb_verified"
        /\ strays' = strays \ (IF Op.kind \in {"update", "delete"} THEN {Op.path} ELSE {})
        /\ conflicts' = [conflicts EXCEPT ![pos] = "io"]
        /\ phase' = "rolling_back" /\ pos' = pos - 1
        /\ UNCHANGED <<staging, journal, status, applied>>
  /\ UNCHANGED <<tree, plan, snapshot, backup, manifest, base, edited>>

(* The process dies.  What is on the disk stays as it is, the staging      *)
(* directory and the temporary file included; no status is returned.       *)
Crash ==
  /\ used.crashes < MaxCrashes
  /\ used' = [used EXCEPT !.crashes = @ + 1]
  /\ phase \notin {"planned", "done", "crashed"}
  /\ phase' = "crashed" /\ status' = "none"
  /\ UNCHANGED <<disk, plan, pos, safety, journal, applied, conflicts, base, edited>>

CanEdit == used.edits < MaxEdits /\ phase \in EditorWindows

(* The editor saves bytes of its own at a path, or deletes a file.         *)
EditorSave(p, c) ==
  /\ CanEdit
  /\ used' = [used EXCEPT !.edits = @ + 1]
  /\ tree[p] # Directory /\ ParentIsDir(tree, p) /\ tree[p] # c
  /\ tree' = [tree EXCEPT ![p] = c]
  /\ edited' = edited \cup {p}
  /\ UNCHANGED <<strays, plan, phase, pos, safety, journal, outcome, base>>

EditorDelete(p) ==
  /\ CanEdit
  /\ used' = [used EXCEPT !.edits = @ + 1]
  /\ IsFile(tree, p)
  /\ tree' = [tree EXCEPT ![p] = Absent]
  /\ edited' = edited \cup {p}
  /\ UNCHANGED <<strays, plan, phase, pos, safety, journal, outcome, base>>

(* A backup file is lost, while the engine is not running.                 *)
LoseBackup(i) ==
  /\ used.edits < MaxEdits /\ phase \in {"backed_up", "done", "crashed"}
  /\ used' = [used EXCEPT !.edits = @ + 1]
  /\ i \in DOMAIN backup /\ backup[i] # Absent
  /\ backup' = [backup EXCEPT ![i] = Absent]
  /\ UNCHANGED <<disk, plan, phase, pos, snapshot, staging, manifest, journal, outcome,
                 base, edited>>

-----------------------------------------------------------------------------
Backup   == BeginBackup \/ CopySource \/ PromoteBackup
Apply    == ValidateApply \/ WriteJournal \/ StartOperation \/ VerifyTarget
              \/ PerformEffect \/ CompleteOperation \/ Commit
Rollback == SkipEntry \/ VerifyUndo \/ PerformUndo \/ FinishRollback

Engine == CheckPlan \/ Backup \/ Apply \/ Rollback

Editor == \/ \E p \in Path : EditorDelete(p) \/ \E c \in Content : EditorSave(p, c)
          \/ \E i \in DOMAIN backup : LoseBackup(i)

Next == Engine \/ StartRollback \/ IoError \/ Crash \/ Editor

Spec == Init /\ [][Next]_vars

(* The engine is a straight-line synchronous program: a call that has been *)
(* made goes on.  Nobody owes a crashed transaction a rollback.            *)
FairSpec == Spec /\ WF_vars(Engine)

-----------------------------------------------------------------------------
(* Correctness.                                                            *)

(* The types of the variables: the cursor stays beside the plan, and the   *)
(* backup and the journal, when they exist, have one entry per operation.  *)
TypeOK ==
  /\ tree \in Tree /\ base \in Tree
  /\ strays \subseteq Path /\ edited \subseteq Path
  /\ plan \in Plans
  /\ phase \in Phase /\ status \in Status
  /\ pos \in 0..Len(plan) + 1
  /\ snapshot \in [Path -> Hash]
  /\ staging \in [Ops -> Node]
  /\ backup \in [Ops -> Node] \cup {<<>>} /\ manifest \in [Ops -> Node] \cup {<<>>}
  /\ journal \in [Ops -> [state: JournalState, post: Hash]] \cup {<<>>}
  /\ applied \in Nat
  /\ conflicts \in [Ops -> Reason]
  /\ used \in Used

(***************************************************************************)
(* What each phase relies on: the operation under the cursor exists, its   *)
(* bytes are known, and its journal entry says what is being done to it.   *)
(***************************************************************************)
PhaseOK ==
  /\ phase \in {"planned", "checked", "copying", "backed_up", "journaling"} => journal = <<>>
  /\ phase \in {"copying", "applying"} => pos # 0
  /\ phase \in {"started", "verified", "effected", "rb_verified"} => pos \in Ops
  /\ phase \in {"journaling", "applying", "started", "verified", "effected"} => ContentOk(plan)
  /\ phase \in {"applying", "started", "verified", "effected", "rolling_back", "rb_verified"}
        => journal # <<>>
  /\ phase \in {"rolling_back", "rb_verified"} => backup # <<>>
  /\ phase \in {"started", "verified", "effected"} => journal[pos].state = "started"
  /\ phase = "rb_verified" => journal[pos].state = "completed"

Journalled(i, s) == journal # <<>> /\ journal[i].state = s

InEffect(i)    == \A p \in Touched(plan[i]) : tree[p] = Effect(plan[i], base)[p]
NotInEffect(i) == \A p \in Touched(plan[i]) : tree[p] = base[p]
Undisturbed(i) == Touched(plan[i]) \cap edited = {}

(***************************************************************************)
(* The journal is a write-ahead log: a path the editor has left alone      *)
(* differs from the approved tree only if it belongs to an operation whose *)
(* entry is already STARTED on the disk.  So as long as there is no        *)
(* journal, the transaction has changed nothing (apply.py 271-277).        *)
(***************************************************************************)
WriteAhead ==
  \A p \in Path \ edited :
     tree[p] # base[p] =>
        \E i \in Ops : p \in Touched(plan[i]) /\ (Journalled(i, "started") \/ Journalled(i, "completed"))

(***************************************************************************)
(* Before any rollback a COMPLETED entry is true of the tree, and a        *)
(* transaction is COMMITTED only when every entry is COMPLETED             *)
(* (apply.py 341-391: "never COMMITTED on partial").                       *)
(***************************************************************************)
JournalTruthful ==
  /\ used.rollbacks = 0 =>
        \A i \in Ops : Journalled(i, "completed") /\ Undisturbed(i) => InEffect(i)
  /\ status = "committed" => \A i \in Ops : Journalled(i, "completed")

(***************************************************************************)
(* The engine destroys no bytes it cannot bring back: what a step of apply *)
(* or rollback takes from a path is in the backup, or the plan's own       *)
(* content, or has moved to another path.  In particular no step           *)
(* overwrites what the editor has saved (apply.py 296-312, rollback.py     *)
(* 185, 226, 259, 305).                                                    *)
(***************************************************************************)
BytesKept(p) ==
  \/ \E i \in Ops : /\ p \in Touched(plan[i])
                    /\ \/ backup # <<>> /\ backup[i] = tree[p]
                       \/ plan[i].content = tree[p]
  \/ \E q \in Path : tree'[q] = tree[p] /\ tree[q] # tree[p]

EngineLosesNothing ==
  [][used' = used => \A p \in Path : IsFile(tree, p) /\ tree'[p] # tree[p] => BytesKept(p)]_vars

(***************************************************************************)
(* Rollback changes a path only to the value it had when check_plan        *)
(* approved the tree, whatever happened to the files and to the backup in  *)
(* between (backup.py 230-258, rollback.py 90-118).                        *)
(***************************************************************************)
RollbackOnlyRestores ==
  [][phase = "rb_verified" => \A p \in Path : tree'[p] # tree[p] => tree'[p] = base[p]]_vars

(***************************************************************************)
(* ROLLED_BACK is an answer to rely on: every path the editor has left     *)
(* alone is as before the transaction, but for the operation that was in   *)
(* doubt (STARTED, never COMPLETED) when the apply ended.                  *)
(***************************************************************************)
RolledBackRestores ==
  status = "rolled_back" =>
     \A p \in Path \ edited :
        \/ tree[p] = base[p]
        \/ \E i \in Ops : p \in Touched(plan[i]) /\ Journalled(i, "started")

(***************************************************************************)
(* A rollback interrupted by a crash may be repeated: once a call gets to  *)
(* its end without an I/O error the tree is the approved one, even though  *)
(* the repeated call reports conflicts for what the first had undone.      *)
(***************************************************************************)
RollbackConverges ==
  /\ phase = "done" /\ used.rollbacks > 0
  /\ edited = {} /\ backup = manifest
  /\ \A i \in Ops : /\ conflicts[i] # "io"
                    /\ journal[i].state # "started"
                    /\ plan[i].kind = "rename" => plan[i].expected # NoHash
  => tree = base

(***************************************************************************)
(* inspect_recovery does not mislead: after a crash or a failure what it   *)
(* calls applied is in effect and what it calls not applied has left no    *)
(* trace; and when it calls the whole report ok, what is applied is a      *)
(* prefix of the plan (recovery.py 275-316).                               *)
(***************************************************************************)
RecoverySound ==
  phase \in {"crashed", "done"} /\ journal # <<>> /\ used.rollbacks = 0 =>
     /\ \A i \in Ops : Undisturbed(i) =>
           /\ RecoveryState(i) = "applied" => InEffect(i)
           /\ RecoveryState(i) = "not_applied" => NotInEffect(i)
     /\ RecoveryOk /\ edited = {} =>
           \A i, j \in Ops : i < j /\ RecoveryState(j) = "applied" => RecoveryState(i) = "applied"

(***************************************************************************)
(* Every call returns or the process dies: neither a conflict nor an I/O   *)
(* error makes apply or rollback stop half way without an answer.          *)
(***************************************************************************)
CallsReturn == []<>(phase \in {"done", "crashed"})

-----------------------------------------------------------------------------
(* What documents and tests say, and the program does not do.              *)

(***************************************************************************)
(* After a crash during apply a rollback that reports ROLLED_BACK has      *)
(* restored the files byte-exactly.                                        *)
(***************************************************************************)
RollbackByteExact == status = "rolled_back" /\ edited = {} => tree = base

=============================================================================
