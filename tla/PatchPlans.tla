------------------------------ MODULE PatchPlans ------------------------------
(***************************************************************************)
(* The data of the patch engine (godotforge_core/patch): the tree of the   *)
(* Godot project a plan changes, the plan's operations, and the pure       *)
(* functions the engine evaluates on them: preconditions, the effect of an *)
(* operation, and the two state tests of crash recovery.                   *)
(*                                                                         *)
(* Bytes are abstract values of Content.  SHA-256 is taken to be           *)
(* collision free, so that the hash of a file is its content, and the hash *)
(* of anything that is not a regular file is NoHash (Python's None).       *)
(* Symbolic links are outside the model.                                   *)
(*                                                                         *)
(* A definition marked "Slip" is not part of the model: it is a plausible  *)
(* mistake in the definition that follows it, kept to show that the        *)
(* properties of the modules that use this one notice it.                  *)
(***************************************************************************)
EXTENDS Integers, Sequences

CONSTANTS
  Path,       \* project-relative paths
  Content,    \* the bytes a file may hold
  Parent,     \* the directory of each path: a path, or Root
  Root,       \* the project root, which always exists
  Absent,     \* tree value: nothing at this path
  Directory,  \* tree value: a directory
  NoHash      \* a hash that is None

Node == Content \cup {Absent, Directory}
Hash == Content \cup {NoHash}
Tree == [Path -> Node]

Kind == {"create", "update", "delete", "rename", "mkdir"}

(***************************************************************************)
(* An operation.  `to` is used by a rename only (and is `path` otherwise); *)
(* `content` is what the content provider answers for the operation, which *)
(* is not part of the plan: `desired` is the hash the plan declares for it.*)
(***************************************************************************)
PatchOperation ==
  {op \in [kind: Kind, path: Path, to: Path, expected: Hash, desired: Hash, content: Hash] :
     op.kind = "rename" <=> op.to # op.path}

ASSUME PathAssumption ==
  /\ Root \notin Path
  /\ Parent \in [Path -> Path \cup {Root}]

ASSUME NodeAssumption ==
  /\ Absent \notin Content
  /\ Directory \notin Content
  /\ NoHash \notin Content
  /\ Absent # Directory

-----------------------------------------------------------------------------
(* The project tree.                                                       *)

FileHash(t, p) == IF t[p] \in Content THEN t[p] ELSE NoHash

Exists(t, p) == t[p] # Absent

IsFile(t, p) == t[p] \in Content

ParentIsDir(t, p) == Parent[p] # Root => t[Parent[p]] = Directory

(* The directory p has no entry; strays are the paths beside which an      *)
(* interrupted _atomic_write has left its temporary file.                  *)
IsEmptyDirectory(t, strays, p) ==
  /\ t[p] = Directory
  /\ \A q \in Path : Parent[q] = p => ~Exists(t, q)
  /\ \A q \in strays : Parent[q] # p

-----------------------------------------------------------------------------
(* Operations.                                                             *)

Touched(op) == {op.path, op.to}

WritesContent(op) == op.kind \in {"create", "update"}

HasBackup(op) == op.kind \in {"update", "delete", "rename"}

(* An operation performed: it puts its content, a directory, nothing, or   *)
(* the bytes of another path at its own.                                   *)
Effect(op, t) ==
  [p \in Path |->
     IF p = op.to /\ op.kind = "rename" THEN t[op.path]
     ELSE IF p # op.path               THEN t[p]
     ELSE IF WritesContent(op)         THEN op.content
     ELSE IF op.kind = "mkdir"         THEN Directory
     ELSE Absent]

(* Every logical path is used by at most one operation of the plan.        *)
NoOverlap(plan) ==
  \A i, j \in DOMAIN plan : i # j => Touched(plan[i]) \cap Touched(plan[j]) = {}

(* check_plan finds no issue with the operation.                           *)
Precondition(op, t) ==
  /\ op.kind \in {"create", "mkdir"} => op.expected = NoHash /\ ~Exists(t, op.path)
  /\ op.kind = "mkdir"  => op.desired = NoHash
  /\ op.kind = "update" => IsFile(t, op.path) /\ FileHash(t, op.path) = op.expected
  /\ op.kind = "delete" => /\ Exists(t, op.path)
                           /\ op.expected # NoHash
                           /\ IsFile(t, op.path) => FileHash(t, op.path) = op.expected
  /\ op.kind = "rename" => /\ IsFile(t, op.path)
                           /\ op.expected \in {NoHash, FileHash(t, op.path)}
                           /\ ~Exists(t, op.to)

PlanOk(plan, t) == \A i \in DOMAIN plan : Precondition(plan[i], t)

(* The content provider answers, and with the bytes the plan declares.     *)
ContentOk(plan) ==
  \A i \in DOMAIN plan :
     WritesContent(plan[i]) => /\ plan[i].content # NoHash
                               /\ plan[i].desired \in {NoHash, plan[i].content}

(* Slip: that the target is still absent is not checked again.             *)
TargetReadyAsChecked(op, t) ==
  /\ op.kind \in {"create", "mkdir", "rename"} => ParentIsDir(t, op.to)
  /\ HasBackup(op) => /\ IsFile(t, op.path)
                      /\ op.expected \in {NoHash, FileHash(t, op.path)}
  /\ op.kind = "rename" => ~Exists(t, op.to)

(* What apply_plan re-checks for one operation just before it performs it. *)
TargetReady(op, t) ==
  /\ op.kind \in {"create", "mkdir"} => ~Exists(t, op.path)
  /\ op.kind \in {"create", "mkdir", "rename"} => ParentIsDir(t, op.to)
  /\ HasBackup(op) => /\ IsFile(t, op.path)
                      /\ op.expected \in {NoHash, FileHash(t, op.path)}
  /\ op.kind = "rename" => ~Exists(t, op.to)

(* The system call that performs the operation can still succeed: what the *)
(* operating system itself checks when the answer of TargetReady is stale. *)
SyscallOk(op, t) ==
  /\ WritesContent(op)  => t[op.path] # Directory
  /\ op.kind = "mkdir"  => ~Exists(t, op.path)
  /\ op.kind \in {"delete", "rename"} => IsFile(t, op.path)
  /\ op.kind = "rename" => t[op.to] # Directory

-----------------------------------------------------------------------------
(* Crash recovery: does the tree look as before, or as after the operation?*)

PreStateMatches(op, t) ==
  /\ op.kind \in {"create", "mkdir"} => ~Exists(t, op.path)
  /\ op.kind = "rename" => ~Exists(t, op.to)
  /\ HasBackup(op) => FileHash(t, op.path) = op.expected

PostStateMatches(op, t, strays, postHash) ==
  /\ op.kind \in {"delete", "rename"} => ~Exists(t, op.path)
  /\ op.kind \in {"create", "update", "rename"} => FileHash(t, op.to) = postHash
  /\ op.kind = "mkdir" => IsEmptyDirectory(t, strays, op.path)

=============================================================================
