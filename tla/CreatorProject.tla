----------------------------- MODULE CreatorProject -----------------------------
(***************************************************************************)
(* The creator's commands on a project directory: `apply` plans a template *)
(* for it and runs the plan through the patch engine (creator/plan.py, the *)
(* CLI's creator.py), `verify` copies the project away and has the engine  *)
(* run the copy (creator/verify.py, engine/validate.py).  A person edits   *)
(* the project at any moment of a command, and a command may be killed at  *)
(* any moment.                                                             *)
(*                                                                         *)
(* The patch engine is the one of PatchPlans.  An operation looks at its   *)
(* target and then changes it, two steps a person may get between; its     *)
(* journal and its recovery are in PatchTransaction.  The source is hashed *)
(* in one step, file by file in the code.  Symbolic links and the          *)
(* directories the creator prunes are left out.                            *)
(*                                                                         *)
(* A definition marked "Slip" is not part of the model: it is a plausible  *)
(* mistake in the definition that follows it, kept to show that the        *)
(* properties notice it.                                                   *)
(***************************************************************************)
EXTENDS Integers, FiniteSets, SequencesExt, CreatorTemplates, EngineValidation

CONSTANTS Manifests,     \* manifests a command may be given
          Starts,        \* project trees to start from
          Strays,        \* a sequence of paths that are no template's, outside .godotforge
          EditorPaths,   \* paths the person edits
          Modes,         \* validation modes asked for
          EngineRuns,    \* runs of the engine that may happen
          MaxCopyFiles,  \* MAX_COPY_FILES
          MaxCommands,   \* bound on the commands
          MaxDisturbed   \* bound on the edits, crashes and failures

VARIABLES
  tree,      \* the project directory
  pc,        \* where the command is; "idle" when there is none
  manifest,  \* its manifest
  plan,      \* apply: the operations
  done,      \*        how many of them have been performed
  check,     \* verify: the source as hashed, the copy, the work that is left
  runs,      \*         the stages that ran
  temp,      \*         the temporary directory exists
  exit,      \* how the command ended, while pc = "reported"
  edited,    \* edits by the person since the command began
  late,      \* history: paths edited since the current target was looked at
  budget     \* commands, and edits, crashes or failures, there have been

vars == <<tree, pc, manifest, plan, done, check, runs, temp, exit, edited, late, budget>>

Root == <<>>
Absent == <<"absent">>
Directory == <<"directory">>
NoHash == <<"none">>
UserText == <<"user">>
ValidatorText == <<"validator">>

Forge == <<".godotforge">>
ProjectYaml == Append(Forge, "project.yaml")
Validator == Append(Forge, "validate_boot.gd")

(* The elements of s that are in S, in the order of s.                     *)
Those(s, S) ==
  LET at == {i \in DOMAIN s : s[i] \in S}
  IN  [k \in 1..Cardinality(at) |-> s[CHOOSE i \in at : Cardinality({j \in at : j < i}) = k - 1]]

(* Every path, in the order a directory is listed in.                      *)
Listed ==
  Files3D \o Those(Files2D, ToSet(Files2D) \ ToSet(Files3D)) \o Dirs3D
    \o <<Forge, ProjectYaml, Validator>> \o Strays
ProjectPath == ToSet(Listed)

ParentOf == [p \in ProjectPath |-> Front(p)]

Contents ==
  {UserText, ValidatorText} \cup UNION {{Emitted(m, f) : f \in ToSet(GFiles(m))} : m \in Manifests}

P == INSTANCE PatchPlans WITH Path <- ProjectPath, Content <- Contents, Parent <- ParentOf

Files(t) == {p \in ProjectPath : t[p] \notin {Absent, Directory}}
FileMap(t) == [p \in ProjectPath |-> IF p \in Files(t) THEN t[p] ELSE Absent]
Children(t, d) == {p \in ProjectPath : p # Root /\ ParentOf[p] = d /\ t[p] # Absent}

EmptyTree == [p \in ProjectPath |-> Absent]

(* A path lies at the root or in another path, a tree has a directory      *)
(* around whatever is in it, and no bytes are mistaken for what is not a   *)
(* file.                                                                   *)
ASSUME PathAssumption ==
  /\ Strays \in Seq(Seq(STRING))
  /\ Root \notin ProjectPath
  /\ \A p \in ProjectPath : ParentOf[p] \in ProjectPath \cup {Root}

ASSUME ContentAssumption == {Absent, Directory, NoHash} \cap Contents = {}

ASSUME StartAssumption ==
  \A t \in Starts : t \in P!Tree /\ \A p \in ProjectPath : P!Exists(t, p) => P!ParentIsDir(t, p)

ASSUME EditorAssumption == EditorPaths \subseteq ProjectPath

ASSUME EngineAssumption == Modes \subseteq {"full", "import", "load", "boot"} /\ EngineRuns \subseteq EngineRun

-----------------------------------------------------------------------------
(* The planner.                                                            *)

Skeleton == {ProjectYaml}

EmptyDirectory(t, p) == t[p] = Directory /\ Children(t, p) = {}

PreflightFiles(t, m) == Files(t) \subseteq Skeleton \cup ToSet(GFiles(m))

(* _check_preflight.  Without a file, only empty directories of the        *)
(* template may be there; with one, only the top level is looked at.       *)
Preflight(t, m) ==
  IF Files(t) = {}
  THEN \A p \in Children(t, Root) : p = Forge \/ (p \in ToSet(GDirs(m)) /\ EmptyDirectory(t, p))
  ELSE /\ PreflightFiles(t, m)
       /\ \A p \in Children(t, Root) \ Files(t) : p = Forge \/ p \in ToSet(GDirs(m))

FilesOk(t, m) == \A f \in ToSet(GFiles(m)) : t[f] = Emitted(m, f)
DirsOk(t, m)  == \A d \in ToSet(GDirs(m)) : t[d] = Directory

Operation(kind, path, content) ==
  [kind |-> kind, path |-> path, to |-> path, expected |-> NoHash, desired |-> content,
   content |-> content]

Creates(t, m) ==
  LET files == GFiles(m) IN [i \in DOMAIN files |-> Operation("create", files[i], Emitted(m, files[i]))]

(* plan_creator_manifest, when something is missing: every file is to be   *)
(* created, also one that is there.                                        *)
PlanFor(t, m) ==
  LET missing == Those(GDirs(m), {d \in ToSet(GDirs(m)) : t[d] # Directory})
  IN  [i \in DOMAIN missing |-> Operation("mkdir", missing[i], NoHash)] \o Creates(t, m)

NoManifest == [template |-> ""]
NoCheck == [before |-> <<>>, copy |-> <<>>, todo |-> <<>>, mode |-> "", failure |-> "", engine |-> FALSE]

Idle == pc = "idle" /\ budget.commands < MaxCommands
Begun == budget' = [budget EXCEPT !.commands = @ + 1]
Report(code) == pc' = "reported" /\ exit' = code

Apply(m) ==
  /\ Idle /\ Begun /\ manifest' = m
  /\ IF ~Preflight(tree, m) THEN Report("configuration") /\ plan' = plan
     ELSE IF FilesOk(tree, m) /\ DirsOk(tree, m) THEN Report("noop") /\ plan' = plan
     ELSE pc' = "planned" /\ plan' = PlanFor(tree, m) /\ exit' = exit
  /\ UNCHANGED <<tree, done, check, runs, temp, edited, late>>

(* check_plan, just before the backup.                                     *)
CheckOk == P!PlanOk(plan, tree)

CheckPlan ==
  /\ pc = "planned"
  /\ IF CheckOk THEN pc' = "checked" /\ exit' = exit ELSE Report("conflict")
  /\ UNCHANGED <<tree, manifest, plan, done, check, runs, temp, edited, late, budget>>

(* create_backup, which puts its directories under .godotforge.            *)
Backup ==
  /\ pc = "checked"
  /\ \/ /\ tree[Forge] \in {Absent, Directory}
        /\ tree' = [tree EXCEPT ![Forge] = Directory]
        /\ pc' = "applying" /\ exit' = exit
     \/ Report("conflict") /\ tree' = tree
  /\ UNCHANGED <<manifest, plan, done, check, runs, temp, edited, late, budget>>

(* apply_plan looks at the target of the next operation.                   *)
CheckTarget ==
  /\ pc = "applying" /\ done < Len(plan)
  /\ late' = {}
  /\ IF P!TargetReady(plan[done + 1], tree)
     THEN pc' = "writing" /\ exit' = exit
     ELSE Report("conflict")
  /\ UNCHANGED <<tree, manifest, plan, done, check, runs, temp, edited, budget>>

(* What the operating system itself refuses.                               *)
Lands(op) == P!ParentIsDir(tree, op.path) /\ P!SyscallOk(op, tree)

(* mkdir, or a temporary file beside the target and os.replace.            *)
PerformOperation ==
  /\ pc = "writing" /\ Lands(plan[done + 1])
  /\ tree' = P!Effect(plan[done + 1], tree)
  /\ pc' = "applying" /\ done' = done + 1
  /\ UNCHANGED <<manifest, plan, check, runs, temp, exit, edited, late, budget>>

Disturbed ==
  budget.disturbed < MaxDisturbed /\ budget' = [budget EXCEPT !.disturbed = @ + 1]

(* An error before the target is changed leaves it as it is; one after, of *)
(* reading the file back or of the journal, leaves the operation in effect.*)
FailOperation ==
  /\ pc = "writing" /\ Report("conflict")
  /\ \/ ~Lands(plan[done + 1]) /\ UNCHANGED <<tree, budget>>
     \/ /\ Lands(plan[done + 1]) /\ Disturbed
        /\ tree' \in {tree, P!Effect(plan[done + 1], tree)}
  /\ UNCHANGED <<manifest, plan, done, check, runs, temp, edited, late>>

Commit ==
  /\ pc = "applying" /\ done = Len(plan)
  /\ Report("committed")
  /\ UNCHANGED <<tree, manifest, plan, done, check, runs, temp, edited, late, budget>>

-----------------------------------------------------------------------------
(* Verification.                                                           *)

Item(kind, path) == [kind |-> kind, path |-> path]

StartVerify(mode) ==
  /\ Idle /\ Begun
  /\ pc' = "copying" /\ temp' = TRUE
  /\ check' = [before |-> FileMap(tree), copy |-> EmptyTree, todo |-> <<Item("dir", Root)>>,
               mode |-> mode, failure |-> "", engine |-> FALSE]
  /\ UNCHANGED <<tree, manifest, plan, done, runs, exit, edited, late>>

Failed(code) == pc' = "cleaning" /\ check' = [check EXCEPT !.failure = code]

(* os.walk lists a directory, whose files are then copied before the walk  *)
(* goes down; a directory that has gone since is passed over.              *)
Listing(d) ==
  LET found == Children(tree, d)
      items(kind, paths) ==
        LET s == Those(Listed, paths) IN [i \in DOMAIN s |-> Item(kind, s[i])]
  IN  items("file", found \cap Files(tree)) \o items("dir", found \ Files(tree))

CopyDirectory ==
  /\ pc = "copying" /\ check.todo # <<>> /\ Head(check.todo).kind = "dir"
  /\ LET d == Head(check.todo).path
     IN  check' = IF d = Root \/ tree[d] = Directory
                  THEN [check EXCEPT !.todo = Listing(d) \o Tail(@),
                                     !.copy = [p \in ProjectPath |-> IF p = d THEN Directory ELSE @[p]]]
                  ELSE [check EXCEPT !.todo = Tail(@)]
  /\ UNCHANGED <<tree, pc, manifest, plan, done, runs, temp, exit, edited, late, budget>>

(* A file that has gone since it was listed fails the command, as do too   *)
(* many of them.                                                           *)
CopyFile ==
  /\ pc = "copying" /\ check.todo # <<>> /\ Head(check.todo).kind = "file"
  /\ LET f == Head(check.todo).path
     IN  IF Cardinality(Files(check.copy)) = MaxCopyFiles \/ tree[f] = Absent
         THEN Failed("configuration")
         ELSE IF tree[f] = Directory THEN Failed("internal")
         ELSE pc' = pc /\ check' = [check EXCEPT !.todo = Tail(@), !.copy[f] = tree[f]]
  /\ UNCHANGED <<tree, manifest, plan, done, runs, temp, exit, edited, late, budget>>

(* _inject_validator, which needs the name of its directory and its own    *)
(* name, then the engine is looked for.                                    *)
Inject ==
  /\ pc = "copying" /\ check.todo = <<>>
  /\ IF check.copy[Forge] \notin {Absent, Directory} \/ check.copy[Validator] = Directory
     THEN Failed("internal")
     ELSE \E engine \in BOOLEAN :
            /\ check' = [check EXCEPT !.copy[Forge] = Directory, !.copy[Validator] = ValidatorText,
                                      !.engine = engine]
            /\ pc' = IF engine THEN "running" ELSE "cleaning"
  /\ UNCHANGED <<tree, manifest, plan, done, runs, temp, exit, edited, late, budget>>

Verdict(ended) == IF \E i \in DOMAIN ended : Overall(StageStatus(ended[i])) = "fail" THEN "fail" ELSE "ok"

(* A stage runs, bounded by the timeout; after one that failed the rest    *)
(* are recorded as skipped.                                                *)
RunStage ==
  /\ pc = "running"
  /\ \E r \in EngineRuns :
       /\ runs' = Append(runs, r)
       /\ pc' = IF Len(runs') = Len(StagesOf(check.mode)) \/ Verdict(runs') = "fail"
                THEN "cleaning" ELSE pc
  /\ UNCHANGED <<tree, manifest, plan, done, check, temp, exit, edited, late, budget>>

(* The finally block: the removal may fail, and only says so.              *)
RemoveTemp ==
  /\ pc = "cleaning"
  /\ temp' \in BOOLEAN
  /\ IF check.failure # "" THEN Report(check.failure) ELSE pc' = "concluding" /\ exit' = exit
  /\ UNCHANGED <<tree, manifest, plan, done, check, runs, edited, late, budget>>

(* Slip: the copy, not the source, is hashed again.                        *)
SourceUnchangedCopy == \A f \in Files(check.copy) \ {Validator} : check.before[f] = check.copy[f]

SourceUnchanged == check.before = FileMap(tree)

ExitCode ==
  IF temp \/ ~SourceUnchanged THEN "internal"
  ELSE IF ~check.engine \/ \E i \in DOMAIN runs : runs[i].timedOut THEN "tool_unavailable"
  ELSE IF Verdict(runs) = "ok" THEN "success"
  ELSE "validation_failure"

Conclude ==
  /\ pc = "concluding"
  /\ Report(ExitCode)
  /\ UNCHANGED <<tree, manifest, plan, done, check, runs, temp, edited, late, budget>>

-----------------------------------------------------------------------------
(* The command is over, or killed; a temporary directory it leaves is      *)
(* nobody's from then on.                                                  *)
Clear ==
  /\ pc' = "idle" /\ manifest' = NoManifest /\ plan' = <<>> /\ done' = 0 /\ check' = NoCheck
  /\ runs' = <<>> /\ temp' = FALSE /\ exit' = "" /\ edited' = 0
  /\ late' = {}

Return == pc = "reported" /\ Clear /\ UNCHANGED <<tree, budget>>

Crash ==
  /\ pc \notin {"idle", "reported"} /\ Disturbed
  /\ Clear /\ tree' = tree

(* A person saves, makes or removes something.                             *)
Edit ==
  /\ pc # "reported" /\ Disturbed
  /\ \E p \in EditorPaths :
       /\ P!ParentIsDir(tree, p)
       /\ \/ tree[p] # Directory /\ tree' = [tree EXCEPT ![p] = UserText]
          \/ tree[p] = Absent /\ tree' = [tree EXCEPT ![p] = Directory]
          \/ Children(tree, p) = {} /\ tree' = [tree EXCEPT ![p] = Absent]
       /\ late' = IF pc = "writing" THEN late \cup {p} ELSE late
  /\ tree' # tree
  /\ edited' = IF pc = "idle" THEN 0 ELSE edited + 1
  /\ UNCHANGED <<pc, manifest, plan, done, check, runs, temp, exit>>

Init ==
  /\ tree \in Starts
  /\ pc = "idle" /\ manifest = NoManifest /\ plan = <<>> /\ done = 0 /\ check = NoCheck
  /\ runs = <<>> /\ temp = FALSE /\ exit = "" /\ edited = 0 /\ late = {}
  /\ budget = [commands |-> 0, disturbed |-> 0]

Next ==
  \/ \E m \in Manifests : Apply(m)
  \/ CheckPlan \/ Backup \/ CheckTarget \/ PerformOperation \/ FailOperation \/ Commit
  \/ \E mode \in Modes : StartVerify(mode)
  \/ CopyDirectory \/ CopyFile \/ Inject \/ RunStage \/ RemoveTemp \/ Conclude
  \/ Return \/ Crash \/ Edit

Spec == Init /\ [][Next]_vars

-----------------------------------------------------------------------------
Applied == pc = "reported" /\ plan # <<>>
Verified == pc = "reported" /\ check.mode # ""

\* TypeOK: paths hold a directory or bytes somebody wrote there, the plan
\* is one the patch engine accepts the shape of, and a temporary directory
\* exists only while a verification may still remove it or has said how it
\* ended.
TypeOK ==
  /\ tree \in P!Tree
  /\ \A i \in DOMAIN plan : plan[i] \in P!PatchOperation
  /\ P!NoOverlap(plan) /\ P!ContentOk(plan) /\ done \in 0..Len(plan)
  /\ ToSet(runs) \subseteq EngineRun /\ late \subseteq ProjectPath
  /\ temp => pc \in {"copying", "running", "cleaning", "concluding", "reported"}
  /\ (exit # "") = (pc = "reported")

\* ParentsComeFirst: the plan for a project without files of a template is
\* one the patch engine accepts, unless a directory has the name of one, and
\* while nobody interferes every operation of it finds its target ready, so
\* that an apply never stops half way: every directory is made before what
\* is put in it, and nothing the plan makes is there already (plan.py
\* plan_creator_manifest, its order).
ParentsComeFirst ==
  edited = 0 =>
    /\ /\ pc = "planned" /\ Files(tree) \subseteq Skeleton
       /\ \A f \in ToSet(GFiles(manifest)) : tree[f] # Directory
       => CheckOk
    /\ pc \in {"applying", "writing"} /\ done < Len(plan) => P!TargetReady(plan[done + 1], tree)

\* WritesOnlyTemplates: once an apply starts to write, the project holds no
\* file but the skeleton, unless a person put one there after the command
\* began: what another manifest or an interrupted apply left is never built
\* upon (plan.py _check_preflight and the CLI's check_plan).
WritesOnlyTemplates ==
  pc = "applying" /\ done = 0 /\ edited = 0 => Files(tree) \subseteq Skeleton

\* CommittedIsWhole: a committed apply nobody interfered with has made the
\* whole project of its manifest: applying it again is a no-op.
CommittedIsWhole ==
  Applied /\ exit = "committed" /\ edited = 0 =>
    Preflight(tree, manifest) /\ FilesOk(tree, manifest) /\ DirsOk(tree, manifest)

\* NamesResolve: every file that a file of the committed project names by a
\* res:// path is a file of the project.
NamesResolve ==
  pc = "reported" /\ exit \in {"committed", "noop"} /\ edited = 0 =>
    \A f \in ToSet(GFiles(manifest)) : Names(manifest, f) \subseteq Files(tree)

\* ApplyIsWhole: an apply starts on a project that is a template's to fill,
\* finds every operation possible, and leaves the whole project it planned.
ApplyIsWhole ==
  TypeOK /\ ParentsComeFirst /\ WritesOnlyTemplates /\ CommittedIsWhole /\ NamesResolve

\* NothingIsOverwritten: no step of a command changes or removes a file of
\* the project, but one a person saved after the command had looked at the
\* path and before it renamed its own file to it: what was there at any
\* moment before, since the preflight or since years ago, is never lost
\* (apply.py apply_plan, which looks again at each target).
NothingIsOverwritten ==
  [][edited' = edited /\ pc # "idle" =>
       \A p \in Files(tree) : tree'[p] = tree[p] \/ (pc = "writing" /\ p \in late)]_vars

\* SuccessIsEvidence: verify says success only if the engine was there and
\* ran every stage of the mode, each ending with zero, in time, and with
\* nothing in what was kept of its output but the texts of known noise.
SuccessIsEvidence ==
  Verified /\ exit = "success" =>
    /\ Len(runs) = Len(StagesOf(check.mode))
    /\ \A i \in DOMAIN runs :
         /\ runs[i].launched /\ ~runs[i].timedOut /\ runs[i].exitZero
         /\ runs[i].kept \subseteq Noise

\* CopyIsTheProject: what the engine was run on is, file for file, what the
\* project holds when verify says success, whatever a person changed
\* meanwhile; a file changed and changed back is beyond it, so at most one
\* change is assumed (verify.py: the hashes before and after).
CopyIsTheProject ==
  Verified /\ exit = "success" /\ edited <= 1 =>
    \A p \in ProjectPath \ {Validator} : FileMap(check.copy)[p] = FileMap(tree)[p]

\* VerdictIsComplete: a verdict on the project, good or bad, is given only
\* when the temporary copy is gone and the source is what it was: a leftover
\* shows as an internal or a configuration failure.
VerdictIsComplete ==
  Verified /\ exit \in {"success", "validation_failure", "tool_unavailable"} =>
    ~temp /\ check.before = FileMap(tree)

\* VerdictIsSound: no verdict without the evidence for it.
VerdictIsSound == SuccessIsEvidence /\ VerdictIsComplete
================================================================================
