# A verification project for GodotForge

GodotForge (`godotforge_core`, `godotforge_cli`) writes into other people's Godot
projects. What it promises is about that: nothing is changed without an
authorised plan, nothing is destroyed that cannot be brought back, and after a
crash the records on the disk say what happened. This directory holds TLA+
modules translated from the Python source, TLC configurations that check them on
small instances, and proofs that TLAPS checks for every value of the constants.

Paths below are relative to
`src/packages/godotforge-core/src/godotforge_core/` unless they start with
`docs/` or `tests/`, or with `cli/` for `src/src/godotforge_cli/`.

## 1. The system

| Component | State it keeps | Operations | Talks to | Here |
|---|---|---|---|---|
| **Patch engine** (`patch/`) | project files; `<txid>.tmp` and `<txid>` backup directories with a manifest; `apply_journal.json`; temporary files beside their targets | `check_plan`, `create_backup`, `apply_plan`, `inspect_recovery`, `rollback_transaction` | called by the orchestrator and the CLI; shares the project files with every editor | `PatchTransaction` |
| **Settings planner** (`patch/project_godot_plan.py`) | none: reads `project.godot` two or three times and plans the edited text | five `plan_update_*` adapters, `_index_lines`, `_apply_section_edits` | `cli/commands/project_settings.py`; the patch engine applies its plan | `ProjectSettings` |
| **Hub orchestrator** (`hub/orchestrator.py`, `goal.py`) | none of its own; a position in `run_goal` / `resume_run` | `compile_goal`, `preview_goal`, `run_goal`, `resume_run` | run records, plan cache, planner, patch engine, verification | `HubRun`, `GoalCompilation` |
| **Run records and audit** (`hub/run_record.py`, `audit.py`, `approval.py`) | `run-records.jsonl`, hash chained; `audit.jsonl`; both rewritten by temp-and-replace | `append_event`, `read_events`, `verify_chain`, `fold_run`, `append_audit` | orchestrator, registry, CLI | `HubRun`, `HubLog` |
| **Spoke registry** (`hub/registry.py`) | `spoke-ledger.jsonl` | `register_spoke`, `deregister_spoke`, `fold_registry`, `resolve_capability`, `is_healthy`, `can_accept_run` | orchestrator, CLI, audit log | `SpokeRegistry`, `HubLog` |
| **Plan cache** (`hub/cache.py`) | `plan-cache.jsonl`; first match wins | `get_cached_plan`, `store_plan`, `invalidate_cache` | orchestrator; keyed on the project's file sizes | `HubRun` |
| **Control plane directory** (`hub_control_plane.py`) | `.godotforge/hub/` | `validate_hub_metadata_dir`, `resolve` | every hub call, the planner's preflight | `HubLog`, `HubRun` |
| **Creator** (`creator/`) | none; reads the project; a private copy while it verifies | `validate_manifest_dict`, `plan_creator_manifest`, `verify_creator_project` | orchestrator, CLI; patch engine; engine | `CreatorManifest`, `CreatorProject` |
| **Engine runner** (`engine/`) | a child process with a timeout | `run_process`, `normalize_process`, `validate_project` | Godot | `EngineValidation` |
| **Project graph** (`graph/store.py`) | stored graph with a fingerprint | `save`, `load`, staleness | scanners | - |
| **Scanners** (`scan/`) | none | readers of project, scene and script text | planner, graph, CLI | `SettingsFile` (`project.godot` only) |
| Observability, detection, configuration, doctor, output, behaviours | none | pure functions | CLI | - |
| **CLI** (`cli/`) | none | one sequence of calls per command | everything | with the component a command calls |
| District Kings, build tools | - | an example game; scripts | - | - |

### What makes each part correct, and what is hard about it

* **Patch engine.** Hard: every gap between a check and the write that relies on
  it (an editor may save there), a process that dies between an effect and the
  journal entry that records it, an operation that fails half way, a rollback
  that is itself interrupted. Correct when the journal is written ahead of the
  effects, a completed entry is true, rollback puts back only approved bytes,
  `ROLLED_BACK` can be relied on, and no bytes are lost.
* **Settings planner.** Hard: the same text is read by two parsers that differ,
  at two or three moments, and is edited by line numbers that earlier edits
  shift. Correct when the edited file means what was asked, in every other place
  what it meant before, and a repeated command does no harm.
* **Orchestrator and run records.** Hard: a run is a dozen appends with the
  project changed in between; a crash between any two; `resume_run` on a run that
  is still alive; two calls that both pass the open-run gate; a plan that was
  authorised and is computed again before it is applied; a goal that is read as a
  manifest, spelled out, hashed, and read again. Correct when at most one
  mutation run is open, each run ends in exactly one terminal event, a run called
  abandoned has changed nothing, a finalised run had a clean verification, and
  all readings of a goal are one.
* **Stores** (run records, audit, registry, cache). Hard: read the whole file,
  compute `seq` and `prev_hash`, read it again, replace it, with no lock; two
  files for one event, the second through one temporary name for everybody;
  temporary files left by a crash in a directory whose contents are validated.
  Correct when the chain verifies, no event whose append returned is lost, and
  the audit log tells of what is stored.
* **Registry.** Hard: sequences of legal calls whose ledger no longer folds; calls that
  check one ledger and append to another; three
  readers that each rebuild the state of the spokes in their own way; health read
  from the file as it is now for spokes folded earlier. Correct when the readers
  agree and a run is given to a spoke that is there.
* **Plan cache.** Hard: staleness, because the key is made of sizes.
* **Creator and engine.** Hard: a partly made project; a person who changes the
  project while it is planned on, written or copied; the time-out, the missing
  engine, the engine that exits with zero after an error. Correct when an apply
  makes the whole project or refuses before it writes, overwrites nothing, and
  "success" is evidence about the project as it is.

Every such hazard, with its line and the properties that cover it, is in
`PROJECT.json` under `hazards`.

## 2. Modules

| Module | Models |
|---|---|
| `PatchPlans` | the data of the patch engine: trees, operations, preconditions, effects, recovery's state tests |
| `PatchTransaction` | one transaction from plan to rollback, with an editor, crashes, I/O errors |
| `ReversiblePatch` | the abstract promise: operations performed in order, all or nothing, and undone one by one |
| `PatchRefinement` | the mapping under which `PatchTransaction` implements `ReversiblePatch` |
| `MCPatchTransaction` | small instances |
| `PatchTransactionProofs` | theorems about `PatchTransaction`, the refinement included |
| `SettingsFile` | `project.godot` as lines: the scanner, the editor's index, the line editor |
| `ProjectSettings` | the five adapters and one `project settings` command, with an editor that saves |
| `MCProjectSettings` | a small instance |
| `SettingsEditProofs`, `ProjectSettingsProofs` | lemmas about the line editor, and theorems about `ProjectSettings` that rest on them |
| `RunRecord` | event kinds of a run, when they fold (`fold_run`), the state they fold to |
| `HubRun` | `run_goal` and `resume_run` by one or more processes, with the plan cache, dying calls and somebody else's edits |
| `RunLifecycle` | the abstract promise: one open run, changes only for an authorised run, what has changed something is closed by validation or by the operator |
| `HubRefinement` | the mapping under which `HubRun` implements `RunLifecycle` |
| `MCHubRun` | small instances |
| `HubRunProofs` | theorems about `HubRun`: types and the no-op for any number of processes, the promises for one at a time |
| `HubLog` | `append_event` of both stores and `append_audit`, down to their reads, temporary files and renames |
| `MCHubLog`, `HubLogProofs` | a small instance; theorems |
| `SpokeRegistry` | the ledger, the overlapping calls that append to it, its three readers, health, and a reader with a folded state |
| `RegistryContract` | the abstract promise: identifiers are used once, capabilities are not shared |
| `MCSpokeRegistry`, `SpokeRegistryProofs` | a small instance; theorems, the refinement included |
| `CanonicalDecimal` | the numbers of goals and manifests: rounding, digits, canonical form, ranges |
| `CreatorManifest` | which manifest documents are valid, what they mean, the canonical document |
| `GoalCompilation` | `compile_goal` over goals a person edits |
| `MCGoalCompilation`, `GoalCompilationProofs` | a small instance; theorems, and the facts about decimals they rest on |
| `CreatorTemplates` | the two templates: files, directories, what each file reads of the manifest and names |
| `EngineValidation` | what a run of the engine is taken for; the stages of a validation |
| `CreatorProject` | `creator apply` and `creator verify` on a project a person edits, with crashes |
| `MCCreatorProject` | an instance with both templates at their real size |
| `CreatorProjectProofs` | theorems about `CreatorProject`, and the facts about the templates they rest on |

How they are composed: `PatchTransaction`, `ReversiblePatch` and `CreatorProject` use
the trees and operations of `PatchPlans`, the last by `INSTANCE`; `ProjectSettings`
uses the two parsers of `SettingsFile`; `HubRun` the fold of `RunRecord`;
`GoalCompilation` extends `CreatorManifest`, and that `CanonicalDecimal`;
`CreatorProject` joins planner, patch engine, private copy and engine run. Where a
step of one module is a protocol of another (the apply of a plan in `HubRun` and
`ProjectSettings`, the temporary files of an append), its inside is checked there.

A definition marked *Slip* is not part of a model: it is a plausible mistake in the
definition after it, and is there to show that a property notices it.

### PatchTransaction and the code

A step of the model is what happens between two effects on the disk another
program could see. The state is the disk (`tree`, `strays`, `staging`, `backup`,
`manifest`, `journal`), what the process holds (`plan`, `phase`, `pos`,
`snapshot`, `status`, `applied`, `conflicts`) and three history variables (`base`:
the tree `check_plan` approved; `edited`: paths the editor wrote since; `used`:
how much of the bounds is spent).

| Code | Actions |
|---|---|
| `check_plan` | `CheckPlan` |
| `create_backup` | `BeginBackup`, `CopySource` (per operation), `PromoteBackup` |
| `apply_plan` | `ValidateApply`, `WriteJournal`, then per operation `StartOperation`, `VerifyTarget`, `PerformEffect`, `CompleteOperation`, and `Commit` |
| `inspect_recovery` | the operators `RecoveryState`, `RecoveryOk` (it changes nothing) |
| `rollback_transaction` | `StartRollback`, then per entry, last first, `SkipEntry` or `VerifyUndo` and `PerformUndo`, and `FinishRollback` |
| `OSError` anywhere | `IoError` |
| the process dies | `Crash`: the disk keeps everything, temporary files and the staging directory included |
| somebody else | `EditorSave`, `EditorDelete`, `LoseBackup` |

Bytes are abstract and SHA-256 collision free, so a hash is a content. A journal
write is atomic (temp, fsync, replace) and durable when it returns. Symbolic
links, special files and path validation are outside the model. The bounded
Windows retry of the backup promotion (`backup.py` 93) is one step of
`PromoteBackup`: a failed `os.replace` changes nothing, and the last failure is an
`IoError`.

### ProjectSettings and the code

The state is `file` (a sequence of lines), the command's `request`, what it has
`seen` of the section and its `plan` (the file it expects and the file it leaves).

| Code | Actions |
|---|---|
| `_preflight` | `Preflight` |
| `_read_sections` in the application adapter, a second read | `ReadOptional` |
| the adapter's own decisions; `_plan_from_edits`, which reads again | `Plan` (`AutoloadEdit`, `InputEdit`, `LayerNamesEdit`, `RendererEdit`, `ApplicationEdit`, then `ApplySectionEdits`) |
| without `--apply` | `Preview` |
| `check_plan`; `apply_plan` | `Check`, `Apply`: each compares the hash the plan expects |
| the Godot editor | `Save` |

A line is one of eight kinds, the ones the two parsers tell apart, with the text it
holds (a member of the constant `Texts`); a value is a text with or without the
leading `*`, followed by the lines of its body. Each table the code builds line by line
(`Scanned`, `Index`, `Spliced`, `Shift`) is a function over the lines read so far.
Three details of the code matter to what is proved. An autoload is rewritten
from its parsed path, so a value of several lines comes back as one quoted line
(`Path`, `project_godot_plan.py` 621). Of an autoload flagged both ways each flag is
compared with the file, not with the other, and the autoload is turned over
(`SetsBothWays`). And the insertion point is a Python list index, which means
something even when cuts have made it negative (`Position`, 478). The unified diff
and the grammar of single values are left out.

### HubRun and the code

A step is what happens between two effects on the disk: a reading or a replacement of
the run store, the apply journal, a cache entry, one operation of the apply. The disk is
`tree`, `dirs`, `foreign` (a file that is none of the project's), `stray` (a temporary
file in `.godotforge/hub`), `cache`, `events` and `recorded` (the run store: kinds and
payloads per run), `chained` (whether its hash chain verifies) and `journals`; `proc`
holds the locals of the calls, so a process that has read something and acts on it later
is in between two steps, and `append` what each append has read of the store. `taken`,
`made` and `used` are history.

| Code | Actions |
|---|---|
| `run_goal`: `_open_runs` and the gate | `RunGate` |
| `get_cached_plan`, `plan_creator_manifest` | `MakePlan` |
| `store_plan` | `CachePlan` |
| `append_event`: `read_events`; `read_bytes`; `os.replace` by the copy and its line | `NumberEvent`, `CopyStore`, and `Record` in the action that appends |
| `run_started`; the no-op path | `StartRun`, `FoldNoop` |
| `authorization_recorded`; `require_authorization` | `Authorize`, `RequireAuthorization` |
| planning again, `check_plan` | `Replan`, `CheckPreconditions` |
| `create_backup`, `apply_plan` up to its journal | `BackUpAndJournal` |
| `apply_plan`, per operation; the hashes of what it made; `apply_committed` | `ApplyOperation`, `HashArtifacts`, `CommitApply` |
| `verify_creator_project` | `BeginVerify`, `EndVerify` |
| `_finish_after_validation`, `_close_from_record` | `RecordValidation`, `CloseRun`, `FinalizeRun`, `FailRun` |
| `resume_run` | `Resume`, then the steps above; `MarkInterrupted`, `InterruptRun` |
| the process dies, an exception ends the call | `Crash` |
| somebody else | `EditFile`, `AddForeign`, `RemoveForeign`, `RemoveStray` |

Abstracted: the goal manages `NumFiles` files whose bytes are good, of another size
or of the same size; the patch engine inside is the part of `PatchTransaction` that
`run_goal` uses, for plans that only create. Nothing locks the store: an append writes
back what it copied, whatever the store has become since, and its chain verifies if
the copy is the store its event was numbered after. The bytes of the store, the temporary
file and the line `append_audit` writes are left to `HubLog`.

### HubLog and the code

The disk is `log` (the run store and the spoke ledger), `audit`, `auditTemp` (the one
name every audit append writes through) and `temps` (the stores' own temporary
files); `writer` holds what each process has read, and which file a handle it has
open leads to by now. `returned` and `raced` are history: the appends that
returned, and the files two writers have been at work on at once.

| Code | Actions |
|---|---|
| `append_event` / `_append_event`: `read_events`, `seq`, `prev_hash` | `Begin` |
| the second read, `destination.read_bytes()` | `Copy` |
| the temporary file; `os.replace` | `WriteTemp`, `ReplaceStore` |
| `append_audit`: open, read, write and fsync, replace | `OpenAudit`, `ReadAudit`, `WriteAudit`, `ReplaceAudit`, `ReplaceAuditMissing` |
| `OSError` before, and after, the store is replaced | `StoreFails`, `AuditFails` |
| the process dies | `Crash` |
| `verify_chain`, `verify_ledger`; `validate_hub_metadata_dir` | the operators `Chained`, `DirectoryAccepted` |

An event is the number of the append that made it and stands for its own hash. A
write over a longer file leaves the rest of it behind, perhaps from the middle of
a line (`Torn`).

### SpokeRegistry and the code

| Code | Here |
|---|---|
| `register_spoke`, `deregister_spoke` up to their append | `Register` (`MayRegister`), `Deregister` (`Retirable`), for any number of `Caller`s |
| `_append_event` reads the bytes it keeps, stamps `last_seen` | `Copy` |
| `os.replace` | `Replace`, whatever the ledger has become |
| an error, or the end of the process, before that | `Fail` |
| `fold_registry` by a reader that keeps the state | `Fold` (`Folds`, `Active`) with the definitions it knows; an error leaves the reader the state it had |
| `is_healthy`, `can_accept_run`, `resolve_capability` | the operators `Healthy`, `CanAcceptRun`, `Offering` over `view`, `ledger` and `clock` |
| time | `Tick` |

Nothing locks the ledger, so a call may check one ledger, copy a second and
replace a third. `behind` (history) is the calls whose ledger was replaced since
they checked it, `overtaken` whether one of them has written all the same: it may
then have duplicated a registration, retired a later registration than it looked
up, or dropped the lines of others. `_append_event` reads the file once more between
check and copy, for the number and the hash of its line; the registry reads neither
back, so that reading is not a step. A definition stands for its provider too: an
unknown hash of either is an error of `Fold`. A ledger may begin with a line of an
older version, which has no `last_seen`. What the checks of definitions and providers
compare is the identity of a definition.

### GoalCompilation and the code

`compile_goal` is one function (`CompileGoal`) and one action; `Write` is a person who
edits the goal. The document a goal is turned into is validated by
`CreatorManifest`, as the planner does again. A number is a sign, a coefficient and
an exponent, so that 200, 200.0 and 2.0e2 are three; the decimal context's
rounding happens where the code calls `normalize`. A hash is the value it is the
hash of. Loading YAML and JSON is left out.

### CreatorProject and the code

| Code | Actions |
|---|---|
| `plan_creator_manifest` with `_check_preflight` | `Apply` |
| `check_plan`, `create_backup` | `CheckPlan`, `Backup` |
| `apply_plan`, per operation: the look at the target; the temporary file and `os.replace`, or `mkdir`; an error; its end | `CheckTarget`, `PerformOperation`, `FailOperation`, `Commit` |
| `verify_creator_project`: hash the source; walk and copy; inject the validator and find the engine | `StartVerify`, `CopyDirectory`, `CopyFile`, `Inject` |
| `validate_project`, per stage | `RunStage` (`StageStatus`, `Overall`) |
| the `finally` block; hash again and choose the exit code | `RemoveTemp`, `Conclude` |
| the command ends; is killed; a person edits | `Return`; `Crash`; `Edit` |

The text of a file is abstracted to the parts of the manifest that went into it and
the `res://` paths in it. The output of a run is the classes the patterns of
`normalize.py` sort its lines into, those of the first 1 MiB of a stream (`kept`) apart
from those past the limit (`cut`), which nothing reads. The source is hashed in one
step, and again in the last one, where the code reads file by file. Symbolic links and
pruned directories are left out.

## 3. Runs

No run checks deadlock: a transaction, a command or a call ends, and the bounds on
edits, faults and appends are used up.

### Patch engine

Instances: a tree of two files `a`, `b`, an optional empty directory `d`, a path
`d/f` in it and a free path `c`; three contents (the old bytes, the plan's, the
editor's). Eight plans: all five kinds of operation, declared and undeclared
hashes, an operation that needs an earlier one, one whose directory is missing,
and the plans that `create_backup` and `apply_plan` refuse (overlap, wrong content,
delete of a directory). Two operations are enough for order to matter, and two
editor steps, two crashes, two I/O errors and two rollbacks for each pair of
disturbances to meet, in any order (one crash, fault and rollback where liveness
is checked).

| Run | Question | Expected |
|---|---|---|
| `patch_transaction` | what the engine promises with the editor active except between a check of a target and its use; up to the editor's first step, is it the abstract reversible patch | holds |
| `patch_editor_races` | what survives an editor that acts at any moment: the journal, recovery, and that every call returns (or the process dies) | holds |
| `patch_rollback_byte_exact` | is a `ROLLED_BACK` tree byte-exact | violated: the operation in doubt at a crash is skipped |

* `WriteAhead`: an untouched path differs from the approved tree only if its
  operation is `STARTED` or `COMPLETED` on the disk.
* `JournalTruthful`: `COMPLETED` is true of the tree, `COMMITTED` means all of them.
* `RolledBackRestores`, `RollbackConverges`: what `ROLLED_BACK` means, and that an
  interrupted rollback may be repeated.
* `RecoverySound`: what recovery calls applied is in effect, what it calls not
  applied has left no trace.
* `EngineLosesNothing`, `RollbackOnlyRestores` (action properties): the engine takes
  from a path only bytes that are in the backup, in the plan or elsewhere in the
  tree; rollback puts back only what was approved.
* `ImplementsReversiblePatch` (refinement), `CallsReturn` (liveness).

The quiet windows of `patch_transaction` are needed: a save between the check of a
target and `os.replace` is overwritten and is in no backup (`apply.py` 298-303); a
save between the replace and the read-back is journalled as the engine's own
(`apply.py` 345-348), and the rollback overwrites it.

Two limits of the answers follow from the same model. Recovery is sound and not
complete: a completed mkdir with something in it is `UNKNOWN` (`recovery.py` 167).
And a rename without `expected_hash` is never undone (`journal.py` 122): its rollback
ends in a conflict and is not called `ROLLED_BACK`.

**Fairness.** `FairSpec` assumes weak fairness of `Engine` only. The engine is
straight-line synchronous code with bounded loops: once called it goes on unless
the process dies. Neither the editor, nor faults, nor a caller who might start a
rollback are fair.

### Settings planner

Instances: a project with its name, followed by every file of up to three lines over
the kinds of line its section meets, the last one with and without an ending, and one
longer file (`Apart`) that keeps the two parsers apart for several lines; 66
requests over the five sections that add, set, remove, clear and flag (both ways
included), alone and together, with literals that hold a comment, a bracket in a string
or a header; one save by the editor between any two steps. Three lines are a header
and two entries, an entry given twice, an open value with something in it, and a
section given twice.

| Run | Question | Expected |
|---|---|---|
| `project_settings` | is what is planned what was asked, and does applying it change nothing else | holds |
| `settings_untouched_lines` | "every untouched line's original bytes are preserved", of every request | violated: an autoload removed twice takes the next line with it |

* `EditMeansRequest`: a plan makes the section mean what the request says and leaves
  the meaning of the others; "no-op" is only said when the request holds already.
* `StaysReadable`: what is written is a text, still has the project's name, and is read
  in step by both parsers if what was edited was.
* `RepeatIsIdempotent`: a retry over the planned file is refused, asks for nothing or
  changes no meaning.
* `RestIsPreserved` (action property): whatever was saved in between, an apply
  changes no line but the entries of the keys that were named.

What each assumes is named in the module. `Planned`: nobody saved between the adapter's own
reads. `Sound`: no autoload is removed twice, and the file edited is ended, closes every value and is
read in step by scanner and editor (`ParsersAgree`). `AddsUnreadable` (the literals
hold no line that only one of the parsers counts) and `SetsBothWays` where meaning is
concerned. `NameSurvives` and `TypeOK` hold whatever the literals are, `TypeOK` of every
file, and `RestIsPreserved` assumes only that the last line is ended, that no
autoload is removed twice and that no literal holds a bracket in a string.
To ask only that the two parsers agree on the section is not enough: in the file
`Apart` a bracket in a comment keeps the editor in a value that the scanner has left, they
agree on the section, and the edit goes to the wrong one of two headers.

Outside these assumptions the code behaves as follows. A value that never ends swallows a
section appended after it. An insertion after a last line without an ending runs the two together
(`project_godot_plan.py` 478). An input action whose literal holds a bracket in a
string is accepted by the validator and makes the editor refuse every later edit of
its section (170). An autoload flagged on and off in one command is turned over,
whatever it was. Also observed: layer names and renderer settings given the
value they have still yield a plan. Files with a line like `[a=b]`, a header to the scanner
and an entry to the editor (`project_godot_plan.py` 327), are not modelled.

### Hub

Instances: one process with two runs and two files; two processes with two runs and one
file, where nothing dies and nobody edits. Two runs are needed for the open-run gate to
matter; two files for an apply that is half done; the directories make the difference
between the plans "all" and "files". One edit may fall at any moment, and two dying
calls let a crash fall on a call that resumes an earlier one. Runs and processes are
interchangeable (symmetry, not used where liveness or the refinement is checked).

| Run | Question | Expected |
|---|---|---|
| `hub_run` | one process, edits at any moment: is the hub usable and truthful, is it the abstract life of runs, and is a run that died before its apply closed in the end | holds |
| `hub_lost_authorization` | two processes: is what is changed on record while it is changed (`hub/orchestrator.py` 13) | violated: one call puts back a copy of the store from before the other's authorisation |

* `StoreIsUsable`: the hub never writes a store it refuses to read, and one run is
  open.
* `MutationOnRecord`: a change is announced before it happens.
* `ClosedRunsTellTheTruth`: "abandoned" means untouched, "applied" means created and
  validated (`FinalizedIsValidated`).
* `AmbiguousIsLeftOpen`: a run with a journal and no commit is the operator's to close.
* `ImplementsRunLifecycle` (refinement); `AbandonedRunsClose` (liveness): an abandoned
  run does not block the hub for ever.

What holds for one process fails with two, and always for the same reason: nothing is
held between reading the record and replacing it. Two calls may pass the gate before
either is on record, and then two runs are open. An append drops what another one has
stored since it copied the store: an authorisation that `require_authorization` has
already found, so that the project is changed by a run that has none
(`ChangesAreAuthorized`); or a validation, so that a run is finalised without. A run that
is resumed while its own call is between its authorisation and its journal is closed as
abandoned and then changes the project. Two calls that close one run give it two
terminal events, and no later call reads the store.

Two things are in the model, disagree with what is written, and have no run. A run whose
source was modified, or whose copy was not removed, is finalised when the call dies
between recording that and failing: `resume_run` looks at the status only
(`orchestrator.py` 403), where `docs/architecture/hub-control-plane.mmd` 41-42 leads to
`run_failed`. And an edit that keeps a file's size, or falls between a plan and its
cache entry, makes a cached no-op stale (`cache.py` 63); without such edits it never is
(`NoopIsTrue`, which is proved).

**Fairness.** `FairSpec` assumes that a call that was made goes on (straight-line
code), and that the operator resumes an open run that may be resumed, which is
what the message of the gate asks for. New runs, edits and crashes are not fair.
`AbandonedRunsClose` stops at `r \in journals`: such a run is no longer one that
died before its apply.

### The hub's files

`hub_log`: two processes, four appends to either store, two crashes or I/O errors.
Two writers are what a race needs; four appends let a store get further events
after a race or a fault; and a fault may fall on each side of each replacement.

* `ChainVerifies`, `ReturnedIsStored`: a store that one writer at a time works on is a
  chain, and what returned stays in it, whatever else fails and whatever happens
  to the audit log meanwhile.
* `AuditAgrees`: while one process appends at a time, the audit log tells of stored
  events only, in order, and misses none but by a fault, and none that returned.
* `AcceptedAtRest`: without a fault no temporary file is left for the creator's
  preflight to refuse. With one it may be: a crash leaves a file that makes every
  later planning fail until somebody removes it (`hub_control_plane.py` 99).

With two writers on one store the chain breaks or an append that returned is lost;
with two writers at all an `append_event` may raise although its event is stored,
because the other renamed the one `audit.jsonl.tmp`. `audit.py` 1 calls the audit log
hash-chained; its lines carry no hash of the line before.

### Spoke registry

`spoke_registry`: two callers, two spokes, one of them in two versions, two
capabilities, two identifiers, five lines, and an age of one tick. Calls overlap up to the
second line (`MaxOverlap`) and follow each other from there, so that each meets the ledger
of the other, empty or not, and three more lines tell what becomes of what they wrote:
five lines are a registration, its retirement, a second registration of the spoke or of
the identifier, and one more of each. `registry_collision` needs three lines and no
overlap.

| Run | Question | Expected |
|---|---|---|
| `spoke_registry` | the properties below | holds |
| `registry_collision` | are capability collisions rejected before anything is appended (`registry.py` 458, `docs/hub/api/registry.md` 103 and 114) | violated by one caller: no capability is looked at |

* `RunsGoToLiveSpokes`: a folded state names at most one spoke per capability; a state
  whose ledger is the one it was folded from gives runs to spokes that are
  registered, by the line their age was read from.
* `OnlyKnownWaysToBreak`: a ledger that no longer folds has an identifier registered
  twice or a capability of two spokes, or a call has put its line in a ledger replaced
  since its check. The first two `register_spoke` lets through by itself; no call
  repairs the ledger.
* `ReadersAgree`: the three readings of one ledger agree while it folds and no call has
  written over it. After that a tombstone that came late may have retired a later
  registration of its spoke, and the readings differ although the ledger folds.
* `ImplementsContract` (refinement of `RegistryContract`): until the ledger stops
  folding or is written over.

The same docstring says that duplicate active registrations are rejected. Of two calls
that register one spoke both may check before either appends; the ledger then folds no
more. This is the third way of `OnlyKnownWaysToBreak` and has no run of its own.

### Goals and manifests

`goal_compilation`: four goals, two per template, and every document that three
edits make of them. Numbers keep 4 digits and may have 3 that count, in place
of 28 and 6, so that rounding at a limit happens: 499.99 is rounded to the limit
500 and accepted, 499.9 has too many digits.

* `OneManifest`: the planner accepts what a goal was compiled to and reads the same
  manifest; the goal the hub spells out compiles to the same hash and manifest; a
  manifest written by hand that says the same, in any order, is the same document.
* `ReadRoleDefaultsAreTold`: what a goal leaves out of the one role it is read for (the
  platformer's controller, the enforcer) is filled in with the defaults it is told of,
  and what it gives of that role is kept.
* `SameNumberSameHash`: 200, 200.0 and 2.0e2 are accepted alike and hash alike.

That is less than the docstrings of `goal.py` claim (19-20, and 138: "records every
parameter that took its contract default"): of every 3D goal the scout, the fixer, the
renderer, the physics and the input map take defaults that are recorded nowhere. The model
has it so; no run states it.

Observed, and part of the model:
the parameters a 3D goal gives the scout and the fixer are accepted and dropped; so are the renderer,
physics and input map of a 2D goal; unknown keys in a v3 role or in the physics block
are ignored (the docstring of `_validate_parameters_v3` says "Unknown keys rejected"); and a value of more than 28 digits is rounded before its
digits are counted. A parameter that is null raises `TypeError`, not the
`ValueError` callers turn into an answer; this is left out.

### Creator

`creator_project`: both templates with their real files, a limit of 43 copied files
in place of 4096 (a 3D project with its skeleton fits, one stray file more does not), two manifests of each, seven trees
to start from (one with a file where `.godotforge` should be, and one with a directory that has the name of a template's file, among them), two commands in a row, one edit or crash at any moment, every
outcome of an engine run and both modes with more and with one stage.

* `ApplyIsWhole`: an apply starts only on an empty project or the skeleton, finds
  every operation possible, and leaves a project whose every `res://` name
  resolves, and to which applying again is a no-op. That `check_plan` accepts the
  plan has one condition: no directory has the name of a template's file.
  `_check_preflight` looks only at the top level of a project that has its
  `project.yaml`, so a directory `scenes/hud.tscn` passes it and is a conflict then.
* `NothingIsOverwritten` (action property): no step of a command changes or removes
  a file of the project, with one exception: a file saved at the target of an
  operation after the operation has looked at it and before it renames (`late`).
* `VerdictIsSound`: success means that every stage ran, and that what the runner kept
  of its output is clean; any verdict on the project means that the copy is gone and
  the source unchanged.
* `CopyIsTheProject`: what was verified is what the project holds. A file changed and
  changed back during the copy is beyond the two hashes, so one change is assumed.

Three statements of the documents go further than the code, and than these properties:

* Of `creator apply`: "`check_plan` `already_exists` or divergent `G_files` → `4` no
  overwrite" (`docs/contracts/creator-manifest.md` 135): a file
  saved between the look at a target (`patch/apply.py` 287) and the rename (115) is gone,
  in no backup, and the apply reports success.
* A stage is clean, it seems, when its output has no error: an error past 1 MiB is cut
  off before it is classified (`engine/runner.py` 55), nothing reads the flag that says so,
  and exit code zero makes the stage "ok".
* Shutdown noise is ignored only if "the message appeared after successful boot" (`engine/normalize.py` 13-15):
  its text is, in any stage and at any place.

An apply that dies half way may be refused afterwards: nested empty directories of
the 3D template are refused in a root without files and let through beside a
skeleton (`plan.py` 1052), and a project with some of its files is refused by
`check_plan`, because the plan creates every file. A verification that ends early, with an
invalid project, says nothing of a temporary directory it could not remove.

## 4. Proofs

Every theorem holds for every value of the constants: any set of paths, contents,
plans, trees, processes, runs, files, writers, spokes, and every bound.

### Patch engine

* `PatchTransactionProofs`: `TypeCorrect` (`TypeOK /\ PhaseOK`) and `WriteAheadHolds`.
  `TypeOK` alone is not inductive: the types of `tree` after an effect need the
  content of the operation under the cursor to be known (`ContentOk`), and those of
  the journal need the cursor to be on an operation. `PhaseOK` says what each phase
  relies on, and is what `ValidateApply`, `WriteJournal` and `StartRollback`
  establish. One lemma per effect on the tree says which paths it may change.
  `JournalTruthfulHolds`, with the editor at any moment;
  `RollbackOnlyRestoresHolds` and `RolledBackHolds`, which assume `QuietUndo`: the
  editor does not act between the check of an undo and the undo. The
  invariant `Extra` says how far the entries have come by where the cursor is
  (`EntriesFollowCursor`), that a copy in the backup is what was approved
  (`CopiesAreApproved`), that the target of an operation that has only been started
  is as it was (`CursorIsClean`), and that what lies behind the cursor of a rollback is
  restored or in conflict (`RestoredBehindCursor`).
* In the same module, what the engine promises: `RecoverySoundHolds`, with the editor at any moment. What is
  missing is that an operation in doubt is performed as a whole or not at all
  (`InDoubtIsClean`) and that entries are started in order.
  `EngineLosesNothingHolds` and `ReversiblePatchHolds`, the
  refinement of `ReversiblePatch`; both assume `QuietApply`: no editor between a check
  of a target and its write, a write and its read-back, a check of an undo and the
  undo. `Kept` carries a checked target to its use (`TargetStillReady`,
  `ContentInPlace`); one lemma, `AbstractStep`, maps each step to an abstract
  step or a stutter.
  `RollbackConvergesHolds`, which assumes nothing of the editor's timing: the property
  speaks of transactions nobody edited. Its invariant `Converging` follows the
  rollbacks entry by entry. While nothing stands in the way (`Clear`), whatever lies
  behind the cursor is not in effect, whether this call undid it or reports a conflict because an
  earlier one did (`UndoneBehindCursor`); that every completed operation is in effect or not as a whole
  (`AllOrNothing`); that what is put into a new directory is put there later than the
  directory (`DirectoriesFirst`), so that undoing in reverse order finds it empty; and
  that the tree stays a tree (`TreesAreWhole`), which is where `TreeAssumption` is
  used: what exists in a tree to start from has a directory around it.

`patch_transaction` satisfies `QuietUndo` and `QuietApply` (its `QuietWindows`), so the run
and the theorems speak of the same engine; without them TLC finds the
counterexamples of section 3.

### Hub

* `HubRunProofs`, for any number of processes: `TypeCorrect`, which needs that a call past
  its first event has a run (`KnowsRun`); and `NoopIsTrueHolds`, which assumes `SizesTell`: no
  edit keeps a size and none falls between planning and caching. `NoopsTold` says that
  a no-op filed under a key is true of every project with that key. Runs of TLC do not
  check `NoopIsTrue`: the edits of `hub_run` break it.
* In the same module, all under `OneAtATime` (there is one process): `MutationOnRecordHolds`,
  `StoreIsUsableHolds`, `ClosedRunsTellTheTruthHolds`, `AmbiguousIsLeftOpenHolds` and
  `RunLifecycleHolds`, the refinement of `RunLifecycle`. The assumption is that of
  `hub_run`, and the code needs it: the hub holds no lock between reading a record and
  replacing it, and with two processes each of the five fails (section 3). Any
  number of runs, of files, of dying calls and of edits remains. The appends are the
  three steps they are in the code: `Fresh` says that what an append has read is the
  store it replaces and that a run nobody took has no events (`Atomic` then gives the
  effect of an append), and is inductive only because nobody else appends.
  `CallOK(p)` says what a call relies on at each point: `ApplyOperation` needs
  the journal and the authorisation to be there before it starts. `Told` says that the
  record of a run is true of what it has done. `OnPath` says that the record of a run
  grows along one path (`RunOnPath`), that one run is open, and that where a call is tells
  the state of its run (`CallOnPath`); every append is then the next event of an open run or
  the first of a new one (`Extends`), and one lemma, `ExtendsProper`, maps it to the abstract
  step.
* `HubLogProofs`: `TypeCorrect`, `ChainHolds`, `ReturnedHolds`, and `NeverRewritten`: a
  step extends a store or leaves it. Each conjunct of the invariant speaks of the
  stores not in `raced`: the one writer at work there (`Alone`) has numbered its event for the
  end of the store as it is (`EventFits`) and has copied what is in it
  (`CopyIsCurrent`). The audit log may be raced all the while.
  `AcceptedHolds`: until the first fault every temporary file has a writer at
  work on it (`TempsAreOwned`), races or not. `AuditHolds`: an append under way
  is the newest and not audited yet (`NewestIsBusy`), and what its writer has read and
  written of the audit log is what is there (`AuditInHand`).

### Registry

`SpokeRegistryProofs`: `TypeCorrect`, `OnlyKnownWays`, `ReadersAlwaysAgree`, `RunsGoToLive`,
and `ContractHolds`, the refinement of `RegistryContract`, for any number of callers. The
invariants are not inductive: a call that is not behind has to be as good as
atomic, so `CallOK` says that its line would still pass its check on the ledger as it is
and that its copy is that ledger; of a call that is behind nothing is known, and its
write sets `overtaken`. That a tombstone always folds needs `RetiredByName`, that a
registration that lost its spoke was retired under its own identifier, which
`deregister_spoke` relies on without checking it.

### Goals and manifests

`GoalCompilationProofs`: `OneManifestHolds`, `ReadRoleDefaultsAreToldHolds` and
`SameNumberSameHashHolds`, for every set of goals, every precision and every number a goal
may hold. They assume `EditsAreGoals`, that an edit of a goal makes a goal. The
inductive invariant is short (`Invariant`: what is kept of a compilation is what compiling the
goal gives); the work is in what `compile_goal` computes:

* Powers of ten are a recursive function of the model. That there is such a function, and its
  laws, follow from the least element of a set of numbers (`TenToIs`, `TenToAdds`).
* What `normalize` makes of a number does not depend on the zeros it is written with
  (`NormalizedScales`), even where it rounds, and a canonical text is its own
  (`FormatNormalizes`).
* Rounding to the precision of the context cannot pass a number of fewer digits
  (`ShortIsKept`, `RoundingKeepsOrder`). Every limit of the contract has at most two digits and zeros
  (`ContractIsFair`), so a number in its range is still there once it is written out
  (`FormatStaysWithin`). With a limit of more digits than the context keeps this would fail.
* A block that is filled in and written out is `Settled`: canonical, accepted, and read and
  written as itself. Goals that say the same once they are filled in are `Alike`, and are compiled to one
  document (`AlikeAreOne`); the goal spelled out, the one with its defaults written out, the
  one with longer numbers are each shown accepted and like the goal.

### Creator

`CreatorProjectProofs`, for every set of manifests, every tree to start from, every
edit at any moment, every run of the engine and every bound:

* `TypesHold`: types, and that a project stays a tree whatever is applied or edited.
* `NothingIsOverwrittenHolds`: `apply_plan` looks at each target before it writes there; the
  invariant says that a target that was found absent still is or was edited since
  (`late`), whatever was saved before, and the backup only adds.
* `VerdictIsSoundHolds`. The invariant `VerdictIsEarned` adds that what a
  verification has not done yet has left no trace, and that when it cleans up the engine
  has run all stages of the mode, or failed one.
* `CopyIsTheProjectHolds`. The property compares two hashes at the end; the
  invariant `CopyIsFaithful` speaks of every moment of the walk: as long as the project is what was
  hashed, no file is missed (it is copied, or it is to do, or a directory it lies in
  is) and none is stale. That nothing is missed when nothing is left to do is a descent: of
  the paths missed the shortest would lie in a directory that was listed
  (`EveryFileIsCopied`).
* `ApplyIsWholeHolds`. The invariant `ApplyIsUnderWay` says that a plan completes
  some tree (`IsPlanFor`: every file once, every directory that is missing,
  a directory before what is in it), that nothing has changed since the preflight, and that
  an apply half way has done what is before the cursor and nothing of what is behind
  (`HalfMade`).

Both templates are proved about at their real size: that their paths are different,
that a directory comes before what is in it, and that every `res://` name is that of a file
(`OwnsTree`, `NamesAreFiles`) are lemmas, not assumptions. Where a proof needs the
least element of a set of numbers it takes it from the well-founded order on the
naturals (`LeastIsThere`). `ApplyIsUnderWay` and `OwnsTree` hold on the instance of
`creator_project` too.

### Settings planner

`ProjectSettingsProofs`, for every file of any length, every save and every request:

* `TypeCorrect`: `TypeOK`, that `project.godot` stays a text. The inductive invariant
  `IInv` adds how a plan came about (`PlanIsMade`: by an edit of the request and of what was
  seen that the editor did not refuse), that what was seen is what is edited unless the editor
  saved in between (`SeenIsThere`), and that a command which answered "no-op" had nothing to
  change (`NoopIsMade`). That an edit leaves a text is shown of every
  edit the editor accepts, those that cut the same lines twice included (`EditKeepsText`).
* `RestPreserved`: `RestIsPreserved`. The edit of every adapter is `Proper`
  (`EditIsProper`): its keys are those of the request, and its values are blocks whose
  brackets balance with the last line (`EmitIsBlock`). The editor then changes the file by
  *clean swaps*: lines of entries of these keys for such blocks, at places where it is in no
  value. After a clean swap the index goes on as it went before
  (`SwapWalks`), so that the slices, cut from below, stay where they were (`AllCuts`), the
  insertion point moves as `Shift` says (`PositionIs`), and what lies outside the entries
  is kept line by line (`CutsKeepRest`, `EditKeepsRest`).

* `RequestMeant`: `EditMeansRequest`. In a file read in step (`AgreeIs`: no header or other
  bracketed line inside a value) the entries the scanner reads are those the editor
  sees (`ReadsIs`). A clean swap for lines both parsers count leaves the file read in
  step (`SwapInStep`) and changes what is read of its key and nothing else (`SwapReads`,
  which needs that the section has one entry of the key; the editor refuses others). Cut
  by cut and insertion by insertion, an accepted edit therefore has
  exactly the effect it describes (`EditReads`), in a section that is there (`SectionReads`) and in
  one that is appended (`AppendReads`). What is left is about requests and adapters only:
  `Carries` says that an edit with this effect makes of any section what the
  request asks for, proved adapter by adapter (`AutoloadCarries`, `InputCarries`,
  `SetRemoveClearCarries`, `ApplicationCarries`), and `NoopMeans` that an edit without an effect
  is made only of a request that holds.
* `RepeatHarmless`: `RepeatIsIdempotent`. Over the planned file the section is as the
  request says, and of such a section each adapter makes an edit that puts in only
  what is there (`Repeats`, again adapter by adapter); by `EditReads` nothing that is
  read changes (`RepeatedReads`).
* `FileStaysReadable`: `StaysReadable`. Its part `ParsersStayAgreed` comes with `EditReads`. Its
  part `NameSurvives` holds whatever the literals are: the application adapter
  refuses to remove the name and never inserts an unreadable literal, and an edit of another section
  leaves the scanner in another section where it inserts. However the scanner goes
  through the inserted lines, the next header brings it back to where it would have been
  (`StaysLevel`, `HeaderBetween`), and the name lies before the insertion or after that
  header (`KeysPastInsertion`).

The tables of the model are recursive functions over the lines of a file. That each
is what its equation says (`TableIsThere`, `IndexIs`, `ScanIs`, `WhereIs`) is proved from the
least element of a set of numbers; `SettingsEditProofs` holds these lemmas and those
about the editor.

### Assumptions

The named assumptions of the modules are all that is assumed of the constants:
`PathAssumption` (`Root` is no path; every path has a directory), `NodeAssumption` (the
special tree values are distinct and no contents), `PlanAssumption` (plans are
non-empty sequences of operations), `BoundAssumption` and `BoundsAssumption`
(bounds are naturals), `TreeAssumption` (no path is its own directory, and in the trees to start
from what exists has a directory around it), `HubAssumption` (`NoRun` is no run, there is a file, edits
leave values a file can have), `RegistryAssumption` (a definition has a spoke and at least one
capability), `DecimalAssumption` (two significant digits at least, and no more than the context
keeps), `GoalAssumption` (the goals to start from have a goal's fields, and numbers or words where numbers belong), `TextsAssumption` (the texts of the model's own making are texts), `SettingsAssumption` (files and saves are texts, a request has a
request's type, and its section has files to start from), and in `CreatorProject` `PathAssumption` (every path
lies in a path or at the root), `ContentAssumption` (no bytes are mistaken for what is not
a file), `StartAssumption` (the projects to start from are trees), `EditorAssumption` and
`EngineAssumption` (edits are of paths of the project; modes and runs of the engine are such). TLC evaluates
them in every run. `QuietUndo`, `QuietApply`, `SizesTell`, `OneAtATime` and `EditsAreGoals`
are stated with the theorems that need them.

### Only model-checked

The liveness properties `CallsReturn` and `AbandonedRunsClose`, because fairness
and `ENABLED` are out of the prover's reach. Every other property of a passing run is
a theorem. What fails with two processes
at work is proved for one (`OneAtATime`) and not claimed for more.

## 5. Not modelled

* **Project graph** (`graph/store.py`): the fingerprint and the staleness of one stored
  file, written by one rename and read by one command. The next candidate.
* **Parts of modelled components**: symbolic links, special files and path
  validation of the patch engine and the creator; `invalidate_cache`, which only
  tests call; writers of the plan cache that overlap (`store_plan` appends one line to
  `plan-cache.jsonl` in place; `docs/hub/api/cache.md` 98 and 102 describe a directory of
  files written by temp-and-replace); the signal handling of the
  engine's child process; the grammar of settings values and of the engine's
  messages.
* **Scanners** of scenes, scripts and the inventory, the unified diff, output,
  configuration, doctor, detection: pure functions of text or look-ups on the
  machine, without state and without two steps that could interleave.
  Observability reads the stores and reports.
* **Behaviour library, District Kings**: GDScript that runs in the game.
* **Build tools**.
