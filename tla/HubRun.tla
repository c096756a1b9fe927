-------------------------------- MODULE HubRun --------------------------------
(***************************************************************************)
(* The hub's mutation runs (godotforge_core/hub/orchestrator.py): run_goal *)
(* from the open-run gate to the closed run, and resume_run, executed by   *)
(* one or more processes on one project, for one goal.                     *)
(*                                                                         *)
(* A step is what happens between two effects on the disk another program  *)
(* could see: an event appended to the run store, the apply journal, a     *)
(* directory or a file of the project.  Reads that nothing separates from  *)
(* a decision are part of its step.  Nothing locks the store: an append    *)
(* reads it for the number and the hash of its event, reads it again for   *)
(* the bytes it copies, and puts the copy with its line in the place of    *)
(* whatever the store is by then, which are three steps.  The bytes of the *)
(* store and the audit line that follows are HubLog's subject.             *)
(*                                                                         *)
(* The goal manages NumFiles files, created in this order; a plan is what  *)
(* creator/plan.py computes for the tree: nothing ("noop"), all files, or  *)
(* the directories and all files.  A file is absent, holds the bytes the   *)
(* manifest wants ("good"), or other bytes of the same or another size.    *)
(*                                                                         *)
(* A definition marked "Slip" is not part of the model: it is a plausible  *)
(* mistake in the definition that follows it, kept to show that the        *)
(* properties below notice it.                                             *)
(***************************************************************************)
EXTENDS RunRecord, FiniteSets

CONSTANTS
  Process,     \* the processes that call run_goal and resume_run
  Run,         \* run identifiers (uuids: a new run takes an unused one)
  NoRun,       \* no run
  NumFiles,    \* the managed files are 1..NumFiles, in path order
  Edits,       \* what somebody else's edit may leave in a managed file
  EditPoints,  \* where every process has to be while somebody else edits
  MaxEdits,    \* bound: edits of the project by somebody else
  MaxCrashes   \* bound: calls that die, or end by an exception

File  == 1..NumFiles
Value == {"absent", "good", "same_size", "resized"}
Plan  == {"none", "noop", "files", "all"}
NoVerdict == [status |-> "none", temp_removed |-> TRUE, source_unchanged |-> TRUE]
Verdict == [status: {"none", "ok", "fail"}, temp_removed: BOOLEAN, source_unchanged: BOOLEAN]
Reason == {"none", "abandoned", "plan_changed", "precondition_conflict", "backup_failed",
           "apply_failed", "cleanup_failed", "source_modified", "validation_failed"}

(* The failures that promise that nothing was changed.                     *)
EarlyReason == {"abandoned", "plan_changed", "precondition_conflict", "backup_failed",
                "apply_failed"}

(* "idle": in no call.  The others name what the process does next.        *)
Point == {"idle", "planning", "caching", "planned", "noop", "authorizing", "requiring",
          "replanning", "checking", "backing_up", "applying", "committing", "verify",
          "verifying", "recording", "closing", "finalizing", "failing", "interrupting"}

(* The points whose next step appends an event.                            *)
AppendPoint == {"planned", "authorizing", "committing", "recording", "finalizing", "failing",
                "interrupting"}

ASSUME HubAssumption ==
  /\ NoRun \notin Run
  /\ NumFiles \in Nat \ {0}
  /\ Edits \subseteq Value /\ EditPoints \subseteq Point
  /\ MaxEdits \in Nat /\ MaxCrashes \in Nat

VARIABLES
  tree,     \* the managed files
  dirs,     \* the template's directories exist
  foreign,  \* a file that is none of the project's lies in it
  stray,    \* a temporary file of an append lies in .godotforge/hub
  cache,    \* cache.jsonl: the plan of the first entry for each key
  events,   \* run-records.jsonl: the kinds of the events of each run
  recorded, \* what their payloads say
  chained,  \* verify_chain accepts the store
  append,   \* how far the append of each process is
  journals, \* the runs whose apply_journal.json exists
  proc,     \* the state of each process
  taken,    \* history: the runs that have been started
  made,     \* history: what each run has created (0: the directories)
  used      \* history: edits and crashes so far

vars == <<tree, dirs, foreign, stray, cache, events, recorded, chained, append, journals, proc,
          taken, made, used>>

project == <<tree, dirs, foreign>>
records == <<events, recorded, chained, append, taken>>

Payload == [plan: Plan, artifacts: [File -> Value], verdict: Verdict, reason: Reason]
NoPayload == [plan |-> "none", artifacts |-> [f \in File |-> "absent"],
              verdict |-> NoVerdict, reason |-> "none"]

Store == [events: [Run -> Seq(RunEventKind)], recorded: [Run -> Payload]]
EmptyStore == [events |-> [r \in Run |-> <<>>], recorded |-> [r \in Run |-> NoPayload]]
Stored == [events |-> events, recorded |-> recorded]

(* An append has numbered its event after the store it has read, or has    *)
(* copied the store; chained: the copy with the new line has a valid chain.*)
Appending == [step: {"none", "numbered", "copied"}, store: Store, chained: BOOLEAN]
NoAppend == [step |-> "none", store |-> EmptyStore, chained |-> FALSE]

(* The hash verify_creator_project takes of the source.                    *)
Source == [tree |-> tree, foreign |-> foreign]

(* The locals of a call.                                                   *)
Local == [pc: Point, run: Run \cup {NoRun}, plan: Plan, pos: 0..NumFiles + 1,
          seen: [tree: [File -> Value], foreign: BOOLEAN], verdict: Verdict, reason: Reason]
Idle == [pc |-> "idle", run |-> NoRun, plan |-> "none", pos |-> 0,
         seen |-> [tree |-> [f \in File |-> "absent"], foreign |-> FALSE],
         verdict |-> NoVerdict, reason |-> "none"]

AllGood == \A f \in File : tree[f] = "good"
NoFile  == \A f \in File : tree[f] = "absent"

(* _compute_project_root_hash: which files and directories exist, and how  *)
(* long the files are.                                                     *)
Size(v) == IF v = "same_size" THEN "good" ELSE v
Key == [sizes: [File -> {"absent", "good", "resized"}], dirs: BOOLEAN]
RootHash == [sizes |-> [f \in File |-> Size(tree[f])], dirs |-> dirs]

Init ==
  /\ foreign = FALSE /\ stray = FALSE
  /\ dirs \in BOOLEAN
  /\ tree \in {[f \in File |-> v] : v \in {"absent", "good"}}
  /\ AllGood => dirs
  /\ cache = [k \in Key |-> "none"]
  /\ events = [r \in Run |-> <<>>]
  /\ recorded = [r \in Run |-> NoPayload]
  /\ chained = TRUE /\ append = [p \in Process |-> NoAppend]
  /\ journals = {} /\ taken = {}
  /\ proc = [p \in Process |-> Idle]
  /\ made = [r \in Run |-> {}]
  /\ used = [edits |-> 0, crashes |-> 0]

-----------------------------------------------------------------------------
State(r) == FoldedState(events[r])
RunFolds(r) == Folds(events[r], recorded[r].plan = "noop")

At(p, pc) == proc[p].pc = pc
Become(p, l) == proc' = [proc EXCEPT ![p] = l]
Goto(p, pc) == Become(p, [proc[p] EXCEPT !.pc = pc])
FailWith(p, why) == Become(p, [proc[p] EXCEPT !.pc = "failing", !.reason = why])
Return(p) == Become(p, Idle)

-----------------------------------------------------------------------------
(* append_event.                                                           *)

(* read_events, for the number and the previous hash of the event.         *)
NumberEvent(p) ==
  /\ proc[p].pc \in AppendPoint /\ append[p].step = "none"
  /\ append' = [append EXCEPT ![p] = [step |-> "numbered", store |-> Stored, chained |-> FALSE]]
  /\ UNCHANGED <<project, stray, cache, events, recorded, chained, journals, proc, taken,
                 made, used>>

(* read_bytes, for what is written back.                                   *)
CopyStore(p) ==
  /\ append[p].step = "numbered"
  /\ append' = [append EXCEPT ![p] = [step |-> "copied", store |-> Stored,
                                      chained |-> chained /\ @.store = Stored]]
  /\ UNCHANGED <<project, stray, cache, events, recorded, chained, journals, proc, taken,
                 made, used>>

(* What the copy says of a run.                                            *)
Copied(p, r) == append[p].store.recorded[r]

(* os.replace: the store is the copy with one event more.                  *)
Record(p, r, kind, payload) ==
  /\ append[p].step = "copied"
  /\ events' = [append[p].store.events EXCEPT ![r] = Append(@, kind)]
  /\ recorded' = [append[p].store.recorded EXCEPT ![r] = payload]
  /\ chained' = append[p].chained
  /\ append' = [append EXCEPT ![p] = NoAppend]
  /\ taken' = taken \cup {r}

-----------------------------------------------------------------------------
(* The planner (creator/plan.py).                                          *)

(* _check_preflight raises: an unexpected file in the project, or in the   *)
(* hub's directory.                                                        *)
Rejected == foreign \/ stray

PlanForTree == IF ~dirs THEN "all" ELSE IF AllGood THEN "noop" ELSE "files"

(* check_plan finds no issue: what a plan creates does not exist yet.      *)
PlanOk(plan) == NoFile /\ (plan = "all" => ~dirs)

-----------------------------------------------------------------------------
(* run_goal.                                                               *)

(* Slip: a run that waits for its validation does not count as open.       *)
NoOpenRunBut == \A r \in Run : State(r) \notin {"started", "authorized"}

(* _read_verified_events and _open_runs: the chain verifies, every         *)
(* recorded run folds, and none is open.                                   *)
NoOpenRun ==
  /\ chained
  /\ \A r \in Run : events[r] # <<>> => RunFolds(r)
  /\ \A r \in Run : State(r) \notin OpenState

RunGate(p) ==
  /\ At(p, "idle")
  /\ NoOpenRun
  /\ taken # Run
  /\ Goto(p, "planning")
  /\ UNCHANGED <<project, stray, cache, records, journals, made, used>>

(* A cached plan is taken as it is.  Otherwise the project is planned, and *)
(* a project that is rejected ends the call.                               *)
MakePlan(p) ==
  /\ At(p, "planning")
  /\ LET hit == cache[RootHash] IN
     \/ hit # "none" /\ Become(p, [proc[p] EXCEPT !.pc = "planned", !.plan = hit])
     \/ /\ hit = "none" /\ ~Rejected
        /\ Become(p, [proc[p] EXCEPT !.pc = "caching", !.plan = PlanForTree])
     \/ hit = "none" /\ Rejected /\ Return(p)
  /\ UNCHANGED <<project, stray, cache, records, journals, made, used>>

(* store_plan: an appended entry, under the key the project has by now.    *)
(* The first entry of a key is the one that is found.                      *)
CachePlan(p) ==
  /\ At(p, "caching")
  /\ cache' = [cache EXCEPT ![RootHash] = IF @ = "none" THEN proc[p].plan ELSE @]
  /\ Goto(p, "planned")
  /\ UNCHANGED <<project, stray, records, journals, made, used>>

StartRun(p, r) ==
  /\ At(p, "planned")
  /\ r \notin taken
  /\ Record(p, r, "run_started", [NoPayload EXCEPT !.plan = proc[p].plan])
  /\ Become(p, [proc[p] EXCEPT !.run = r,
                  !.pc = IF proc[p].plan = "noop" THEN "noop" ELSE "authorizing"])
  /\ UNCHANGED <<project, stray, cache, journals, made, used>>

(* A no-op is finalized after one look at its own record.                  *)
FoldNoop(p) ==
  /\ At(p, "noop")
  /\ \/ RunFolds(proc[p].run)  /\ Goto(p, "finalizing")
     \/ ~RunFolds(proc[p].run) /\ Return(p)
  /\ UNCHANGED <<project, stray, cache, records, journals, made, used>>

Authorize(p) ==
  /\ At(p, "authorizing")
  /\ LET r == proc[p].run IN Record(p, r, "authorization_recorded", Copied(p, r))
  /\ Goto(p, "requiring")
  /\ UNCHANGED <<project, stray, cache, journals, made, used>>

(* require_authorization: the event is looked for in the store.            *)
RequireAuthorization(p) ==
  /\ At(p, "requiring")
  /\ LET there == Has(events[proc[p].run], "authorization_recorded") IN
     \/ there  /\ Goto(p, "replanning")
     \/ ~there /\ Return(p)
  /\ UNCHANGED <<project, stray, cache, records, journals, made, used>>

(* The project is planned again: the plan must be the authorized one.      *)
Replan(p) ==
  /\ At(p, "replanning")
  /\ LET same == ~Rejected /\ PlanForTree = proc[p].plan IN
     \/ same  /\ Goto(p, "checking")
     \/ ~same /\ FailWith(p, "plan_changed")
  /\ UNCHANGED <<project, stray, cache, records, journals, made, used>>

CheckPreconditions(p) ==
  /\ At(p, "checking")
  /\ \/ PlanOk(proc[p].plan)  /\ Goto(p, "backing_up")
     \/ ~PlanOk(proc[p].plan) /\ FailWith(p, "precondition_conflict")
  /\ UNCHANGED <<project, stray, cache, records, journals, made, used>>

(* Slip: apply_plan goes on without its journal.                           *)
JournalsWithout(r) == journals

JournalsWith(r) == journals \cup {r}

(* create_backup has nothing to copy for a plan that only creates, but may *)
(* fail.  apply_plan checks the plan again before it writes its journal: a *)
(* failure until then leaves no journal.                                   *)
BackUpAndJournal(p) ==
  /\ At(p, "backing_up")
  /\ \/ /\ PlanOk(proc[p].plan)
        /\ journals' = JournalsWith(proc[p].run)
        /\ Become(p, [proc[p] EXCEPT !.pc = "applying",
                                     !.pos = IF proc[p].plan = "all" THEN 0 ELSE 1])
     \/ ~PlanOk(proc[p].plan) /\ FailWith(p, "apply_failed") /\ UNCHANGED journals
     \/ FailWith(p, "backup_failed") /\ UNCHANGED journals
  /\ UNCHANGED <<project, stray, cache, records, made, used>>

(* Slip: an operation is stepped over.                                     *)
SkipOperation(pos) == pos + 2

NextOperation(pos) == pos + 1

(* The next operation of the plan.  When it cannot be performed the call   *)
(* ends, and the run stays as it is ("recovery-required").                 *)
ApplyOperation(p) ==
  /\ At(p, "applying") /\ proc[p].pos <= NumFiles
  /\ LET f == proc[p].pos
         ready == IF f = 0 THEN ~dirs ELSE tree[f] = "absent"
     IN \/ /\ ready
           /\ dirs' = (dirs \/ f = 0)
           /\ tree' = [g \in File |-> IF g = f THEN "good" ELSE tree[g]]
           /\ made' = [made EXCEPT ![proc[p].run] = @ \cup {f}]
           /\ Become(p, [proc[p] EXCEPT !.pos = NextOperation(f)])
        \/ ~ready /\ Return(p) /\ UNCHANGED <<tree, dirs, made>>
  /\ UNCHANGED <<foreign, stray, cache, records, journals, used>>

(* The files are hashed as they are now; one that is missing ends the call.*)
HashArtifacts(p) ==
  /\ At(p, "applying") /\ proc[p].pos = NumFiles + 1
  /\ LET readable == \A f \in File : tree[f] # "absent" IN
     \/ readable  /\ Become(p, [proc[p] EXCEPT !.pc = "committing", !.seen = Source])
     \/ ~readable /\ Return(p)
  /\ UNCHANGED <<project, stray, cache, records, journals, made, used>>

CommitApply(p) ==
  /\ At(p, "committing")
  /\ LET r == proc[p].run IN
     Record(p, r, "apply_committed", [Copied(p, r) EXCEPT !.artifacts = proc[p].seen.tree])
  /\ Goto(p, "verify")
  /\ UNCHANGED <<project, stray, cache, journals, made, used>>

(* verify_creator_project: the source is hashed before and after the       *)
(* validation of a private copy.  Without an engine, or when it raises,    *)
(* nothing is recorded.                                                    *)
BeginVerify(p) ==
  /\ At(p, "verify")
  /\ Become(p, [proc[p] EXCEPT !.pc = "verifying", !.seen = Source])
  /\ UNCHANGED <<project, stray, cache, records, journals, made, used>>

EndVerify(p) ==
  /\ At(p, "verifying")
  /\ \/ Return(p)
     \/ \E status \in {"ok", "fail"}, removed \in BOOLEAN :
          Become(p, [proc[p] EXCEPT !.pc = "recording",
                       !.verdict = [status |-> status, temp_removed |-> removed,
                                    source_unchanged |-> proc[p].seen = Source]])
  /\ UNCHANGED <<project, stray, cache, records, journals, made, used>>

(* _finish_after_validation: the evidence is recorded first, and then used.*)
RecordValidation(p) ==
  /\ At(p, "recording")
  /\ LET r == proc[p].run IN
     Record(p, r, "validation_completed", [Copied(p, r) EXCEPT !.verdict = proc[p].verdict])
  /\ Goto(p, "closing")
  /\ UNCHANGED <<project, stray, cache, journals, made, used>>

(* Slip: the status of a validation is not looked at.                      *)
StatusIgnored(v) == "finalizing"

StatusDecides(v) == IF v.status = "ok" THEN "finalizing" ELSE "failing"

CloseRun(p) ==
  /\ At(p, "closing")
  /\ LET v == proc[p].verdict IN
     \/ ~v.temp_removed /\ FailWith(p, "cleanup_failed")
     \/ v.temp_removed /\ ~v.source_unchanged /\ FailWith(p, "source_modified")
     \/ /\ v.temp_removed /\ v.source_unchanged
        /\ \/ ~RunFolds(proc[p].run) /\ Return(p)
           \/ /\ RunFolds(proc[p].run)
              /\ Become(p, [proc[p] EXCEPT !.pc = StatusDecides(v),
                                           !.reason = "validation_failed"])
  /\ UNCHANGED <<project, stray, cache, records, journals, made, used>>

(* Terminal events; the call returns.                                      *)
FinalizeRun(p) ==
  /\ At(p, "finalizing")
  /\ LET r == proc[p].run IN Record(p, r, "run_finalized", Copied(p, r))
  /\ Return(p)
  /\ UNCHANGED <<project, stray, cache, journals, made, used>>

FailRun(p) ==
  /\ At(p, "failing")
  /\ LET r == proc[p].run IN
     Record(p, r, "run_failed", [Copied(p, r) EXCEPT !.reason = proc[p].reason])
  /\ Return(p)
  /\ UNCHANGED <<project, stray, cache, journals, made, used>>

-----------------------------------------------------------------------------
(* resume_run: the record is read and decided about; appends come later.   *)
(* A closed run, a run that does not fold, one that needs recovery or one  *)
(* whose files have drifted is left as it is, and so is every run of a     *)
(* store whose chain does not verify.                                      *)

(* Slip: an authorized run is abandoned whether or not it has a journal.   *)
AnyAbandonable(r) == State(r) \in {"started", "authorized"}

(* Slip: an authorized run is never abandoned.                             *)
StartedAbandonable(r) == State(r) = "started"

Abandonable(r) == State(r) = "started" \/ (State(r) = "authorized" /\ r \notin journals)

Drifted(r) == recorded[r].artifacts # tree

(* The next point of a resumed run.                                        *)
Resumed(r) == [Idle EXCEPT !.run = r]

Resume(p, r) ==
  /\ At(p, "idle")
  /\ chained /\ RunFolds(r) /\ State(r) \in OpenState
  /\ LET v == recorded[r].verdict IN
     \/ Abandonable(r)
        /\ Become(p, [Resumed(r) EXCEPT !.pc = "failing", !.reason = "abandoned"])
     \/ State(r) = "needs_validation" /\ v # NoVerdict
        /\ Become(p, [Resumed(r) EXCEPT !.pc = StatusDecides(v), !.reason = "validation_failed"])
     \/ State(r) = "needs_validation" /\ v = NoVerdict /\ ~Drifted(r)
        /\ Become(p, [Resumed(r) EXCEPT !.pc = "verify"])
  /\ UNCHANGED <<project, stray, cache, records, journals, made, used>>

Interruptible(r) == RunFolds(r) /\ State(r) \in {"authorized", "needs_validation"}

(* resume --mark-interrupted, once the operator has looked at the run.     *)
MarkInterrupted(p, r) ==
  /\ At(p, "idle")
  /\ chained /\ Interruptible(r)
  /\ Become(p, [Resumed(r) EXCEPT !.pc = "interrupting"])
  /\ UNCHANGED <<project, stray, cache, records, journals, made, used>>

InterruptRun(p) ==
  /\ At(p, "interrupting")
  /\ LET r == proc[p].run IN Record(p, r, "run_interrupted", Copied(p, r))
  /\ Return(p)
  /\ UNCHANGED <<project, stray, cache, journals, made, used>>

-----------------------------------------------------------------------------
(* The environment.                                                        *)

(* A call dies, or ends by an exception.  An append may leave its          *)
(* temporary file, and the patch engine the one beside its target.         *)
Crash(p) ==
  /\ used.crashes < MaxCrashes
  /\ used' = [used EXCEPT !.crashes = @ + 1]
  /\ ~At(p, "idle")
  /\ stray' \in {stray, stray \/ append[p].step = "copied"}
  /\ foreign' \in {foreign, foreign \/ (At(p, "applying") /\ proc[p].pos \in File)}
  /\ append' = [append EXCEPT ![p] = NoAppend]
  /\ Return(p)
  /\ UNCHANGED <<tree, dirs, cache, events, recorded, chained, taken, journals, made>>

CanEdit ==
  /\ used.edits < MaxEdits
  /\ \A p \in Process : proc[p].pc \in EditPoints
  /\ used' = [used EXCEPT !.edits = @ + 1]
  /\ UNCHANGED <<cache, records, journals, proc, made>>

EditFile(f, v) ==
  /\ CanEdit
  /\ tree[f] # v
  /\ tree' = [tree EXCEPT ![f] = v]
  /\ UNCHANGED <<dirs, foreign, stray>>

AddForeign    == CanEdit /\ foreign' = TRUE /\ UNCHANGED <<tree, dirs, stray>>
RemoveForeign == CanEdit /\ foreign' = FALSE /\ UNCHANGED <<tree, dirs, stray>>
RemoveStray   == CanEdit /\ stray' = FALSE /\ UNCHANGED <<tree, dirs, foreign>>

-----------------------------------------------------------------------------
RunGoal(p) == \/ MakePlan(p) \/ CachePlan(p) \/ (\E r \in Run : StartRun(p, r)) \/ FoldNoop(p)
              \/ Authorize(p) \/ RequireAuthorization(p) \/ Replan(p) \/ CheckPreconditions(p)
              \/ BackUpAndJournal(p) \/ ApplyOperation(p) \/ HashArtifacts(p) \/ CommitApply(p)

Close(p) == \/ BeginVerify(p) \/ EndVerify(p) \/ RecordValidation(p) \/ CloseRun(p)
            \/ FinalizeRun(p) \/ FailRun(p) \/ InterruptRun(p)

ReadStore(p) == NumberEvent(p) \/ CopyStore(p)

Call(p) == RunGate(p) \/ \E r \in Run : Resume(p, r) \/ MarkInterrupted(p, r)

Environment == \/ \E f \in File, v \in Edits : EditFile(f, v)
               \/ AddForeign \/ RemoveForeign \/ RemoveStray

Next == \/ \E p \in Process : Call(p) \/ RunGoal(p) \/ Close(p) \/ ReadStore(p) \/ Crash(p)
        \/ Environment

Spec == Init /\ [][Next]_vars

(* A call goes on once it is made: run_goal and resume_run are straight-   *)
(* line code.  And the operator resumes a run that is open, as the message *)
(* of the open-run gate says (orchestrator.py 471-483).                    *)
FairSpec ==
  /\ Spec
  /\ \A p \in Process : WF_vars(RunGoal(p) \/ Close(p) \/ ReadStore(p))
  /\ \A p \in Process, r \in Run : WF_vars(Resume(p, r))

-----------------------------------------------------------------------------
(* Correctness.                                                            *)

(* The types of the variables.                                             *)
TypeOK ==
  /\ tree \in [File -> Value]
  /\ {dirs, foreign, stray} \subseteq BOOLEAN
  /\ cache \in [Key -> Plan]
  /\ events \in [Run -> Seq(RunEventKind)]
  /\ recorded \in [Run -> Payload]
  /\ chained \in BOOLEAN /\ append \in [Process -> Appending]
  /\ taken \subseteq Run
  /\ journals \subseteq Run
  /\ proc \in [Process -> Local]
  /\ made \in [Run -> SUBSET (0..NumFiles)]
  /\ used \in [edits: 0..MaxEdits, crashes: 0..MaxCrashes]

(***************************************************************************)
(* Whatever dies where, the hub never writes a store it refuses to read:   *)
(* its chain verifies and every recorded run folds (orchestrator.py        *)
(* 124-141 turns anything else into an integrity failure of every later    *)
(* call).                                                                  *)
(***************************************************************************)
StoreFolds == chained /\ \A r \in Run : events[r] # <<>> => RunFolds(r)

(* At most one mutation run is open (orchestrator.py 466-484).             *)
OneOpenRun == \A q, r \in Run : State(q) \in OpenState /\ State(r) \in OpenState => q = r

(* The store can be read and a new run, or the open one, can go on.         *)
StoreIsUsable == StoreFolds /\ OneOpenRun

(***************************************************************************)
(* A run closed as abandoned, or failed before its apply, has changed      *)
(* nothing (orchestrator.py 650-663 and 838-855: "nothing was mutated").   *)
(***************************************************************************)
FailedEarlyIsUntouched ==
  \A r \in Run : recorded[r].reason \in EarlyReason => made[r] = {}

(***************************************************************************)
(* A run that has written its journal, and not that its apply was          *)
(* committed, is closed by the operator only (orchestrator.py 857-869).    *)
(***************************************************************************)
AmbiguousIsLeftOpen ==
  [][\A r \in Run : State(r) = "authorized" /\ r \in journals
                      => State(r)' \in {"authorized", "needs_validation", "interrupted"}]_vars

(***************************************************************************)
(* What changes the project is on record before it happens: an authorized  *)
(* plan, and a journal that makes resume ask for recovery.                 *)
(***************************************************************************)
MutationOnRecord ==
  \A r \in Run : made[r] # {} => /\ r \in journals
                                 /\ Has(events[r], "authorization_recorded")
                                 /\ recorded[r].plan \in {"files", "all"}
                                 /\ 0 \in made[r] => recorded[r].plan = "all"

(***************************************************************************)
(* A run finalized as applied, in a store that can be read, has created    *)
(* all files of its plan and has the record of a successful validation     *)
(* (orchestrator.py 340-355, 403-420).                                     *)
(***************************************************************************)
FinalizedIsValidated ==
  \A r \in Run : State(r) = "finalized" /\ RunFolds(r) /\ recorded[r].plan # "noop"
                   => File \subseteq made[r] /\ recorded[r].verdict.status = "ok"

(* What a closed run says of the project, when it was closed early and     *)
(* when it was finalized, is so.                                           *)
ClosedRunsTellTheTruth == FailedEarlyIsUntouched /\ FinalizedIsValidated

(***************************************************************************)
(* Without edits that keep a file's size, and without edits while a plan   *)
(* is made and cached, a cached no-op is never stale (cache.py 63-91).     *)
(***************************************************************************)
NoopIsTrue ==
  [][\A p \in Process : proc[p].plan = "none" /\ proc'[p].plan = "noop" => AllGood /\ dirs]_vars

(***************************************************************************)
(* A run that died before its apply does not block the hub for ever: it is *)
(* closed once the operator resumes it (orchestrator.py 823-855).          *)
(***************************************************************************)
AbandonedRunsClose ==
  \A r \in Run :
     State(r) \in {"started", "authorized"} /\ r \notin journals
        ~> State(r) \notin OpenState \/ r \in journals

-----------------------------------------------------------------------------
(* What documents say, and the program does not do.                        *)

(***************************************************************************)
(* The docstring of orchestrator.py (13-14): what a run changes, it        *)
(* changes while its authorization is on record.  Two processes do not     *)
(* keep it: one may replace the store by a copy older than the other's     *)
(* authorization, after the other has looked for it (562).                 *)
(***************************************************************************)
ChangesAreAuthorized ==
  [][\A r \in Run : made'[r] # made[r] => Has(events[r], "authorization_recorded")]_vars

=============================================================================
