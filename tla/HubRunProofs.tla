----------------------------- MODULE HubRunProofs -----------------------------
(***************************************************************************)
(* Theorems about HubRun, for any number of runs and files.  For any       *)
(* number of processes: type correctness, and what a cached no-op means.   *)
(* When one process at a time works on a project: that what changes the    *)
(* project is on record, that the run store stays usable, that closed runs *)
(* tell the truth, that an ambiguous run is left to the operator, and the  *)
(* refinement of RunLifecycle.  Two processes do not keep those: an append *)
(* that copies the store while another one replaces it undoes the other.   *)
(***************************************************************************)
EXTENDS HubRefinement, TLAPS

OneAtATime == \A p, q \in Process : p = q

(* A call that has started a run works on it.                              *)
OnRun == Point \ {"idle", "planning", "caching", "planned"}

KnowsRun(p) == proc[p].pc \in OnRun => proc[p].run \in Run

(* The types are kept by any number of processes together with this.       *)
TypeInv == TypeOK /\ \A p \in Process : KnowsRun(p)

(* The points of run_goal between its first event and its last effect.     *)
Mutating == {"authorizing", "requiring", "replanning", "checking", "backing_up", "applying"}

(***************************************************************************)
(* What one process at a time makes of an append: what it has read is what *)
(* it replaces.                                                            *)
(***************************************************************************)
Fresh ==
  /\ chained
  /\ \A r \in Run : r \notin taken => events[r] = <<>>
  /\ \A p \in Process : /\ append[p].step # "none" => append[p].store = Stored
                        /\ append[p].step = "copied" => append[p].chained

(***************************************************************************)
(* What the steps of a call rely on: its plan was made, its run is on      *)
(* record, with that plan and, past the authorization, with that event;    *)
(* and once it applies, with a journal.                                    *)
(***************************************************************************)
CallOK(p) ==
  LET l == proc[p] IN
  /\ l.pc \in {"caching", "planned"} => l.plan # "none"
  /\ l.pc \in OnRun => l.run \in Run /\ events[l.run] # <<>>
  /\ l.pc \in Mutating => l.plan \in {"files", "all"} /\ recorded[l.run].plan = l.plan
  /\ l.pc \in Mutating \ {"authorizing"} => Has(events[l.run], "authorization_recorded")
  /\ l.pc = "applying" => l.run \in journals /\ (l.pos = 0 => l.plan = "all")

CallsOK == \A p \in Process : CallOK(p)

Inv == TypeOK /\ Fresh /\ CallsOK /\ MutationOnRecord

-----------------------------------------------------------------------------
(* Type correctness.                                                       *)

(* The fields of a call have their types.                                  *)
LEMMA FieldTypes ==
  ASSUME NEW l \in Local
  PROVE  /\ l.pc \in Point /\ l.run \in Run \cup {NoRun} /\ l.plan \in Plan
         /\ l.pos \in 0..NumFiles + 1 /\ l.verdict \in Verdict /\ l.reason \in Reason
BY DEF Local

(* The locals of a call stay locals when fields get values of their kind.  *)
LEMMA LocalUpdates ==
  ASSUME NEW l \in Local, NEW c \in Point
  PROVE  /\ [l EXCEPT !.pc = c] \in Local
         /\ \A r \in Run : [l EXCEPT !.run = r, !.pc = c] \in Local
         /\ \A v \in Plan : [l EXCEPT !.pc = c, !.plan = v] \in Local
         /\ \A n \in 0..NumFiles + 1 : [l EXCEPT !.pc = c, !.pos = n] \in Local
         /\ \A n \in 0..NumFiles + 1 : [l EXCEPT !.pos = n] \in Local
         /\ \A v \in Verdict : [l EXCEPT !.pc = c, !.verdict = v] \in Local
         /\ \A w \in Reason : [l EXCEPT !.pc = c, !.reason = w] \in Local
BY DEF Local

(* So has a call that is not made.                                         *)
LEMMA IdleType == Idle \in Local
<1>1. NoVerdict \in Verdict
  BY DEF NoVerdict, Verdict
<1>2. 0 \in 0..NumFiles + 1
  BY HubAssumption
<1>3. [tree |-> [f \in File |-> "absent"], foreign |-> FALSE]
        \in [tree: [File -> Value], foreign: BOOLEAN]
  BY DEF Value
<1> QED
  BY <1>1, <1>2, <1>3 DEF Idle, Local, Point, Plan, Reason

(* What the events record has the type of a payload.                       *)
LEMMA PayloadTypes ==
  /\ NoPayload \in Payload
  /\ \A y \in Payload :
       /\ \A v \in Plan : [y EXCEPT !.plan = v] \in Payload
       /\ \A a \in [File -> Value] : [y EXCEPT !.artifacts = a] \in Payload
       /\ \A v \in Verdict : [y EXCEPT !.verdict = v] \in Payload
       /\ \A w \in Reason : [y EXCEPT !.reason = w] \in Payload
<1>1. NoVerdict \in Verdict
  BY DEF NoVerdict, Verdict
<1>2. [f \in File |-> "absent"] \in [File -> Value]
  BY DEF Value
<1>3. "none" \in Plan /\ "none" \in Reason
  BY DEF Plan, Reason
<1> QED
  BY <1>1, <1>2, <1>3 DEF NoPayload, Payload

(* A call that becomes l is l, and the others are as they were.            *)
LEMMA BecomeType ==
  ASSUME TypeOK, NEW p \in Process, NEW l \in Local, Become(p, l)
  PROVE  proc' \in [Process -> Local] /\ proc'[p] = l /\ \A q \in Process \ {p} : proc'[q] = proc[q]
BY DEF TypeOK, Become

(* No append is an append, and a copied payload is a payload.              *)
LEMMA AppendingTypes ==
  ASSUME TypeOK, NEW p \in Process
  PROVE  /\ NoAppend \in Appending /\ Stored \in Store
         /\ append[p] \in Appending /\ \A r \in Run : Copied(p, r) \in Payload
<1>1. EmptyStore \in Store
  BY PayloadTypes DEF EmptyStore, Store
<1>2. NoAppend \in Appending
  BY <1>1 DEF NoAppend, Appending
<1>3. Stored \in Store
  BY DEF TypeOK, Stored, Store
<1>4. append[p] \in Appending
  BY DEF TypeOK
<1> QED
  BY <1>2, <1>3, <1>4 DEF Copied, Appending, Store

(* What an append puts in the place of the store has the type of one.      *)
LEMMA RecordTypes ==
  ASSUME TypeOK, NEW p \in Process,
         NEW r \in Run, NEW k \in RunEventKind, NEW y \in Payload, Record(p, r, k, y)
  PROVE  /\ events' \in [Run -> Seq(RunEventKind)] /\ recorded' \in [Run -> Payload]
         /\ chained' \in BOOLEAN /\ append' \in [Process -> Appending] /\ taken' \subseteq Run
<1>1. /\ append[p].store.events \in [Run -> Seq(RunEventKind)]
      /\ append[p].store.recorded \in [Run -> Payload] /\ append[p].chained \in BOOLEAN
  BY AppendingTypes DEF Appending, Store
<1>2. events' \in [Run -> Seq(RunEventKind)] /\ recorded' \in [Run -> Payload]
  BY <1>1 DEF Record
<1>3. append' \in [Process -> Appending]
  BY AppendingTypes DEF Record, TypeOK
<1> QED
  BY <1>1, <1>2, <1>3 DEF Record, TypeOK

(* The project's plan, and the key of its cache entry.                     *)
LEMMA PlannerTypes ==
  ASSUME TypeOK
  PROVE  PlanForTree \in Plan \ {"none"} /\ RootHash \in Key /\ cache[RootHash] \in Plan
<1>1. \A f \in File : Size(tree[f]) \in {"absent", "good", "resized"}
  BY DEF TypeOK, Size, Value
<1>2. RootHash \in Key
  BY <1>1 DEF TypeOK, RootHash, Key
<1> QED
  BY <1>2 DEF TypeOK, PlanForTree, Plan

(* A step that neither appends nor touches the project.                    *)
LEMMA QuietType ==
  ASSUME TypeOK, NEW p \in Process, NEW l \in Local, Become(p, l),
         UNCHANGED <<project, stray, cache, records, journals, made, used>>
  PROVE  TypeOK'
BY BecomeType DEF TypeOK, project, records

(* A step that appends an event.                                           *)
LEMMA AppendType ==
  ASSUME TypeOK, NEW p \in Process, NEW l \in Local, Become(p, l),
         NEW r \in Run, NEW k \in RunEventKind, NEW y \in Payload, Record(p, r, k, y),
         UNCHANGED <<project, stray, cache, journals, made, used>>
  PROVE  TypeOK'
<1>1. /\ events' \in [Run -> Seq(RunEventKind)] /\ recorded' \in [Run -> Payload]
      /\ chained' \in BOOLEAN /\ append' \in [Process -> Appending] /\ taken' \subseteq Run
  BY RecordTypes
<1>2. proc' \in [Process -> Local]
  BY BecomeType
<1> QED
  BY <1>1, <1>2 DEF TypeOK, project

(* A step of an append that leaves the store alone.                        *)
LEMMA ReadTypes ==
  ASSUME TypeOK, NEW p \in Process, ReadStore(p)
  PROVE  TypeOK'
<1>1. append' \in [Process -> Appending]
  <2>1. PICK a : append' = [append EXCEPT ![p] = a] /\ a \in Appending
    <3>1. CASE NumberEvent(p)
      <4>1. [step |-> "numbered", store |-> Stored, chained |-> FALSE] \in Appending
        BY AppendingTypes DEF Appending
      <4> QED
        BY <3>1, <4>1 DEF NumberEvent
    <3>2. CASE CopyStore(p)
      <4>1. PICK c \in BOOLEAN : c = (chained /\ append[p].store = Stored)
        BY DEF TypeOK
      <4>2. [step |-> "copied", store |-> Stored, chained |-> c] \in Appending
        BY AppendingTypes DEF Appending
      <4>3. append' = [append EXCEPT ![p] = [step |-> "copied", store |-> Stored, chained |-> c]]
        BY <3>2, <4>1 DEF CopyStore, TypeOK
      <4> QED
        BY <4>2, <4>3
    <3> QED
      BY <3>1, <3>2 DEF ReadStore
  <2> QED
    BY <2>1 DEF TypeOK
<1> QED
  BY <1>1 DEF ReadStore, NumberEvent, CopyStore, TypeOK, project

(* The steps of run_goal keep the types (orchestrator.py 450-746).         *)
LEMMA RunGoalTypes ==
  ASSUME TypeOK, NEW p \in Process, KnowsRun(p), RunGoal(p)
  PROVE  TypeOK'
<1> DEFINE l == proc[p]
<1>0. l \in Local /\ Idle \in Local
  BY IdleType DEF TypeOK
<1>1. CASE MakePlan(p)
  <2>1. CASE Return(p)
    BY <1>0, <1>1, <2>1, QuietType DEF MakePlan, Return
  <2>2. \A v \in Plan : [l EXCEPT !.pc = "planned", !.plan = v] \in Local
                     /\ [l EXCEPT !.pc = "caching", !.plan = v] \in Local
    BY <1>0, LocalUpdates DEF Point
  <2>3. CASE ~Return(p)
    <3>1. PICK m \in Local : Become(p, m)
      BY <1>1, <2>2, <2>3, PlannerTypes DEF MakePlan
    <3> QED
      BY <1>1, <3>1, QuietType DEF MakePlan
  <2> QED
    BY <2>1, <2>3
<1>2. CASE CachePlan(p)
  <2>1. cache' \in [Key -> Plan]
    BY <1>0, <1>2, FieldTypes, PlannerTypes DEF CachePlan, TypeOK
  <2>2. proc' \in [Process -> Local]
    BY <1>0, <1>2, BecomeType, LocalUpdates DEF CachePlan, Goto, Point
  <2> QED
    BY <1>2, <2>1, <2>2 DEF CachePlan, TypeOK, project, records
<1>3. ASSUME NEW r \in Run, StartRun(p, r) PROVE TypeOK'
  <2>1. [NoPayload EXCEPT !.plan = l.plan] \in Payload
    BY <1>0, FieldTypes, PayloadTypes
  <2>2. [l EXCEPT !.run = r, !.pc = IF l.plan = "noop" THEN "noop" ELSE "authorizing"] \in Local
    BY <1>0, LocalUpdates DEF Point
  <2> QED
    BY <1>3, <2>1, <2>2, AppendType DEF StartRun, RunEventKind, Terminal, Lifecycle, Order
<1>4. CASE FoldNoop(p)
  <2>1. [l EXCEPT !.pc = "finalizing"] \in Local
    BY <1>0, LocalUpdates DEF Point
  <2> QED
    BY <1>0, <1>4, <2>1, QuietType DEF FoldNoop, Goto, Return
<1>5. CASE Authorize(p)
  <2>1. l.run \in Run /\ Copied(p, l.run) \in Payload
    BY <1>5, AppendingTypes DEF Authorize, At, KnowsRun, OnRun, Point
  <2>2. [l EXCEPT !.pc = "requiring"] \in Local
    BY <1>0, LocalUpdates DEF Point
  <2> QED
    BY <1>5, <2>1, <2>2, AppendType DEF Authorize, Goto, RunEventKind, Terminal, Lifecycle, Order
<1>6. CASE Replan(p) \/ RequireAuthorization(p)
  <2>1. /\ [l EXCEPT !.pc = "checking"] \in Local /\ [l EXCEPT !.pc = "replanning"] \in Local
        /\ [l EXCEPT !.pc = "failing", !.reason = "plan_changed"] \in Local
    BY <1>0, LocalUpdates DEF Point, Reason
  <2>2. CASE Replan(p)
    BY <2>1, <2>2, QuietType DEF Replan, Goto, FailWith
  <2>3. CASE RequireAuthorization(p)
    BY <1>0, <2>1, <2>3, QuietType DEF RequireAuthorization, Goto, Return
  <2> QED
    BY <1>6, <2>2, <2>3
<1>7. CASE CheckPreconditions(p)
  <2>1. [l EXCEPT !.pc = "backing_up"] \in Local
        /\ [l EXCEPT !.pc = "failing", !.reason = "precondition_conflict"] \in Local
    BY <1>0, LocalUpdates DEF Point, Reason
  <2> QED
    BY <1>7, <2>1, QuietType DEF CheckPreconditions, Goto, FailWith
<1>8. CASE BackUpAndJournal(p)
  <2>1. l.run \in Run
    BY <1>8 DEF BackUpAndJournal, At, KnowsRun, OnRun, Point
  <2>2. /\ [l EXCEPT !.pc = "applying", !.pos = IF l.plan = "all" THEN 0 ELSE 1] \in Local
        /\ [l EXCEPT !.pc = "failing", !.reason = "apply_failed"] \in Local
        /\ [l EXCEPT !.pc = "failing", !.reason = "backup_failed"] \in Local
    <3>1. 0 \in 0..NumFiles + 1 /\ 1 \in 0..NumFiles + 1
      BY HubAssumption
    <3>2. PICK n \in 0..NumFiles + 1 : n = IF l.plan = "all" THEN 0 ELSE 1
      BY <3>1
    <3>3. [l EXCEPT !.pc = "applying", !.pos = n] \in Local
      BY <1>0, LocalUpdates DEF Point
    <3>4. /\ [l EXCEPT !.pc = "failing", !.reason = "apply_failed"] \in Local
          /\ [l EXCEPT !.pc = "failing", !.reason = "backup_failed"] \in Local
      BY <1>0, LocalUpdates DEF Point, Reason
    <3> QED
      BY <3>2, <3>3, <3>4
  <2>3. proc' \in [Process -> Local]
    BY <1>8, <2>2, BecomeType DEF BackUpAndJournal, FailWith
  <2>4. journals' \subseteq Run
    BY <1>8, <2>1 DEF BackUpAndJournal, JournalsWith, TypeOK
  <2> QED
    BY <1>8, <2>3, <2>4 DEF BackUpAndJournal, TypeOK, project, records
<1>9. CASE ApplyOperation(p)
  <2>1. l.run \in Run /\ l.pos \in 0..NumFiles
    BY <1>0, <1>9, FieldTypes, HubAssumption DEF ApplyOperation, At, KnowsRun, OnRun, Point
  <2>2. [l EXCEPT !.pos = NextOperation(l.pos)] \in Local
    <3>1. NextOperation(l.pos) \in 0..NumFiles + 1
      BY <2>1, HubAssumption DEF NextOperation
    <3>2. l.pc \in Point
      BY <1>0, FieldTypes
    <3> QED
      BY <1>0, <3>1, <3>2, LocalUpdates
  <2>3. proc' \in [Process -> Local]
    BY <1>0, <1>9, <2>2, BecomeType DEF ApplyOperation, Return
  <2>4. tree' \in [File -> Value]
    BY <1>9, <2>1 DEF ApplyOperation, TypeOK, Value
  <2>5. dirs' \in BOOLEAN
    <3>1. dirs' = dirs \/ dirs' = (dirs \/ l.pos = 0)
      BY <1>9 DEF ApplyOperation
    <3>2. dirs \in BOOLEAN /\ (dirs \/ l.pos = 0) \in BOOLEAN
      BY DEF TypeOK
    <3> QED
      BY <3>1, <3>2
  <2>6. made' \in [Run -> SUBSET (0..NumFiles)]
    <3>1. made' = made \/ made' = [made EXCEPT ![l.run] = @ \cup {l.pos}]
      BY <1>9 DEF ApplyOperation
    <3>2. made \in [Run -> SUBSET (0..NumFiles)]
      BY DEF TypeOK
    <3> QED
      BY <2>1, <3>1, <3>2
  <2> QED
    BY <1>9, <2>3, <2>4, <2>5, <2>6 DEF ApplyOperation, TypeOK, records
<1>10. CASE HashArtifacts(p)
  <2>1. [l EXCEPT !.pc = "committing", !.seen = Source] \in Local
    BY <1>0 DEF Local, Source, Point, TypeOK
  <2> QED
    BY <1>0, <1>10, <2>1, QuietType DEF HashArtifacts, Return, Source
<1>11. CASE CommitApply(p)
  <2>1. l.run \in Run /\ Copied(p, l.run) \in Payload
    BY <1>11, AppendingTypes DEF CommitApply, At, KnowsRun, OnRun, Point
  <2>2. [Copied(p, l.run) EXCEPT !.artifacts = l.seen.tree] \in Payload
    BY <1>0, <2>1, PayloadTypes DEF Local
  <2>3. [l EXCEPT !.pc = "verify"] \in Local
    BY <1>0, LocalUpdates DEF Point
  <2> QED
    BY <1>11, <2>1, <2>2, <2>3, AppendType
       DEF CommitApply, Goto, RunEventKind, Terminal, Lifecycle, Order
<1> QED
  BY <1>1, <1>2, <1>3, <1>4, <1>5, <1>6, <1>7, <1>8, <1>9, <1>10, <1>11 DEF RunGoal

(* So do the steps that close a run (orchestrator.py 285-420).             *)
LEMMA CloseTypes ==
  ASSUME TypeOK, NEW p \in Process, KnowsRun(p), Close(p)
  PROVE  TypeOK'
<1> DEFINE l == proc[p]
<1>0. l \in Local /\ Idle \in Local /\ l.verdict \in Verdict /\ l.reason \in Reason
  BY IdleType, FieldTypes DEF TypeOK
<1>1. ASSUME l.pc \in OnRun
      PROVE  l.run \in Run /\ Copied(p, l.run) \in Payload
             /\ [Copied(p, l.run) EXCEPT !.verdict = l.verdict] \in Payload
             /\ [Copied(p, l.run) EXCEPT !.reason = l.reason] \in Payload
  BY <1>0, <1>1, AppendingTypes, PayloadTypes DEF KnowsRun
<1>2. CASE BeginVerify(p)
  <2>1. [l EXCEPT !.pc = "verifying", !.seen = Source] \in Local
    BY <1>0 DEF Local, Source, Point, TypeOK
  <2> QED
    BY <1>2, <2>1, QuietType DEF BeginVerify
<1>3. CASE EndVerify(p)
  <2>1. CASE Return(p)
    BY <1>0, <1>3, <2>1, QuietType DEF EndVerify, Return
  <2>2. ASSUME NEW status \in {"ok", "fail"}, NEW removed \in BOOLEAN,
               Become(p, [l EXCEPT !.pc = "recording",
                            !.verdict = [status |-> status, temp_removed |-> removed,
                                         source_unchanged |-> l.seen = Source]])
        PROVE  TypeOK'
    <3>1. [status |-> status, temp_removed |-> removed, source_unchanged |-> l.seen = Source]
            \in Verdict
      BY DEF Verdict
    <3>2. PICK v \in Verdict : Become(p, [l EXCEPT !.pc = "recording", !.verdict = v])
      BY <2>2, <3>1
    <3>3. [l EXCEPT !.pc = "recording", !.verdict = v] \in Local
      BY <1>0, LocalUpdates DEF Point
    <3> QED
      BY <1>3, <3>2, <3>3, QuietType DEF EndVerify
  <2> QED
    BY <1>3, <2>1, <2>2 DEF EndVerify
<1>4. CASE RecordValidation(p)
  <2>1. l.pc \in OnRun
    BY <1>4 DEF RecordValidation, At, OnRun, Point
  <2>2. [l EXCEPT !.pc = "closing"] \in Local
    BY <1>0, LocalUpdates DEF Point
  <2> QED
    BY <1>1, <1>4, <2>1, <2>2, AppendType
       DEF RecordValidation, Goto, RunEventKind, Terminal, Lifecycle, Order
<1>5. CASE CloseRun(p)
  <2>1. /\ [l EXCEPT !.pc = "failing", !.reason = "cleanup_failed"] \in Local
        /\ [l EXCEPT !.pc = "failing", !.reason = "source_modified"] \in Local
        /\ [l EXCEPT !.pc = StatusDecides(l.verdict), !.reason = "validation_failed"] \in Local
    BY <1>0, LocalUpdates DEF StatusDecides, Point, Reason
  <2>2. PICK m \in Local : Become(p, m)
    BY <1>0, <1>5, <2>1 DEF CloseRun, FailWith, Return
  <2> QED
    BY <1>5, <2>2, QuietType DEF CloseRun
<1>6. CASE FinalizeRun(p) \/ FailRun(p) \/ InterruptRun(p)
  <2>1. l.pc \in OnRun /\ Return(p)
    BY <1>6 DEF FinalizeRun, FailRun, InterruptRun, At, OnRun, Point
  <2>2. PICK k \in RunEventKind, y \in Payload : Record(p, l.run, k, y)
    BY <1>1, <1>6, <2>1 DEF FinalizeRun, FailRun, InterruptRun, RunEventKind, Terminal
  <2> QED
    BY <1>0, <1>1, <1>6, <2>1, <2>2, AppendType DEF FinalizeRun, FailRun, InterruptRun, Return
<1> QED
  BY <1>2, <1>3, <1>4, <1>5, <1>6 DEF Close

(* So does the start of a call: the gate of run_goal, and resume_run.      *)
LEMMA CallTypes ==
  ASSUME TypeOK, NEW p \in Process, Call(p)
  PROVE  TypeOK'
<1>0. proc[p] \in Local /\ Idle \in Local
  BY IdleType DEF TypeOK
<1>1. CASE RunGate(p)
  <2>1. [proc[p] EXCEPT !.pc = "planning"] \in Local
    BY <1>0, LocalUpdates DEF Point
  <2> QED
    BY <1>1, <2>1, QuietType DEF RunGate, Goto
<1>2. ASSUME NEW r \in Run, Resume(p, r) \/ MarkInterrupted(p, r)
      PROVE  TypeOK'
  <2>1. Resumed(r) \in Local
    BY <1>0 DEF Resumed, Local
  <2>2. /\ [Resumed(r) EXCEPT !.pc = "failing", !.reason = "abandoned"] \in Local
        /\ [Resumed(r) EXCEPT !.pc = StatusDecides(recorded[r].verdict),
                               !.reason = "validation_failed"] \in Local
        /\ [Resumed(r) EXCEPT !.pc = "verify"] \in Local
        /\ [Resumed(r) EXCEPT !.pc = "interrupting"] \in Local
    BY <2>1, LocalUpdates DEF StatusDecides, Point, Reason
  <2>3. PICK m \in Local : Become(p, m)
    BY <1>2, <2>2 DEF Resume, MarkInterrupted
  <2> QED
    BY <1>2, <2>3, QuietType DEF Resume, MarkInterrupted
<1> QED
  BY <1>1, <1>2 DEF Call

(* The counters stay within their bounds.                                  *)
LEMMA CounterTypes ==
  ASSUME TypeOK
  PROVE  /\ used.edits < MaxEdits
              => [used EXCEPT !.edits = @ + 1] \in [edits: 0..MaxEdits, crashes: 0..MaxCrashes]
         /\ used.crashes < MaxCrashes
              => [used EXCEPT !.crashes = @ + 1] \in [edits: 0..MaxEdits, crashes: 0..MaxCrashes]
<1>1. used \in [edits: 0..MaxEdits, crashes: 0..MaxCrashes]
  BY DEF TypeOK
<1>2. used.edits \in 0..MaxEdits /\ used.crashes \in 0..MaxCrashes
  BY <1>1
<1>3. used.edits < MaxEdits => used.edits + 1 \in 0..MaxEdits
  BY <1>2, HubAssumption
<1>4. used.crashes < MaxCrashes => used.crashes + 1 \in 0..MaxCrashes
  BY <1>2, HubAssumption
<1> QED
  BY <1>1, <1>3, <1>4

(* So does a call that dies.                                               *)
LEMMA CrashTypes ==
  ASSUME TypeOK, NEW p \in Process, Crash(p)
  PROVE  TypeOK'
<1>1. proc' \in [Process -> Local]
  BY IdleType, BecomeType DEF Crash, Return
<1>2. used' \in [edits: 0..MaxEdits, crashes: 0..MaxCrashes]
  BY CounterTypes DEF Crash
<1>3. stray' \in BOOLEAN /\ foreign' \in BOOLEAN
  <2>1. stray \in BOOLEAN /\ foreign \in BOOLEAN
    BY DEF TypeOK
  <2>2. stray' \in {stray, TRUE, FALSE} /\ foreign' \in {foreign, TRUE, FALSE}
    BY <2>1 DEF Crash
  <2> QED
    BY <2>1, <2>2
<1>4. append' \in [Process -> Appending]
  BY AppendingTypes DEF Crash, TypeOK
<1> QED
  BY <1>1, <1>2, <1>3, <1>4 DEF Crash, TypeOK

(* So does what others do to the project.                                  *)
LEMMA EnvironmentTypes ==
  ASSUME TypeOK, Environment
  PROVE  TypeOK'
<1>1. ASSUME CanEdit PROVE used' \in [edits: 0..MaxEdits, crashes: 0..MaxCrashes]
  BY <1>1, CounterTypes DEF CanEdit
<1>2. ASSUME NEW f \in File, NEW v \in Edits, EditFile(f, v) PROVE TypeOK'
  <2>1. tree' \in [File -> Value]
    BY <1>2, HubAssumption DEF EditFile, TypeOK
  <2> QED
    BY <1>1, <1>2, <2>1 DEF EditFile, CanEdit, TypeOK, records
<1>3. CASE AddForeign \/ RemoveForeign \/ RemoveStray
  <2>1. foreign' \in {foreign, TRUE, FALSE} /\ stray' \in {stray, FALSE}
        /\ CanEdit /\ UNCHANGED <<tree, dirs>>
    BY <1>3 DEF AddForeign, RemoveForeign, RemoveStray
  <2>2. foreign' \in BOOLEAN /\ stray' \in BOOLEAN
    BY <2>1 DEF TypeOK
  <2> QED
    BY <1>1, <2>1, <2>2 DEF CanEdit, TypeOK, records
<1> QED
  BY <1>2, <1>3 DEF Environment

-----------------------------------------------------------------------------
(* A call keeps its run, and gets its plan from MakePlan only.             *)

(* A call that becomes l is l.                                             *)
LEMMA BecomeValue ==
  ASSUME TypeOK, NEW p \in Process, NEW l, Become(p, l)
  PROVE  proc'[p] = l
BY DEF TypeOK, Become

(* The fields of a call after it has gone on, or failed.                   *)
LEMMA GotoFields ==
  ASSUME TypeOK, NEW p \in Process, NEW c, Goto(p, c)
  PROVE  /\ proc'[p].pc = c /\ proc'[p].run = proc[p].run /\ proc'[p].pos = proc[p].pos
         /\ proc'[p].plan = proc[p].plan /\ proc'[p].verdict = proc[p].verdict
<1>1. proc'[p] = [proc[p] EXCEPT !.pc = c] /\ proc[p] \in Local
  BY BecomeValue DEF Goto, TypeOK
<1> QED
  BY <1>1 DEF Local

(***************************************************************************)
(* A call past its first event has a run; and only MakePlan gives a call a *)
(* plan, or makes it go and cache one.                                     *)
(***************************************************************************)
LEMMA StepKeeps ==
  ASSUME TypeOK, NEW p \in Process, KnowsRun(p), Call(p) \/ RunGoal(p) \/ Close(p)
  PROVE  /\ KnowsRun(p)'
         /\ ~MakePlan(p) =>
              proc'[p].pc # "caching" /\ proc'[p].plan \in {proc[p].plan, "none"}
<1> DEFINE l == proc[p]
           Planless == proc'[p].pc # "caching" /\ proc'[p].plan \in {l.plan, "none"}
           Kept == KnowsRun(p)' /\ Planless
<1>0. l \in Local
  BY DEF TypeOK
<1>1. Return(p) => Kept
  BY BecomeValue DEF Return, Idle, KnowsRun, OnRun
<1>2. \A c : Goto(p, c) /\ c # "caching" /\ (c \in OnRun => l.pc \in OnRun) => Kept
  BY GotoFields DEF KnowsRun
<1>3. \A w : FailWith(p, w) /\ l.pc \in OnRun => Kept
  <2> SUFFICES ASSUME NEW w, FailWith(p, w), l.pc \in OnRun PROVE Kept
    OBVIOUS
  <2>1. proc'[p] = [l EXCEPT !.pc = "failing", !.reason = w]
    BY BecomeValue DEF FailWith
  <2>2. proc'[p].pc = "failing" /\ proc'[p].run = l.run /\ proc'[p].plan = l.plan
    BY <1>0, <2>1 DEF Local
  <2> QED
    BY <2>2 DEF KnowsRun
<1>4. CASE Call(p)
  <2>1. ASSUME NEW r \in Run, Resume(p, r) \/ MarkInterrupted(p, r) PROVE Kept
    <3>1. Resumed(r) \in Local /\ Resumed(r).plan = "none" /\ Resumed(r).run = r
      BY IdleType DEF Resumed, Idle, Local
    <3>2. PICK c \in {"failing", "interrupting", "finalizing", "verify"} :
             \/ Become(p, [Resumed(r) EXCEPT !.pc = c])
             \/ \E w : Become(p, [Resumed(r) EXCEPT !.pc = c, !.reason = w])
      BY <2>1 DEF Resume, MarkInterrupted, StatusDecides
    <3>3. CASE Become(p, [Resumed(r) EXCEPT !.pc = c])
      <4>1. proc'[p] = [Resumed(r) EXCEPT !.pc = c]
        BY <3>3, BecomeValue
      <4> QED
        BY <3>1, <4>1 DEF Local, KnowsRun
    <3>4. ASSUME NEW w, Become(p, [Resumed(r) EXCEPT !.pc = c, !.reason = w]) PROVE Kept
      <4>1. proc'[p] = [Resumed(r) EXCEPT !.pc = c, !.reason = w]
        BY <3>4, BecomeValue
      <4> QED
        BY <3>1, <4>1 DEF Local, KnowsRun
    <3> QED
      BY <3>2, <3>3, <3>4
  <2> QED
    BY <1>2, <1>4, <2>1 DEF Call, RunGate, OnRun
<1>5. CASE RunGoal(p)
  <2>1. ASSUME NEW r \in Run, StartRun(p, r) PROVE Kept
    <3>1. PICK c \in {"noop", "authorizing"} : Become(p, [l EXCEPT !.run = r, !.pc = c])
      BY <2>1 DEF StartRun
    <3>2. proc'[p] = [l EXCEPT !.run = r, !.pc = c]
      BY <3>1, BecomeValue
    <3> QED
      BY <1>0, <3>2 DEF Local, KnowsRun
  <2>2. ASSUME NEW n, Become(p, [l EXCEPT !.pc = "applying", !.pos = n]), l.pc \in OnRun
        PROVE  Kept
    <3>1. proc'[p] = [l EXCEPT !.pc = "applying", !.pos = n]
      BY <2>2, BecomeValue
    <3> QED
      BY <1>0, <2>2, <3>1 DEF Local, KnowsRun
  <2>3. ASSUME NEW n, l.pc = "applying", Become(p, [l EXCEPT !.pos = n]) PROVE Kept
    <3>1. proc'[p] = [l EXCEPT !.pos = n]
      BY <2>3, BecomeValue
    <3> QED
      BY <1>0, <2>3, <3>1 DEF Local, KnowsRun
  <2>4. ASSUME NEW x, l.pc = "applying",
               Become(p, [l EXCEPT !.pc = "committing", !.seen = x])
        PROVE  Kept
    <3>1. proc'[p] = [l EXCEPT !.pc = "committing", !.seen = x]
      BY <2>4, BecomeValue
    <3> QED
      BY <1>0, <2>4, <3>1 DEF Local, KnowsRun, OnRun, Point
  <2>5. CASE \/ FoldNoop(p) \/ Authorize(p) \/ RequireAuthorization(p)
             \/ Replan(p) \/ CheckPreconditions(p) \/ CommitApply(p) \/ BackUpAndJournal(p)
    <3>1. l.pc \in OnRun
      BY <2>5 DEF FoldNoop, Authorize, RequireAuthorization, Replan, CheckPreconditions,
             CommitApply, BackUpAndJournal, At, OnRun, Point
    <3> QED
      BY <1>1, <1>2, <1>3, <2>2, <2>5, <3>1
         DEF FoldNoop, Authorize, RequireAuthorization, Replan, CheckPreconditions, CommitApply,
             BackUpAndJournal
  <2>6. CASE ApplyOperation(p) \/ HashArtifacts(p)
    BY <1>1, <2>3, <2>4, <2>6 DEF ApplyOperation, HashArtifacts, At
  <2>7. CASE CachePlan(p)
    BY <1>2, <2>7 DEF CachePlan, OnRun
  <2>8. CASE MakePlan(p)
    <3>1. CASE Return(p)
      BY <1>1, <2>8, <3>1
    <3>2. CASE ~Return(p)
      <4>1. PICK c \in {"planned", "caching"} : \E v : Become(p, [l EXCEPT !.pc = c, !.plan = v])
        BY <2>8, <3>2 DEF MakePlan
      <4>2. PICK v : proc'[p] = [l EXCEPT !.pc = c, !.plan = v]
        BY <4>1, BecomeValue
      <4>3. proc'[p].pc = c
        BY <1>0, <4>2 DEF Local
      <4> QED
        BY <2>8, <4>3 DEF KnowsRun, OnRun
    <3> QED
      BY <3>1, <3>2
  <2> QED
    BY <1>5, <2>1, <2>5, <2>6, <2>7, <2>8 DEF RunGoal
<1>6. CASE Close(p)
  <2>0. l.pc \in OnRun /\ l.run \in Run
    BY <1>6 DEF Close, BeginVerify, EndVerify, RecordValidation, CloseRun, FinalizeRun, FailRun,
           InterruptRun, At, KnowsRun, OnRun, Point
  <2>1. ASSUME NEW x, Become(p, [l EXCEPT !.pc = "verifying", !.seen = x]) PROVE Kept
    <3>1. proc'[p] = [l EXCEPT !.pc = "verifying", !.seen = x]
      BY <2>1, BecomeValue
    <3> QED
      BY <1>0, <2>0, <3>1 DEF Local, KnowsRun
  <2>2. ASSUME NEW v, Become(p, [l EXCEPT !.pc = "recording", !.verdict = v]) PROVE Kept
    <3>1. proc'[p] = [l EXCEPT !.pc = "recording", !.verdict = v]
      BY <2>2, BecomeValue
    <3> QED
      BY <1>0, <2>0, <3>1 DEF Local, KnowsRun
  <2>3. ASSUME NEW c \in {"finalizing", "failing"}, NEW w,
               Become(p, [l EXCEPT !.pc = c, !.reason = w])
        PROVE  Kept
    <3>1. proc'[p] = [l EXCEPT !.pc = c, !.reason = w]
      BY <2>3, BecomeValue
    <3> QED
      BY <1>0, <2>0, <3>1 DEF Local, KnowsRun
  <2>4. StatusDecides(l.verdict) \in {"finalizing", "failing"}
    BY DEF StatusDecides
  <2> QED
    BY <1>1, <1>2, <1>3, <1>6, <2>0, <2>1, <2>2, <2>3, <2>4
       DEF Close, BeginVerify, EndVerify, RecordValidation, CloseRun, FinalizeRun, FailRun,
           InterruptRun
<1> QED
  BY <1>4, <1>5, <1>6

-----------------------------------------------------------------------------
(* The types are kept by any number of processes.                          *)

(* A step of a call, or its end, changes the state of that call only.      *)
LEMMA OneBecomes ==
  ASSUME NEW p \in Process, Call(p) \/ RunGoal(p) \/ Close(p) \/ Crash(p)
  PROVE  \E m : Become(p, m)
BY DEF Call, RunGate, Resume, MarkInterrupted, RunGoal, MakePlan, CachePlan, StartRun, FoldNoop,
       Authorize, RequireAuthorization, Replan, CheckPreconditions, BackUpAndJournal,
       ApplyOperation, HashArtifacts, CommitApply, Close, BeginVerify, EndVerify,
       RecordValidation, CloseRun, FinalizeRun, FailRun, InterruptRun, Crash, Goto, FailWith,
       Return

(* What others do, and reading the store, is no step of a call.            *)
LEMMA NoneBecomes ==
  ASSUME Environment \/ UNCHANGED vars \/ \E p \in Process : ReadStore(p)
  PROVE  UNCHANGED <<events, recorded, chained, taken, journals, proc, made>>
BY DEF Environment, EditFile, AddForeign, RemoveForeign, RemoveStray, CanEdit, vars, records,
       ReadStore, NumberEvent, CopyStore

(* The types hold before any call.                                         *)
LEMMA TypeInvInit == Init => TypeInv
<1> SUFFICES ASSUME Init PROVE TypeInv
  OBVIOUS
<1>1. NoPayload \in Payload /\ Idle \in Local
  BY PayloadTypes, IdleType
<1>2. used \in [edits: 0..MaxEdits, crashes: 0..MaxCrashes]
  BY HubAssumption DEF Init
<1>3. tree \in [File -> Value] /\ cache \in [Key -> Plan]
  BY DEF Init, Value, Plan
<1>4. dirs \in BOOLEAN /\ foreign \in BOOLEAN /\ stray \in BOOLEAN /\ chained \in BOOLEAN
  BY DEF Init
<1>5. events \in [Run -> Seq(RunEventKind)]
  BY DEF Init
<1>6. append \in [Process -> Appending]
  <2>1. EmptyStore \in Store
    BY <1>1 DEF EmptyStore, Store
  <2>2. NoAppend \in Appending
    BY <2>1 DEF NoAppend, Appending
  <2> QED
    BY <2>2 DEF Init
<1>7. TypeOK
  BY <1>1, <1>2, <1>3, <1>4, <1>5, <1>6 DEF Init, TypeOK
<1>8. \A p \in Process : KnowsRun(p)
  BY DEF Init, KnowsRun, Idle, OnRun
<1> QED
  BY <1>7, <1>8 DEF TypeInv

(* Every step keeps the types.                                             *)
LEMMA TypeInvNext ==
  ASSUME TypeInv, [Next]_vars
  PROVE  TypeInv'
<1>0. TypeOK
  BY DEF TypeInv
<1>1. ASSUME NEW p \in Process, Call(p) \/ RunGoal(p) \/ Close(p) \/ Crash(p)
      PROVE  TypeInv'
  <2>1. TypeOK' /\ KnowsRun(p)'
    <3>1. CASE Call(p) \/ RunGoal(p) \/ Close(p)
      <4>1. KnowsRun(p)
        BY DEF TypeInv
      <4>2. TypeOK'
        BY <1>0, <3>1, <4>1, CallTypes, RunGoalTypes, CloseTypes
      <4>3. KnowsRun(p)'
        BY <1>0, <3>1, <4>1, StepKeeps
      <4> QED
        BY <4>2, <4>3
    <3>2. CASE Crash(p)
      <4>1. TypeOK'
        BY <1>0, <3>2, CrashTypes
      <4>2. Return(p)
        BY <3>2 DEF Crash
      <4>3. proc'[p].pc = "idle"
        BY <1>0, <4>2, BecomeValue DEF Return, Idle
      <4> QED
        BY <4>1, <4>3 DEF KnowsRun, OnRun
    <3> QED
      BY <1>1, <3>1, <3>2
  <2>2. PICK m : Become(p, m)
    BY <1>1, OneBecomes
  <2>3. \A q \in Process \ {p} : proc'[q] = proc[q]
    BY <1>0, <2>2 DEF TypeOK, Become
  <2> QED
    BY <2>1, <2>3 DEF TypeInv, KnowsRun
<1>2. CASE Environment \/ UNCHANGED vars \/ \E p \in Process : ReadStore(p)
  <2>1. TypeOK'
    <3>1. CASE UNCHANGED vars
      BY <1>0, <3>1 DEF vars, TypeOK
    <3> QED
      BY <1>0, <1>2, <3>1, EnvironmentTypes, ReadTypes
  <2>2. UNCHANGED proc
    BY <1>2, NoneBecomes
  <2> QED
    BY <2>1, <2>2 DEF TypeInv, KnowsRun
<1> QED
  BY <1>1, <1>2 DEF Next

(* The types hold in every reachable state.                                *)
LEMMA TypeInvHolds == Spec => []TypeInv
BY TypeInvInit, TypeInvNext, PTL DEF Spec

(***************************************************************************)
(* The variables keep their types, whatever any number of processes do,    *)
(* and wherever calls die: no call appends to a run it has not got.        *)
(***************************************************************************)
THEOREM TypeCorrect == Spec => []TypeOK
<1>1. TypeInv => TypeOK
  BY DEF TypeInv
<1> QED
  BY <1>1, TypeInvHolds, PTL

-----------------------------------------------------------------------------
(* An append of one process at a time.                                     *)

(* The store with one event more, the last of its run.                     *)
Recorded(r, k, y) ==
  /\ events' = [events EXCEPT ![r] = Append(@, k)]
  /\ recorded' = [recorded EXCEPT ![r] = y]

(* What is put in the place of the store is the store with one event more. *)
LEMMA Undisturbed ==
  ASSUME Fresh, NEW p \in Process, NEW r, NEW k, NEW y, Record(p, r, k, y)
  PROVE  Recorded(r, k, y) /\ \A q : Copied(p, q) = recorded[q]
<1>1. append[p].store = Stored
  BY DEF Fresh, Record
<1> QED
  BY <1>1 DEF Record, Recorded, Copied, Stored

(* What each of the appends adds to the store.                             *)
LEMMA Atomic ==
  ASSUME Fresh, NEW p \in Process
  PROVE  LET l == proc[p]  r == proc[p].run  y == recorded[r] IN
         /\ \A q \in Run : StartRun(p, q) =>
              events[q] = <<>> /\ Recorded(q, "run_started", [NoPayload EXCEPT !.plan = l.plan])
         /\ Authorize(p) => Recorded(r, "authorization_recorded", y)
         /\ CommitApply(p) =>
              Recorded(r, "apply_committed", [y EXCEPT !.artifacts = l.seen.tree])
         /\ RecordValidation(p) =>
              Recorded(r, "validation_completed", [y EXCEPT !.verdict = l.verdict])
         /\ FinalizeRun(p) => Recorded(r, "run_finalized", y)
         /\ FailRun(p) => Recorded(r, "run_failed", [y EXCEPT !.reason = l.reason])
         /\ InterruptRun(p) => Recorded(r, "run_interrupted", y)
<1>1. ASSUME NEW q \in Run, StartRun(p, q)
      PROVE  events[q] = <<>>
             /\ Recorded(q, "run_started", [NoPayload EXCEPT !.plan = proc[p].plan])
  BY <1>1, Undisturbed DEF StartRun, Fresh
<1>2. ASSUME Authorize(p)
      PROVE  Recorded(proc[p].run, "authorization_recorded", recorded[proc[p].run])
  BY <1>2, Undisturbed DEF Authorize
<1>3. ASSUME CommitApply(p)
      PROVE  Recorded(proc[p].run, "apply_committed",
                      [recorded[proc[p].run] EXCEPT !.artifacts = proc[p].seen.tree])
  BY <1>3, Undisturbed DEF CommitApply
<1>4. ASSUME RecordValidation(p)
      PROVE  Recorded(proc[p].run, "validation_completed",
                      [recorded[proc[p].run] EXCEPT !.verdict = proc[p].verdict])
  BY <1>4, Undisturbed DEF RecordValidation
<1>5. ASSUME FinalizeRun(p)
      PROVE  Recorded(proc[p].run, "run_finalized", recorded[proc[p].run])
  BY <1>5, Undisturbed DEF FinalizeRun
<1>6. ASSUME FailRun(p)
      PROVE  Recorded(proc[p].run, "run_failed", [recorded[proc[p].run] EXCEPT !.reason = proc[p].reason])
  BY <1>6, Undisturbed DEF FailRun
<1>7. ASSUME InterruptRun(p)
      PROVE  Recorded(proc[p].run, "run_interrupted", recorded[proc[p].run])
  BY <1>7, Undisturbed DEF InterruptRun
<1> QED
  BY <1>1, <1>2, <1>3, <1>4, <1>5, <1>6, <1>7

(* Nothing comes between the reads of an append and its replace.           *)
LEMMA FreshNext ==
  ASSUME OneAtATime, TypeInv, Fresh, [Next]_vars
  PROVE  Fresh'
<1>0. TypeOK
  BY DEF TypeInv
<1>1. ASSUME NEW p \in Process, NEW r, NEW k, NEW y, Record(p, r, k, y) PROVE Fresh'
  <2>1. Recorded(r, k, y) /\ chained' = append[p].chained /\ append[p].step = "copied"
        /\ taken' = taken \cup {r} /\ append' = [append EXCEPT ![p] = NoAppend]
    BY <1>1, Undisturbed DEF Record
  <2>2. append'[p].step = "none"
    BY <1>0, <2>1 DEF TypeOK, NoAppend
  <2>3. \A q \in Run : q \notin taken' => events'[q] = <<>>
    BY <1>0, <2>1 DEF Fresh, Recorded, TypeOK
  <2> QED
    BY <2>1, <2>2, <2>3 DEF Fresh, OneAtATime
<1>2. CASE UNCHANGED <<events, recorded, chained, append, taken>>
  BY <1>2 DEF Fresh, Stored
<1>3. ASSUME NEW p \in Process, NumberEvent(p) \/ CopyStore(p) \/ Crash(p) PROVE Fresh'
  <2>1. UNCHANGED <<events, recorded, chained, taken>> /\ Stored' = Stored
    BY <1>3 DEF NumberEvent, CopyStore, Crash, Stored
  <2>2. /\ append'[p].step # "none" => append'[p].store = Stored
        /\ append'[p].step = "copied" => append'[p].chained
    <3>1. CASE NumberEvent(p)
      BY <1>0, <3>1 DEF NumberEvent, TypeOK
    <3>2. CASE CopyStore(p)
      BY <1>0, <3>2 DEF CopyStore, TypeOK, Fresh
    <3>3. CASE Crash(p)
      BY <1>0, <3>3 DEF Crash, TypeOK, NoAppend
    <3> QED
      BY <1>3, <3>1, <3>2, <3>3
  <2> QED
    BY <2>1, <2>2 DEF Fresh, OneAtATime
<1>4. ASSUME NEW p \in Process, Call(p) PROVE Fresh'
  BY <1>2, <1>4 DEF Call, RunGate, Resume, MarkInterrupted, records
<1>5. ASSUME NEW p \in Process, RunGoal(p) PROVE Fresh'
  <2>1. CASE \/ \E r \in Run : StartRun(p, r)
             \/ Authorize(p) \/ CommitApply(p)
    BY <1>1, <2>1 DEF StartRun, Authorize, CommitApply
  <2>2. CASE \/ MakePlan(p) \/ CachePlan(p) \/ FoldNoop(p) \/ RequireAuthorization(p)
             \/ Replan(p) \/ CheckPreconditions(p) \/ BackUpAndJournal(p)
             \/ ApplyOperation(p) \/ HashArtifacts(p)
    BY <1>2, <2>2 DEF MakePlan, CachePlan, FoldNoop, RequireAuthorization, Replan,
           CheckPreconditions, BackUpAndJournal, ApplyOperation, HashArtifacts, records
  <2> QED
    BY <1>5, <2>1, <2>2 DEF RunGoal
<1>6. ASSUME NEW p \in Process, Close(p) PROVE Fresh'
  <2>1. CASE RecordValidation(p) \/ FinalizeRun(p) \/ FailRun(p) \/ InterruptRun(p)
    BY <1>1, <2>1 DEF RecordValidation, FinalizeRun, FailRun, InterruptRun
  <2>2. CASE BeginVerify(p) \/ EndVerify(p) \/ CloseRun(p)
    BY <1>2, <2>2 DEF BeginVerify, EndVerify, CloseRun, records
  <2> QED
    BY <1>6, <2>1, <2>2 DEF Close
<1>7. CASE Environment \/ UNCHANGED vars
  BY <1>2, <1>7 DEF Environment, EditFile, AddForeign, RemoveForeign, RemoveStray, CanEdit,
                    vars, records
<1> QED
  BY <1>3, <1>4, <1>5, <1>6, <1>7 DEF Next, ReadStore

-----------------------------------------------------------------------------
(* Records and journals only grow.                                         *)
Grows ==
  /\ journals \subseteq journals'
  /\ \A r \in Run :
       /\ events[r] # <<>> => events'[r] # <<>> /\ recorded'[r].plan = recorded[r].plan
       /\ Has(events[r], "authorization_recorded") => Has(events'[r], "authorization_recorded")

(* An appended event is the last of its run, and the other runs are as     *)
(* they were.                                                              *)
LEMMA RecordedType ==
  ASSUME TypeOK, NEW r \in Run, NEW k \in RunEventKind, NEW y \in Payload, Recorded(r, k, y)
  PROVE  /\ events'[r] = Append(events[r], k) /\ recorded'[r] = y
         /\ \A q \in Run \ {r} : events'[q] = events[q] /\ recorded'[q] = recorded[q]
BY DEF TypeOK, Recorded

(* An appended event is in the record, with all that was there.            *)
LEMMA HasAppend ==
  ASSUME NEW s \in Seq(RunEventKind), NEW k \in RunEventKind
  PROVE  /\ Append(s, k) # <<>> /\ Has(Append(s, k), k)
         /\ \A j : Has(s, j) => s # <<>> /\ Has(Append(s, k), j)
<1>1. /\ Len(Append(s, k)) = Len(s) + 1 /\ Len(s) \in Nat
      /\ Append(s, k)[Len(s) + 1] = k
      /\ \A i \in 1..Len(s) : Append(s, k)[i] = s[i]
  OBVIOUS
<1>2. DOMAIN s = 1..Len(s) /\ DOMAIN Append(s, k) = 1..(Len(s) + 1)
  BY <1>1
<1>3. Has(Append(s, k), k)
  BY <1>1, <1>2 DEF Has
<1>4. ASSUME NEW j, Has(s, j) PROVE s # <<>> /\ Has(Append(s, k), j)
  <2>1. PICK i \in 1..Len(s) : s[i] = j
    BY <1>2, <1>4 DEF Has
  <2>2. i \in 1..(Len(s) + 1) /\ Append(s, k)[i] = j
    BY <1>1, <2>1
  <2>3. s # <<>>
    BY <2>1
  <2> QED
    BY <1>2, <2>2, <2>3 DEF Has
<1>5. Append(s, k) # <<>>
  BY <1>1
<1> QED
  BY <1>3, <1>4, <1>5

(* An event appended by a call that keeps the plan on record only adds to  *)
(* the records.                                                            *)
LEMMA AppendGrows ==
  ASSUME TypeOK, NEW r \in Run, NEW k \in RunEventKind, NEW y \in Payload, Recorded(r, k, y),
         events[r] = <<>> \/ y.plan = recorded[r].plan,
         UNCHANGED journals
  PROVE  Grows /\ events'[r] # <<>> /\ Has(events'[r], k) /\ recorded'[r] = y
<1>1. /\ events[r] \in Seq(RunEventKind)
      /\ events'[r] = Append(events[r], k) /\ recorded'[r] = y
      /\ \A q \in Run \ {r} : events'[q] = events[q] /\ recorded'[q] = recorded[q]
  BY RecordedType DEF TypeOK
<1>2. /\ events'[r] # <<>> /\ Has(events'[r], k)
      /\ \A j : Has(events[r], j) => Has(events'[r], j)
  BY <1>1, HasAppend
<1> QED
  BY <1>1, <1>2 DEF Grows

(* A step that appends nothing and takes no journal away only adds to the  *)
(* records.                                                                *)
LEMMA QuietGrows ==
  ASSUME UNCHANGED records, journals \subseteq journals'
  PROVE  Grows
BY DEF records, Grows

(* While they grow, what announced the changes made so far is still there. *)
LEMMA MutationKept ==
  ASSUME TypeOK, MutationOnRecord, Grows, UNCHANGED made
  PROVE  MutationOnRecord'
<1>1. \A r \in Run : Has(events[r], "authorization_recorded") => events[r] # <<>>
  BY HasAppend DEF TypeOK, RunEventKind, Terminal
<1> QED
  BY <1>1 DEF MutationOnRecord, Grows

-----------------------------------------------------------------------------
(* Each step of a call keeps what the call relies on.                      *)

(* A call that has returned relies on nothing.                             *)
LEMMA Returned ==
  ASSUME TypeOK, NEW p \in Process, Return(p)
  PROVE  CallOK(p)'
<1>1. proc'[p].pc = "idle"
  BY BecomeValue DEF Return, Idle
<1> QED
  BY <1>1 DEF CallOK, OnRun, Mutating

(* Past the apply, a call relies on its run being on record.               *)
LEMMA OnRecord ==
  ASSUME TypeOK, NEW p \in Process, proc'[p].pc \in OnRun \ Mutating,
         proc'[p].run \in Run, events'[proc'[p].run] # <<>>
  PROVE  CallOK(p)'
BY DEF CallOK, OnRun, Mutating

(* After a step of run_goal the call has what it relies on at its next     *)
(* point (orchestrator.py 450-746).                                        *)
LEMMA RunGoalCalls ==
  ASSUME TypeOK, Fresh, NEW p \in Process, CallOK(p), RunGoal(p)
  PROVE  CallOK(p)' /\ Grows
<1> DEFINE l == proc[p]
<1>0. l \in Local
  BY DEF TypeOK
<1>1. CASE MakePlan(p)
  <2>1. CASE Return(p)
    BY <1>1, <2>1, Returned, QuietGrows DEF MakePlan
  <2>2. CASE ~Return(p)
    <3>1. PICK c \in {"planned", "caching"}, v \in Plan \ {"none"} :
             Become(p, [l EXCEPT !.pc = c, !.plan = v])
      BY <1>1, <2>2, PlannerTypes DEF MakePlan
    <3>2. proc'[p].pc = c /\ proc'[p].plan = v
      <4>1. proc'[p] = [l EXCEPT !.pc = c, !.plan = v]
        BY <3>1, BecomeValue
      <4> QED
        BY <1>0, <4>1 DEF Local
    <3> QED
      BY <1>1, <3>2, QuietGrows DEF MakePlan, CallOK, OnRun, Mutating
  <2> QED
    BY <2>1, <2>2
<1>2. CASE CachePlan(p)
  <2>1. proc'[p].pc = "planned" /\ proc'[p].plan = l.plan
    BY <1>0, <1>2, BecomeValue DEF CachePlan, Goto, Local
  <2> QED
    BY <1>2, <2>1, QuietGrows DEF CachePlan, At, CallOK, OnRun, Mutating
<1>3. ASSUME NEW r \in Run, StartRun(p, r)
      PROVE  CallOK(p)' /\ Grows
  <2>1. PICK y \in Payload : y.plan = l.plan /\ Recorded(r, "run_started", y)
    <3>1. [NoPayload EXCEPT !.plan = l.plan] \in Payload
      BY <1>0, FieldTypes, PayloadTypes
    <3>2. [NoPayload EXCEPT !.plan = l.plan].plan = l.plan
      BY DEF NoPayload
    <3>3. Recorded(r, "run_started", [NoPayload EXCEPT !.plan = l.plan])
      BY <1>3, Atomic
    <3> QED
      BY <3>1, <3>2, <3>3
  <2>2. Grows /\ events'[r] # <<>> /\ recorded'[r].plan = l.plan
    <3>1. events[r] = <<>> /\ UNCHANGED journals
      BY <1>3, Atomic DEF StartRun
    <3> QED
      BY <2>1, <3>1, AppendGrows DEF RunEventKind, Terminal, Lifecycle, Order
  <2>3. /\ proc'[p].run = r /\ proc'[p].plan = l.plan
        /\ proc'[p].pc = IF l.plan = "noop" THEN "noop" ELSE "authorizing"
    <3>1. PICK c \in {"noop", "authorizing"} :
                   /\ c = IF l.plan = "noop" THEN "noop" ELSE "authorizing"
                   /\ Become(p, [l EXCEPT !.run = r, !.pc = c])
      BY <1>3 DEF StartRun
    <3>2. proc'[p] = [l EXCEPT !.run = r, !.pc = c]
      BY <3>1, BecomeValue
    <3>3. proc'[p].run = r /\ proc'[p].plan = l.plan /\ proc'[p].pc = c
      BY <1>0, <3>2 DEF Local
    <3> QED
      BY <3>1, <3>3
  <2>4. l.plan \in {"noop", "files", "all"}
    BY <1>0, <1>3, FieldTypes DEF StartRun, At, CallOK, Plan
  <2> QED
    BY <2>2, <2>3, <2>4 DEF CallOK, OnRun, Mutating, Point
<1>4. CASE FoldNoop(p)
  <2>1. CASE Return(p)
    BY <1>4, <2>1, Returned, QuietGrows DEF FoldNoop
  <2>2. CASE Goto(p, "finalizing")
    <3>1. proc'[p].pc = "finalizing" /\ proc'[p].run = l.run
      BY <1>0, <2>2, BecomeValue DEF Goto, Local
    <3>2. l.run \in Run /\ events[l.run] # <<>>
      BY <1>4 DEF FoldNoop, At, CallOK, OnRun, Point
    <3> QED
      BY <1>4, <3>1, <3>2, QuietGrows, OnRecord DEF FoldNoop, records, OnRun, Mutating, Point
  <2> QED
    BY <1>4, <2>1, <2>2 DEF FoldNoop
<1>5. CASE Authorize(p)
  <2>1. l.run \in Run /\ l.plan \in {"files", "all"} /\ recorded[l.run].plan = l.plan
    BY <1>5 DEF Authorize, At, CallOK, OnRun, Mutating, Point
  <2>2. recorded[l.run] \in Payload
    BY <2>1 DEF TypeOK
  <2>3. Grows /\ events'[l.run] # <<>> /\ Has(events'[l.run], "authorization_recorded")
        /\ recorded'[l.run].plan = l.plan
    <3>1. Recorded(l.run, "authorization_recorded", recorded[l.run]) /\ UNCHANGED journals
      BY <1>5, Atomic DEF Authorize
    <3> QED
      BY <2>1, <2>2, <3>1, AppendGrows DEF RunEventKind, Terminal, Lifecycle, Order
  <2>4. proc'[p].pc = "requiring" /\ proc'[p].run = l.run /\ proc'[p].plan = l.plan
    BY <1>0, <1>5, BecomeValue DEF Authorize, Goto, Local
  <2> QED
    BY <2>1, <2>3, <2>4 DEF CallOK, Mutating
<1>6. CASE \/ RequireAuthorization(p) \/ Replan(p) \/ CheckPreconditions(p)
           \/ BackUpAndJournal(p)
  <2>1. /\ l.pc \in Mutating \ {"authorizing"} /\ l.run \in Run /\ events[l.run] # <<>>
        /\ l.plan \in {"files", "all"} /\ recorded[l.run].plan = l.plan
        /\ Has(events[l.run], "authorization_recorded")
    BY <1>6 DEF RequireAuthorization, Replan, CheckPreconditions, BackUpAndJournal, At, CallOK,
                OnRun, Mutating, Point
  <2>2. Grows /\ UNCHANGED records
    BY <1>6, QuietGrows DEF RequireAuthorization, Replan, CheckPreconditions, BackUpAndJournal,
                            JournalsWith
  <2>3. ASSUME NEW why, FailWith(p, why) PROVE CallOK(p)'
    <3>1. proc'[p].pc = "failing" /\ proc'[p].run = l.run
      <4>1. proc'[p] = [l EXCEPT !.pc = "failing", !.reason = why]
        BY <2>3, BecomeValue DEF FailWith
      <4> QED
        BY <1>0, <4>1 DEF Local
    <3> QED
      BY <2>1, <2>2, <3>1, OnRecord DEF records, OnRun, Mutating, Point
  <2>4. ASSUME NEW c \in {"replanning", "checking", "backing_up"}, Goto(p, c) PROVE CallOK(p)'
    <3>1. proc'[p].pc = c /\ proc'[p].run = l.run /\ proc'[p].plan = l.plan
      BY <1>0, <2>4, BecomeValue DEF Goto, Local
    <3> QED
      BY <2>1, <2>2, <3>1 DEF records, CallOK, Mutating
  <2>5. ASSUME journals' = JournalsWith(l.run),
               Become(p, [l EXCEPT !.pc = "applying", !.pos = IF l.plan = "all" THEN 0 ELSE 1])
        PROVE  CallOK(p)'
    <3>1. /\ proc'[p].pc = "applying" /\ proc'[p].run = l.run /\ proc'[p].plan = l.plan
          /\ proc'[p].pos = 0 => l.plan = "all"
      <4>1. PICK n \in {0, 1} :
                     /\ n = IF l.plan = "all" THEN 0 ELSE 1
                     /\ Become(p, [l EXCEPT !.pc = "applying", !.pos = n])
        BY <2>5
      <4>2. /\ proc'[p].pc = "applying" /\ proc'[p].run = l.run /\ proc'[p].plan = l.plan
            /\ proc'[p].pos = n
        <5>1. proc'[p] = [l EXCEPT !.pc = "applying", !.pos = n]
          BY <4>1, BecomeValue
        <5> QED
          BY <1>0, <5>1 DEF Local
      <4> QED
        BY <4>1, <4>2
    <3> QED
      BY <2>1, <2>2, <2>5, <3>1 DEF records, JournalsWith, CallOK, Mutating
  <2> QED
    BY <1>6, <2>2, <2>3, <2>4, <2>5, Returned
       DEF RequireAuthorization, Replan, CheckPreconditions, BackUpAndJournal
<1>7. CASE ApplyOperation(p)
  <2>1. Grows /\ UNCHANGED <<records, journals>>
    BY <1>7, QuietGrows DEF ApplyOperation
  <2>2. CASE Return(p)
    BY <2>1, <2>2, Returned
  <2>3. CASE Become(p, [l EXCEPT !.pos = NextOperation(l.pos)])
    <3>1. /\ proc'[p].pc = l.pc /\ proc'[p].run = l.run /\ proc'[p].plan = l.plan
          /\ proc'[p].pos = l.pos + 1
      BY <1>0, <2>3, BecomeValue DEF NextOperation, Local
    <3>2. l.pc = "applying" /\ l.pos + 1 # 0
      BY <1>0, <1>7, FieldTypes, HubAssumption DEF ApplyOperation, At
    <3> QED
      BY <2>1, <3>1, <3>2 DEF records, CallOK, OnRun, Mutating, Point
  <2> QED
    BY <1>7, <2>1, <2>2, <2>3 DEF ApplyOperation
<1>8. CASE HashArtifacts(p)
  <2>1. Grows /\ UNCHANGED records /\ l.run \in Run /\ events[l.run] # <<>>
    BY <1>8, QuietGrows DEF HashArtifacts, At, CallOK, OnRun, Point
  <2>2. CASE Return(p)
    BY <2>1, <2>2, Returned
  <2>3. CASE Become(p, [l EXCEPT !.pc = "committing", !.seen = Source])
    <3>1. proc'[p] = [l EXCEPT !.pc = "committing", !.seen = Source]
      BY <2>3, BecomeValue
    <3>2. proc'[p].pc = "committing" /\ proc'[p].run = l.run
      BY <1>0, <3>1 DEF Local
    <3> QED
      BY <2>1, <3>2, OnRecord DEF records, OnRun, Mutating, Point
  <2> QED
    BY <1>8, <2>2, <2>3 DEF HashArtifacts
<1>9. CASE CommitApply(p)
  <2>1. l.run \in Run /\ events[l.run] # <<>>
    BY <1>9 DEF CommitApply, At, CallOK, OnRun, Point
  <2>2. PICK y \in Payload : y.plan = recorded[l.run].plan
                             /\ Recorded(l.run, "apply_committed", y)
    <3>1. recorded[l.run] \in Payload
          /\ [recorded[l.run] EXCEPT !.artifacts = l.seen.tree] \in Payload
      BY <1>0, <2>1, PayloadTypes DEF TypeOK, Local
    <3>2. [recorded[l.run] EXCEPT !.artifacts = l.seen.tree].plan = recorded[l.run].plan
      BY <3>1 DEF Payload
    <3>3. Recorded(l.run, "apply_committed", [recorded[l.run] EXCEPT !.artifacts = l.seen.tree])
      BY <1>9, Atomic
    <3> QED
      BY <3>1, <3>2, <3>3
  <2>3. Grows /\ events'[l.run] # <<>>
    BY <1>9, <2>1, <2>2, AppendGrows DEF CommitApply, RunEventKind, Terminal, Lifecycle, Order
  <2>4. proc'[p].pc = "verify" /\ proc'[p].run = l.run
    BY <1>9, GotoFields DEF CommitApply
  <2> QED
    BY <2>1, <2>3, <2>4, OnRecord DEF OnRun, Mutating, Point
<1> QED
  BY <1>1, <1>2, <1>3, <1>4, <1>5, <1>6, <1>7, <1>8, <1>9 DEF RunGoal

(* So it has after a step that closes a run (orchestrator.py 285-420).     *)
LEMMA CloseCalls ==
  ASSUME TypeOK, Fresh, NEW p \in Process, CallOK(p), Close(p)
  PROVE  CallOK(p)' /\ Grows
<1> DEFINE l == proc[p]
<1>0. l \in Local
  BY DEF TypeOK
<1>1. l.pc \in OnRun /\ l.run \in Run /\ events[l.run] # <<>>
  <2>1. l.pc \in OnRun
    BY DEF Close, BeginVerify, EndVerify, RecordValidation, CloseRun, FinalizeRun, FailRun,
           InterruptRun, At, OnRun, Point
  <2> QED
    BY <2>1 DEF CallOK
<1>2. recorded[l.run] \in Payload /\ l.verdict \in Verdict /\ l.reason \in Reason
  BY <1>0, <1>1, FieldTypes DEF TypeOK
<1>3. CASE BeginVerify(p) \/ EndVerify(p) \/ CloseRun(p)
  <2>1. Grows /\ UNCHANGED records
    BY <1>3, QuietGrows DEF BeginVerify, EndVerify, CloseRun
  <2>2. CASE Return(p)
    BY <2>1, <2>2, Returned
  <2>3. ASSUME NEW c \in OnRun \ Mutating, proc'[p].pc = c, proc'[p].run = l.run
        PROVE  CallOK(p)'
    BY <1>1, <2>1, <2>3, OnRecord DEF records
  <2>4. ASSUME NEW c \in OnRun \ Mutating, NEW x, Become(p, [l EXCEPT !.pc = c, !.seen = x])
        PROVE  CallOK(p)'
    <3>1. proc'[p] = [l EXCEPT !.pc = c, !.seen = x]
      BY <2>4, BecomeValue
    <3>2. proc'[p].pc = c /\ proc'[p].run = l.run
      BY <1>0, <3>1 DEF Local
    <3> QED
      BY <2>3, <3>2
  <2>5. ASSUME NEW c \in OnRun \ Mutating, NEW x, Become(p, [l EXCEPT !.pc = c, !.verdict = x])
        PROVE  CallOK(p)'
    <3>1. proc'[p] = [l EXCEPT !.pc = c, !.verdict = x]
      BY <2>5, BecomeValue
    <3>2. proc'[p].pc = c /\ proc'[p].run = l.run
      BY <1>0, <3>1 DEF Local
    <3> QED
      BY <2>3, <3>2
  <2>6. ASSUME NEW c \in OnRun \ Mutating, NEW x, Become(p, [l EXCEPT !.pc = c, !.reason = x])
        PROVE  CallOK(p)'
    <3>1. proc'[p] = [l EXCEPT !.pc = c, !.reason = x]
      BY <2>6, BecomeValue
    <3>2. proc'[p].pc = c /\ proc'[p].run = l.run
      BY <1>0, <3>1 DEF Local
    <3> QED
      BY <2>3, <3>2
  <2>7. {"verifying", "recording", "failing", "finalizing"} \subseteq OnRun \ Mutating
    BY DEF OnRun, Mutating, Point
  <2>8. StatusDecides(l.verdict) \in {"failing", "finalizing"}
    BY DEF StatusDecides
  <2>9. CASE BeginVerify(p)
    BY <2>1, <2>4, <2>7, <2>9 DEF BeginVerify
  <2>10. CASE EndVerify(p)
    BY <2>1, <2>2, <2>5, <2>7, <2>10 DEF EndVerify
  <2>11. CASE CloseRun(p)
    BY <2>1, <2>2, <2>6, <2>7, <2>8, <2>11 DEF CloseRun, FailWith
  <2> QED
    BY <1>3, <2>1, <2>9, <2>10, <2>11
<1>4. CASE RecordValidation(p)
  <2>1. PICK y \in Payload : y.plan = recorded[l.run].plan
                             /\ Recorded(l.run, "validation_completed", y)
    <3>1. [recorded[l.run] EXCEPT !.verdict = l.verdict] \in Payload
          /\ [recorded[l.run] EXCEPT !.verdict = l.verdict].plan = recorded[l.run].plan
      BY <1>2, PayloadTypes DEF Payload
    <3> QED
      BY <1>4, <3>1, Atomic
  <2>2. Grows /\ events'[l.run] # <<>>
    BY <1>1, <1>4, <2>1, AppendGrows DEF RecordValidation, RunEventKind, Terminal, Lifecycle, Order
  <2>3. proc'[p].pc = "closing" /\ proc'[p].run = l.run
    BY <1>0, <1>4, BecomeValue DEF RecordValidation, Goto, Local
  <2> QED
    BY <1>1, <2>2, <2>3, OnRecord DEF OnRun, Mutating, Point
<1>5. CASE FinalizeRun(p) \/ FailRun(p) \/ InterruptRun(p)
  <2>1. PICK k \in RunEventKind, y \in Payload :
           y.plan = recorded[l.run].plan /\ Recorded(l.run, k, y)
    <3>1. [recorded[l.run] EXCEPT !.reason = l.reason] \in Payload
          /\ [recorded[l.run] EXCEPT !.reason = l.reason].plan = recorded[l.run].plan
      BY <1>2, PayloadTypes DEF Payload
    <3> QED
      BY <1>2, <1>5, <3>1, Atomic DEF RunEventKind, Terminal
  <2>2. Grows
    BY <1>1, <1>5, <2>1, AppendGrows DEF FinalizeRun, FailRun, InterruptRun
  <2> QED
    BY <1>5, <2>2, Returned DEF FinalizeRun, FailRun, InterruptRun
<1> QED
  BY <1>3, <1>4, <1>5 DEF Close

(* So it has when the call starts (orchestrator.py 466-484, 749-940).      *)
LEMMA CallCalls ==
  ASSUME TypeOK, NEW p \in Process, Call(p)
  PROVE  CallOK(p)' /\ Grows
<1>1. CASE RunGate(p)
  <2>1. proc'[p].pc = "planning"
    BY <1>1, BecomeValue DEF RunGate, Goto, Local, TypeOK
  <2> QED
    BY <1>1, <2>1, QuietGrows DEF RunGate, CallOK, OnRun, Mutating
<1>2. ASSUME NEW r \in Run, Resume(p, r) \/ MarkInterrupted(p, r)
      PROVE  CallOK(p)' /\ Grows
  <2>1. Grows /\ UNCHANGED records
    BY <1>2, QuietGrows DEF Resume, MarkInterrupted
  <2>2. events[r] # <<>>
    BY <1>2 DEF Resume, MarkInterrupted, Interruptible, State, FoldedState, OpenState
  <2>3. Resumed(r) \in Local
    BY IdleType DEF Resumed, Local
  <2>4. Resumed(r).run = r
    BY IdleType DEF Resumed, Local
  <2>5. PICK c \in OnRun \ Mutating :
           \/ Become(p, [Resumed(r) EXCEPT !.pc = c])
           \/ \E w : Become(p, [Resumed(r) EXCEPT !.pc = c, !.reason = w])
    <3>1. {"verify", "failing", "finalizing", "interrupting"} \subseteq OnRun \ Mutating
      BY DEF OnRun, Mutating, Point
    <3> QED
      BY <1>2, <3>1 DEF Resume, MarkInterrupted, StatusDecides
  <2>6. proc'[p].pc = c /\ proc'[p].run = r
    <3>1. CASE Become(p, [Resumed(r) EXCEPT !.pc = c])
      <4>1. proc'[p] = [Resumed(r) EXCEPT !.pc = c]
        BY <3>1, BecomeValue
      <4> QED
        BY <2>3, <2>4, <4>1 DEF Local
    <3>2. ASSUME NEW w, Become(p, [Resumed(r) EXCEPT !.pc = c, !.reason = w])
          PROVE  proc'[p].pc = c /\ proc'[p].run = r
      <4>1. proc'[p] = [Resumed(r) EXCEPT !.pc = c, !.reason = w]
        BY <3>2, BecomeValue
      <4> QED
        BY <2>3, <2>4, <4>1 DEF Local
    <3> QED
      BY <2>5, <3>1, <3>2
  <2> QED
    BY <2>1, <2>2, <2>6, OnRecord DEF records
<1> QED
  BY <1>1, <1>2 DEF Call

-----------------------------------------------------------------------------
(* The invariant.                                                          *)

(* The invariant holds before any call.                                    *)
LEMMA InvInit == Init => Inv
<1> SUFFICES ASSUME Init PROVE Inv
  OBVIOUS
<1>1. TypeOK /\ Fresh
  BY TypeInvInit DEF TypeInv, Init, Fresh, NoAppend
<1>2. CallsOK
  BY DEF Init, CallsOK, CallOK, Idle, OnRun, Mutating
<1>3. MutationOnRecord
  BY DEF Init, MutationOnRecord
<1> QED
  BY <1>1, <1>2, <1>3 DEF Inv

(* A step of a call.  Only ApplyOperation changes what has been created.   *)
LEMMA StepInv ==
  ASSUME OneAtATime, Inv, NEW p \in Process, Call(p) \/ RunGoal(p) \/ Close(p)
  PROVE  CallsOK' /\ MutationOnRecord'
<1>1. TypeOK /\ Fresh /\ CallsOK /\ MutationOnRecord /\ CallOK(p)
  BY DEF Inv, CallsOK
<1>2. CallOK(p)' /\ Grows
  BY <1>1, CallCalls, RunGoalCalls, CloseCalls
<1>3. CallsOK'
  BY <1>2 DEF CallsOK, OneAtATime
<1>4. MutationOnRecord'
  <2>1. CASE ApplyOperation(p)
    <3> DEFINE r == proc[p].run
    <3>1. /\ r \in Run /\ r \in journals /\ Has(events[r], "authorization_recorded")
          /\ recorded[r].plan \in {"files", "all"}
          /\ proc[p].pos = 0 => recorded[r].plan = "all"
      BY <1>1, <2>1 DEF ApplyOperation, At, CallOK, OnRun, Mutating, Point
    <3>2. made' = made \/ made' = [made EXCEPT ![r] = @ \cup {proc[p].pos}]
      BY <2>1 DEF ApplyOperation
    <3>3. \A q \in Run : made'[q] = made[q] \/ (q = r /\ made'[q] = made[q] \cup {proc[p].pos})
      BY <1>1, <3>1, <3>2 DEF TypeOK
    <3>4. UNCHANGED <<records, journals>>
      BY <2>1 DEF ApplyOperation
    <3> QED
      BY <1>1, <3>1, <3>3, <3>4 DEF MutationOnRecord, records
  <2>2. CASE ~ApplyOperation(p)
    <3>1. UNCHANGED made
      BY <2>2 DEF Call, RunGate, Resume, MarkInterrupted, RunGoal, MakePlan, CachePlan, StartRun,
             FoldNoop, Authorize, RequireAuthorization, Replan, CheckPreconditions,
             BackUpAndJournal, HashArtifacts, CommitApply, Close, BeginVerify, EndVerify,
             RecordValidation, CloseRun, FinalizeRun, FailRun, InterruptRun
    <3> QED
      BY <1>1, <1>2, <3>1, MutationKept
  <2> QED
    BY <2>1, <2>2
<1> QED
  BY <1>3, <1>4

(* A call that dies relies on nothing any more.                            *)
LEMMA CrashInv ==
  ASSUME OneAtATime, Inv, NEW p \in Process, Crash(p)
  PROVE  CallsOK' /\ MutationOnRecord'
<1>1. CallOK(p)'
  BY Returned DEF Crash, Inv
<1>2. UNCHANGED <<events, recorded, journals, made>>
  BY DEF Crash
<1> QED
  BY <1>1, <1>2 DEF Inv, MutationOnRecord, CallsOK, OneAtATime

(* The invariant is inductive ...                                          *)
LEMMA InvNext ==
  ASSUME OneAtATime, TypeInv, Inv, [Next]_vars
  PROVE  Inv'
<1>1. TypeOK' /\ Fresh'
  BY TypeInvNext, FreshNext DEF TypeInv, Inv
<1>2. CASE Environment \/ UNCHANGED vars \/ \E p \in Process : ReadStore(p)
  BY <1>1, <1>2, NoneBecomes DEF Inv, CallsOK, CallOK, MutationOnRecord
<1> QED
  BY <1>1, <1>2, StepInv, CrashInv DEF Next, Inv

(* ... and so it holds in every reachable state.                           *)
LEMMA InvHolds == ASSUME OneAtATime PROVE Spec => []Inv
BY InvInit, InvNext, TypeInvHolds, PTL DEF Spec

(***************************************************************************)
(* While one process works, what run_goal changes in the project is on     *)
(* record before it happens: an authorized plan, of the kind that is       *)
(* applied, and the journal that makes resume_run leave the run open       *)
(* (orchestrator.py 561-733).  Two processes do not keep it.               *)
(***************************************************************************)
THEOREM MutationOnRecordHolds == ASSUME OneAtATime PROVE Spec => []MutationOnRecord
<1>1. Inv => MutationOnRecord
  BY DEF Inv
<1> QED
  BY <1>1, InvHolds, PTL

-----------------------------------------------------------------------------
(* Outcomes.                                                               *)

(***************************************************************************)
(* The record of a run is true of what it has done.  A record that holds   *)
(* an event twice, or late, does not fold any more, whatever is appended   *)
(* to it.                                                                  *)
(***************************************************************************)
Passed(r) == recorded[r].verdict.status = "ok" \/ ~EventsOrdered(events[r])

RunTold(r) ==
  /\ Has(events[r], "apply_committed") => File \subseteq made[r]
  /\ Has(events[r], "validation_completed") => Has(events[r], "apply_committed")
  /\ recorded[r].verdict # NoVerdict => Has(events[r], "validation_completed")
  /\ Has(events[r], "run_finalized") /\ recorded[r].plan # "noop" => Passed(r)

(* What a call knows of its run from the steps it has taken itself.        *)
CallTold(p) ==
  LET l == proc[p]  r == proc[p].run IN
  /\ l.pc = "applying" => \A f \in File : f < l.pos => f \in made[r]
  /\ l.pc = "committing" => File \subseteq made[r]
  /\ l.pc \in {"verify", "verifying", "recording"} => Has(events[r], "apply_committed")
  /\ l.pc = "noop" => recorded[r].plan = "noop"
  /\ l.pc = "closing" => /\ Has(events[r], "validation_completed")
                         /\ recorded[r].verdict = l.verdict \/ ~EventsOrdered(events[r])
  /\ l.pc = "finalizing" /\ recorded[r].plan # "noop" =>
       Has(events[r], "validation_completed") /\ Passed(r)

Told == (\A r \in Run : RunTold(r)) /\ (\A p \in Process : CallTold(p))

(***************************************************************************)
(* A no-op in the cache belongs to a key of complete projects, and one     *)
(* that is about to be stored is still true.                               *)
(***************************************************************************)
SizesTell == "same_size" \notin Edits /\ "caching" \notin EditPoints

NoopsTold ==
  /\ \A f \in File : tree[f] # "same_size"
  /\ \A k \in Key : cache[k] = "noop" => k.dirs /\ \A f \in File : k.sizes[f] = "good"
  /\ \A p \in Process : At(p, "caching") /\ proc[p].plan = "noop" => AllGood /\ dirs

-----------------------------------------------------------------------------
(* Records.                                                                *)

(* What an appended event adds, and what stays disordered.                 *)
LEMMA AppendKeeps ==
  ASSUME NEW s \in Seq(RunEventKind), NEW k \in RunEventKind
  PROVE  /\ \A j : Has(Append(s, k), j) <=> Has(s, j) \/ j = k
         /\ ~EventsOrdered(s) => ~EventsOrdered(Append(s, k))
<1> DEFINE t == Append(s, k)
<1>1. /\ DOMAIN s = 1..Len(s) /\ DOMAIN t = 1..(Len(s) + 1) /\ Len(s) \in Nat
      /\ t[Len(s) + 1] = k /\ \A i \in 1..Len(s) : t[i] = s[i]
  OBVIOUS
<1> HIDE DEF t
<1>2. ASSUME NEW j, Has(t, j) PROVE Has(s, j) \/ j = k
  <2>1. PICK i \in 1..(Len(s) + 1) : t[i] = j
    BY <1>1, <1>2 DEF Has
  <2>2. i \in 1..Len(s) \/ i = Len(s) + 1
    BY <1>1, <2>1
  <2> QED
    BY <1>1, <2>1, <2>2 DEF Has
<1>3. ASSUME EventsOrdered(t) PROVE EventsOrdered(s)
  <2>1. \A i \in DOMAIN s : i \in DOMAIN t /\ t[i] = s[i]
    BY <1>1
  <2> QED
    BY <1>3, <2>1 DEF EventsOrdered
<1> QED
  BY <1>2, <1>3, HasAppend DEF t

(* A second validation, or one after the end, disorders the record.        *)
LEMMA LateValidation ==
  ASSUME NEW s \in Seq(RunEventKind),
         Has(s, "validation_completed") \/ Has(s, "run_finalized")
  PROVE  ~EventsOrdered(Append(s, "validation_completed"))
<1> DEFINE k == "validation_completed"  t == Append(s, k)
<1>1. /\ DOMAIN s = 1..Len(s) /\ DOMAIN t = 1..(Len(s) + 1) /\ Len(s) \in Nat
      /\ t[Len(s) + 1] = k /\ \A i \in 1..Len(s) : t[i] = s[i]
  BY DEF RunEventKind, Lifecycle, Order
<1>2. PICK i \in 1..Len(s) : s[i] \in {k, "run_finalized"}
  BY <1>1 DEF Has
<1>3. i \in DOMAIN t /\ Len(s) + 1 \in DOMAIN t /\ i < Len(s) + 1 /\ t[i] = s[i]
  BY <1>1, <1>2
<1> HIDE DEF t
<1>4. CASE t[i] = k
  BY <1>1, <1>3, <1>4 DEF EventsOrdered, t
<1>5. CASE t[i] = "run_finalized"
  <2>1. {t[i], t[Len(s) + 1]} \subseteq Lifecycle /\ ~(Order[t[i]] < Order[t[Len(s) + 1]])
    BY <1>1, <1>5 DEF Lifecycle, Order
  <2> QED
    BY <1>3, <2>1 DEF EventsOrdered, t
<1> QED
  BY <1>2, <1>3, <1>4, <1>5

(***************************************************************************)
(* What a step may append, to which run: its first event, or one more that *)
(* keeps the plan, and the verdict unless it records a new one.            *)
(***************************************************************************)
Appends(r, k, y) ==
  /\ Recorded(r, k, y) /\ UNCHANGED made
  /\ \/ events[r] = <<>> /\ k = "run_started" /\ y.verdict = NoVerdict
     \/ /\ events[r] # <<>> /\ y.plan = recorded[r].plan
        /\ y.verdict = recorded[r].verdict \/ k = "validation_completed"
        /\ k = "apply_committed" => File \subseteq made[r]
        /\ k = "validation_completed" => Has(events[r], "apply_committed")
        /\ k = "run_finalized" /\ y.plan # "noop" => Passed(r)

(* A step that appends nothing, and takes back no file a run made, leaves  *)
(* the records true.                                                       *)
LEMMA QuietTold ==
  ASSUME UNCHANGED <<events, recorded>>, \A r \in Run : made[r] \subseteq made'[r],
         \A r \in Run : RunTold(r)
  PROVE  \A r \in Run : RunTold(r)'
BY DEF RunTold, Passed

(* An event appended to the record of r makes it longer, is the newest,    *)
(* and leaves what the records tell true.                                  *)
LEMMA AppendTold ==
  ASSUME TypeOK, \A r \in Run : RunTold(r),
         NEW r \in Run, NEW k \in RunEventKind, NEW y \in Payload, Appends(r, k, y)
  PROVE  /\ \A q \in Run : RunTold(q)'
         /\ Has(events'[r], k) /\ recorded'[r] = y /\ events'[r] # <<>>
<1>1. /\ events[r] \in Seq(RunEventKind)
      /\ events'[r] = Append(events[r], k) /\ recorded'[r] = y
      /\ \A q \in Run \ {r} : events'[q] = events[q] /\ recorded'[q] = recorded[q]
      /\ UNCHANGED made
  BY RecordedType DEF TypeOK, Appends
<1>2. /\ \A j : Has(events'[r], j) <=> Has(events[r], j) \/ j = k
      /\ ~EventsOrdered(events[r]) => ~EventsOrdered(events'[r])
      /\ events'[r] # <<>>
  BY <1>1, AppendKeeps, HasAppend
<1>3. k = "validation_completed"
        /\ (Has(events[r], "validation_completed") \/ Has(events[r], "run_finalized"))
      => ~EventsOrdered(events'[r])
  BY <1>1, LateValidation
<1>4. events[r] = <<>> => \A j : ~Has(events[r], j)
  BY DEF Has
<1>6. \A q \in Run \ {r} : RunTold(q)'
  BY <1>1 DEF RunTold, Passed
<1>7. RunTold(r)'
  <2>1. RunTold(r)
    OBVIOUS
  <2>2. CASE events[r] = <<>> /\ k = "run_started" /\ y.verdict = NoVerdict
    BY <1>1, <1>2, <1>4, <2>2 DEF RunTold
  <2>3. CASE events[r] # <<>>
    <3>1. /\ y.plan = recorded[r].plan
          /\ y.verdict = recorded[r].verdict \/ k = "validation_completed"
          /\ k = "apply_committed" => File \subseteq made[r]
          /\ k = "validation_completed" => Has(events[r], "apply_committed")
          /\ k = "run_finalized" /\ y.plan # "noop" => Passed(r)
      BY <2>3 DEF Appends
    <3>2. Has(events'[r], "apply_committed") => File \subseteq made'[r]
      BY <1>1, <1>2, <2>1, <3>1 DEF RunTold
    <3>3. Has(events'[r], "validation_completed") => Has(events'[r], "apply_committed")
      BY <1>2, <2>1, <3>1 DEF RunTold
    <3>4. recorded'[r].verdict # NoVerdict => Has(events'[r], "validation_completed")
      BY <1>1, <1>2, <2>1, <3>1 DEF RunTold
    <3>5. ASSUME Has(events'[r], "run_finalized"), recorded'[r].plan # "noop" PROVE Passed(r)'
      <4>1. CASE k = "validation_completed"
        BY <1>2, <1>3, <3>5, <4>1 DEF Passed
      <4>2. CASE k # "validation_completed"
        BY <1>1, <1>2, <2>1, <3>1, <3>5, <4>2 DEF RunTold, Passed
      <4> QED
        BY <4>1, <4>2
    <3> QED
      BY <3>2, <3>3, <3>4, <3>5 DEF RunTold
  <2> QED
    BY <2>2, <2>3 DEF Appends
<1> QED
  BY <1>1, <1>2, <1>6, <1>7

-----------------------------------------------------------------------------
(* Calls.                                                                  *)

(* The points at which a call knows something of its run.                  *)
Telling == {"applying", "committing", "verify", "verifying", "recording", "noop", "closing",
            "finalizing"}

(* A call that fails is about to record its failure.                       *)
LEMMA FailFields ==
  ASSUME TypeOK, NEW p \in Process, NEW w, FailWith(p, w)
  PROVE  proc'[p].pc = "failing"
<1>1. proc'[p] = [proc[p] EXCEPT !.pc = "failing", !.reason = w] /\ proc[p] \in Local
  BY BecomeValue DEF FailWith, TypeOK
<1> QED
  BY <1>1 DEF Local

(* A call at a point that relies on nothing of its run has nothing to      *)
(* keep.                                                                   *)
LEMMA Tacit ==
  ASSUME NEW p \in Process, proc'[p].pc \notin Telling
  PROVE  CallTold(p)'
BY DEF CallTold, Telling

(* A call that has returned relies on nothing.                             *)
LEMMA ReturnedTold ==
  ASSUME TypeOK, NEW p \in Process, Return(p)
  PROVE  CallTold(p)'
<1>1. proc'[p].pc = "idle"
  BY BecomeValue DEF Return, Idle
<1> QED
  BY <1>1, Tacit DEF Telling

(* What a step of a call appends, if anything.                             *)
Records ==
  \/ UNCHANGED <<events, recorded>> /\ \A r \in Run : made[r] \subseteq made'[r]
  \/ \E r \in Run, k \in RunEventKind, y \in Payload : Appends(r, k, y)

(* The steps of run_goal are told by the record (orchestrator.py 450-746). *)
LEMMA RunGoalTold ==
  ASSUME Inv, Told, NEW p \in Process, RunGoal(p)
  PROVE  CallTold(p)' /\ Records
<1> DEFINE l == proc[p]  r == proc[p].run
<1>0. TypeOK /\ Fresh /\ CallOK(p) /\ CallTold(p) /\ l \in Local /\ \A q \in Run : RunTold(q)
  BY DEF Inv, TypeOK, CallsOK, Told
<1>a. l.pc \in OnRun => r \in Run /\ events[r] # <<>> /\ recorded[r] \in Payload
  BY <1>0 DEF CallOK, TypeOK
<1>b. l.pos \in 0..NumFiles + 1 /\ l.plan \in Plan /\ NumFiles \in Nat
  BY <1>0, FieldTypes, HubAssumption
<1>1. CASE MakePlan(p)
  <2>1. CASE Return(p)
    BY <1>0, <1>1, <2>1, ReturnedTold DEF MakePlan, Records, records
  <2>2. CASE ~Return(p)
    <3>1. PICK c \in {"planned", "caching"} : \E v : Become(p, [l EXCEPT !.pc = c, !.plan = v])
      BY <1>1, <2>2 DEF MakePlan
    <3>2. PICK v : proc'[p] = [l EXCEPT !.pc = c, !.plan = v]
      BY <1>0, <3>1, BecomeValue
    <3>3. proc'[p].pc = c
      BY <1>0, <3>2 DEF Local
    <3> QED
      BY <1>1, <3>3, Tacit DEF MakePlan, Telling, Records, records
  <2> QED
    BY <2>1, <2>2
<1>2. CASE CachePlan(p)
  <2>1. proc'[p].pc = "planned"
    BY <1>0, <1>2, GotoFields DEF CachePlan
  <2> QED
    BY <1>2, <2>1, Tacit DEF CachePlan, Telling, Records, records
<1>3. ASSUME NEW q \in Run, StartRun(p, q)
      PROVE  CallTold(p)' /\ Records
  <2>1. PICK y \in Payload : y.plan = l.plan /\ y.verdict = NoVerdict
                             /\ Recorded(q, "run_started", y)
    <3>1. [NoPayload EXCEPT !.plan = l.plan] \in Payload
      BY <1>b, PayloadTypes
    <3>2. /\ [NoPayload EXCEPT !.plan = l.plan].plan = l.plan
          /\ [NoPayload EXCEPT !.plan = l.plan].verdict = NoVerdict
      BY DEF NoPayload
    <3> QED
      BY <1>0, <1>3, <3>1, <3>2, Atomic
  <2>2. "run_started" \in RunEventKind /\ Appends(q, "run_started", y)
    <3>1. events[q] = <<>> /\ UNCHANGED made
      BY <1>0, <1>3, Atomic DEF StartRun
    <3> QED
      BY <2>1, <3>1 DEF Appends, RunEventKind, Lifecycle, Order
  <2>3. recorded'[q].plan = l.plan
    BY <1>0, <2>1, <2>2, AppendTold
  <2>4. /\ proc'[p].run = q /\ proc'[p].pc \in {"noop", "authorizing"}
        /\ proc'[p].pc = "noop" => l.plan = "noop"
    <3>1. PICK c \in {"noop", "authorizing"} :
                   (c = "noop" => l.plan = "noop") /\ Become(p, [l EXCEPT !.run = q, !.pc = c])
      BY <1>3 DEF StartRun
    <3>2. proc'[p] = [l EXCEPT !.run = q, !.pc = c]
      BY <1>0, <3>1, BecomeValue
    <3>3. proc'[p].pc = c /\ proc'[p].run = q
      BY <1>0, <3>2 DEF Local
    <3> QED
      BY <3>1, <3>3
  <2> QED
    BY <2>2, <2>3, <2>4 DEF CallTold, Records
<1>4. CASE FoldNoop(p)
  <2>1. CASE Return(p)
    BY <1>0, <1>4, <2>1, ReturnedTold DEF FoldNoop, Records, records
  <2>2. CASE Goto(p, "finalizing")
    <3>1. proc'[p].pc = "finalizing" /\ proc'[p].run = r
      BY <1>0, <2>2, GotoFields
    <3>2. recorded[r].plan = "noop" /\ UNCHANGED <<records, made>>
      BY <1>0, <1>4 DEF FoldNoop, At, CallTold
    <3> QED
      BY <3>1, <3>2 DEF CallTold, Records, records
  <2> QED
    BY <1>4, <2>1, <2>2 DEF FoldNoop
<1>5. CASE Authorize(p)
  <2>1. r \in Run /\ events[r] # <<>> /\ recorded[r] \in Payload
    BY <1>5, <1>a DEF Authorize, At, OnRun, Point
  <2>2. Appends(r, "authorization_recorded", recorded[r])
    <3>1. Recorded(r, "authorization_recorded", recorded[r]) /\ UNCHANGED made
      BY <1>0, <1>5, Atomic DEF Authorize
    <3> QED
      BY <2>1, <3>1 DEF Appends
  <2>3. "authorization_recorded" \in RunEventKind
    BY DEF RunEventKind, Lifecycle, Order
  <2>4. proc'[p].pc = "requiring"
    BY <1>0, <1>5, GotoFields DEF Authorize
  <2> QED
    BY <2>1, <2>2, <2>3, <2>4, Tacit DEF Telling, Records
<1>6. CASE RequireAuthorization(p) \/ Replan(p) \/ CheckPreconditions(p)
  <2>1. CASE Return(p)
    BY <1>0, <1>6, <2>1, ReturnedTold
       DEF RequireAuthorization, Replan, CheckPreconditions, Records, records
  <2>2. CASE ~Return(p)
    <3>1. proc'[p].pc \in {"replanning", "checking", "backing_up", "failing"}
      BY <1>0, <1>6, <2>2, GotoFields, FailFields
         DEF RequireAuthorization, Replan, CheckPreconditions
    <3> QED
      BY <1>6, <3>1, Tacit
         DEF RequireAuthorization, Replan, CheckPreconditions, Telling, Records, records
  <2> QED
    BY <2>1, <2>2
<1>7. CASE BackUpAndJournal(p)
  <2>1. \/ proc'[p].pc = "failing"
        \/ proc'[p].pc = "applying" /\ proc'[p].pos \in {0, 1}
    <3>1. CASE \E w : FailWith(p, w)
      BY <1>0, <3>1, FailFields
    <3>2. CASE ~\E w : FailWith(p, w)
      <4>1. PICK n \in {0, 1} : Become(p, [l EXCEPT !.pc = "applying", !.pos = n])
        BY <1>7, <3>2 DEF BackUpAndJournal
      <4>2. proc'[p] = [l EXCEPT !.pc = "applying", !.pos = n]
        BY <1>0, <4>1, BecomeValue
      <4>3. proc'[p].pc = "applying" /\ proc'[p].pos = n
        BY <1>0, <4>2 DEF Local
      <4> QED
        BY <4>3
    <3> QED
      BY <3>1, <3>2
  <2>2. CASE proc'[p].pc = "failing"
    BY <1>7, <2>2, Tacit DEF BackUpAndJournal, Telling, Records, records
  <2>3. CASE proc'[p].pc = "applying" /\ proc'[p].pos \in {0, 1}
    <3>1. \A f \in File : ~(f < proc'[p].pos)
      BY <1>b, <2>3 DEF File
    <3> QED
      BY <1>7, <2>3, <3>1 DEF BackUpAndJournal, CallTold, Records, records
  <2> QED
    BY <2>1, <2>2, <2>3
<1>8. CASE ApplyOperation(p)
  <2>1. r \in Run /\ UNCHANGED records /\ made \in [Run -> SUBSET (0..NumFiles)]
    BY <1>0, <1>8, <1>a DEF ApplyOperation, At, OnRun, Point, TypeOK
  <2>2. CASE Return(p) /\ UNCHANGED made
    BY <1>0, <2>1, <2>2, ReturnedTold DEF Records, records
  <2>3. CASE /\ made' = [made EXCEPT ![r] = @ \cup {l.pos}]
             /\ Become(p, [l EXCEPT !.pos = NextOperation(l.pos)])
    <3>1. made'[r] = made[r] \cup {l.pos} /\ \A q \in Run : made[q] \subseteq made'[q]
      BY <2>1, <2>3
    <3>2. proc'[p].pc = "applying" /\ proc'[p].run = r /\ proc'[p].pos = l.pos + 1
      <4>1. proc'[p] = [l EXCEPT !.pos = l.pos + 1]
        BY <1>0, <2>3, BecomeValue DEF NextOperation
      <4>2. proc'[p].pc = l.pc /\ proc'[p].run = r /\ proc'[p].pos = l.pos + 1
        BY <1>0, <4>1 DEF Local
      <4> QED
        BY <1>8, <4>2 DEF ApplyOperation, At
    <3>3. \A f \in File : f < l.pos + 1 => f < l.pos \/ f = l.pos
      BY <1>b DEF File
    <3>4. \A f \in File : f < l.pos => f \in made[r]
      BY <1>0, <1>8 DEF ApplyOperation, At, CallTold
    <3> QED
      BY <2>1, <3>1, <3>2, <3>3, <3>4 DEF CallTold, Records, records
  <2> QED
    BY <1>8, <2>2, <2>3 DEF ApplyOperation
<1>9. CASE HashArtifacts(p)
  <2>1. CASE Return(p)
    BY <1>0, <1>9, <2>1, ReturnedTold DEF HashArtifacts, Records, records
  <2>2. CASE Become(p, [l EXCEPT !.pc = "committing", !.seen = Source])
    <3>1. proc'[p] = [l EXCEPT !.pc = "committing", !.seen = Source]
      BY <1>0, <2>2, BecomeValue
    <3>2. proc'[p].pc = "committing" /\ proc'[p].run = r
      BY <1>0, <3>1 DEF Local
    <3>3. File \subseteq made[r]
      <4>1. \A f \in File : f < l.pos
        BY <1>9, <1>b DEF HashArtifacts, File
      <4> QED
        BY <1>0, <1>9, <4>1 DEF HashArtifacts, At, CallTold
    <3> QED
      BY <1>9, <3>2, <3>3 DEF HashArtifacts, CallTold, Records, records
  <2> QED
    BY <1>9, <2>1, <2>2 DEF HashArtifacts
<1>10. CASE CommitApply(p)
  <2>1. r \in Run /\ events[r] # <<>> /\ recorded[r] \in Payload /\ File \subseteq made[r]
    BY <1>0, <1>10, <1>a DEF CommitApply, At, OnRun, Point, CallTold
  <2>2. PICK y \in Payload : /\ y.plan = recorded[r].plan /\ y.verdict = recorded[r].verdict
                             /\ Recorded(r, "apply_committed", y)
    <3>1. [recorded[r] EXCEPT !.artifacts = l.seen.tree] \in Payload
      BY <1>0, <2>1, PayloadTypes DEF Local
    <3>2. /\ [recorded[r] EXCEPT !.artifacts = l.seen.tree].plan = recorded[r].plan
          /\ [recorded[r] EXCEPT !.artifacts = l.seen.tree].verdict = recorded[r].verdict
      BY <2>1 DEF Payload
    <3> QED
      BY <1>0, <1>10, <3>1, <3>2, Atomic
  <2>3. Appends(r, "apply_committed", y)
    BY <1>10, <2>1, <2>2 DEF CommitApply, Appends
  <2>4. "apply_committed" \in RunEventKind
    BY DEF RunEventKind, Lifecycle, Order
  <2>5. Has(events'[r], "apply_committed")
    BY <1>0, <2>1, <2>3, <2>4, AppendTold
  <2>6. proc'[p].pc = "verify" /\ proc'[p].run = r
    BY <1>0, <1>10, GotoFields DEF CommitApply
  <2> QED
    BY <2>1, <2>3, <2>4, <2>5, <2>6 DEF CallTold, Records
<1> QED
  BY <1>1, <1>2, <1>3, <1>4, <1>5, <1>6, <1>7, <1>8, <1>9, <1>10 DEF RunGoal

(* So are the steps that close a run (orchestrator.py 285-420).            *)
LEMMA CloseTold ==
  ASSUME Inv, Told, NEW p \in Process, Close(p)
  PROVE  CallTold(p)' /\ Records
<1> DEFINE l == proc[p]  r == proc[p].run
<1>0. TypeOK /\ Fresh /\ CallOK(p) /\ CallTold(p) /\ l \in Local /\ l.verdict \in Verdict
      /\ l.reason \in Reason /\ \A q \in Run : RunTold(q)
  BY FieldTypes DEF Inv, TypeOK, CallsOK, Told
<1>a. r \in Run /\ events[r] # <<>> /\ recorded[r] \in Payload
  <2>1. l.pc \in OnRun
    BY DEF Close, BeginVerify, EndVerify, RecordValidation, CloseRun, FinalizeRun, FailRun,
           InterruptRun, At, OnRun, Point
  <2> QED
    BY <1>0, <2>1 DEF CallOK, TypeOK
<1>1. CASE BeginVerify(p)
  <2>1. proc'[p] = [l EXCEPT !.pc = "verifying", !.seen = Source]
    BY <1>0, <1>1, BecomeValue DEF BeginVerify
  <2>2. proc'[p].pc = "verifying" /\ proc'[p].run = r
    BY <1>0, <2>1 DEF Local
  <2> QED
    BY <1>0, <1>1, <2>2 DEF BeginVerify, At, CallTold, Records, records
<1>2. CASE EndVerify(p)
  <2>1. CASE Return(p)
    BY <1>0, <1>2, <2>1, ReturnedTold DEF EndVerify, Records, records
  <2>2. CASE ~Return(p)
    <3>1. PICK v : Become(p, [l EXCEPT !.pc = "recording", !.verdict = v])
      BY <1>2, <2>2 DEF EndVerify
    <3>2. proc'[p] = [l EXCEPT !.pc = "recording", !.verdict = v]
      BY <1>0, <3>1, BecomeValue
    <3>3. proc'[p].pc = "recording" /\ proc'[p].run = r
      BY <1>0, <3>2 DEF Local
    <3> QED
      BY <1>0, <1>2, <3>3 DEF EndVerify, At, CallTold, Records, records
  <2> QED
    BY <2>1, <2>2
<1>3. CASE RecordValidation(p)
  <2>1. PICK y \in Payload : /\ y.plan = recorded[r].plan /\ y.verdict = l.verdict
                             /\ Recorded(r, "validation_completed", y)
    <3>1. /\ [recorded[r] EXCEPT !.verdict = l.verdict] \in Payload
          /\ [recorded[r] EXCEPT !.verdict = l.verdict].plan = recorded[r].plan
          /\ [recorded[r] EXCEPT !.verdict = l.verdict].verdict = l.verdict
      BY <1>0, <1>a, PayloadTypes DEF Payload
    <3> QED
      BY <1>0, <1>3, <3>1, Atomic
  <2>2. Appends(r, "validation_completed", y)
    BY <1>0, <1>3, <1>a, <2>1 DEF RecordValidation, At, CallTold, Appends
  <2>3. "validation_completed" \in RunEventKind
    BY DEF RunEventKind, Lifecycle, Order
  <2>4. Has(events'[r], "validation_completed") /\ recorded'[r].verdict = l.verdict
    BY <1>0, <1>a, <2>1, <2>2, <2>3, AppendTold
  <2>5. proc'[p].pc = "closing" /\ proc'[p].run = r /\ proc'[p].verdict = l.verdict
    BY <1>0, <1>3, GotoFields DEF RecordValidation
  <2> QED
    BY <1>a, <2>2, <2>3, <2>4, <2>5 DEF CallTold, Records
<1>4. CASE CloseRun(p)
  <2>1. CASE Return(p) \/ \E w : FailWith(p, w)
    BY <1>0, <1>4, <2>1, ReturnedTold, FailFields, Tacit DEF CloseRun, Telling, Records, records
  <2>2. CASE ~(Return(p) \/ \E w : FailWith(p, w))
    <3>1. PICK c, w : /\ RunFolds(r) /\ c = StatusDecides(l.verdict)
                      /\ Become(p, [l EXCEPT !.pc = c, !.reason = w])
      BY <1>4, <2>2 DEF CloseRun
    <3>2. proc'[p] = [l EXCEPT !.pc = c, !.reason = w]
      BY <1>0, <3>1, BecomeValue
    <3>3. proc'[p].pc = c /\ proc'[p].run = r
      BY <1>0, <3>2 DEF Local
    <3>4. Has(events[r], "validation_completed") /\ recorded[r].verdict = l.verdict
      BY <1>0, <1>4, <3>1 DEF CloseRun, At, CallTold, RunFolds, Folds
    <3>5. c = "failing" \/ (c = "finalizing" /\ Passed(r))
      BY <3>1, <3>4 DEF StatusDecides, Passed
    <3>6. UNCHANGED <<records, made>>
      BY <1>4 DEF CloseRun
    <3>7. CallTold(p)'
      <4>1. CASE c = "failing"
        BY <3>3, <4>1, Tacit DEF Telling
      <4>2. CASE c = "finalizing" /\ Passed(r)
        BY <3>3, <3>4, <3>6, <4>2 DEF CallTold, Passed, records
      <4> QED
        BY <3>5, <4>1, <4>2
    <3> QED
      BY <3>6, <3>7 DEF Records, records
  <2> QED
    BY <2>1, <2>2
<1>5. CASE FinalizeRun(p) \/ FailRun(p) \/ InterruptRun(p)
  <2>1. PICK k \in Terminal, y \in Payload :
           /\ k = "run_finalized" => At(p, "finalizing")
           /\ y.plan = recorded[r].plan /\ y.verdict = recorded[r].verdict
           /\ Recorded(r, k, y)
    <3>1. /\ [recorded[r] EXCEPT !.reason = l.reason] \in Payload
          /\ [recorded[r] EXCEPT !.reason = l.reason].plan = recorded[r].plan
          /\ [recorded[r] EXCEPT !.reason = l.reason].verdict = recorded[r].verdict
      BY <1>0, <1>a, PayloadTypes DEF Payload
    <3> QED
      BY <1>0, <1>5, <1>a, <3>1, Atomic DEF FinalizeRun, Terminal
  <2>2. k \notin {"apply_committed", "validation_completed"} /\ k \in RunEventKind
    BY DEF Terminal, RunEventKind
  <2>3. k = "run_finalized" /\ y.plan # "noop" => Passed(r)
    BY <1>0, <2>1 DEF At, CallTold
  <2>4. Appends(r, k, y)
    BY <1>5, <1>a, <2>1, <2>2, <2>3 DEF FinalizeRun, FailRun, InterruptRun, Appends
  <2> QED
    BY <1>0, <1>5, <1>a, <2>2, <2>4, ReturnedTold DEF FinalizeRun, FailRun, InterruptRun, Records
<1> QED
  BY <1>1, <1>2, <1>3, <1>4, <1>5 DEF Close

(* So is the start of a call (orchestrator.py 466-484, 749-940).           *)
LEMMA ResumeTold ==
  ASSUME Inv, Told, NEW p \in Process, Call(p)
  PROVE  CallTold(p)' /\ Records
<1>0. TypeOK /\ \A q \in Run : RunTold(q)
  BY DEF Inv, Told
<1>1. CASE RunGate(p)
  BY <1>0, <1>1, GotoFields, Tacit DEF RunGate, Telling, Records, records
<1>2. ASSUME NEW r \in Run, Resume(p, r) \/ MarkInterrupted(p, r)
      PROVE  CallTold(p)' /\ Records
  <2>1. Resumed(r) \in Local /\ Resumed(r).run = r
    BY IdleType DEF Resumed, Local
  <2>2. PICK c \in {"failing", "interrupting", "finalizing", "verify"} :
           /\ \/ Become(p, [Resumed(r) EXCEPT !.pc = c])
              \/ \E w : Become(p, [Resumed(r) EXCEPT !.pc = c, !.reason = w])
           /\ c \in {"finalizing", "verify"} => State(r) = "needs_validation"
           /\ c = "finalizing" => /\ recorded[r].verdict # NoVerdict
                                  /\ recorded[r].verdict.status = "ok"
    <3>1. CASE MarkInterrupted(p, r)
      BY <3>1 DEF MarkInterrupted
    <3>2. CASE Resume(p, r) /\ Become(p, [Resumed(r) EXCEPT !.pc = "verify"])
                            /\ State(r) = "needs_validation"
      BY <3>2
    <3>3. CASE Become(p, [Resumed(r) EXCEPT !.pc = "failing", !.reason = "abandoned"])
      BY <3>3
    <3>4. ASSUME State(r) = "needs_validation", recorded[r].verdict # NoVerdict,
                 Become(p, [Resumed(r) EXCEPT !.pc = StatusDecides(recorded[r].verdict),
                                              !.reason = "validation_failed"])
          PROVE  \E c \in {"failing", "finalizing"} :
                   /\ Become(p, [Resumed(r) EXCEPT !.pc = c, !.reason = "validation_failed"])
                   /\ c = "finalizing" => recorded[r].verdict.status = "ok"
      BY <3>4 DEF StatusDecides
    <3> QED
      BY <1>2, <3>1, <3>2, <3>3, <3>4 DEF Resume
  <2>3. proc'[p].pc = c /\ proc'[p].run = r
    <3>1. CASE Become(p, [Resumed(r) EXCEPT !.pc = c])
      <4>1. proc'[p] = [Resumed(r) EXCEPT !.pc = c]
        BY <1>0, <3>1, BecomeValue
      <4> QED
        BY <2>1, <4>1 DEF Local
    <3>2. ASSUME NEW w, Become(p, [Resumed(r) EXCEPT !.pc = c, !.reason = w])
          PROVE  proc'[p].pc = c /\ proc'[p].run = r
      <4>1. proc'[p] = [Resumed(r) EXCEPT !.pc = c, !.reason = w]
        BY <1>0, <3>2, BecomeValue
      <4> QED
        BY <2>1, <4>1 DEF Local
    <3> QED
      BY <2>2, <3>1, <3>2
  <2>4. UNCHANGED <<records, made>>
    BY <1>2 DEF Resume, MarkInterrupted
  <2>5. c = "verify" => Has(events[r], "apply_committed")
    BY <1>0, <2>2 DEF RunTold, State, FoldedState
  <2>6. c = "finalizing" => Has(events[r], "validation_completed") /\ Passed(r)
    BY <1>0, <2>2 DEF RunTold, Passed
  <2> QED
    BY <2>2, <2>3, <2>4, <2>5, <2>6 DEF CallTold, Passed, Records, records
<1> QED
  BY <1>1, <1>2 DEF Call

-----------------------------------------------------------------------------
(* The invariant, and what "finalized" means.                              *)

(* Without runs there is nothing to tell.                                  *)
LEMMA ToldInit == Init => Told
BY DEF Init, Told, RunTold, CallTold, Has, NoPayload, Idle

(* Every step keeps the records true.                                      *)
LEMMA ToldNext ==
  ASSUME OneAtATime, Inv, Told, [Next]_vars
  PROVE  Told'
<1>1. ASSUME NEW p \in Process, CallTold(p)', Records
      PROVE  Told'
  <2>1. \A r \in Run : RunTold(r)'
    BY <1>1, QuietTold, AppendTold DEF Records, Inv, Told
  <2> QED
    BY <1>1, <2>1 DEF Told, OneAtATime
<1>2. ASSUME NEW p \in Process, Call(p) \/ RunGoal(p) \/ Close(p)
      PROVE  Told'
  BY <1>1, <1>2, ResumeTold, RunGoalTold, CloseTold
<1>3. ASSUME NEW p \in Process, Crash(p)
      PROVE  Told'
  BY <1>1, <1>3, ReturnedTold DEF Crash, Records, Inv
<1>4. CASE Environment \/ UNCHANGED vars \/ \E p \in Process : ReadStore(p)
  BY <1>4, NoneBecomes DEF Told, RunTold, CallTold, Passed
<1> QED
  BY <1>2, <1>3, <1>4 DEF Next

(* The records tell the truth in every reachable state.                    *)
LEMMA ToldHolds == ASSUME OneAtATime PROVE Spec => []Told
BY ToldInit, ToldNext, InvHolds, PTL DEF Spec

(***************************************************************************)
(* While one process works, a run finalized as applied, in a store that    *)
(* can be read, has created all files of its plan and has the record of a  *)
(* successful validation (orchestrator.py 340-355, 403-420), wherever the  *)
(* process dies and whatever others edit.                                  *)
(***************************************************************************)
LEMMA FinalizedIsValidatedHolds == ASSUME OneAtATime PROVE Spec => []FinalizedIsValidated
<1>1. Told => FinalizedIsValidated
  <2> SUFFICES ASSUME Told, NEW r \in Run,
                      State(r) = "finalized", RunFolds(r), recorded[r].plan # "noop"
               PROVE  File \subseteq made[r] /\ recorded[r].verdict.status = "ok"
    BY DEF FinalizedIsValidated
  <2>1. RunTold(r) /\ Has(events[r], "run_finalized")
    BY DEF Told, State, FoldedState
  <2>2. EventsOrdered(events[r]) /\ Has(events[r], "validation_completed")
    BY <2>1 DEF RunFolds, Folds
  <2> QED
    BY <2>1, <2>2 DEF RunTold, Passed
<1> QED
  BY <1>1, ToldHolds, PTL

-----------------------------------------------------------------------------
(* No-ops from the cache.                                                  *)

(* What is cached is what the project was planned to need.                 *)
LEMMA KeyTells ==
  ASSUME TypeOK
  PROVE  /\ RootHash \in Key /\ RootHash.dirs = dirs
         /\ \A f \in File : RootHash.sizes[f] = Size(tree[f])
BY PlannerTypes DEF RootHash

(* A step of a call that leaves the project and the cache alone.           *)
LEMMA NoopsQuiet ==
  ASSUME TypeInv, NEW p \in Process, ~MakePlan(p),
         Call(p) \/ RunGoal(p) \/ Close(p) \/ Crash(p)
  PROVE  \A q \in Process : At(q, "caching")' => At(q, "caching") /\ proc'[q] = proc[q]
<1>1. TypeOK /\ KnowsRun(p)
  BY DEF TypeInv
<1>2. proc'[p].pc # "caching"
  BY <1>1, StepKeeps, BecomeValue DEF Crash, Return, Idle
<1>3. PICK m : Become(p, m)
  BY OneBecomes
<1>4. \A q \in Process \ {p} : proc'[q] = proc[q]
  BY <1>1, <1>3 DEF TypeOK, Become
<1> QED
  BY <1>2, <1>4 DEF At

(* The cache is empty at first.                                            *)
LEMMA NoopsInit == ASSUME SizesTell PROVE Init => NoopsTold
BY DEF Init, NoopsTold, At, Idle

(* No step files a no-op that is not true under its key, if edits show in  *)
(* the sizes (cache.py 63, 159).                                           *)
LEMMA NoopsNext ==
  ASSUME SizesTell, TypeInv, NoopsTold, [Next]_vars
  PROVE  NoopsTold'
<1>0. TypeOK
  BY DEF TypeInv
<1>1. ASSUME NEW p \in Process, MakePlan(p) PROVE NoopsTold'
  <2>1. PICK m : Become(p, m)
    BY <1>1 DEF MakePlan, Return
  <2>2. \A q \in Process \ {p} : proc'[q] = proc[q]
    BY <1>0, <2>1 DEF TypeOK, Become
  <2>3. UNCHANGED <<tree, dirs, cache>>
    BY <1>1 DEF MakePlan, project
  <2>4. At(p, "caching")' /\ proc'[p].plan = "noop" => AllGood /\ dirs
    <3>1. CASE Return(p)
      BY <1>0, <3>1, BecomeValue DEF Return, Idle, At
    <3>2. CASE ~Return(p)
      <4>1. PICK c \in {"planned", "caching"} :
               \E v : Become(p, [proc[p] EXCEPT !.pc = c, !.plan = v])
                      /\ (c = "caching" => v = PlanForTree)
        BY <1>1, <3>2 DEF MakePlan
      <4>2. PICK v : proc'[p] = [proc[p] EXCEPT !.pc = c, !.plan = v]
                     /\ (c = "caching" => v = PlanForTree)
        BY <1>0, <4>1, BecomeValue
      <4>3. proc'[p].pc = c /\ proc'[p].plan = v
        BY <1>0, <4>2 DEF TypeOK, Local
      <4> QED
        BY <4>2, <4>3 DEF At, PlanForTree
    <3> QED
      BY <3>1, <3>2
  <2> QED
    BY <2>2, <2>3, <2>4 DEF NoopsTold, At, AllGood
<1>2. ASSUME NEW p \in Process, ~MakePlan(p),
             Call(p) \/ RunGoal(p) \/ Close(p) \/ Crash(p)
      PROVE  NoopsTold'
  <2>2. \A q \in Process : At(q, "caching")' => At(q, "caching") /\ proc'[q] = proc[q]
    BY <1>2, NoopsQuiet
  <2>3. CASE CachePlan(p)
    <3>1. UNCHANGED <<tree, dirs>> /\ At(p, "caching")
          /\ cache' = [cache EXCEPT ![RootHash] = IF @ = "none" THEN proc[p].plan ELSE @]
      BY <2>3 DEF CachePlan, project
    <3>2. \A k \in Key : cache'[k] = "noop" =>
             cache[k] = "noop" \/ (k = RootHash /\ AllGood /\ dirs)
      BY <1>0, <3>1, KeyTells DEF TypeOK, NoopsTold
    <3>3. AllGood /\ dirs => RootHash.dirs /\ \A f \in File : RootHash.sizes[f] = "good"
      BY <1>0, KeyTells DEF AllGood, Size
    <3> QED
      BY <2>2, <3>1, <3>2, <3>3 DEF NoopsTold, AllGood
  <2>4. CASE ApplyOperation(p)
    <3>1. UNCHANGED cache
      BY <2>4 DEF ApplyOperation
    <3>2. \A f \in File : tree'[f] # "same_size"
      BY <2>4 DEF ApplyOperation, NoopsTold
    <3>3. AllGood /\ dirs => AllGood' /\ dirs'
      BY <2>4 DEF ApplyOperation, AllGood
    <3> QED
      BY <2>2, <3>1, <3>2, <3>3 DEF NoopsTold
  <2>5. CASE ~CachePlan(p) /\ ~ApplyOperation(p)
    <3>1. UNCHANGED <<tree, dirs, cache>>
      BY <1>2, <2>5
         DEF Call, RunGate, Resume, MarkInterrupted, RunGoal, StartRun, FoldNoop, Authorize,
             RequireAuthorization, Replan, CheckPreconditions, BackUpAndJournal, HashArtifacts,
             CommitApply, Close, BeginVerify, EndVerify, RecordValidation, CloseRun,
             FinalizeRun, FailRun, InterruptRun, Crash, project
    <3> QED
      BY <2>2, <3>1 DEF NoopsTold, AllGood
  <2> QED
    BY <2>3, <2>4, <2>5
<1>3. CASE Environment
  <2>1. UNCHANGED <<cache, proc>> /\ \A p \in Process : ~At(p, "caching")
    BY <1>3 DEF Environment, EditFile, AddForeign, RemoveForeign, RemoveStray, CanEdit, SizesTell, At
  <2>2. \A f \in File : tree'[f] # "same_size"
    BY <1>0, <1>3
       DEF Environment, EditFile, AddForeign, RemoveForeign, RemoveStray, SizesTell, NoopsTold,
           TypeOK
  <2> QED
    BY <2>1, <2>2 DEF NoopsTold, At
<1>4. CASE UNCHANGED vars \/ \E p \in Process : ReadStore(p)
  <2>1. UNCHANGED <<tree, dirs, cache, proc>>
    BY <1>4 DEF vars, ReadStore, NumberEvent, CopyStore, project
  <2> QED
    BY <2>1 DEF NoopsTold, At, AllGood
<1> QED
  BY <1>1, <1>2, <1>3, <1>4 DEF Next

(***************************************************************************)
(* Without edits that keep a file's size, and without edits while a plan   *)
(* is made and cached, a cached no-op is never stale (cache.py 63-91):     *)
(* for any number of processes, runs and files.                            *)
(***************************************************************************)
THEOREM NoopIsTrueHolds == ASSUME SizesTell PROVE Spec => NoopIsTrue
<1>1. ASSUME TypeInv, NoopsTold, [Next]_vars,
             NEW p \in Process, proc[p].plan = "none", proc'[p].plan = "noop"
      PROVE  AllGood /\ dirs
  <2>0. TypeOK /\ KnowsRun(p)
    BY <1>1 DEF TypeInv
  <2>1. MakePlan(p)
    <3>1. ASSUME NEW q \in Process, Call(q) \/ RunGoal(q) \/ Close(q) \/ Crash(q), q # p
          PROVE  proc'[p] = proc[p]
      <4>1. PICK m : Become(q, m)
        BY <3>1, OneBecomes
      <4> QED
        BY <2>0, <3>1, <4>1 DEF TypeOK, Become
    <3>2. Crash(p) => proc'[p].plan = "none"
      BY <2>0, BecomeValue DEF Crash, Return, Idle
    <3>3. Environment \/ UNCHANGED vars \/ (\E q \in Process : ReadStore(q)) => proc' = proc
      BY NoneBecomes
    <3> QED
      BY <1>1, <2>0, <3>1, <3>2, <3>3, StepKeeps DEF Next
  <2>2. CASE cache[RootHash] # "none"
    <3>1. PICK v : v = cache[RootHash]
                   /\ proc'[p] = [proc[p] EXCEPT !.pc = "planned", !.plan = v]
      BY <2>0, <2>1, <2>2, BecomeValue DEF MakePlan
    <3>2. proc'[p].plan = v
      BY <2>0, <3>1 DEF TypeOK, Local
    <3>3. dirs /\ \A f \in File : Size(tree[f]) = "good" /\ tree[f] # "same_size"
      BY <1>1, <2>0, <3>1, <3>2, KeyTells DEF NoopsTold
    <3> QED
      BY <3>3 DEF AllGood, Size
  <2>3. CASE cache[RootHash] = "none"
    <3>1. CASE Return(p)
      BY <1>1, <2>0, <3>1, BecomeValue DEF Return, Idle
    <3>2. CASE ~Return(p)
      <4>1. proc'[p] = [proc[p] EXCEPT !.pc = "caching", !.plan = PlanForTree]
        BY <2>0, <2>1, <2>3, <3>2, BecomeValue DEF MakePlan
      <4>2. proc'[p].plan = PlanForTree
        BY <2>0, <4>1 DEF TypeOK, Local
      <4> QED
        BY <1>1, <4>2 DEF PlanForTree
    <3> QED
      BY <3>1, <3>2
  <2> QED
    BY <2>2, <2>3
<1>2. TypeInv /\ NoopsTold /\ [Next]_vars
        => [\A p \in Process : proc[p].plan = "none" /\ proc'[p].plan = "noop"
                                => AllGood /\ dirs]_vars
  BY <1>1
<1>3. Spec => []NoopsTold
  BY NoopsInit, NoopsNext, TypeInvHolds, PTL DEF Spec
<1> QED
  BY <1>2, <1>3, TypeInvHolds, PTL DEF Spec, NoopIsTrue

-----------------------------------------------------------------------------
(***************************************************************************)
(* What the hub promises when one process at a time works on a project,    *)
(* for any number of runs and files, any edits and any calls that die: the *)
(* run store stays usable, closed runs tell the truth, an ambiguous run is *)
(* left to the operator, and HubRun implements RunLifecycle.  The hub has  *)
(* no lock: with two processes each of these fails.                        *)
(***************************************************************************)

NoneOpen == \A r \in Run : State(r) \notin OpenState

(***************************************************************************)
(* The record of a run grows along one path, and its journal and what it   *)
(* has created are where the record says.                                  *)
(***************************************************************************)
RunOnPath(r) ==
  /\ events[r] # <<>> => RunFolds(r)
  /\ Has(events[r], "validation_completed") => Has(events[r], "apply_committed")
  /\ Has(events[r], "apply_committed") => Has(events[r], "authorization_recorded")
  /\ Has(events[r], "validation_completed") <=> recorded[r].verdict # NoVerdict
  /\ made[r] # {} => r \in journals
  /\ r \in journals => Has(events[r], "authorization_recorded")
  /\ recorded[r].reason \in EarlyReason => made[r] = {}
  /\ State(r) \in OpenState => recorded[r].reason = "none"

(***************************************************************************)
(* Where a call is tells the state of its run; and until it has started    *)
(* one, no run is open.                                                    *)
(***************************************************************************)
CallOnPath(p) ==
  LET l == proc[p]  r == proc[p].run IN
  /\ l.pc \in {"planning", "caching", "planned"} => NoneOpen
  /\ l.pc = "noop" => State(r) = "started" /\ recorded[r].plan = "noop"
  /\ l.pc = "authorizing" => State(r) = "started"
  /\ l.pc \in (Mutating \ {"authorizing"}) \cup {"committing"} => State(r) = "authorized"
  /\ l.pc \in {"requiring", "replanning", "checking", "backing_up"} => r \notin journals
  /\ l.pc \in {"verify", "verifying", "recording"} =>
       State(r) = "needs_validation" /\ recorded[r].verdict = NoVerdict
  /\ l.pc = "recording" => l.verdict # NoVerdict
  /\ l.pc = "closing" => State(r) = "needs_validation" /\ recorded[r].verdict # NoVerdict
  /\ l.pc = "finalizing" =>
       \/ State(r) = "started" /\ recorded[r].plan = "noop"
       \/ State(r) = "needs_validation" /\ recorded[r].verdict # NoVerdict
  /\ l.pc = "failing" =>
       \/ State(r) \in {"started", "authorized"} /\ r \notin journals
       \/ State(r) = "needs_validation" /\ l.reason \notin EarlyReason
  /\ l.pc = "interrupting" => State(r) \in {"authorized", "needs_validation"}

RunsOnPath  == \A r \in Run : RunOnPath(r)
CallsOnPath == \A p \in Process : CallOnPath(p)

OnPath == RunsOnPath /\ OneOpenRun /\ CallsOnPath

-----------------------------------------------------------------------------
(* Records.                                                                *)

(* What the state of a record says of its events.                          *)
LEMMA StateTells ==
  ASSUME NEW s
  PROVE  /\ FoldedState(s) = "none" <=> s = <<>>
         /\ FoldedState(s) \in OpenState =>
              s # <<>> /\ \A k \in Terminal : ~Has(s, k)
         /\ FoldedState(s) = "started" =>
              /\ ~Has(s, "authorization_recorded") /\ ~Has(s, "apply_committed")
              /\ ~Has(s, "validation_completed")
         /\ FoldedState(s) = "authorized" =>
              /\ Has(s, "authorization_recorded")
              /\ ~Has(s, "apply_committed") /\ ~Has(s, "validation_completed")
         /\ FoldedState(s) = "needs_validation" =>
              Has(s, "apply_committed") \/ Has(s, "validation_completed")
BY DEF FoldedState, OpenState, Terminal

(* An event that comes later than all of an open record keeps its order.   *)
LEMMA OrderKept ==
  ASSUME NEW s \in Seq(RunEventKind), NEW k \in RunEventKind, EventsOrdered(s),
         \A j \in Terminal : ~Has(s, j),
         \A j \in Lifecycle : Has(s, j) /\ k \in Lifecycle => Order[j] < Order[k]
  PROVE  EventsOrdered(Append(s, k))
<1> DEFINE t == Append(s, k)
<1>1. /\ DOMAIN s = 1..Len(s) /\ DOMAIN t = 1..(Len(s) + 1) /\ Len(s) \in Nat
      /\ t[Len(s) + 1] = k /\ \A i \in 1..Len(s) : t[i] = s[i] /\ s[i] \in RunEventKind
  OBVIOUS
<1>2. \A j \in Lifecycle : ~(Order[j] < Order[j])
  <2> SUFFICES ASSUME NEW j \in Lifecycle PROVE ~(Order[j] < Order[j])
    OBVIOUS
  <2>1. j \in {"run_started", "authorization_recorded", "apply_committed",
               "validation_completed", "run_finalized"}
    BY DEF Lifecycle, Order
  <2>2. Order[j] \in Int
    BY <2>1 DEF Order
  <2> QED
    BY <2>2
<1> HIDE DEF t
<1> SUFFICES ASSUME NEW i \in DOMAIN t, NEW j \in DOMAIN t, i < j
             PROVE  /\ t[i] # t[j]
                    /\ {t[i], t[j]} \subseteq Lifecycle => Order[t[i]] < Order[t[j]]
                    /\ ~ {t[i], t[j]} \subseteq Terminal
  BY DEF EventsOrdered, t
<1>3. i \in 1..Len(s) /\ t[i] = s[i]
  BY <1>1
<1>4. CASE j \in 1..Len(s)
  BY <1>1, <1>3, <1>4 DEF EventsOrdered
<1>5. CASE j = Len(s) + 1
  <2>1. Has(s, t[i]) /\ t[i] \in RunEventKind /\ t[j] = k
    BY <1>1, <1>3, <1>5 DEF Has
  <2>2. t[i] \in Lifecycle /\ t[i] \notin Terminal
    BY <2>1 DEF RunEventKind
  <2>3. k \in Lifecycle => Order[t[i]] < Order[k]
    BY <2>1, <2>2
  <2>4. t[i] # k
    <3>1. CASE k \in Lifecycle
      BY <1>2, <2>3, <3>1
    <3>2. CASE k \notin Lifecycle
      BY <2>2, <3>2
    <3> QED
      BY <3>1, <3>2
  <2> QED
    BY <2>1, <2>2, <2>3, <2>4
<1> QED
  BY <1>1, <1>4, <1>5

(* The state a record folds to after an event.                             *)
After == [run_started |-> "started", authorization_recorded |-> "authorized",
          apply_committed |-> "needs_validation", validation_completed |-> "needs_validation",
          run_finalized |-> "finalized", run_failed |-> "failed",
          run_interrupted |-> "interrupted"]

(* The first event of a record.                                            *)
LEMMA FirstEvent ==
  ASSUME NEW s \in Seq(RunEventKind), s = <<>>
  PROVE  LET t == Append(s, "run_started") IN
         /\ \A noop \in BOOLEAN : Folds(t, noop)
         /\ FoldedState(t) = "started"
         /\ \A j : Has(t, j) <=> j = "run_started"
<1> DEFINE t == Append(s, "run_started")
<1>0. "run_started" \in RunEventKind /\ "run_started" \notin Terminal
  BY DEF RunEventKind, Lifecycle, Order, Terminal
<1>1. \A j : ~Has(s, j)
  BY DEF Has
<1>2. t # <<>> /\ \A j : Has(t, j) <=> j = "run_started"
  BY <1>0, <1>1, AppendKeeps, HasAppend
<1>3. EventsOrdered(s)
  BY DEF EventsOrdered
<1>4. EventsOrdered(t)
  BY <1>0, <1>1, <1>3, OrderKept
<1> HIDE DEF t
<1>5. \A noop \in BOOLEAN : Folds(t, noop)
  BY <1>2, <1>4 DEF Folds
<1>6. FoldedState(t) = "started"
  BY <1>2 DEF FoldedState
<1> QED
  BY <1>2, <1>5, <1>6 DEF t

(* The next event of an open record: it still folds, to the state that     *)
(* the event says.                                                         *)
LEMMA NextEvent ==
  ASSUME NEW s \in Seq(RunEventKind), NEW k \in RunEventKind, NEW noop \in BOOLEAN,
         Folds(s, noop), FoldedState(s) \in OpenState,
         Has(s, "validation_completed") => Has(s, "apply_committed"),
         Has(s, "apply_committed") => Has(s, "authorization_recorded"),
         k # "run_started",
         k = "authorization_recorded" => FoldedState(s) = "started" /\ ~noop,
         k = "apply_committed" => FoldedState(s) = "authorized",
         k = "validation_completed" =>
           FoldedState(s) = "needs_validation" /\ ~Has(s, "validation_completed"),
         k = "run_finalized" => noop \/ Has(s, "validation_completed")
  PROVE  /\ Folds(Append(s, k), noop)
         /\ FoldedState(Append(s, k)) = After[k]
<1> DEFINE t == Append(s, k)
<1>1. t # <<>> /\ \A j : Has(t, j) <=> Has(s, j) \/ j = k
  BY AppendKeeps, HasAppend
<1>2. EventsOrdered(s) /\ Has(s, "run_started") /\ \A j \in Terminal : ~Has(s, j)
  BY StateTells DEF Folds
<1>3. k \in {"authorization_recorded", "apply_committed", "validation_completed",
             "run_finalized", "run_failed", "run_interrupted"}
  BY DEF RunEventKind, Lifecycle, Order, Terminal
<1>4. EventsOrdered(t)
  <2>1. \A j \in Lifecycle : Has(s, j) /\ k \in Lifecycle => Order[j] < Order[k]
    BY <1>2, <1>3, StateTells DEF Lifecycle, Order, Terminal
  <2> QED
    BY <1>2, <2>1, OrderKept
<1> HIDE DEF t
<1>5. noop => k \notin {"authorization_recorded", "apply_committed", "validation_completed"}
  BY StateTells DEF Folds
<1>6. Folds(t, noop)
  BY <1>1, <1>2, <1>3, <1>4, <1>5 DEF Folds, Terminal
<1>7. FoldedState(t) = After[k]
  BY <1>1, <1>2, <1>3, StateTells DEF FoldedState, After, Terminal
<1> QED
  BY <1>6, <1>7 DEF t

-----------------------------------------------------------------------------
(* Steps.                                                                  *)

(***************************************************************************)
(* What a step may append when one process works: the first event of a run *)
(* while none is open, or the next one of an open run.                     *)
(***************************************************************************)
Extends(r, k, y) ==
  /\ Recorded(r, k, y) /\ UNCHANGED <<journals, made>>
  /\ \/ /\ k = "run_started" /\ events[r] = <<>> /\ NoneOpen
        /\ y.verdict = NoVerdict /\ y.reason = "none"
     \/ /\ State(r) \in OpenState /\ y.plan = recorded[r].plan
        /\ k # "run_failed" => y.reason = recorded[r].reason
        /\ k # "validation_completed" => y.verdict = recorded[r].verdict
        /\ \/ k = "authorization_recorded" /\ State(r) = "started" /\ y.plan # "noop"
           \/ k = "apply_committed" /\ State(r) = "authorized" /\ made[r] # {}
           \/ /\ k = "validation_completed" /\ State(r) = "needs_validation"
              /\ recorded[r].verdict = NoVerdict /\ y.verdict # NoVerdict
           \/ /\ k = "run_finalized"
              /\ \/ State(r) = "started" /\ y.plan = "noop"
                 \/ State(r) = "needs_validation" /\ y.verdict # NoVerdict
           \/ /\ k = "run_failed"
              /\ \/ State(r) \in {"started", "authorized"} /\ r \notin journals
                 \/ State(r) = "needs_validation" /\ y.reason \notin EarlyReason
           \/ k = "run_interrupted" /\ State(r) \in {"authorized", "needs_validation"}

(* A step of the abstract life of the runs, or none.                       *)
Lived == [Lifecycles!Next]_(Lifecycles!vars)

(* What AmbiguousIsLeftOpen says of a step.                                *)
LeavesAmbiguous ==
  \A r \in Run : State(r) = "authorized" /\ r \in journals
                   => State(r)' \in {"authorized", "needs_validation", "interrupted"}

Proper == RunsOnPath' /\ Lived /\ LeavesAmbiguous

(* A step that appends nothing and creates nothing.                        *)
LEMMA QuietProper ==
  ASSUME RunsOnPath, UNCHANGED <<events, recorded, made, journals>>
  PROVE  Proper /\ \A r \in Run : State(r)' = State(r)
<1>1. \A r \in Run : State(r)' = State(r) /\ RunFolds(r)' = RunFolds(r)
  BY DEF State, RunFolds
<1>2. RunsOnPath'
  BY <1>1 DEF RunsOnPath, RunOnPath
<1>3. UNCHANGED Lifecycles!vars
  BY <1>1 DEF Lifecycles!vars
<1> QED
  BY <1>1, <1>2, <1>3 DEF Proper, Lived, LeavesAmbiguous

(* An event that the record of r allows next leaves a record that folds,   *)
(* to the state of the event; the other runs keep theirs.                  *)
LEMMA ExtendsFolds ==
  ASSUME TypeOK, RunsOnPath, NEW r \in Run, NEW k \in RunEventKind, NEW y \in Payload,
         Extends(r, k, y)
  PROVE  /\ RunFolds(r)' /\ State(r)' = After[k] /\ events'[r] # <<>> /\ recorded'[r] = y
         /\ \A j : Has(events'[r], j) <=> Has(events[r], j) \/ j = k
         /\ \A q \in Run \ {r} : /\ events'[q] = events[q] /\ recorded'[q] = recorded[q]
                                 /\ State(q)' = State(q) /\ RunFolds(q)' = RunFolds(q)
<1>1. /\ events[r] \in Seq(RunEventKind) /\ events'[r] = Append(events[r], k)
      /\ recorded'[r] = y
      /\ \A q \in Run \ {r} : events'[q] = events[q] /\ recorded'[q] = recorded[q]
  BY RecordedType DEF TypeOK, Extends
<1>2. \A q \in Run \ {r} : State(q)' = State(q) /\ RunFolds(q)' = RunFolds(q)
  BY <1>1 DEF State, RunFolds
<1>3. events'[r] # <<>> /\ \A j : Has(events'[r], j) <=> Has(events[r], j) \/ j = k
  BY <1>1, AppendKeeps, HasAppend
<1>4. CASE k = "run_started" /\ events[r] = <<>>
  BY <1>1, <1>2, <1>3, <1>4, FirstEvent DEF State, RunFolds, After
<1>5. CASE State(r) \in OpenState /\ y.plan = recorded[r].plan
           /\ ~(k = "run_started" /\ events[r] = <<>>)
  <2>1. RunOnPath(r) /\ Folds(events[r], y.plan = "noop") /\ FoldedState(events[r]) \in OpenState
    BY <1>5, StateTells DEF RunsOnPath, RunOnPath, RunFolds, State
  <2>2. /\ k # "run_started"
        /\ k = "authorization_recorded" =>
             FoldedState(events[r]) = "started" /\ ~(y.plan = "noop")
        /\ k = "apply_committed" => FoldedState(events[r]) = "authorized"
        /\ k = "validation_completed" => FoldedState(events[r]) = "needs_validation"
                                         /\ ~Has(events[r], "validation_completed")
        /\ k = "run_finalized" => y.plan = "noop" \/ Has(events[r], "validation_completed")
    BY <1>5, <2>1 DEF Extends, State, RunOnPath
  <2>3. PICK noop \in BOOLEAN : noop = (y.plan = "noop")
    OBVIOUS
  <2>4. Folds(Append(events[r], k), noop) /\ FoldedState(Append(events[r], k)) = After[k]
    BY <1>1, <2>1, <2>2, <2>3, NextEvent DEF RunOnPath
  <2> QED
    BY <1>1, <1>2, <1>3, <2>3, <2>4 DEF State, RunFolds
<1> QED
  BY <1>4, <1>5 DEF Extends

(* Such an event keeps every record on its path.                           *)
LEMMA ExtendsOnPath ==
  ASSUME TypeOK, RunsOnPath, NEW r \in Run, NEW k \in RunEventKind, NEW y \in Payload,
         Extends(r, k, y)
  PROVE  RunsOnPath'
<1>1. /\ RunFolds(r)' /\ State(r)' = After[k] /\ recorded'[r] = y
      /\ \A j : Has(events'[r], j) <=> Has(events[r], j) \/ j = k
      /\ UNCHANGED <<journals, made>>
      /\ \A q \in Run \ {r} : /\ events'[q] = events[q] /\ recorded'[q] = recorded[q]
                              /\ State(q)' = State(q) /\ RunFolds(q)' = RunFolds(q)
  BY ExtendsFolds DEF Extends
<1>2. \A q \in Run \ {r} : RunOnPath(q)'
  BY <1>1 DEF RunsOnPath, RunOnPath
<1>3. RunOnPath(r)
  BY DEF RunsOnPath
<1>4. CASE k = "run_started" /\ events[r] = <<>> /\ y.verdict = NoVerdict /\ y.reason = "none"
  <2>0. \A j : ~Has(events[r], j)
    BY <1>4 DEF Has
  <2>1. \A j : Has(events'[r], j) <=> j = "run_started"
    BY <1>1, <1>4, <2>0
  <2>2. r \notin journals /\ made[r] = {}
    BY <1>3, <2>0 DEF RunOnPath
  <2> QED
    BY <1>1, <1>2, <1>4, <2>1, <2>2 DEF RunsOnPath, RunOnPath, EarlyReason
<1>5. CASE State(r) \in OpenState /\ y.plan = recorded[r].plan
           /\ ~(k = "run_started" /\ events[r] = <<>>)
  <2>1. k \notin {"run_started"} /\ recorded[r].reason = "none"
    BY <1>3, <1>5 DEF Extends, RunOnPath
  <2>2. State(r) = "authorized" => Has(events[r], "authorization_recorded")
    BY StateTells DEF State
  <2>3. State(r) = "needs_validation" => Has(events[r], "apply_committed")
    BY <1>3, StateTells DEF State, RunOnPath
  <2>4. /\ Has(events'[r], "validation_completed") => Has(events'[r], "apply_committed")
        /\ Has(events'[r], "apply_committed") => Has(events'[r], "authorization_recorded")
        /\ r \in journals' => Has(events'[r], "authorization_recorded")
        /\ made'[r] # {} => r \in journals'
    BY <1>1, <1>3, <1>5, <2>1, <2>2, <2>3 DEF Extends, RunOnPath
  <2>5. Has(events'[r], "validation_completed") <=> recorded'[r].verdict # NoVerdict
    BY <1>1, <1>3, <1>5, <2>1 DEF Extends, RunOnPath
  <2>6. recorded'[r].reason \in EarlyReason => made'[r] = {}
    BY <1>1, <1>3, <1>5, <2>1 DEF Extends, RunOnPath, EarlyReason
  <2>7. State(r)' \in OpenState => recorded'[r].reason = "none"
    BY <1>1, <1>5, <2>1 DEF Extends, After, OpenState
  <2> QED
    BY <1>1, <1>2, <2>4, <2>5, <2>6, <2>7 DEF RunsOnPath, RunOnPath
<1> QED
  BY <1>4, <1>5 DEF Extends

(* Every append is a step in the abstract life of its run.                 *)
LEMMA ExtendsLives ==
  ASSUME TypeOK, RunsOnPath, NEW r \in Run, NEW k \in RunEventKind, NEW y \in Payload,
         Extends(r, k, y)
  PROVE  Lived
<1> DEFINE state == [q \in Run |-> State(q)]  touched == {q \in Run : made[q] # {}}
<1>1. /\ State(r)' = After[k] /\ UNCHANGED <<journals, made>>
      /\ \A q \in Run \ {r} : State(q)' = State(q)
  BY ExtendsFolds DEF Extends
<1>2. state' = [state EXCEPT ![r] = After[k]] /\ UNCHANGED touched
  BY <1>1
<1>3. state[r] = State(r) /\ (r \in touched <=> made[r] # {})
  OBVIOUS
<1>4. RunOnPath(r)
  BY DEF RunsOnPath
<1> HIDE DEF state, touched
<1>5. Lifecycles!Become(r, After[k])
  BY <1>2 DEF Lifecycles!Become, state, touched
<1>6. CASE k = "run_started" /\ events[r] = <<>> /\ NoneOpen
  <2>1. State(r) = "none" /\ \A q \in Run : state[q] \notin OpenState
    BY <1>6, StateTells DEF State, NoneOpen, state
  <2>2. Lifecycles!Start(r)
    BY <1>3, <1>5, <1>6, <2>1 DEF Lifecycles!Start, Lifecycles!OpenState, OpenState, After, state
  <2> QED
    BY <2>2 DEF Lived, Lifecycles!Next
<1>7. CASE k = "authorization_recorded" /\ State(r) = "started"
  <2>1. Lifecycles!Authorize(r)
    BY <1>3, <1>5, <1>7 DEF Lifecycles!Authorize, After, state
  <2> QED
    BY <2>1 DEF Lived, Lifecycles!Next
<1>8. CASE k = "apply_committed" /\ State(r) = "authorized" /\ made[r] # {}
  <2>1. Lifecycles!Commit(r)
    BY <1>3, <1>5, <1>8 DEF Lifecycles!Commit, After, state, touched
  <2> QED
    BY <2>1 DEF Lived, Lifecycles!Next
<1>9. CASE k = "validation_completed" /\ State(r) = "needs_validation"
  <2>1. State(r)' = State(r)
    BY <1>1, <1>9 DEF After
  <2>2. UNCHANGED Lifecycles!vars
    BY <1>1, <2>1 DEF Lifecycles!vars
  <2> QED
    BY <2>2 DEF Lived
<1>10. CASE k = "run_finalized" /\ State(r) \in {"started", "needs_validation"}
  <2>1. Lifecycles!FinishNoop(r) \/ Lifecycles!Validated(r)
    BY <1>3, <1>5, <1>10 DEF Lifecycles!FinishNoop, Lifecycles!Validated, After, state
  <2> QED
    BY <2>1 DEF Lived, Lifecycles!Next
<1>11. CASE k = "run_failed" /\ \/ State(r) \in {"started", "authorized"} /\ r \notin journals
                                \/ State(r) = "needs_validation"
  <2>1. r \notin journals => r \notin touched
    BY <1>3, <1>4 DEF RunOnPath
  <2>2. Lifecycles!GiveUp(r) \/ Lifecycles!Validated(r)
    BY <1>3, <1>5, <1>11, <2>1 DEF Lifecycles!GiveUp, Lifecycles!Validated, After, state, touched
  <2> QED
    BY <2>2 DEF Lived, Lifecycles!Next
<1>12. CASE k = "run_interrupted" /\ State(r) \in {"authorized", "needs_validation"}
  <2>1. Lifecycles!Interrupt(r)
    BY <1>3, <1>5, <1>12 DEF Lifecycles!Interrupt, After, state
  <2> QED
    BY <2>1 DEF Lived, Lifecycles!Next
<1> QED
  BY <1>6, <1>7, <1>8, <1>9, <1>10, <1>11, <1>12 DEF Extends

(* Such an event is a step of the abstract life of the run, and gives it   *)
(* the payload.                                                            *)
LEMMA ExtendsProper ==
  ASSUME TypeOK, RunsOnPath, NEW r \in Run, NEW k \in RunEventKind, NEW y \in Payload,
         Extends(r, k, y)
  PROVE  Proper /\ State(r)' = After[k] /\ recorded'[r] = y
<1>1. /\ State(r)' = After[k] /\ recorded'[r] = y
      /\ \A q \in Run \ {r} : State(q)' = State(q)
  BY ExtendsFolds
<1>2. State(r) = "authorized" /\ r \in journals
        => State(r)' \in {"authorized", "needs_validation", "interrupted"}
  BY <1>1, StateTells DEF Extends, After, State
<1>3. LeavesAmbiguous
  BY <1>1, <1>2 DEF LeavesAmbiguous
<1> QED
  BY <1>1, <1>3, ExtendsOnPath, ExtendsLives DEF Proper

(* The abstract life has one open run.                                     *)
LEMMA OneOpenKept ==
  ASSUME OneOpenRun, Lived
  PROVE  OneOpenRun'
<1> DEFINE state == [q \in Run |-> State(q)]
<1>1. \A q \in Run : state[q] = State(q) /\ state'[q] = State(q)'
  OBVIOUS
<1>2. CASE UNCHANGED Lifecycles!vars
  <2>1. state' = state
    BY <1>2 DEF Lifecycles!vars
  <2> QED
    BY <1>1, <2>1 DEF OneOpenRun
<1>3. ASSUME NEW r \in Run, NEW s, Lifecycles!Become(r, s),
             State(r) \in OpenState \/ s \notin OpenState \/ NoneOpen
      PROVE  OneOpenRun'
  <2>1. state' = [state EXCEPT ![r] = s]
    BY <1>3 DEF Lifecycles!Become
  <2>2. State(r)' = s /\ \A q \in Run \ {r} : State(q)' = State(q)
    BY <1>1, <2>1
  <2> QED
    BY <1>3, <2>2 DEF OneOpenRun, NoneOpen
<1>4. ASSUME NEW r \in Run, Lifecycles!Touch(r) PROVE OneOpenRun'
  <2>1. state' = state
    BY <1>4 DEF Lifecycles!Touch
  <2> QED
    BY <1>1, <2>1 DEF OneOpenRun
<1>5. ASSUME NEW r \in Run, Lifecycles!Start(r) PROVE OneOpenRun'
  BY <1>1, <1>3, <1>5 DEF Lifecycles!Start, Lifecycles!OpenState, OpenState, NoneOpen
<1>6. ASSUME NEW r \in Run,
             \/ Lifecycles!FinishNoop(r) \/ Lifecycles!Authorize(r) \/ Lifecycles!Commit(r)
             \/ Lifecycles!Validated(r) \/ Lifecycles!GiveUp(r) \/ Lifecycles!Interrupt(r)
      PROVE  OneOpenRun'
  <2>1. \E s : Lifecycles!Become(r, s) /\ (State(r) \in OpenState \/ s \notin OpenState)
    BY <1>1, <1>6 DEF Lifecycles!FinishNoop, Lifecycles!Authorize, Lifecycles!Commit,
                      Lifecycles!Validated, Lifecycles!GiveUp, Lifecycles!Interrupt, OpenState
  <2> QED
    BY <1>3, <2>1
<1> QED
  BY <1>2, <1>4, <1>5, <1>6 DEF Lived, Lifecycles!Next

-----------------------------------------------------------------------------
(* Calls.                                                                  *)

(* A call that fails for a reason goes on to record it for the run it has. *)
LEMMA FailReason ==
  ASSUME TypeOK, NEW p \in Process, NEW w, FailWith(p, w)
  PROVE  proc'[p].pc = "failing" /\ proc'[p].run = proc[p].run /\ proc'[p].reason = w
<1>1. proc'[p] = [proc[p] EXCEPT !.pc = "failing", !.reason = w] /\ proc[p] \in Local
  BY BecomeValue DEF FailWith, TypeOK
<1> QED
  BY <1>1 DEF Local

(* A call that has returned is at no point that says anything of a run.    *)
LEMMA ReturnedOnPath ==
  ASSUME TypeOK, NEW p \in Process, Return(p)
  PROVE  CallOnPath(p)'
<1>1. proc'[p].pc = "idle"
  BY BecomeValue DEF Return, Idle
<1> QED
  BY <1>1 DEF CallOnPath, Mutating

(* The points of a call that has started no run and its run's early ones.  *)
LEMMA PlanningOnPath ==
  ASSUME Inv, Told, OnPath, NEW p \in Process,
         \/ MakePlan(p) \/ CachePlan(p) \/ FoldNoop(p) \/ RequireAuthorization(p) \/ Replan(p)
         \/ CheckPreconditions(p) \/ HashArtifacts(p)
  PROVE  CallOnPath(p)' /\ Proper
<1> DEFINE l == proc[p]  r == proc[p].run
<1>0. TypeOK /\ CallOK(p) /\ CallOnPath(p) /\ RunsOnPath /\ l \in Local
  BY DEF Inv, TypeOK, CallsOK, OnPath, CallsOnPath
<1>1. UNCHANGED <<records, made, journals>>
  BY DEF MakePlan, CachePlan, FoldNoop, RequireAuthorization, Replan, CheckPreconditions,
         HashArtifacts
<1>2. Proper /\ \A q \in Run : State(q)' = State(q)
  BY <1>0, <1>1, QuietProper DEF records
<1>3. NoneOpen => NoneOpen'
  BY <1>2 DEF NoneOpen
<1>4. CASE Return(p)
  BY <1>0, <1>2, <1>4, ReturnedOnPath
<1>5. CASE MakePlan(p) /\ ~Return(p)
  <2>1. PICK c \in {"planned", "caching"} : \E v : Become(p, [l EXCEPT !.pc = c, !.plan = v])
    BY <1>5 DEF MakePlan
  <2>2. PICK v : proc'[p] = [l EXCEPT !.pc = c, !.plan = v]
    BY <1>0, <2>1, BecomeValue
  <2>3. proc'[p].pc = c
    BY <1>0, <2>2 DEF Local
  <2>4. NoneOpen
    BY <1>0, <1>5 DEF MakePlan, At, CallOnPath
  <2> QED
    BY <1>2, <1>3, <2>3, <2>4 DEF CallOnPath, Mutating
<1>6. CASE CachePlan(p)
  <2>1. proc'[p].pc = "planned" /\ NoneOpen
    BY <1>0, <1>6, GotoFields DEF CachePlan, At, CallOnPath
  <2> QED
    BY <1>2, <1>3, <2>1 DEF CallOnPath, Mutating
<1>7. CASE FoldNoop(p) /\ ~Return(p)
  <2>1. /\ proc'[p].pc = "finalizing" /\ proc'[p].run = r /\ r \in Run
        /\ State(r) = "started" /\ recorded[r].plan = "noop"
    BY <1>0, <1>7, GotoFields DEF FoldNoop, At, CallOnPath, CallOK, OnRun, Point
  <2> QED
    BY <1>1, <1>2, <2>1 DEF CallOnPath, Mutating, records
<1>8. CASE (RequireAuthorization(p) \/ Replan(p) \/ CheckPreconditions(p)) /\ ~Return(p)
  <2>1. r \in Run /\ State(r) = "authorized" /\ r \notin journals
    BY <1>0, <1>8 DEF RequireAuthorization, Replan, CheckPreconditions, At, CallOnPath, CallOK,
                      OnRun, Point, Mutating
  <2>2. proc'[p].pc \in {"replanning", "checking", "backing_up", "failing"} /\ proc'[p].run = r
    BY <1>0, <1>8, GotoFields, FailReason DEF RequireAuthorization, Replan, CheckPreconditions
  <2> QED
    BY <1>1, <1>2, <2>1, <2>2 DEF CallOnPath, Mutating
<1>9. CASE HashArtifacts(p) /\ ~Return(p)
  <2>1. r \in Run /\ State(r) = "authorized"
    BY <1>0, <1>9 DEF HashArtifacts, At, CallOnPath, CallOK, OnRun, Point, Mutating
  <2>2. proc'[p] = [l EXCEPT !.pc = "committing", !.seen = Source]
    BY <1>0, <1>9, BecomeValue DEF HashArtifacts
  <2>3. proc'[p].pc = "committing" /\ proc'[p].run = r
    BY <1>0, <2>2 DEF Local
  <2> QED
    BY <1>2, <2>1, <2>3 DEF CallOnPath, Mutating
<1> QED
  BY <1>4, <1>5, <1>6, <1>7, <1>8, <1>9

(* Starting a run and authorising it: the gate found no run open, so the   *)
(* call is the only one (orchestrator.py 466-530).                         *)
LEMMA StartOnPath ==
  ASSUME Inv, Told, OnPath, NEW p \in Process,
         (\E q \in Run : StartRun(p, q)) \/ Authorize(p)
  PROVE  CallOnPath(p)' /\ Proper
<1> DEFINE l == proc[p]  r == proc[p].run
<1>0. TypeOK /\ Fresh /\ CallOK(p) /\ CallOnPath(p) /\ RunsOnPath /\ l \in Local /\ l.plan \in Plan
  BY FieldTypes DEF Inv, TypeOK, CallsOK, OnPath, CallsOnPath
<1>1. ASSUME NEW q \in Run, StartRun(p, q) PROVE CallOnPath(p)' /\ Proper
  <2>1. PICK y \in Payload : /\ y.plan = l.plan /\ y.verdict = NoVerdict /\ y.reason = "none"
                             /\ Recorded(q, "run_started", y)
    <3>1. [NoPayload EXCEPT !.plan = l.plan] \in Payload
      BY <1>0, PayloadTypes
    <3>2. /\ [NoPayload EXCEPT !.plan = l.plan].plan = l.plan
          /\ [NoPayload EXCEPT !.plan = l.plan].verdict = NoVerdict
          /\ [NoPayload EXCEPT !.plan = l.plan].reason = "none"
      BY DEF NoPayload
    <3> QED
      BY <1>0, <1>1, <3>1, <3>2, Atomic
  <2>2. "run_started" \in RunEventKind /\ Extends(q, "run_started", y)
    <3>1. events[q] = <<>> /\ UNCHANGED <<journals, made>> /\ NoneOpen
      BY <1>0, <1>1, Atomic DEF StartRun, At, CallOnPath
    <3> QED
      BY <2>1, <3>1 DEF Extends, RunEventKind, Lifecycle, Order
  <2>3. Proper /\ State(q)' = "started" /\ recorded'[q].plan = l.plan
    BY <1>0, <2>1, <2>2, ExtendsProper DEF After
  <2>4. PICK c \in {"noop", "authorizing"} :
                 (c = "noop" => l.plan = "noop") /\ Become(p, [l EXCEPT !.run = q, !.pc = c])
    BY <1>1 DEF StartRun
  <2>5. proc'[p] = [l EXCEPT !.run = q, !.pc = c]
    BY <1>0, <2>4, BecomeValue
  <2>6. proc'[p].pc = c /\ proc'[p].run = q
    BY <1>0, <2>5 DEF Local
  <2> QED
    BY <2>3, <2>4, <2>6 DEF CallOnPath, Mutating
<1>2. CASE Authorize(p)
  <2>1. /\ r \in Run /\ recorded[r] \in Payload /\ State(r) = "started"
        /\ recorded[r].plan # "noop"
    BY <1>0, <1>2 DEF Authorize, At, CallOnPath, CallOK, OnRun, Point, Mutating, TypeOK
  <2>2. r \notin journals
    BY <1>0, <2>1, StateTells DEF RunsOnPath, RunOnPath, State
  <2>3. "authorization_recorded" \in RunEventKind
        /\ Extends(r, "authorization_recorded", recorded[r])
    <3>1. Recorded(r, "authorization_recorded", recorded[r]) /\ UNCHANGED <<journals, made>>
      BY <1>0, <1>2, Atomic DEF Authorize
    <3> QED
      BY <2>1, <3>1 DEF Extends, RunEventKind, Lifecycle, Order, OpenState
  <2>4. PICK q \in Run : q = r
    BY <2>1
  <2>5. Proper /\ State(q)' = "authorized"
    BY <1>0, <2>1, <2>3, <2>4, ExtendsProper DEF After
  <2>6. proc'[p].pc = "requiring" /\ proc'[p].run = q /\ UNCHANGED journals
    BY <1>0, <1>2, <2>4, GotoFields DEF Authorize
  <2> QED
    BY <2>2, <2>4, <2>5, <2>6 DEF CallOnPath, Mutating
<1> QED
  BY <1>1, <1>2

(* From the authorisation to the commit of the apply the record stays as   *)
(* it is, and the journal tells how far it came (orchestrator.py 595-690). *)
LEMMA ApplyOnPath ==
  ASSUME Inv, Told, OnPath, NEW p \in Process,
         BackUpAndJournal(p) \/ ApplyOperation(p) \/ CommitApply(p)
  PROVE  CallOnPath(p)' /\ Proper
<1> DEFINE l == proc[p]
<1>0. TypeOK /\ Fresh /\ CallOK(p) /\ CallTold(p) /\ CallOnPath(p) /\ RunsOnPath /\ l \in Local
  BY DEF Inv, TypeOK, CallsOK, OnPath, CallsOnPath, Told
<1>1. l.run \in Run /\ State(l.run) = "authorized"
  BY <1>0 DEF BackUpAndJournal, ApplyOperation, CommitApply, At, CallOnPath, CallOK, OnRun,
              Point, Mutating
<1>2. PICK r \in Run : r = l.run /\ State(r) = "authorized" /\ RunOnPath(r)
  BY <1>0, <1>1 DEF RunsOnPath
<1>3. /\ Has(events[r], "authorization_recorded") /\ ~Has(events[r], "validation_completed")
      /\ recorded[r].reason = "none" /\ recorded[r].verdict = NoVerdict
  BY <1>2, StateTells DEF State, RunOnPath, OpenState
<1>4. CASE Return(p) /\ UNCHANGED <<records, made, journals>>
  BY <1>0, <1>4, ReturnedOnPath, QuietProper DEF records
<1>5. CASE BackUpAndJournal(p)
  <2>1. UNCHANGED <<records, made>>
    BY <1>5 DEF BackUpAndJournal
  <2>2. \A q \in Run : State(q)' = State(q) /\ RunFolds(q)' = RunFolds(q)
    BY <2>1 DEF records, State, RunFolds
  <2>3. CASE UNCHANGED journals /\ \E w : FailWith(p, w)
    <3>1. proc'[p].pc = "failing" /\ proc'[p].run = r /\ r \notin journals
      BY <1>0, <1>2, <1>5, <2>3, FailReason DEF BackUpAndJournal, At, CallOnPath
    <3>2. CallOnPath(p)'
      BY <1>2, <2>2, <2>3, <3>1 DEF CallOnPath, Mutating
    <3> QED
      BY <1>0, <2>1, <2>3, <3>2, QuietProper DEF records
  <2>4. CASE /\ journals' = journals \cup {r}
             /\ \E n : Become(p, [l EXCEPT !.pc = "applying", !.pos = n])
    <3>1. PICK n : proc'[p] = [l EXCEPT !.pc = "applying", !.pos = n]
      BY <1>0, <2>4, BecomeValue
    <3>2. proc'[p].pc = "applying" /\ proc'[p].run = r
      BY <1>0, <1>2, <3>1 DEF Local
    <3>3. CallOnPath(p)'
      BY <1>2, <2>2, <3>2 DEF CallOnPath, Mutating
    <3>4. \A q \in Run : RunOnPath(q)'
      BY <1>0, <1>3, <2>1, <2>2, <2>4 DEF RunsOnPath, RunOnPath, records
    <3>5. UNCHANGED Lifecycles!vars
      BY <2>1, <2>2 DEF Lifecycles!vars
    <3> QED
      BY <2>2, <3>3, <3>4, <3>5 DEF Proper, RunsOnPath, Lived, LeavesAmbiguous
  <2> QED
    BY <1>2, <1>5, <2>3, <2>4 DEF BackUpAndJournal, JournalsWith
<1>6. CASE ApplyOperation(p) /\ ~(Return(p) /\ UNCHANGED made)
  <2>1. UNCHANGED <<records, journals>> /\ r \in journals /\ l.pos \in 0..NumFiles + 1
    BY <1>0, <1>2, <1>6, FieldTypes DEF ApplyOperation, At, CallOK
  <2>2. \A q \in Run : State(q)' = State(q) /\ RunFolds(q)' = RunFolds(q)
    BY <2>1 DEF records, State, RunFolds
  <2>3. made' = [made EXCEPT ![r] = @ \cup {l.pos}] /\ made \in [Run -> SUBSET (0..NumFiles)]
    BY <1>0, <1>2, <1>6 DEF ApplyOperation, TypeOK
  <2>4. made'[r] # {} /\ \A q \in Run \ {r} : made'[q] = made[q]
    BY <2>3
  <2>5. proc'[p].pc = "applying" /\ proc'[p].run = r
    <3>1. proc'[p] = [l EXCEPT !.pos = NextOperation(l.pos)]
      BY <1>0, <1>6, BecomeValue DEF ApplyOperation
    <3> QED
      BY <1>0, <1>2, <1>6, <3>1 DEF Local, ApplyOperation, At
  <2>6. CallOnPath(p)'
    BY <1>2, <2>2, <2>5 DEF CallOnPath, Mutating
  <2>7. RunsOnPath'
    <3>1. \A q \in Run \ {r} : RunOnPath(q)'
      BY <1>0, <2>1, <2>2, <2>4 DEF RunsOnPath, RunOnPath, records
    <3>2. RunOnPath(r)'
      BY <1>2, <1>3, <2>1, <2>2 DEF RunOnPath, EarlyReason, records
    <3> QED
      BY <3>1, <3>2 DEF RunsOnPath
  <2>8. Lived
    <3> DEFINE state == [q \in Run |-> State(q)]  touched == {q \in Run : made[q] # {}}
    <3>1. state' = state /\ touched' = touched \cup {r} /\ state[r] = "authorized"
      BY <1>2, <2>2, <2>4
    <3>2. Lifecycles!Touch(r)
      BY <3>1 DEF Lifecycles!Touch
    <3> QED
      BY <3>2 DEF Lived, Lifecycles!Next
  <2> QED
    BY <2>2, <2>6, <2>7, <2>8 DEF Proper, LeavesAmbiguous
<1>7. CASE CommitApply(p)
  <2>1. PICK y \in Payload : /\ y.plan = recorded[r].plan /\ y.verdict = recorded[r].verdict
                             /\ y.reason = recorded[r].reason
                             /\ Recorded(r, "apply_committed", y)
    <3>1. recorded[r] \in Payload /\ [recorded[r] EXCEPT !.artifacts = l.seen.tree] \in Payload
      BY <1>0, PayloadTypes DEF TypeOK, Local
    <3>2. /\ [recorded[r] EXCEPT !.artifacts = l.seen.tree].plan = recorded[r].plan
          /\ [recorded[r] EXCEPT !.artifacts = l.seen.tree].verdict = recorded[r].verdict
          /\ [recorded[r] EXCEPT !.artifacts = l.seen.tree].reason = recorded[r].reason
      BY <3>1 DEF Payload
    <3> QED
      BY <1>0, <1>2, <1>7, <3>1, <3>2, Atomic
  <2>2. made[r] # {}
    <3>1. 1 \in File
      BY HubAssumption DEF File
    <3> QED
      BY <1>0, <1>2, <1>7, <3>1 DEF CommitApply, At, CallTold
  <2>3. "apply_committed" \in RunEventKind /\ Extends(r, "apply_committed", y)
    BY <1>2, <1>7, <2>1, <2>2
       DEF CommitApply, Extends, RunEventKind, Lifecycle, Order, OpenState
  <2>4. Proper /\ State(r)' = "needs_validation" /\ recorded'[r].verdict = NoVerdict
    BY <1>0, <1>3, <2>1, <2>3, ExtendsProper DEF After
  <2>5. proc'[p].pc = "verify" /\ proc'[p].run = r
    BY <1>0, <1>2, <1>7, GotoFields DEF CommitApply
  <2> QED
    BY <2>4, <2>5 DEF CallOnPath, Mutating
<1> QED
  BY <1>4, <1>5, <1>6, <1>7 DEF ApplyOperation

(* Verifying, and choosing how to close what was validated, add nothing to *)
(* the record.                                                             *)
LEMMA VerifyOnPath ==
  ASSUME Inv, OnPath, NEW p \in Process, BeginVerify(p) \/ EndVerify(p) \/ CloseRun(p)
  PROVE  CallOnPath(p)' /\ Proper
<1> DEFINE l == proc[p]
<1>0. TypeOK /\ CallOK(p) /\ CallOnPath(p) /\ RunsOnPath /\ l \in Local
  BY DEF Inv, TypeOK, CallsOK, OnPath, CallsOnPath
<1>1. PICK r \in Run : r = l.run
  BY <1>0 DEF BeginVerify, EndVerify, CloseRun, At, CallOK, OnRun, Point
<1>2. UNCHANGED <<records, made, journals>>
  BY DEF BeginVerify, EndVerify, CloseRun
<1>3. Proper /\ State(r)' = State(r) /\ recorded'[r] = recorded[r]
  BY <1>0, <1>2, QuietProper DEF records
<1>4. CASE Return(p)
  BY <1>0, <1>3, <1>4, ReturnedOnPath
<1>5. CASE BeginVerify(p)
  <2>1. proc'[p] = [l EXCEPT !.pc = "verifying", !.seen = Source]
    BY <1>0, <1>5, BecomeValue DEF BeginVerify
  <2>2. proc'[p].pc = "verifying" /\ proc'[p].run = r
    BY <1>0, <1>1, <2>1 DEF Local
  <2>3. State(r) = "needs_validation" /\ recorded[r].verdict = NoVerdict
    BY <1>0, <1>1, <1>5 DEF BeginVerify, At, CallOnPath
  <2> QED
    BY <1>3, <2>2, <2>3 DEF CallOnPath, Mutating
<1>6. CASE EndVerify(p) /\ ~Return(p)
  <2>1. PICK v : /\ Become(p, [l EXCEPT !.pc = "recording", !.verdict = v])
                 /\ v # NoVerdict
    <3>1. PICK status \in {"ok", "fail"}, removed \in BOOLEAN :
            Become(p, [l EXCEPT !.pc = "recording",
                         !.verdict = [status |-> status, temp_removed |-> removed,
                                      source_unchanged |-> l.seen = Source]])
      BY <1>6 DEF EndVerify
    <3>2. [status |-> status, temp_removed |-> removed, source_unchanged |-> l.seen = Source]
            # NoVerdict
      BY DEF NoVerdict
    <3> QED
      BY <3>1, <3>2
  <2>2. proc'[p] = [l EXCEPT !.pc = "recording", !.verdict = v]
    BY <1>0, <2>1, BecomeValue
  <2>3. proc'[p].pc = "recording" /\ proc'[p].run = r /\ proc'[p].verdict = v
    BY <1>0, <1>1, <2>2 DEF Local
  <2>4. State(r) = "needs_validation" /\ recorded[r].verdict = NoVerdict
    BY <1>0, <1>1, <1>6 DEF EndVerify, At, CallOnPath
  <2> QED
    BY <1>3, <2>1, <2>3, <2>4 DEF CallOnPath, Mutating
<1>7. CASE CloseRun(p) /\ ~Return(p)
  <2>1. State(r) = "needs_validation" /\ recorded[r].verdict # NoVerdict
    BY <1>0, <1>1, <1>7 DEF CloseRun, At, CallOnPath
  <2>2. PICK c \in {"finalizing", "failing"},
             w \in {"cleanup_failed", "source_modified", "validation_failed"} :
               Become(p, [l EXCEPT !.pc = c, !.reason = w])
    BY <1>7 DEF CloseRun, FailWith, StatusDecides
  <2>3. proc'[p] = [l EXCEPT !.pc = c, !.reason = w]
    BY <1>0, <2>2, BecomeValue
  <2>4. proc'[p].pc = c /\ proc'[p].run = r /\ proc'[p].reason = w
    BY <1>0, <1>1, <2>3 DEF Local
  <2> QED
    BY <1>3, <2>1, <2>4 DEF CallOnPath, Mutating, EarlyReason
<1> QED
  BY <1>4, <1>5, <1>6, <1>7

(* The four events that close a run or go before it come after what they   *)
(* need, and once (orchestrator.py 300-420).                               *)
LEMMA CloseOnPath ==
  ASSUME Inv, OnPath, NEW p \in Process,
         RecordValidation(p) \/ FinalizeRun(p) \/ FailRun(p) \/ InterruptRun(p)
  PROVE  CallOnPath(p)' /\ Proper
<1> DEFINE l == proc[p]
<1>0. TypeOK /\ Fresh /\ CallOK(p) /\ CallOnPath(p) /\ RunsOnPath /\ l \in Local
      /\ l.verdict \in Verdict /\ l.reason \in Reason
  BY FieldTypes DEF Inv, TypeOK, CallsOK, OnPath, CallsOnPath
<1>1. PICK r \in Run : r = l.run /\ recorded[r] \in Payload
  BY <1>0 DEF RecordValidation, FinalizeRun, FailRun, InterruptRun, At, CallOK, OnRun, Point,
              TypeOK
<1>2. CASE RecordValidation(p)
  <2>1. PICK y \in Payload : /\ y = [recorded[r] EXCEPT !.verdict = l.verdict]
                             /\ y.plan = recorded[r].plan /\ y.verdict = l.verdict
                             /\ y.reason = recorded[r].reason
    <3>1. [recorded[r] EXCEPT !.verdict = l.verdict] \in Payload
      BY <1>0, <1>1, PayloadTypes
    <3>2. /\ [recorded[r] EXCEPT !.verdict = l.verdict].plan = recorded[r].plan
          /\ [recorded[r] EXCEPT !.verdict = l.verdict].verdict = l.verdict
          /\ [recorded[r] EXCEPT !.verdict = l.verdict].reason = recorded[r].reason
      BY <1>1 DEF Payload
    <3> QED
      BY <3>1, <3>2
  <2>2. /\ State(r) = "needs_validation" /\ recorded[r].verdict = NoVerdict
        /\ l.verdict # NoVerdict
    BY <1>0, <1>1, <1>2 DEF RecordValidation, At, CallOnPath
  <2>3. "validation_completed" \in RunEventKind /\ Extends(r, "validation_completed", y)
    <3>1. Recorded(r, "validation_completed", y) /\ UNCHANGED <<journals, made>>
      BY <1>0, <1>1, <1>2, <2>1, Atomic DEF RecordValidation
    <3> QED
      BY <2>1, <2>2, <3>1 DEF Extends, RunEventKind, Lifecycle, Order, OpenState
  <2>4. Proper /\ State(r)' = "needs_validation" /\ recorded'[r].verdict # NoVerdict
    BY <1>0, <2>1, <2>2, <2>3, ExtendsProper DEF After
  <2>5. proc'[p].pc = "closing" /\ proc'[p].run = r
    BY <1>0, <1>1, <1>2, GotoFields DEF RecordValidation
  <2> QED
    BY <2>4, <2>5 DEF CallOnPath, Mutating
<1>3. CASE FinalizeRun(p)
  <2>1. \/ State(r) = "started" /\ recorded[r].plan = "noop"
        \/ State(r) = "needs_validation" /\ recorded[r].verdict # NoVerdict
    BY <1>0, <1>1, <1>3 DEF FinalizeRun, At, CallOnPath
  <2>2. "run_finalized" \in RunEventKind /\ Extends(r, "run_finalized", recorded[r])
    <3>1. Recorded(r, "run_finalized", recorded[r]) /\ UNCHANGED <<journals, made>>
      BY <1>0, <1>1, <1>3, Atomic DEF FinalizeRun
    <3> QED
      BY <2>1, <3>1 DEF Extends, RunEventKind, Terminal, OpenState
  <2> QED
    BY <1>0, <1>1, <1>3, <2>2, ExtendsProper, ReturnedOnPath DEF FinalizeRun
<1>4. CASE FailRun(p)
  <2>1. \/ State(r) \in {"started", "authorized"} /\ r \notin journals
        \/ State(r) = "needs_validation" /\ l.reason \notin EarlyReason
    BY <1>0, <1>1, <1>4 DEF FailRun, At, CallOnPath
  <2>2. PICK y \in Payload : /\ y = [recorded[r] EXCEPT !.reason = l.reason]
                             /\ y.plan = recorded[r].plan /\ y.verdict = recorded[r].verdict
                             /\ y.reason = l.reason
    <3>1. [recorded[r] EXCEPT !.reason = l.reason] \in Payload
      BY <1>0, <1>1, PayloadTypes
    <3>2. /\ [recorded[r] EXCEPT !.reason = l.reason].plan = recorded[r].plan
          /\ [recorded[r] EXCEPT !.reason = l.reason].verdict = recorded[r].verdict
          /\ [recorded[r] EXCEPT !.reason = l.reason].reason = l.reason
      BY <1>1 DEF Payload
    <3> QED
      BY <3>1, <3>2
  <2>3. "run_failed" \in RunEventKind /\ Extends(r, "run_failed", y)
    <3>1. Recorded(r, "run_failed", y) /\ UNCHANGED <<journals, made>>
      BY <1>0, <1>1, <1>4, <2>2, Atomic DEF FailRun
    <3> QED
      BY <2>1, <2>2, <3>1 DEF Extends, RunEventKind, Terminal, OpenState
  <2> QED
    BY <1>0, <1>1, <1>4, <2>3, ExtendsProper, ReturnedOnPath DEF FailRun
<1>5. CASE InterruptRun(p)
  <2>1. State(r) \in {"authorized", "needs_validation"}
    BY <1>0, <1>1, <1>5 DEF InterruptRun, At, CallOnPath
  <2>2. "run_interrupted" \in RunEventKind /\ Extends(r, "run_interrupted", recorded[r])
    <3>1. Recorded(r, "run_interrupted", recorded[r]) /\ UNCHANGED <<journals, made>>
      BY <1>0, <1>1, <1>5, Atomic DEF InterruptRun
    <3> QED
      BY <2>1, <3>1 DEF Extends, RunEventKind, Terminal, OpenState
  <2> QED
    BY <1>0, <1>1, <1>5, <2>2, ExtendsProper, ReturnedOnPath DEF InterruptRun
<1> QED
  BY <1>2, <1>3, <1>4, <1>5

(* A call that begins or resumes a run starts where the record says        *)
(* (orchestrator.py 466-484, 749-940).                                     *)
LEMMA CallsStayOnPath ==
  ASSUME Inv, OnPath, NEW p \in Process, Call(p)
  PROVE  CallOnPath(p)' /\ Proper
<1>0. TypeOK /\ RunsOnPath /\ proc[p] \in Local /\ UNCHANGED <<records, made, journals>>
  BY DEF Inv, TypeOK, OnPath, Call, RunGate, Resume, MarkInterrupted
<1>1. Proper /\ \A r \in Run : State(r)' = State(r) /\ recorded'[r] = recorded[r]
  BY <1>0, QuietProper DEF records
<1>2. CASE RunGate(p)
  <2>1. proc'[p].pc = "planning" /\ NoneOpen
    BY <1>0, <1>2, GotoFields DEF RunGate, NoOpenRun, NoneOpen
  <2>2. NoneOpen'
    BY <1>1, <2>1 DEF NoneOpen
  <2> QED
    BY <1>1, <2>1, <2>2 DEF CallOnPath, Mutating
<1>3. ASSUME NEW r \in Run, NEW c, NEW w, Become(p, [Resumed(r) EXCEPT !.pc = c, !.reason = w])
      PROVE  proc'[p].pc = c /\ proc'[p].run = r /\ proc'[p].reason = w
  <2>1. proc'[p] = [Resumed(r) EXCEPT !.pc = c, !.reason = w]
    BY <1>0, <1>3, BecomeValue
  <2> QED
    BY <2>1 DEF Resumed, Idle
<1>4. ASSUME NEW r \in Run, NEW c, Become(p, [Resumed(r) EXCEPT !.pc = c])
      PROVE  proc'[p].pc = c /\ proc'[p].run = r
  <2>1. proc'[p] = [Resumed(r) EXCEPT !.pc = c]
    BY <1>0, <1>4, BecomeValue
  <2> QED
    BY <2>1 DEF Resumed, Idle
<1>5. ASSUME NEW r \in Run, Resume(p, r) PROVE CallOnPath(p)'
  <2>1. RunOnPath(r) /\ UNCHANGED journals
    BY <1>0 DEF RunsOnPath
  <2>2. CASE Abandonable(r)
             /\ Become(p, [Resumed(r) EXCEPT !.pc = "failing", !.reason = "abandoned"])
    <3>1. State(r) \in {"started", "authorized"} /\ r \notin journals
      BY <2>1, <2>2, StateTells DEF Abandonable, RunOnPath, State
    <3>2. proc'[p].pc = "failing" /\ proc'[p].run = r
      BY <1>3, <2>2
    <3> QED
      BY <1>1, <2>1, <3>1, <3>2 DEF CallOnPath, Mutating
  <2>3. CASE /\ State(r) = "needs_validation" /\ recorded[r].verdict # NoVerdict
             /\ Become(p, [Resumed(r) EXCEPT !.pc = StatusDecides(recorded[r].verdict),
                                             !.reason = "validation_failed"])
    <3>1. PICK c \in {"finalizing", "failing"} :
                 Become(p, [Resumed(r) EXCEPT !.pc = c, !.reason = "validation_failed"])
      BY <2>3 DEF StatusDecides
    <3>2. proc'[p].pc = c /\ proc'[p].run = r /\ proc'[p].reason = "validation_failed"
      BY <1>3, <3>1
    <3> QED
      BY <1>1, <2>3, <3>2 DEF CallOnPath, Mutating, EarlyReason
  <2>4. CASE /\ State(r) = "needs_validation" /\ recorded[r].verdict = NoVerdict
             /\ Become(p, [Resumed(r) EXCEPT !.pc = "verify"])
    BY <1>1, <1>4, <2>4 DEF CallOnPath, Mutating
  <2> QED
    BY <1>5, <2>2, <2>3, <2>4 DEF Resume
<1>6. ASSUME NEW r \in Run, MarkInterrupted(p, r) PROVE CallOnPath(p)'
  BY <1>1, <1>4, <1>6 DEF MarkInterrupted, Interruptible, CallOnPath, Mutating
<1> QED
  BY <1>1, <1>2, <1>5, <1>6 DEF Call

-----------------------------------------------------------------------------
(* Theorems.                                                               *)

(* No run, no call: nothing to be said.                                    *)
LEMMA OnPathInit == ASSUME OneAtATime PROVE Init => OnPath
<1> SUFFICES ASSUME Init PROVE OnPath
  OBVIOUS
<1>1. \A r \in Run : events[r] = <<>> /\ recorded[r] = NoPayload /\ made[r] = {} /\ r \notin journals
  BY DEF Init
<1>2. \A r \in Run : State(r) = "none" /\ \A j : ~Has(events[r], j)
  BY <1>1 DEF State, FoldedState, Has
<1>3. RunsOnPath /\ OneOpenRun
  BY <1>1, <1>2 DEF RunsOnPath, RunOnPath, OneOpenRun, OpenState, NoPayload
<1>4. CallsOnPath
  BY DEF Init, CallsOnPath, CallOnPath, Idle, Mutating
<1> QED
  BY <1>3, <1>4 DEF OnPath

(* Every step keeps runs and calls on their path, is a step in the life of *)
(* a run, and leaves an ambiguous one alone.                               *)
LEMMA OnPathNext ==
  ASSUME OneAtATime, Inv, Told, OnPath, [Next]_vars
  PROVE  OnPath' /\ Lived /\ LeavesAmbiguous
<1>0. TypeOK /\ RunsOnPath /\ OneOpenRun /\ CallsOnPath
  BY DEF Inv, OnPath
<1>1. ASSUME NEW p \in Process, Call(p) \/ RunGoal(p) \/ Close(p) \/ Crash(p)
      PROVE  CallsOnPath' /\ Proper
  <2>1. CASE Call(p)
    BY <2>1, CallsStayOnPath DEF OneAtATime, CallsOnPath
  <2>2. CASE RunGoal(p)
    BY <2>2, PlanningOnPath, StartOnPath, ApplyOnPath DEF RunGoal, OneAtATime, CallsOnPath
  <2>3. CASE Close(p)
    BY <2>3, VerifyOnPath, CloseOnPath DEF Close, OneAtATime, CallsOnPath
  <2>4. CASE Crash(p)
    BY <1>0, <2>4, ReturnedOnPath, QuietProper DEF Crash, OneAtATime, CallsOnPath
  <2> QED
    BY <1>1, <2>1, <2>2, <2>3, <2>4
<1>2. ASSUME Environment \/ UNCHANGED vars \/ \E p \in Process : ReadStore(p)
      PROVE  CallsOnPath' /\ Proper
  <2>1. UNCHANGED <<events, recorded, made, journals, proc>>
    BY <1>2, NoneBecomes
  <2>2. Proper /\ \A r \in Run : State(r)' = State(r)
    BY <1>0, <2>1, QuietProper
  <2>3. CallsOnPath'
    <3> SUFFICES ASSUME NEW p \in Process PROVE CallOnPath(p)'
      BY DEF CallsOnPath
    <3>1. CallOnPath(p) /\ CallOK(p) /\ proc'[p] = proc[p]
      BY <1>0, <2>1 DEF CallsOnPath, Inv, CallsOK
    <3>2. proc[p].pc \in OnRun => proc[p].run \in Run
      BY <3>1 DEF CallOK
    <3>3. NoneOpen => NoneOpen'
      BY <2>2 DEF NoneOpen
    <3>4. CASE proc[p].pc \in OnRun
      <4>1. PICK r \in Run : r = proc[p].run
        BY <3>2, <3>4
      <4>2. State(r)' = State(r) /\ proc'[p].run = r /\ UNCHANGED <<recorded, journals>>
        BY <2>1, <2>2, <3>1, <4>1
      <4> QED
        BY <3>1, <3>3, <4>1, <4>2 DEF CallOnPath
    <3>5. CASE proc[p].pc \notin OnRun
      <4>1. proc[p].pc \in {"idle", "planning", "caching", "planned"}
        BY <1>0, <3>5, FieldTypes DEF TypeOK, OnRun
      <4> QED
        BY <3>1, <3>3, <4>1 DEF CallOnPath, Mutating
    <3> QED
      BY <3>4, <3>5
  <2> QED
    BY <2>2, <2>3
<1>3. CallsOnPath' /\ Proper
  BY <1>1, <1>2 DEF Next
<1> QED
  BY <1>0, <1>3, OneOpenKept DEF Proper, OnPath

(* With one process at a time the invariant holds in every reachable       *)
(* state.                                                                  *)
LEMMA OnPathHolds == ASSUME OneAtATime PROVE Spec => [](Inv /\ Told /\ OnPath)
<1>1. Inv /\ Told /\ OnPath /\ [Next]_vars => OnPath'
  BY OnPathNext
<1> QED
  BY <1>1, OnPathInit, InvHolds, ToldHolds, PTL DEF Spec

(***************************************************************************)
(* While one process works, the hub never writes a store it refuses to     *)
(* read, and at most one run is open (orchestrator.py 131-141, 466-484):   *)
(* for every number of runs and files, whatever dies where.                *)
(***************************************************************************)
THEOREM StoreIsUsableHolds == ASSUME OneAtATime PROVE Spec => []StoreIsUsable
<1>1. Inv /\ OnPath => StoreIsUsable
  BY DEF Inv, Fresh, OnPath, RunsOnPath, RunOnPath, StoreIsUsable, StoreFolds
<1> QED
  BY <1>1, OnPathHolds, PTL

(***************************************************************************)
(* While one process works, a run that was abandoned or failed before its  *)
(* apply has changed nothing, and one finalized as applied has created all *)
(* its files and passed its validation (orchestrator.py 340-355, 403-420,  *)
(* 650-663, 838-855).                                                      *)
(***************************************************************************)
THEOREM ClosedRunsTellTheTruthHolds ==
  ASSUME OneAtATime PROVE Spec => []ClosedRunsTellTheTruth
<1>1. OnPath => FailedEarlyIsUntouched
  BY DEF OnPath, RunsOnPath, RunOnPath, FailedEarlyIsUntouched
<1>2. Spec => []FailedEarlyIsUntouched
  BY <1>1, OnPathHolds, PTL
<1>3. FailedEarlyIsUntouched /\ FinalizedIsValidated => ClosedRunsTellTheTruth
  BY DEF ClosedRunsTellTheTruth
<1> QED
  BY <1>2, <1>3, FinalizedIsValidatedHolds, PTL

(***************************************************************************)
(* While one process works, a run that has written its journal, and not    *)
(* that its apply was committed, is closed by the operator only            *)
(* (orchestrator.py 857-869).                                              *)
(***************************************************************************)
THEOREM AmbiguousIsLeftOpenHolds == ASSUME OneAtATime PROVE Spec => AmbiguousIsLeftOpen
<1>1. Inv /\ Told /\ OnPath /\ [Next]_vars
        => [\A r \in Run : State(r) = "authorized" /\ r \in journals
              => State(r)' \in {"authorized", "needs_validation", "interrupted"}]_vars
  BY OnPathNext DEF LeavesAmbiguous
<1> QED
  BY <1>1, OnPathHolds, PTL DEF Spec, AmbiguousIsLeftOpen

(***************************************************************************)
(* While one process works, HubRun implements RunLifecycle: every step of  *)
(* run_goal and resume_run, every call that dies and every edit is a step  *)
(* in the abstract life of the runs, or changes nothing of it.             *)
(***************************************************************************)
THEOREM RunLifecycleHolds == ASSUME OneAtATime PROVE Spec => ImplementsRunLifecycle
<1>1. Init => Lifecycles!Init
  <2> SUFFICES ASSUME Init PROVE Lifecycles!Init
    OBVIOUS
  <2>1. \A r \in Run : State(r) = "none" /\ made[r] = {}
    BY DEF Init, State, FoldedState
  <2> QED
    BY <2>1 DEF Lifecycles!Init
<1>2. Inv /\ Told /\ OnPath /\ [Next]_vars => [Lifecycles!Next]_(Lifecycles!vars)
  BY OnPathNext DEF Lived
<1> QED
  BY <1>1, <1>2, OnPathHolds, PTL DEF Spec, ImplementsRunLifecycle, Lifecycles!Spec
=============================================================================
