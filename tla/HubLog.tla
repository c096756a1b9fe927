-------------------------------- MODULE HubLog --------------------------------
(***************************************************************************)
(* The append protocol of the hub's files: the run-record store            *)
(* (hub/run_record.py append_event) and the spoke ledger (hub/registry.py  *)
(* _append_event), each a hash chain replaced as a whole by a temporary    *)
(* file of a fresh name, and the audit log (hub/audit.py append_audit),    *)
(* which every append of either store extends afterwards through ONE       *)
(* temporary name.  No lock is taken.  Writers crash between two steps.    *)
(*                                                                         *)
(* An event is identified by the number of the append that made it, and    *)
(* stands for its own hash; 0 is the hash no event has (None).  A line of  *)
(* the audit log is the event it reports, or Torn when the end of a longer *)
(* line is left behind a shorter one written over it.                      *)
(*                                                                         *)
(* A definition marked "Slip" is not part of the model: it is a plausible  *)
(* mistake in the definition that follows it, kept to show that the        *)
(* properties below notice it.                                             *)
(***************************************************************************)
EXTENDS Integers, Sequences, FiniteSets

CONSTANTS
  Writer,       \* the processes that append
  MaxAppends,   \* bound: appends that are begun
  MaxFaults     \* bound: crashes and write errors

ASSUME BoundsAssumption == MaxAppends \in Nat /\ MaxFaults \in Nat

Store == {"run_records", "spoke_ledger"}

Torn == -1
Absent == <<-2>>    \* of the audit log's temporary file: there is none

Id == 1..MaxAppends
Event == [id : Id, seq : Nat, prev : Id \cup {0}]

VARIABLES
  log,        \* the events of each store
  audit,      \* the lines of audit.jsonl
  auditTemp,  \* the lines of audit.jsonl.tmp, or Absent
  temps,      \* the appends whose own temporary file exists
  writer,     \* what each process is doing
  begun,      \* how many appends have been begun
  faults,     \* how many faults have happened
  returned,   \* history: the appends that returned to their caller
  raced       \* history: the files two writers have worked on at once

vars == <<log, audit, auditTemp, temps, writer, begun, faults, returned, raced>>

Idle == [pc |-> "idle", store |-> "run_records", event |-> [id |-> 0, seq |-> 0, prev |-> 0],
         base |-> <<>>, lines |-> <<>>, open |-> "nothing"]

Init ==
  /\ log = [s \in Store |-> <<>>]
  /\ audit = <<>> /\ auditTemp = Absent /\ temps = {}
  /\ writer = [w \in Writer |-> Idle]
  /\ begun = 0 /\ faults = 0 /\ returned = {} /\ raced = {}

-----------------------------------------------------------------------------
At(w, pc) == writer[w].pc = pc
The(w) == writer[w].event
LogOf(w) == log[writer[w].store]
BusyBeside(w) == {v \in Writer \ {w} : ~At(v, "idle")}

(* Slip: the chain always starts again.                                    *)
FirstId(events) == IF events = <<>> THEN 0 ELSE events[1].id

LastId(events) == IF events = <<>> THEN 0 ELSE events[Len(events)].id

(* read_events: the sequence number and the previous hash of the new event *)
(* come from the store as it is now.                                       *)
Begin(w, s) ==
  /\ At(w, "idle") /\ begun < MaxAppends
  /\ begun' = begun + 1
  /\ writer' = [writer EXCEPT ![w].pc = "numbered", ![w].store = s,
                  ![w].event = [id |-> begun + 1, seq |-> Len(log[s]) + 1,
                                prev |-> LastId(log[s])]]
  /\ raced' = raced \cup {writer[v].store : v \in {u \in BusyBeside(w) : writer[u].store = s}}
                    \cup {"audit" : v \in BusyBeside(w)}
  /\ UNCHANGED <<log, audit, auditTemp, temps, faults, returned>>

(* existing_content = destination.read_bytes(): a second read.             *)
Copy(w) ==
  /\ At(w, "numbered")
  /\ writer' = [writer EXCEPT ![w].pc = "copied", ![w].base = LogOf(w)]
  /\ UNCHANGED <<log, audit, auditTemp, temps, begun, faults, returned, raced>>

(* The temporary file is made, filled and synced.                          *)
WriteTemp(w) ==
  /\ At(w, "copied")
  /\ temps' = temps \cup {The(w).id}
  /\ writer' = [writer EXCEPT ![w].pc = "synced"]
  /\ UNCHANGED <<log, audit, auditTemp, begun, faults, returned, raced>>

(* Slip: the line is written before the event is filled in.                *)
BlankLine(w) == Append(writer[w].base, Idle.event)

(* Slip: the file is opened for writing, not for appending.                *)
LineOnly(w) == <<The(w)>>

NewContent(w) == Append(writer[w].base, The(w))

(* os.replace: the store is what was copied and the new line.              *)
ReplaceStore(w) ==
  /\ At(w, "synced")
  /\ log' = [log EXCEPT ![writer[w].store] = NewContent(w)]
  /\ temps' = temps \ {The(w).id}
  /\ writer' = [writer EXCEPT ![w].pc = "stored"]
  /\ UNCHANGED <<audit, auditTemp, begun, faults, returned, raced>>

MayAudit(w) == At(w, "stored")

(* temp_path.open("w"): the one name is created or, when another process   *)
(* is using it, truncated under it.                                        *)
OpenAudit(w) ==
  /\ MayAudit(w)
  /\ auditTemp' = <<>>
  /\ writer' = [writer EXCEPT ![w].pc = "opened", ![w].open = "temp"]
  /\ UNCHANGED <<log, audit, temps, begun, faults, returned, raced>>

ReadAudit(w) ==
  /\ At(w, "opened")
  /\ writer' = [writer EXCEPT ![w].pc = "read", ![w].lines = audit]
  /\ UNCHANGED <<log, audit, auditTemp, temps, begun, faults, returned, raced>>

(* What a file holds once new has been written from its beginning: what    *)
(* was longer stays behind it, and its line may end in the middle.         *)
Overwritten(old, new) ==
  IF Len(old) < Len(new) \/ old = new THEN {new}
  ELSE {new \o SubSeq(old, Len(new) + 1, Len(old)),
        new \o <<Torn>> \o SubSeq(old, Len(new) + 1, Len(old))}

(* Slip: the entries there are, are not copied.                            *)
EntryOnly(w) == <<The(w).id>>

AllEntries(w) == Append(writer[w].lines, The(w).id)

(* write, flush and fsync go to the file that was opened, whatever its     *)
(* name is by now.                                                         *)
WriteAudit(w) ==
  /\ At(w, "read")
  /\ LET lines == AllEntries(w)
     IN \/ /\ writer[w].open = "temp"
           /\ auditTemp' \in Overwritten(auditTemp, lines) /\ UNCHANGED audit
        \/ /\ writer[w].open = "audit"
           /\ audit' \in Overwritten(audit, lines) /\ UNCHANGED auditTemp
        \/ writer[w].open = "nothing" /\ UNCHANGED <<audit, auditTemp>>
  /\ writer' = [writer EXCEPT ![w].pc = "written"]
  /\ UNCHANGED <<log, temps, begun, faults, returned, raced>>

(* Slip: the temporary file is copied over the log, not renamed.           *)
CopyAudit(w) ==
  /\ At(w, "written") /\ auditTemp # Absent
  /\ audit' = auditTemp
  /\ returned' = returned \cup {The(w).id}
  /\ writer' = [writer EXCEPT ![w] = Idle]
  /\ UNCHANGED <<log, auditTemp, temps, begun, faults, raced>>

(* temp_path.replace(destination).  Who still has the temporary file open  *)
(* has the audit log open from now on, and who had that has a file no name *)
(* leads to.                                                               *)
Renamed(open) == CASE open = "temp" -> "audit" [] OTHER -> "nothing"

ReplaceAudit(w) ==
  /\ At(w, "written") /\ auditTemp # Absent
  /\ audit' = auditTemp /\ auditTemp' = Absent
  /\ returned' = returned \cup {The(w).id}
  /\ writer' = [v \in Writer |-> IF v = w THEN Idle
                  ELSE [writer[v] EXCEPT !.open = Renamed(writer[v].open)]]
  /\ UNCHANGED <<log, temps, begun, faults, raced>>

(* FileNotFoundError: another process renamed the file.  append_event      *)
(* raises although its event is stored.                                    *)
ReplaceAuditMissing(w) ==
  /\ At(w, "written") /\ auditTemp = Absent
  /\ writer' = [writer EXCEPT ![w] = Idle]
  /\ UNCHANGED <<log, audit, auditTemp, temps, begun, faults, returned, raced>>

-----------------------------------------------------------------------------
Fault == faults < MaxFaults /\ faults' = faults + 1

(* An error before the store is replaced: the handler unlinks the          *)
(* temporary file and the error is raised again.                           *)
StoreFails(w) ==
  /\ Fault
  /\ writer[w].pc \in {"copied", "synced"}
  /\ temps' = temps \ {The(w).id}
  /\ writer' = [writer EXCEPT ![w] = Idle]
  /\ UNCHANGED <<log, audit, auditTemp, begun, returned, raced>>

(* An error of the audit log: nothing is cleaned up.                       *)
AuditFails(w) ==
  /\ Fault
  /\ writer[w].pc \in {"stored", "opened", "read", "written"}
  /\ writer' = [writer EXCEPT ![w] = Idle]
  /\ UNCHANGED <<log, audit, auditTemp, temps, begun, returned, raced>>

(* The process is killed: what is on the disk stays as it is.              *)
Crash(w) ==
  /\ Fault
  /\ ~At(w, "idle")
  /\ writer' = [writer EXCEPT ![w] = Idle]
  /\ UNCHANGED <<log, audit, auditTemp, temps, begun, returned, raced>>

-----------------------------------------------------------------------------
Append1(w) ==
  \/ \E s \in Store : Begin(w, s)
  \/ Copy(w) \/ WriteTemp(w) \/ ReplaceStore(w) \/ OpenAudit(w)
  \/ ReadAudit(w) \/ WriteAudit(w) \/ ReplaceAudit(w) \/ ReplaceAuditMissing(w)

Next == \E w \in Writer : Append1(w) \/ StoreFails(w) \/ AuditFails(w) \/ Crash(w)

Spec == Init /\ [][Next]_vars

-----------------------------------------------------------------------------
Busy == {The(w).id : w \in {v \in Writer : ~At(v, "idle")}}
IdsOf(events) == {events[i].id : i \in DOMAIN events}
Stored == UNION {IdsOf(log[s]) : s \in Store}
Audited == {audit[i] : i \in DOMAIN audit}

(* verify_chain and verify_ledger: every event has the number of its place *)
(* and the hash of the event before it.                                    *)
Chained(events) ==
  \A i \in DOMAIN events :
     /\ events[i].seq = i
     /\ events[i].prev = IF i = 1 THEN 0 ELSE events[i - 1].id

(* validate_hub_metadata_dir: it refuses a directory that holds any file   *)
(* but the known ones, and with it every later planning of the creator.    *)
DirectoryAccepted == temps = {} /\ auditTemp = Absent

-----------------------------------------------------------------------------
(* The shape of the state.                                                 *)
TypeOK ==
  /\ log \in [Store -> Seq(Event)]
  /\ audit \in Seq(Id \cup {Torn})
  /\ auditTemp = Absent \/ auditTemp \in Seq(Id \cup {Torn})
  /\ temps \subseteq Id /\ returned \subseteq Id
  /\ raced \subseteq Store \cup {"audit"}
  /\ begun \in 0..MaxAppends /\ faults \in 0..MaxFaults
  /\ writer \in [Writer ->
       [store : Store,
        pc : {"idle", "numbered", "copied", "synced", "stored", "opened", "read", "written"},
        event : [id : Id \cup {0}, seq : Nat, prev : Id \cup {0}],
        base : Seq(Event), lines : Seq(Id \cup {Torn}),
        open : {"nothing", "temp", "audit"}]]

(* The chain of a store verifies as long as no two writers work on it at  *)
(* once, whatever crashes and errors come between the two reads, the       *)
(* temporary file and the replacement, and whatever the writers of the     *)
(* other store do to the audit log they share.                             *)
ChainVerifies == \A s \in Store \ raced : Chained(log[s])

(* An append that returned has its event in the store, for good: no later  *)
(* append, failed or not, takes it away, unless two worked on the store.   *)
ReturnedIsStored ==
  \A i \in returned : raced \cap Store # {} \/ i \in Stored

(* While one process appends at a time, to whichever store, the audit log  *)
(* tells of stored events only, each once, in the order they were stored.  *)
AuditFollowsStore ==
  /\ Audited \subseteq Stored
  /\ \A i, j \in DOMAIN audit : i < j => audit[i] < audit[j]

(* It misses no more events than there were faults, and none whose append  *)
(* returned.                                                               *)
AuditMissesOnlyFaults ==
  /\ returned \subseteq Audited
  /\ Cardinality(Stored \ (Audited \cup Busy)) <= faults

(* The audit log and the stores agree while one process appends at a time, *)
(* so that "entries are never rewritten or deleted" (append_audit).        *)
AuditAgrees == raced = {} => AuditFollowsStore /\ AuditMissesOnlyFaults

(* Until something crashes or fails, the directory the writers leave       *)
(* behind when all of them are done is one the creator's preflight         *)
(* accepts, races and all.                                                 *)
AcceptedAtRest ==
  (faults = 0 /\ \A w \in Writer : At(w, "idle")) => DirectoryAccepted

Extends(old, new) == Len(old) <= Len(new) /\ SubSeq(new, 1, Len(old)) = old

(* "lines are never rewritten" (append_event), of a store one writer at a  *)
(* time works on.                                                          *)
StoreNeverRewritten ==
  [][\A s \in Store \ raced' : Extends(log[s], log'[s])]_vars

=============================================================================
