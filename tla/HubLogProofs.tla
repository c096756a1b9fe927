----------------------------- MODULE HubLogProofs -----------------------------
(***************************************************************************)
(* Proofs about the append protocol of the hub's files, for any number of  *)
(* writers, appends and faults.  A store that two writers have worked on   *)
(* at once promises nothing, so each fact below about a store is one about *)
(* the stores not in raced; the audit log and its one temporary name may   *)
(* be raced all the while.                                                 *)
(***************************************************************************)
EXTENDS HubLog, TLAPS, FiniteSetTheorems

Line == Id \cup {Torn}

BeforeReplace == {"numbered", "copied", "synced"}
AfterReplace == {"stored", "opened", "read", "written"}

(* Two who are at work on one store are two too many.                      *)
Alone ==
  \A v, w \in Writer :
     v # w /\ ~At(v, "idle") /\ ~At(w, "idle") /\ writer[v].store = writer[w].store
       => writer[v].store \in raced

(* An append under way has its number.                                     *)
HasId == \A w \in Writer : ~At(w, "idle") => The(w).id \in Id

(* The event still fits the end of the store it was read from.             *)
EventFits ==
  \A w \in Writer :
     writer[w].pc \in BeforeReplace /\ writer[w].store \notin raced
       => The(w).seq = Len(LogOf(w)) + 1 /\ The(w).prev = LastId(LogOf(w))

(* What was copied is what the store holds.                                *)
CopyIsCurrent ==
  \A w \in Writer :
     writer[w].pc \in {"copied", "synced"} /\ writer[w].store \notin raced
       => writer[w].base = LogOf(w)

(* What is told to the audit log is in the store.                          *)
EventIsThere ==
  \A w \in Writer :
     writer[w].pc \in AfterReplace /\ writer[w].store \notin raced
       => The(w).id \in IdsOf(LogOf(w))

(* Whoever has the temporary file open by its name has a file there.       *)
TempIsThere ==
  (\E w \in Writer : writer[w].open = "temp") => auditTemp \in Seq(Line)

IInv ==
  /\ TypeOK /\ Alone /\ HasId /\ EventFits /\ CopyIsCurrent /\ EventIsThere
  /\ TempIsThere /\ ChainVerifies /\ ReturnedIsStored

Local ==
  [store : Store,
   pc : {"idle", "numbered", "copied", "synced", "stored", "opened", "read", "written"},
   event : [id : Id \cup {0}, seq : Nat, prev : Id \cup {0}],
   base : Seq(Event), lines : Seq(Line), open : {"nothing", "temp", "audit"}]

-----------------------------------------------------------------------------
(* What the end of a store says about the event that is put behind it.     *)
LEMMA LastIdType ==
  ASSUME NEW events \in Seq(Event)
  PROVE  LastId(events) \in Id \cup {0}
<1>1. CASE events = <<>>
  BY <1>1 DEF LastId
<1>2. CASE events # <<>>
  <2>1. Len(events) \in DOMAIN events
    BY <1>2
  <2>2. events[Len(events)] \in Event
    BY <2>1
  <2> QED
    BY <1>2, <2>2 DEF LastId, Event
<1> QED
  BY <1>1, <1>2

(* A chain grows by an event with the next number and the last hash.       *)
LEMMA ChainGrows ==
  ASSUME NEW events \in Seq(Event), NEW e \in Event, Chained(events),
         e.seq = Len(events) + 1, e.prev = LastId(events)
  PROVE  Chained(Append(events, e))
<1> DEFINE new == Append(events, e)
<1>1. DOMAIN new = 1..Len(events) + 1 /\ new[Len(events) + 1] = e
  OBVIOUS
<1>2. \A i \in 1..Len(events) : new[i] = events[i]
  OBVIOUS
<1>3. DOMAIN events = 1..Len(events)
  OBVIOUS
<1>4. ASSUME NEW i \in 1..Len(events)
      PROVE  new[i].seq = i /\ new[i].prev = IF i = 1 THEN 0 ELSE new[i - 1].id
  BY <1>2, <1>3, <1>4 DEF Chained
<1>5. e.prev = IF Len(events) + 1 = 1 THEN 0 ELSE new[Len(events)].id
  <2>1. CASE events = <<>>
    BY <2>1 DEF LastId
  <2>2. CASE events # <<>>
    BY <1>2, <2>2 DEF LastId
  <2> QED
    BY <2>1, <2>2
<1> HIDE DEF new
<1>6. ASSUME NEW i \in 1..Len(events) + 1
      PROVE  new[i].seq = i /\ new[i].prev = IF i = 1 THEN 0 ELSE new[i - 1].id
  <2>1. CASE i = Len(events) + 1
    BY <1>1, <1>5, <2>1
  <2>2. CASE i \in 1..Len(events)
    BY <1>4, <2>2
  <2> QED
    BY <2>1, <2>2
<1> QED
  BY <1>1, <1>6 DEF Chained, new

(* Its events are those it had and the new one.                            *)
LEMMA IdsGrow ==
  ASSUME NEW events \in Seq(Event), NEW e \in Event
  PROVE  IdsOf(Append(events, e)) = IdsOf(events) \cup {e.id}
<1> DEFINE new == Append(events, e)
<1>1. DOMAIN new = DOMAIN events \cup {Len(events) + 1}
  OBVIOUS
<1>2. new[Len(events) + 1] = e /\ \A i \in DOMAIN events : new[i] = events[i]
  OBVIOUS
<1> HIDE DEF new
<1> QED
  BY <1>1, <1>2 DEF IdsOf, new

(* Writing over the beginning of a file leaves lines.                      *)
LEMMA OverwrittenType ==
  ASSUME NEW old \in Seq(Line), NEW new \in Seq(Line)
  PROVE  Overwritten(old, new) \subseteq Seq(Line)
<1>1. ASSUME Len(old) >= Len(new)
      PROVE  SubSeq(old, Len(new) + 1, Len(old)) \in Seq(Line)
  BY <1>1
<1>2. <<Torn>> \in Seq(Line)
  BY DEF Line
<1>3. CASE Len(old) < Len(new) \/ old = new
  BY <1>3 DEF Overwritten
<1>4. CASE Len(old) >= Len(new) /\ old # new
  <2> DEFINE rest == SubSeq(old, Len(new) + 1, Len(old))
  <2>1. rest \in Seq(Line)
    BY <1>1, <1>4
  <2>2. ~(Len(old) < Len(new))
    BY <1>4
  <2>3. Overwritten(old, new) = {new \o rest, new \o <<Torn>> \o rest}
    BY <1>4, <2>2 DEF Overwritten
  <2> HIDE DEF rest
  <2>4. new \o rest \in Seq(Line) /\ new \o <<Torn>> \in Seq(Line)
    BY <1>2, <2>1
  <2>5. (new \o <<Torn>>) \o rest \in Seq(Line)
    BY <2>1, <2>4
  <2> QED
    BY <2>3, <2>4, <2>5
<1> QED
  BY <1>3, <1>4

(* A writer at rest has the type of a writer.                              *)
LEMMA IdleType == Idle \in Local
<1>1. "run_records" \in Store
  BY DEF Store
<1> QED
  BY <1>1 DEF Idle, Local

(* What a process does next, or nothing.                                   *)
LEMMA FieldTypes ==
  ASSUME writer \in [Writer -> Local], NEW w \in Writer
  PROVE  /\ \A p \in {"numbered", "copied", "synced", "stored", "opened", "read", "written"} :
               [writer EXCEPT ![w].pc = p] \in [Writer -> Local]
         /\ [writer EXCEPT ![w] = Idle] \in [Writer -> Local]
<1>1. writer[w] \in Local
  OBVIOUS
<1>2. \A p \in {"numbered", "copied", "synced", "stored", "opened", "read", "written"} :
        [writer[w] EXCEPT !.pc = p] \in Local
  BY <1>1 DEF Local
<1> QED
  BY <1>1, <1>2, IdleType

(* What the steps of an append put into the locals of its writer keeps     *)
(* their type.                                                             *)
LEMMA StepTypes ==
  ASSUME writer \in [Writer -> Local], NEW w \in Writer
  PROVE  /\ \A s \in Store : \A e \in [id : Id \cup {0}, seq : Nat, prev : Id \cup {0}] :
              [writer EXCEPT ![w].pc = "numbered", ![w].store = s, ![w].event = e]
                \in [Writer -> Local]
         /\ \A b \in Seq(Event) :
              [writer EXCEPT ![w].pc = "copied", ![w].base = b] \in [Writer -> Local]
         /\ [writer EXCEPT ![w].pc = "opened", ![w].open = "temp"] \in [Writer -> Local]
         /\ \A l \in Seq(Line) :
              [writer EXCEPT ![w].pc = "read", ![w].lines = l] \in [Writer -> Local]
         /\ \A v \in Writer : [writer[v] EXCEPT !.open = Renamed(writer[v].open)] \in Local
<1>1. \A v \in Writer : writer[v] \in Local
  OBVIOUS
<1>2. ASSUME NEW s \in Store, NEW e \in [id : Id \cup {0}, seq : Nat, prev : Id \cup {0}]
      PROVE  [writer EXCEPT ![w].pc = "numbered", ![w].store = s, ![w].event = e]
               \in [Writer -> Local]
  <2>1. [writer[w] EXCEPT !.pc = "numbered", !.store = s, !.event = e] \in Local
    BY <1>1, <1>2 DEF Local
  <2> QED
    BY <2>1
<1>3. ASSUME NEW b \in Seq(Event)
      PROVE  [writer EXCEPT ![w].pc = "copied", ![w].base = b] \in [Writer -> Local]
  <2>1. [writer[w] EXCEPT !.pc = "copied", !.base = b] \in Local
    BY <1>1, <1>3 DEF Local
  <2> QED
    BY <2>1
<1>4. [writer EXCEPT ![w].pc = "opened", ![w].open = "temp"] \in [Writer -> Local]
  <2>1. [writer[w] EXCEPT !.pc = "opened", !.open = "temp"] \in Local
    BY <1>1 DEF Local
  <2> QED
    BY <2>1
<1>5. ASSUME NEW l \in Seq(Line)
      PROVE  [writer EXCEPT ![w].pc = "read", ![w].lines = l] \in [Writer -> Local]
  <2>1. [writer[w] EXCEPT !.pc = "read", !.lines = l] \in Local
    BY <1>1, <1>5 DEF Local
  <2> QED
    BY <2>1
<1>6. ASSUME NEW v \in Writer
      PROVE  [writer[v] EXCEPT !.open = Renamed(writer[v].open)] \in Local
  <2>1. Renamed(writer[v].open) \in {"nothing", "temp", "audit"}
    BY DEF Renamed
  <2> HIDE DEF Renamed
  <2> QED
    BY <1>1, <2>1 DEF Local
<1> QED
  BY <1>2, <1>3, <1>4, <1>5, <1>6

-----------------------------------------------------------------------------
(* The invariant holds of the empty stores.                                *)
LEMMA InitInv == Init => IInv
<1> SUFFICES ASSUME Init PROVE IInv
  OBVIOUS
<1>2. TypeOK
  BY IdleType, BoundsAssumption DEF Init, TypeOK, Local, Line
<1>3. \A w \in Writer : writer[w].pc = "idle" /\ writer[w].open = "nothing"
  BY DEF Init, Idle
<1>4. ChainVerifies /\ ReturnedIsStored
  BY DEF Init, ChainVerifies, Chained, ReturnedIsStored
<1> QED
  BY <1>2, <1>3, <1>4
     DEF IInv, Alone, HasId, EventFits, CopyIsCurrent, EventIsThere, TempIsThere, At,
         BeforeReplace, AfterReplace

-----------------------------------------------------------------------------
(* The type invariant, with names for the sets the proofs speak of.        *)
LEMMA Types ==
  ASSUME TypeOK
  PROVE  /\ log \in [Store -> Seq(Event)] /\ writer \in [Writer -> Local]
         /\ audit \in Seq(Line) /\ (auditTemp = Absent \/ auditTemp \in Seq(Line))
         /\ \A w \in Writer : writer[w].store \in Store /\ LogOf(w) \in Seq(Event)
         /\ \A w \in Writer : writer[w].base \in Seq(Event) /\ writer[w].lines \in Seq(Line)
<1>1. writer \in [Writer -> Local] /\ log \in [Store -> Seq(Event)]
  BY DEF TypeOK, Local, Line
<1>2. \A w \in Writer : writer[w].store \in Store /\ writer[w].base \in Seq(Event)
                          /\ writer[w].lines \in Seq(Line)
  BY <1>1 DEF Local
<1> QED
  BY <1>1, <1>2 DEF TypeOK, Line, LogOf

(* The event of an append under way is an event.                           *)
LEMMA TheEvent ==
  ASSUME IInv, NEW w \in Writer, ~At(w, "idle")
  PROVE  The(w) \in Event
<1>1. writer[w] \in Local
  BY Types DEF IInv
<1>2. The(w) \in [id : Id \cup {0}, seq : Nat, prev : Id \cup {0}] /\ The(w).id \in Id
  BY <1>1 DEF Local, The, IInv, HasId
<1> QED
  BY <1>2 DEF Event

(* The steps on the store keep the types (run_record.py 207-270).          *)
LEMMA StoreTypes ==
  ASSUME IInv, NEW w \in Writer,
         (\E s \in Store : Begin(w, s)) \/ Copy(w) \/ WriteTemp(w) \/ ReplaceStore(w)
  PROVE  TypeOK'
<1> USE Types DEF IInv
<1>1. ASSUME NEW s \in Store, Begin(w, s)
      PROVE  TypeOK'
  <2>1. begun + 1 \in Id /\ begun + 1 \in 0..MaxAppends /\ Len(log[s]) + 1 \in Nat
    <3>1. begun \in 0..MaxAppends /\ begun < MaxAppends /\ MaxAppends \in Nat
      <4>1. begun \in 0..MaxAppends
        BY DEF TypeOK
      <4> QED
        BY <1>1, <4>1, BoundsAssumption DEF Begin
    <3>2. Len(log[s]) \in Nat
      OBVIOUS
    <3> QED
      BY <3>1, <3>2 DEF Id
  <2>2. LastId(log[s]) \in Id \cup {0}
    BY LastIdType
  <2> DEFINE e == [id |-> begun + 1, seq |-> Len(log[s]) + 1, prev |-> LastId(log[s])]
  <2>3. e \in [id : Id \cup {0}, seq : Nat, prev : Id \cup {0}]
    BY <2>1, <2>2
  <2>4. writer' = [writer EXCEPT ![w].pc = "numbered", ![w].store = s, ![w].event = e]
    BY <1>1 DEF Begin
  <2> HIDE DEF e
  <2>5. writer' \in [Writer -> Local]
    BY <2>3, <2>4, StepTypes
  <2>6. raced' \subseteq Store \cup {"audit"}
    BY <1>1 DEF Begin, TypeOK, BusyBeside
  <2> QED
    BY <1>1, <2>1, <2>5, <2>6 DEF Begin, TypeOK, Local, Line
<1>2. CASE Copy(w)
  <2>1. writer' \in [Writer -> Local]
    BY <1>2, StepTypes DEF Copy
  <2> QED
    BY <1>2, <2>1 DEF Copy, TypeOK, Local, Line
<1>3. CASE WriteTemp(w)
  <2>1. writer' \in [Writer -> Local] /\ The(w).id \in Id
    BY <1>3, FieldTypes DEF WriteTemp, HasId, At
  <2> QED
    BY <1>3, <2>1 DEF WriteTemp, TypeOK, Local, Line
<1>4. CASE ReplaceStore(w)
  <2>1. writer' \in [Writer -> Local]
    BY <1>4, FieldTypes DEF ReplaceStore
  <2>2. The(w) \in Event
    BY <1>4, TheEvent DEF ReplaceStore, At
  <2>3. NewContent(w) \in Seq(Event)
    BY <2>2 DEF NewContent
  <2>4. log' \in [Store -> Seq(Event)]
    BY <1>4, <2>3 DEF ReplaceStore
  <2> QED
    BY <1>4, <2>1, <2>4 DEF ReplaceStore, TypeOK, Local, Line
<1> QED
  BY <1>1, <1>2, <1>3, <1>4

(* The steps on the audit log keep the types (audit.py append_audit).      *)
LEMMA AuditTypes ==
  ASSUME IInv, NEW w \in Writer,
         OpenAudit(w) \/ ReadAudit(w) \/ WriteAudit(w) \/ ReplaceAudit(w) \/ ReplaceAuditMissing(w)
  PROVE  TypeOK'
<1> USE Types, FieldTypes DEF IInv
<1>1. CASE OpenAudit(w)
  <2>1. writer' \in [Writer -> Local]
    BY <1>1, StepTypes DEF OpenAudit
  <2>2. auditTemp' \in Seq(Line)
    BY <1>1 DEF OpenAudit
  <2> QED
    BY <1>1, <2>1, <2>2 DEF OpenAudit, TypeOK, Local, Line
<1>2. CASE ReadAudit(w)
  <2>1. writer' \in [Writer -> Local]
    BY <1>2, StepTypes DEF ReadAudit
  <2> QED
    BY <1>2, <2>1 DEF ReadAudit, TypeOK, Local, Line
<1>3. CASE WriteAudit(w)
  <2>1. writer' \in [Writer -> Local]
    BY <1>3 DEF WriteAudit
  <2>2. AllEntries(w) \in Seq(Line)
    <3>1. The(w).id \in Line
      BY <1>3 DEF WriteAudit, HasId, At, Line
    <3> QED
      BY <3>1 DEF AllEntries
  <2>3. writer[w].open = "temp" => auditTemp \in Seq(Line)
    BY DEF TempIsThere
  <2>4. audit' \in Seq(Line) /\ (auditTemp' = Absent \/ auditTemp' \in Seq(Line))
    BY <1>3, <2>2, <2>3, OverwrittenType DEF WriteAudit
  <2> QED
    BY <1>3, <2>1, <2>4 DEF WriteAudit, TypeOK, Local, Line
<1>4. CASE ReplaceAudit(w)
  <2>2. writer' \in [Writer -> Local]
    BY <1>4, StepTypes, IdleType DEF ReplaceAudit
  <2>3. The(w).id \in Id
    BY <1>4 DEF ReplaceAudit, HasId, At
  <2>4. audit' \in Seq(Line) /\ auditTemp' = Absent
    BY <1>4 DEF ReplaceAudit
  <2> QED
    BY <1>4, <2>2, <2>3, <2>4 DEF ReplaceAudit, TypeOK, Local, Line
<1>5. CASE ReplaceAuditMissing(w)
  <2>1. writer' \in [Writer -> Local]
    BY <1>5 DEF ReplaceAuditMissing
  <2> QED
    BY <1>5, <2>1 DEF ReplaceAuditMissing, TypeOK, Local, Line
<1> QED
  BY <1>1, <1>2, <1>3, <1>4, <1>5

(* An error or a crash keeps the types, wherever it falls.                 *)
LEMMA FaultTypes ==
  ASSUME IInv, NEW w \in Writer, StoreFails(w) \/ AuditFails(w) \/ Crash(w)
  PROVE  TypeOK'
<1>1. writer' = [writer EXCEPT ![w] = Idle]
  BY DEF StoreFails, AuditFails, Crash
<1>2. writer' \in [Writer -> Local]
  BY <1>1, Types, FieldTypes DEF IInv
<1>3. faults' \in 0..MaxFaults
  BY BoundsAssumption DEF StoreFails, AuditFails, Crash, Fault, IInv, TypeOK
<1>4. temps' \subseteq Id
  BY DEF StoreFails, AuditFails, Crash, IInv, TypeOK
<1>5. UNCHANGED <<log, audit, auditTemp, begun, returned, raced>>
  BY DEF StoreFails, AuditFails, Crash
<1> QED
  BY <1>2, <1>3, <1>4, <1>5 DEF IInv, TypeOK, Local, Line

-----------------------------------------------------------------------------
(* What the invariant says of the writers and of the stores.               *)
Protocol ==
  Alone /\ HasId /\ EventFits /\ CopyIsCurrent /\ EventIsThere /\ ChainVerifies

Same(v) ==
  /\ writer'[v].pc = writer[v].pc /\ writer'[v].store = writer[v].store
  /\ writer'[v].event = writer[v].event /\ writer'[v].base = writer[v].base

(* A process that stops disturbs nobody.                                   *)
LEMMA WriterStops ==
  ASSUME Protocol, NEW w \in Writer, writer'[w] = Idle,
         \A v \in Writer \ {w} : Same(v), UNCHANGED <<log, raced>>
  PROVE  Protocol'
<1>1. \A v \in Writer : writer'[v].pc # "idle" => v # w
  BY DEF Idle
<1> QED
  BY <1>1 DEF Protocol, Alone, HasId, EventFits, CopyIsCurrent, EventIsThere, ChainVerifies,
              Same, At, The, LogOf, BeforeReplace, AfterReplace

(* A process that goes on with the same event, the stores left alone.      *)
LEMMA WriterMoves ==
  ASSUME Protocol, NEW w \in Writer, ~At(w, "idle"), writer'[w].pc # "idle",
         writer'[w].store = writer[w].store, writer'[w].event = writer[w].event,
         writer'[w].pc \in BeforeReplace => writer[w].pc \in BeforeReplace,
         writer'[w].pc \in AfterReplace => writer[w].pc \in AfterReplace,
         writer'[w].pc \in {"copied", "synced"} =>
           \/ writer'[w].base = LogOf(w)
           \/ writer[w].pc \in {"copied", "synced"} /\ writer'[w].base = writer[w].base,
         \A v \in Writer \ {w} : Same(v), UNCHANGED <<log, raced>>
  PROVE  Protocol'
<1>1. Alone' /\ HasId' /\ ChainVerifies'
  BY DEF Protocol, Alone, HasId, ChainVerifies, Same, At, The
<1>2. EventFits' /\ EventIsThere'
  BY SMTT(30) DEF Protocol, EventFits, EventIsThere, Same, The, LogOf
<1>3. CopyIsCurrent'
  BY DEF Protocol, CopyIsCurrent, Same, LogOf
<1> QED
  BY <1>1, <1>2, <1>3 DEF Protocol

(* An append that begins alone numbers its event for the end of its store; *)
(* one that does not puts the store among the raced.                       *)
LEMMA BeginProtocol ==
  ASSUME IInv, Protocol, NEW w \in Writer, NEW s \in Store, Begin(w, s)
  PROVE  Protocol'
<1>1. /\ writer'[w].pc = "numbered" /\ writer'[w].store = s
      /\ writer'[w].event = [id |-> begun + 1, seq |-> Len(log[s]) + 1, prev |-> LastId(log[s])]
      /\ \A v \in Writer \ {w} : Same(v)
  <2>1. writer \in [Writer -> Local]
    BY Types DEF IInv
  <2> QED
    BY <2>1 DEF Begin, Local, Same
<1>2. log' = log /\ raced \subseteq raced'
  BY DEF Begin
<1>3. ASSUME NEW v \in Writer \ {w}, ~At(v, "idle"), writer[v].store = s
      PROVE  s \in raced'
  BY <1>3 DEF Begin, BusyBeside
<1>4. begun + 1 \in Id
  <2>1. begun \in 0..MaxAppends
    BY DEF IInv, TypeOK
  <2> QED
    BY <2>1, BoundsAssumption DEF Begin, Id
<1>5. Alone' /\ HasId' /\ ChainVerifies'
  BY <1>1, <1>2, <1>3, <1>4 DEF Protocol, Alone, HasId, ChainVerifies, Same, At, The
<1>6. EventFits' /\ EventIsThere'
  BY <1>1, <1>2 DEF Protocol, EventFits, EventIsThere, Same, The, LogOf, AfterReplace
<1>7. CopyIsCurrent'
  BY <1>1, <1>2 DEF Protocol, CopyIsCurrent, Same, LogOf
<1> QED
  BY <1>5, <1>6, <1>7 DEF Protocol

(* The store of an undisturbed writer grows by its event.                  *)
LEMMA StoreGrows ==
  ASSUME IInv, NEW w \in Writer, ReplaceStore(w), writer[w].store \notin raced
  PROVE  /\ The(w) \in Event /\ LogOf(w) \in Seq(Event)
         /\ log'[writer[w].store] = Append(LogOf(w), The(w))
         /\ \A s \in Store \ {writer[w].store} : log'[s] = log[s]
<1>1. writer[w].base = LogOf(w)
  BY DEF IInv, CopyIsCurrent, ReplaceStore, At
<1>2. log \in [Store -> Seq(Event)] /\ writer[w].store \in Store /\ LogOf(w) \in Seq(Event)
  BY Types DEF IInv
<1>3. The(w) \in Event
  BY TheEvent DEF ReplaceStore, At
<1>4. log' = [log EXCEPT ![writer[w].store] = Append(LogOf(w), The(w))]
  BY <1>1 DEF ReplaceStore, NewContent
<1> QED
  BY <1>2, <1>3, <1>4

(* The one writer that replaces a store adds its event to what was in it.  *)
LEMMA ReplaceProtocol ==
  ASSUME IInv, Protocol, NEW w \in Writer, ReplaceStore(w)
  PROVE  Protocol'
<1> DEFINE mine == writer[w].store
<1>1. /\ writer'[w].pc = "stored" /\ writer'[w].store = mine
      /\ writer'[w].event = The(w) /\ writer[w].pc = "synced"
      /\ \A v \in Writer \ {w} : Same(v)
  <2>1. writer \in [Writer -> Local]
    BY Types DEF IInv
  <2> QED
    BY <2>1 DEF ReplaceStore, Local, Same, At, The
<1>2. mine \in Store /\ raced' = raced /\ log \in [Store -> Seq(Event)]
  BY Types DEF ReplaceStore, IInv
<1>3. \A s \in Store \ {mine} : log'[s] = log[s]
  BY <1>2 DEF ReplaceStore
<1>4. \A v \in Writer \ {w} : ~At(v, "idle") /\ writer[v].store = mine => mine \in raced
  BY <1>1 DEF Protocol, Alone, At
<1>5. \A v \in Writer : writer[v].store \in Store
  BY Types DEF IInv
<1>6. ASSUME NEW v \in Writer \ {w}, ~At(v, "idle"), writer[v].store \notin raced
      PROVE  log'[writer[v].store] = log[writer[v].store]
  BY <1>3, <1>4, <1>5, <1>6
<1>7. Alone' /\ HasId'
  BY <1>1, <1>2 DEF Protocol, Alone, HasId, Same, At, The
<1>8. EventFits' /\ CopyIsCurrent'
  <2> SUFFICES ASSUME NEW v \in Writer, writer'[v].store \notin raced',
                      writer'[v].pc \in BeforeReplace
               PROVE  /\ The(v)'.seq = Len(LogOf(v)') + 1 /\ The(v)'.prev = LastId(LogOf(v)')
                      /\ writer'[v].pc \in {"copied", "synced"} => writer'[v].base = LogOf(v)'
    BY DEF EventFits, CopyIsCurrent, BeforeReplace
  <2>1. v # w /\ Same(v) /\ ~At(v, "idle")
    BY <1>1 DEF BeforeReplace, Same, At
  <2>2. LogOf(v)' = LogOf(v)
    BY <1>2, <1>6, <2>1 DEF Same, LogOf
  <2>3. The(v)' = The(v)
    BY <2>1 DEF Same, The
  <2> QED
    BY <1>2, <2>1, <2>2, <2>3 DEF Protocol, EventFits, CopyIsCurrent, Same
<1>9. EventIsThere'
  <2>1. ASSUME mine \notin raced PROVE The(w).id \in IdsOf(log'[mine])
    <3>1. /\ The(w) \in Event /\ LogOf(w) \in Seq(Event)
          /\ log'[mine] = Append(LogOf(w), The(w))
      BY <2>1, StoreGrows
    <3>2. IdsOf(Append(LogOf(w), The(w))) = IdsOf(LogOf(w)) \cup {The(w).id}
      BY <3>1, IdsGrow
    <3> QED
      BY <3>1, <3>2
  <2> QED
    BY <1>1, <1>2, <1>6, <2>1 DEF Protocol, EventIsThere, Same, The, LogOf, At, AfterReplace
<1>10. ChainVerifies'
  <2>1. mine \notin raced => Chained(log'[mine])
    <3> SUFFICES ASSUME mine \notin raced PROVE Chained(log'[mine])
      OBVIOUS
    <3>1. Chained(LogOf(w))
      BY <1>2 DEF Protocol, ChainVerifies, LogOf
    <3>2. The(w).seq = Len(LogOf(w)) + 1 /\ The(w).prev = LastId(LogOf(w))
      BY <1>1 DEF Protocol, EventFits, BeforeReplace
    <3> QED
      BY <3>1, <3>2, StoreGrows, ChainGrows
  <2> QED
    BY <1>2, <1>3, <2>1 DEF Protocol, ChainVerifies
<1> QED
  BY <1>7, <1>8, <1>9, <1>10 DEF Protocol

(* Every step of an append keeps the protocol of the stores that were not  *)
(* raced.                                                                  *)
LEMMA ProtocolStep ==
  ASSUME IInv, NEW w \in Writer, Append1(w) \/ StoreFails(w) \/ AuditFails(w) \/ Crash(w)
  PROVE  Protocol'
<1>1. Protocol
  BY DEF IInv, Protocol
<1>2. writer \in [Writer -> Local]
  BY Types DEF IInv
<1>3. CASE Copy(w) \/ WriteTemp(w) \/ OpenAudit(w) \/ ReadAudit(w) \/ WriteAudit(w)
  <2>1. /\ ~At(w, "idle") /\ writer'[w].pc # "idle"
        /\ writer'[w].store = writer[w].store /\ writer'[w].event = writer[w].event
        /\ \A v \in Writer \ {w} : Same(v)
        /\ UNCHANGED <<log, raced>>
    BY <1>2, <1>3 DEF Copy, WriteTemp, OpenAudit, ReadAudit, WriteAudit, MayAudit, At, Local, Same
  <2>2. /\ writer'[w].pc \in BeforeReplace => writer[w].pc \in BeforeReplace
        /\ writer'[w].pc \in AfterReplace => writer[w].pc \in AfterReplace
        /\ writer'[w].pc \in {"copied", "synced"} =>
             \/ writer'[w].base = LogOf(w)
             \/ writer[w].pc \in {"copied", "synced"} /\ writer'[w].base = writer[w].base
    BY <1>2, <1>3
       DEF Copy, WriteTemp, OpenAudit, ReadAudit, WriteAudit, MayAudit, At, Local,
           BeforeReplace, AfterReplace
  <2> QED
    BY <1>1, <2>1, <2>2, WriterMoves
<1>4. CASE ReplaceAudit(w) \/ ReplaceAuditMissing(w) \/ StoreFails(w) \/ AuditFails(w) \/ Crash(w)
  <2>1. writer'[w] = Idle /\ (\A v \in Writer \ {w} : Same(v)) /\ UNCHANGED <<log, raced>>
    <3>1. CASE ReplaceAudit(w)
      BY <1>2, <3>1 DEF ReplaceAudit, Same, Local
    <3>2. CASE ReplaceAuditMissing(w) \/ StoreFails(w) \/ AuditFails(w) \/ Crash(w)
      BY <1>2, <3>2 DEF ReplaceAuditMissing, StoreFails, AuditFails, Crash, Same
    <3> QED
      BY <1>4, <3>1, <3>2
  <2> QED
    BY <1>1, <2>1, WriterStops
<1> QED
  BY <1>1, <1>3, <1>4, BeginProtocol, ReplaceProtocol DEF Append1

(* The temporary name leads to a file as long as somebody has it open.     *)
LEMMA TempStep ==
  ASSUME IInv, NEW w \in Writer, Append1(w) \/ StoreFails(w) \/ AuditFails(w) \/ Crash(w)
  PROVE  TempIsThere'
<1>1. writer \in [Writer -> Local]
  BY Types DEF IInv
<1>2. CASE OpenAudit(w)
  BY <1>2 DEF OpenAudit, TempIsThere
<1>3. CASE WriteAudit(w)
  <2>1. AllEntries(w) \in Seq(Line)
    <3>1. The(w).id \in Line
      BY <1>3 DEF WriteAudit, IInv, HasId, At, Line
    <3> QED
      BY <3>1, Types DEF AllEntries, IInv
  <2>2. \A v \in Writer : writer'[v].open = writer[v].open
    BY <1>1, <1>3 DEF WriteAudit, Local
  <2>3. (\E v \in Writer : writer[v].open = "temp") => auditTemp' \in Seq(Line)
    <3>1. auditTemp \in Seq(Line) => Overwritten(auditTemp, AllEntries(w)) \subseteq Seq(Line)
      BY <2>1, OverwrittenType
    <3>2. auditTemp' = auditTemp \/ auditTemp' \in Overwritten(auditTemp, AllEntries(w))
      BY <1>3 DEF WriteAudit
    <3> QED
      BY <3>1, <3>2 DEF IInv, TempIsThere
  <2> QED
    BY <2>2, <2>3 DEF TempIsThere
<1>4. CASE ReplaceAudit(w)
  BY <1>1, <1>4 DEF ReplaceAudit, Renamed, Idle, TempIsThere, Local
<1>5. CASE \/ \E s \in Store : Begin(w, s)
           \/ Copy(w) \/ WriteTemp(w) \/ ReplaceStore(w) \/ ReadAudit(w)
  <2>1. auditTemp' = auditTemp
    BY <1>5 DEF Begin, Copy, WriteTemp, ReplaceStore, ReadAudit
  <2>2. CASE \E s \in Store : Begin(w, s)
    BY <1>1, <2>1, <2>2 DEF Begin, Local, IInv, TempIsThere
  <2>3. CASE Copy(w) \/ WriteTemp(w) \/ ReplaceStore(w) \/ ReadAudit(w)
    <3>1. \A v \in Writer : writer'[v].open = "temp" => writer[v].open = "temp"
      <4>1. CASE Copy(w)
        BY <1>1, <4>1 DEF Copy, Local
      <4>2. CASE WriteTemp(w)
        BY <1>1, <4>2 DEF WriteTemp, Local
      <4>3. CASE ReplaceStore(w)
        BY <1>1, <4>3 DEF ReplaceStore, Local
      <4>4. CASE ReadAudit(w)
        BY <1>1, <4>4 DEF ReadAudit, Local
      <4> QED
        BY <2>3, <4>1, <4>2, <4>3, <4>4
    <3> QED
      BY <2>1, <3>1 DEF IInv, TempIsThere
  <2> QED
    BY <1>5, <2>2, <2>3
<1>6. CASE ReplaceAuditMissing(w) \/ StoreFails(w) \/ AuditFails(w) \/ Crash(w)
  <2>1. auditTemp' = auditTemp /\ writer' = [writer EXCEPT ![w] = Idle]
    BY <1>6 DEF ReplaceAuditMissing, StoreFails, AuditFails, Crash
  <2> QED
    BY <1>1, <2>1 DEF IInv, TempIsThere, Idle
<1> QED
  BY <1>2, <1>3, <1>4, <1>5, <1>6 DEF Append1

(* What has returned stays in the stores.                                  *)
LEMMA ReturnedStep ==
  ASSUME IInv, NEW w \in Writer, Append1(w) \/ StoreFails(w) \/ AuditFails(w) \/ Crash(w)
  PROVE  ReturnedIsStored'
<1>1. raced \subseteq raced'
  BY DEF Append1, Begin, Copy, WriteTemp, ReplaceStore, OpenAudit, ReadAudit, WriteAudit,
         ReplaceAudit, ReplaceAuditMissing, StoreFails, AuditFails, Crash
<1>2. CASE ReplaceStore(w)
  <2> SUFFICES ASSUME NEW i \in returned, raced \cap Store = {}
               PROVE  \E s \in Store : i \in IdsOf(log'[s])
    BY <1>2 DEF ReplaceStore, ReturnedIsStored, Stored
  <2>1. PICK s \in Store : i \in IdsOf(log[s])
    BY DEF IInv, ReturnedIsStored, Stored
  <2>2. writer[w].store \in Store
    BY Types DEF IInv
  <2>3. writer[w].store \notin raced
    BY <2>2
  <2>4. /\ IdsOf(log'[writer[w].store]) = IdsOf(LogOf(w)) \cup {The(w).id}
        /\ s # writer[w].store => log'[s] = log[s]
    <3>1. /\ The(w) \in Event /\ LogOf(w) \in Seq(Event)
          /\ log'[writer[w].store] = Append(LogOf(w), The(w))
          /\ \A t \in Store \ {writer[w].store} : log'[t] = log[t]
      BY <1>2, <2>3, StoreGrows
    <3>2. IdsOf(Append(LogOf(w), The(w))) = IdsOf(LogOf(w)) \cup {The(w).id}
      BY <3>1, IdsGrow
    <3> QED
      BY <3>1, <3>2
  <2> QED
    BY <2>1, <2>2, <2>4 DEF LogOf
<1>3. CASE ReplaceAudit(w)
  <2>1. log' = log /\ raced' = raced /\ returned' = returned \cup {The(w).id}
    BY <1>3 DEF ReplaceAudit
  <2>2. raced \cap Store = {} => The(w).id \in Stored
    <3>1. writer[w].store \in Store /\ writer[w].pc \in AfterReplace
      BY <1>3, Types DEF IInv, ReplaceAudit, At, AfterReplace
    <3> QED
      BY <3>1 DEF IInv, EventIsThere, Stored, LogOf
  <2> QED
    BY <2>1, <2>2 DEF IInv, ReturnedIsStored, Stored
<1>4. CASE ~ReplaceStore(w) /\ ~ReplaceAudit(w)
  <2>1. UNCHANGED <<log, returned>>
    BY <1>4 DEF Append1, Begin, Copy, WriteTemp, OpenAudit, ReadAudit, WriteAudit,
                ReplaceAuditMissing, StoreFails, AuditFails, Crash
  <2> QED
    BY <1>1, <2>1 DEF IInv, ReturnedIsStored, Stored
<1> QED
  BY <1>2, <1>3, <1>4

(* The invariant is inductive.                                             *)
LEMMA InvStep == IInv /\ [Next]_vars => IInv'
<1> SUFFICES ASSUME IInv, [Next]_vars PROVE IInv'
  OBVIOUS
<1>1. CASE UNCHANGED vars
  <2>0. TypeOK'
    BY <1>1 DEF vars, IInv, TypeOK
  <2>1. TempIsThere' /\ ChainVerifies' /\ ReturnedIsStored'
    BY <1>1 DEF vars, IInv, TempIsThere, ChainVerifies, ReturnedIsStored, Stored
  <2>2. Alone' /\ HasId'
    BY <1>1 DEF vars, IInv, Alone, HasId, At, The
  <2>3. EventFits' /\ CopyIsCurrent' /\ EventIsThere'
    BY <1>1 DEF vars, IInv, EventFits, CopyIsCurrent, EventIsThere, The, LogOf
  <2> QED
    BY <2>0, <2>1, <2>2, <2>3 DEF IInv
<1>2. CASE Next
  <2>1. PICK w \in Writer : Append1(w) \/ StoreFails(w) \/ AuditFails(w) \/ Crash(w)
    BY <1>2 DEF Next
  <2>2. TypeOK'
    BY <2>1, StoreTypes, AuditTypes, FaultTypes DEF Append1
  <2> QED
    BY <2>1, <2>2, ProtocolStep, TempStep, ReturnedStep DEF IInv, Protocol
<1> QED
  BY <1>1, <1>2

(***************************************************************************)
(* However many processes append, and wherever they die, every variable    *)
(* keeps its type: no event without its number is written, and none under  *)
(* a number nobody was given.                                              *)
(***************************************************************************)
THEOREM TypeCorrect == Spec => []TypeOK
BY InitInv, InvStep, PTL DEF Spec, IInv

(***************************************************************************)
(* The chain of a store verifies until two processes work on that store at *)
(* once: neither crashes and errors between the two reads, the temporary   *)
(* file and the replacement, nor races on the other store or on the audit  *)
(* log can break it.                                                       *)
(***************************************************************************)
THEOREM ChainHolds == Spec => []ChainVerifies
BY InitInv, InvStep, PTL DEF Spec, IInv

(***************************************************************************)
(* An append that returned is never lost again, unless two processes       *)
(* worked on one store at once.                                            *)
(***************************************************************************)
THEOREM ReturnedHolds == Spec => []ReturnedIsStored
BY InitInv, InvStep, PTL DEF Spec, IInv

(***************************************************************************)
(* No line of a store is rewritten or taken away by one writer at a time.  *)
(***************************************************************************)
THEOREM NeverRewritten == Spec => StoreNeverRewritten
<1>1. ASSUME IInv, [Next]_vars, NEW s \in Store \ raced'
      PROVE  Extends(log[s], log'[s])
  <2>1. log[s] \in Seq(Event)
    BY <1>1, Types DEF IInv
  <2>2. CASE log'[s] = log[s]
    BY <2>1, <2>2 DEF Extends
  <2>3. ASSUME NEW w \in Writer, ReplaceStore(w), log'[s] # log[s]
        PROVE  Extends(log[s], log'[s])
    <3>1. s = writer[w].store /\ raced' = raced
      BY <1>1, <2>3, Types DEF ReplaceStore, IInv
    <3>2. log'[s] = Append(log[s], The(w)) /\ The(w) \in Event
      BY <1>1, <2>3, <3>1, StoreGrows DEF LogOf
    <3> QED
      BY <2>1, <3>2 DEF Extends
  <2>4. log' = log \/ \E w \in Writer : ReplaceStore(w)
    BY <1>1 DEF Next, vars, Append1, Begin, Copy, WriteTemp, OpenAudit, ReadAudit, WriteAudit,
                ReplaceAudit, ReplaceAuditMissing, StoreFails, AuditFails, Crash
  <2> QED
    BY <2>2, <2>3, <2>4
<1>2. IInv /\ [Next]_vars => [\A s \in Store \ raced' : Extends(log[s], log'[s])]_vars
  BY <1>1
<1> QED
  BY <1>2, InitInv, InvStep, PTL DEF Spec, StoreNeverRewritten

-----------------------------------------------------------------------------
(* The audit log, and the directory the writers leave behind.              *)

Step(w) == Append1(w) \/ StoreFails(w) \/ AuditFails(w) \/ Crash(w)
Faulty(w) == StoreFails(w) \/ AuditFails(w) \/ Crash(w)

Auditing == {"opened", "read", "written"}

(* Until the first fault every temporary file has a writer at work on it.  *)
TempsAreOwned ==
  faults = 0 =>
    /\ \A i \in temps : \E w \in Writer : At(w, "synced") /\ The(w).id = i
    /\ auditTemp # Absent => \E w \in Writer : writer[w].pc \in Auditing

(* Two who are at work share the audit log.                                *)
BusyAlone ==
  \A v, w \in Writer : v # w /\ ~At(v, "idle") /\ ~At(w, "idle") => "audit" \in raced

(* The append under way is the newest, and not in the audit log yet.       *)
NewestIsBusy ==
  raced = {} =>
    /\ \A i \in DOMAIN audit : audit[i] \in 1..begun
    /\ \A w \in Writer : ~At(w, "idle") => The(w).id = begun /\ begun \notin Audited

(* What a lone writer has read and written of the audit log.               *)
AuditInHand ==
  raced = {} =>
    \A w \in Writer :
      /\ At(w, "opened") \/ At(w, "read") => auditTemp = <<>> /\ writer[w].open = "temp"
      /\ At(w, "read") => writer[w].lines = audit
      /\ At(w, "written") => auditTemp = Append(audit, The(w).id)

(* What a step of w does to the writers.                                   *)
LEMMA WriterSteps ==
  ASSUME IInv, NEW w \in Writer, Step(w)
  PROVE  /\ \A v \in Writer \ {w} : Same(v)
         /\ \/ \E s \in Store : Begin(w, s) /\ At(w, "idle")
                  /\ writer'[w].pc = "numbered" /\ writer'[w].event.id = begun + 1
            \/ Copy(w) /\ At(w, "numbered") /\ writer'[w].pc = "copied"
            \/ WriteTemp(w) /\ At(w, "copied") /\ writer'[w].pc = "synced"
            \/ ReplaceStore(w) /\ At(w, "synced") /\ writer'[w].pc = "stored"
            \/ /\ OpenAudit(w) /\ At(w, "stored") /\ writer'[w].pc = "opened"
               /\ writer'[w].open = "temp"
            \/ /\ ReadAudit(w) /\ At(w, "opened") /\ writer'[w].pc = "read"
               /\ writer'[w].open = writer[w].open /\ writer'[w].lines = audit
            \/ WriteAudit(w) /\ At(w, "read") /\ writer'[w].pc = "written"
            \/ /\ ReplaceAudit(w) \/ ReplaceAuditMissing(w) \/ Faulty(w)
               /\ ~At(w, "idle") /\ writer'[w].pc = "idle"
         /\ ~At(w, "idle") /\ writer'[w].pc # "idle" => writer'[w].event = The(w)
<1>1. writer \in [Writer -> Local]
  BY Types DEF IInv
<1>2. ASSUME NEW s \in Store, Begin(w, s)
      PROVE  /\ At(w, "idle") /\ writer'[w].pc = "numbered" /\ writer'[w].event.id = begun + 1
             /\ \A v \in Writer \ {w} : Same(v)
  BY <1>1, <1>2 DEF Begin, At, Local, Same
<1>3. CASE Copy(w)
  BY <1>1, <1>3 DEF Copy, At, The, Local, Same
<1>4. CASE WriteTemp(w)
  BY <1>1, <1>4 DEF WriteTemp, At, The, Local, Same
<1>7. CASE ReplaceStore(w)
  BY <1>1, <1>7 DEF ReplaceStore, At, The, Local, Same
<1>8. CASE OpenAudit(w)
  BY <1>1, <1>8 DEF OpenAudit, MayAudit, At, The, Local, Same
<1>9. CASE ReadAudit(w)
  BY <1>1, <1>9 DEF ReadAudit, At, The, Local, Same
<1>10. CASE WriteAudit(w)
  BY <1>1, <1>10 DEF WriteAudit, At, The, Local, Same
<1>5. CASE ReplaceAudit(w)
  BY <1>1, <1>5 DEF ReplaceAudit, At, Local, Same, Idle
<1>6. CASE ReplaceAuditMissing(w) \/ Faulty(w)
  BY <1>1, <1>6 DEF ReplaceAuditMissing, Faulty, StoreFails, AuditFails, Crash, At, Same, Idle
<1>11. CASE \E s \in Store : Begin(w, s)
  BY <1>2, <1>11 DEF At
<1> QED
  BY <1>3, <1>4, <1>5, <1>6, <1>7, <1>8, <1>9, <1>10, <1>11 DEF Step, Append1, Faulty

(* Every step is that of a writer whose temporary file is its own.         *)
LEMMA OwnedStep ==
  ASSUME IInv, TempsAreOwned, NEW w \in Writer, Step(w)
  PROVE  TempsAreOwned'
<1>1. /\ \A v \in Writer \ {w} : Same(v)
      /\ ~At(w, "idle") /\ writer'[w].pc # "idle" => writer'[w].event = The(w)
  BY WriterSteps
<1>2. ASSUME Faulty(w) PROVE faults' # 0
  <2>1. faults \in Nat /\ faults' = faults + 1
    BY <1>2 DEF Faulty, StoreFails, AuditFails, Crash, Fault, IInv, TypeOK
  <2> QED
    BY <2>1
<1>3. ASSUME faults' = 0, NEW i \in temps'
      PROVE  \E v \in Writer : At(v, "synced")' /\ The(v)'.id = i
  <2>1. ~Faulty(w) /\ faults = 0
    BY <1>2, <1>3 DEF Step, Append1, Begin, Copy, WriteTemp, ReplaceStore, OpenAudit, ReadAudit,
                      WriteAudit, ReplaceAudit, ReplaceAuditMissing, Faulty
  <2>2. CASE WriteTemp(w) /\ i = The(w).id
    <3>1. writer'[w].pc = "synced" /\ writer'[w].event = The(w)
      BY <1>1, <2>2, WriterSteps DEF WriteTemp, At
    <3> QED
      BY <2>2, <3>1 DEF At, The
  <2>3. CASE i \in temps
    <3>1. PICK v \in Writer : At(v, "synced") /\ The(v).id = i
      BY <2>1, <2>3 DEF TempsAreOwned
    <3>2. CASE v = w
      BY <1>3, <2>1, <3>1, <3>2, WriterSteps DEF ReplaceStore, At, ReplaceAudit, ReplaceAuditMissing
    <3>3. CASE v # w
      BY <1>1, <3>1, <3>3 DEF Same, At, The
    <3> QED
      BY <3>2, <3>3
  <2>4. i \in temps \/ (WriteTemp(w) /\ i = The(w).id)
    BY <1>3, <2>1
       DEF Step, Append1, Begin, Copy, WriteTemp, ReplaceStore, OpenAudit, ReadAudit, WriteAudit,
           ReplaceAudit, ReplaceAuditMissing, Faulty
  <2> QED
    BY <2>2, <2>3, <2>4
<1>4. ASSUME faults' = 0, auditTemp' # Absent
      PROVE  \E v \in Writer : writer'[v].pc \in Auditing
  <2>1. ~Faulty(w) /\ faults = 0
    BY <1>2, <1>4 DEF Step, Append1, Begin, Copy, WriteTemp, ReplaceStore, OpenAudit, ReadAudit,
                      WriteAudit, ReplaceAudit, ReplaceAuditMissing, Faulty
  <2>2. CASE writer'[w].pc \in Auditing
    BY <2>2
  <2>3. CASE writer'[w].pc \notin Auditing
    <3>1. auditTemp' = auditTemp /\ ~(writer[w].pc \in Auditing)
      BY <1>4, <2>1, <2>3, WriterSteps
         DEF Begin, Copy, WriteTemp, ReplaceStore, ReplaceAudit, ReplaceAuditMissing, Auditing, At
    <3>2. PICK v \in Writer : writer[v].pc \in Auditing
      BY <1>4, <2>1, <3>1 DEF TempsAreOwned
    <3> QED
      BY <1>1, <3>1, <3>2 DEF Same
  <2> QED
    BY <2>2, <2>3
<1> QED
  BY <1>3, <1>4 DEF TempsAreOwned

(***************************************************************************)
(* Until something crashes or fails, the directory the writers leave       *)
(* behind when all of them are done is one the creator's preflight         *)
(* accepts: for any number of writers, races and all.                      *)
(***************************************************************************)
THEOREM AcceptedHolds == Spec => []AcceptedAtRest
<1>1. Init => TempsAreOwned
  BY DEF Init, TempsAreOwned
<1>2. IInv /\ TempsAreOwned /\ [Next]_vars => TempsAreOwned'
  <2>1. CASE UNCHANGED vars
    BY <2>1 DEF vars, TempsAreOwned, At, The
  <2> QED
    BY <2>1, OwnedStep DEF Next, Step
<1>3. TempsAreOwned => AcceptedAtRest
  BY DEF TempsAreOwned, AcceptedAtRest, DirectoryAccepted, At, Auditing
<1> QED
  BY <1>1, <1>2, <1>3, InitInv, InvStep, PTL DEF Spec

(* Appended to the audit log: one entry more, at the end.                  *)
LEMMA AuditGrows ==
  ASSUME NEW s \in Seq(Line), NEW i \in Id
  PROVE  LET t == Append(s, i) IN
         /\ t \in Seq(Line) /\ t # Absent /\ Overwritten(<<>>, t) = {t}
         /\ {t[j] : j \in DOMAIN t} = {s[j] : j \in DOMAIN s} \cup {i}
         /\ (\A j, k \in DOMAIN s : j < k => s[j] < s[k]) /\ (\A j \in DOMAIN s : s[j] < i)
              => \A j, k \in DOMAIN t : j < k => t[j] < t[k]
<1> DEFINE t == Append(s, i)
<1>1. /\ t \in Seq(Line) /\ Len(t) = Len(s) + 1 /\ Len(s) \in Nat
      /\ DOMAIN t = 1..(Len(s) + 1) /\ DOMAIN s = 1..Len(s)
      /\ t[Len(s) + 1] = i /\ \A j \in 1..Len(s) : t[j] = s[j]
  BY DEF Line
<1> HIDE DEF t
<1>2. t # Absent
  <2>1. Absent[1] = -2 /\ Len(Absent) = 1
    BY DEF Absent
  <2>2. i # -2
    BY BoundsAssumption DEF Id
  <2>3. Len(t) = 1 => t[1] = i
    BY <1>1
  <2> QED
    BY <2>1, <2>2, <2>3
<1>3. Overwritten(<<>>, t) = {t}
  <2>1. Len(<<>>) < Len(t)
    BY <1>1
  <2> QED
    BY <2>1 DEF Overwritten
<1>4. {t[j] : j \in DOMAIN t} = {s[j] : j \in DOMAIN s} \cup {i}
  <2>1. ASSUME NEW j \in DOMAIN t PROVE t[j] \in {s[k] : k \in DOMAIN s} \cup {i}
    <3>1. j \in 1..Len(s) \/ j = Len(s) + 1
      BY <1>1, <2>1
    <3> QED
      BY <1>1, <3>1
  <2>2. \A j \in DOMAIN s : j \in DOMAIN t /\ t[j] = s[j]
    BY <1>1
  <2>3. Len(s) + 1 \in DOMAIN t
    BY <1>1
  <2> QED
    BY <1>1, <2>1, <2>2, <2>3
<1>5. ASSUME \A j, k \in DOMAIN s : j < k => s[j] < s[k], \A j \in DOMAIN s : s[j] < i,
             NEW j \in DOMAIN t, NEW k \in DOMAIN t, j < k
      PROVE  t[j] < t[k]
  <2>1. j \in 1..Len(s) /\ (k \in 1..Len(s) \/ k = Len(s) + 1)
    BY <1>1, <1>5
  <2> QED
    BY <1>1, <1>5, <2>1
<1> QED
  BY <1>1, <1>2, <1>3, <1>4, <1>5 DEF t

(* Two who work at once have raced on the audit log, and who works alone   *)
(* finds everybody else idle.                                              *)
LEMMA LoneStep ==
  ASSUME IInv, BusyAlone, NEW w \in Writer, Step(w)
  PROVE  /\ BusyAlone'
         /\ raced' = {} => /\ raced = {}
                           /\ \A v \in Writer \ {w} : At(v, "idle") /\ At(v, "idle")'
<1>1. \A v \in Writer \ {w} : Same(v)
  BY WriterSteps
<1>2. raced \subseteq raced' /\ (raced' = raced \/ \E s \in Store : Begin(w, s))
  BY DEF Step, Append1, Begin, Copy, WriteTemp, ReplaceStore, OpenAudit, ReadAudit, WriteAudit,
         ReplaceAudit, ReplaceAuditMissing, StoreFails, AuditFails, Crash
<1>3. ASSUME NEW v \in Writer \ {w}, ~At(v, "idle"), writer'[w].pc # "idle" PROVE "audit" \in raced'
  <2>1. CASE \E s \in Store : Begin(w, s)
    BY <1>3, <2>1 DEF Begin, BusyBeside
  <2>2. CASE ~At(w, "idle")
    BY <1>2, <1>3, <2>2 DEF BusyAlone
  <2> QED
    BY <2>1, <2>2, WriterSteps DEF Copy, WriteTemp, ReplaceStore, OpenAudit, MayAudit, ReadAudit,
           WriteAudit, At
<1>4. BusyAlone'
  BY <1>1, <1>2, <1>3 DEF BusyAlone, Same, At
<1>5. ASSUME raced' = {}, NEW v \in Writer \ {w}, ~At(v, "idle") PROVE FALSE
  <2>1. writer'[w].pc = "idle"
    BY <1>3, <1>5
  <2>2. ~At(w, "idle")
    BY <2>1, WriterSteps
  <2> QED
    BY <1>2, <1>5, <2>2 DEF BusyAlone
<1> QED
  BY <1>1, <1>2, <1>4, <1>5 DEF Same, At

(* While nobody races the stores only grow, by the event in hand.          *)
LEMMA StoredGrows ==
  ASSUME IInv, raced = {}, NEW w \in Writer, Step(w)
  PROVE  /\ Stored \subseteq Stored'
         /\ ReplaceStore(w) => Stored' = Stored \cup {The(w).id}
         /\ ~ReplaceStore(w) => Stored' = Stored
<1>1. CASE ReplaceStore(w)
  <2>1. PICK mine \in Store : mine = writer[w].store
    BY Types DEF IInv, Local
  <2>2. /\ The(w) \in Event /\ LogOf(w) \in Seq(Event)
        /\ log'[mine] = Append(LogOf(w), The(w))
        /\ \A s \in Store \ {mine} : log'[s] = log[s]
    BY <1>1, <2>1, StoreGrows
  <2>3. IdsOf(log'[mine]) = IdsOf(log[mine]) \cup {The(w).id}
    BY <2>1, <2>2, IdsGrow DEF LogOf
  <2>4. \A s \in Store \ {mine} : IdsOf(log'[s]) = IdsOf(log[s])
    BY <2>2
  <2>5. Stored' = UNION {IdsOf(log'[s]) : s \in Store}
    BY DEF Stored, IdsOf
  <2>6. Stored' = Stored \cup {The(w).id}
    BY <2>1, <2>3, <2>4, <2>5 DEF Stored
  <2> QED
    BY <1>1, <2>6
<1>2. CASE ~ReplaceStore(w)
  <2>1. log' = log
    BY <1>2 DEF Step, Append1, Begin, Copy, WriteTemp, OpenAudit, ReadAudit, WriteAudit,
                ReplaceAudit, ReplaceAuditMissing, StoreFails, AuditFails, Crash
  <2> QED
    BY <1>2, <2>1 DEF Stored
<1> QED
  BY <1>1, <1>2

(* A lone writer's step on the audit log: it puts its event behind what is *)
(* there, or leaves the log alone.                                         *)
LEMMA AuditSteps ==
  ASSUME IInv, BusyAlone, NewestIsBusy, AuditInHand, NEW w \in Writer, Step(w), raced' = {}
  PROVE  /\ AuditInHand'
         /\ ~ReplaceAuditMissing(w)
         /\ ReplaceAudit(w) => /\ ~At(w, "idle") /\ The(w).id \in Id
                               /\ audit' = Append(audit, The(w).id)
         /\ ~ReplaceAudit(w) => audit' = audit
<1>1. /\ raced = {} /\ \A v \in Writer \ {w} : At(v, "idle") /\ At(v, "idle")'
      /\ audit \in Seq(Line)
  BY LoneStep, Types DEF IInv
<1>2. ~At(w, "idle") => The(w).id \in Id /\ Append(audit, The(w).id) # Absent
  BY <1>1, AuditGrows DEF IInv, HasId
<1>3. ~ReplaceAuditMissing(w)
  BY <1>1, <1>2 DEF ReplaceAuditMissing, AuditInHand, At
<1>4. ReplaceAudit(w) => ~At(w, "idle") /\ audit' = Append(audit, The(w).id)
  BY <1>1 DEF ReplaceAudit, AuditInHand, At
<1>5. ASSUME WriteAudit(w)
      PROVE  audit' = audit /\ auditTemp' = Append(audit, The(w).id)
  <2>1. writer[w].open = "temp" /\ auditTemp = <<>> /\ writer[w].lines = audit /\ ~At(w, "idle")
    BY <1>1, <1>5 DEF WriteAudit, AuditInHand, At
  <2>2. Overwritten(<<>>, Append(audit, The(w).id)) = {Append(audit, The(w).id)}
    BY <1>1, <1>2, <2>1, AuditGrows
  <2> QED
    BY <1>5, <2>1, <2>2 DEF WriteAudit, AllEntries
<1>6. ~ReplaceAudit(w) => audit' = audit
  BY <1>5 DEF Step, Append1, Begin, Copy, WriteTemp, ReplaceStore, OpenAudit, ReadAudit,
              ReplaceAuditMissing, StoreFails, AuditFails, Crash
<1>7. /\ At(w, "opened")' \/ At(w, "read")' => auditTemp' = <<>> /\ writer'[w].open = "temp"
      /\ At(w, "read")' => writer'[w].lines = audit'
      /\ At(w, "written")' => auditTemp' = Append(audit', The(w)'.id)
  <2>1. CASE OpenAudit(w)
    <3>1. writer \in [Writer -> Local]
      BY Types DEF IInv
    <3>2. writer'[w].pc = "opened" /\ writer'[w].open = "temp" /\ auditTemp' = <<>>
      BY <2>1, <3>1 DEF OpenAudit, Local
    <3> QED
      BY <3>2 DEF At
  <2>4. CASE ReadAudit(w)
    <3>1. At(w, "opened") /\ auditTemp' = auditTemp /\ audit' = audit
      BY <2>4 DEF ReadAudit
    <3>2. writer \in [Writer -> Local]
      BY Types DEF IInv
    <3>3. /\ writer'[w].pc = "read" /\ writer'[w].open = writer[w].open
          /\ writer'[w].lines = audit
      BY <2>4, <3>2 DEF ReadAudit, Local
    <3> QED
      BY <1>1, <3>1, <3>3 DEF At, AuditInHand
  <2>2. CASE WriteAudit(w)
    <3>1. writer'[w].pc = "written" /\ writer'[w].event = The(w)
      BY <2>2, WriterSteps DEF WriteAudit, At
    <3> QED
      BY <1>5, <2>2, <3>1 DEF At, The
  <2>3. CASE ~OpenAudit(w) /\ ~ReadAudit(w) /\ ~WriteAudit(w)
    BY <2>3, WriterSteps DEF At
  <2> QED
    BY <2>1, <2>2, <2>3, <2>4
<1>8. AuditInHand'
  BY <1>1, <1>7 DEF AuditInHand, At
<1> QED
  BY <1>2, <1>3, <1>4, <1>6, <1>8

(* A lone writer's event stays the newest there is, and its entry stays    *)
(* out of the audit log until the log is replaced.                         *)
LEMMA NewestStep ==
  ASSUME IInv, BusyAlone, NewestIsBusy, AuditInHand, NEW w \in Writer, Step(w), raced' = {}
  PROVE  /\ \A i \in DOMAIN audit' : audit'[i] \in 1..begun'
         /\ \A v \in Writer : ~At(v, "idle")' => The(v)'.id = begun' /\ begun' \notin Audited'
<1>1. /\ raced = {} /\ \A v \in Writer \ {w} : At(v, "idle")'
      /\ ~ReplaceAuditMissing(w)
  BY LoneStep, AuditSteps
<1>0. audit \in Seq(Line) /\ begun \in Nat
  BY BoundsAssumption, Types DEF IInv, TypeOK
<1>2. \A i \in DOMAIN audit : audit[i] \in 1..begun
  BY <1>1 DEF NewestIsBusy
<1>3. ~At(w, "idle") => The(w).id = begun /\ begun \notin Audited /\ begun \in Id
  BY <1>1 DEF NewestIsBusy, IInv, HasId
<1>4. CASE \E s \in Store : Begin(w, s)
  <2>1. begun' = begun + 1 /\ audit' = audit /\ writer'[w].event.id = begun + 1
    BY <1>4, WriterSteps DEF Begin, Copy, WriteTemp, ReplaceStore, OpenAudit, MayAudit, ReadAudit,
       WriteAudit, At
  <2>2. \A i \in DOMAIN audit : audit[i] \in 1..(begun + 1) /\ audit[i] # begun + 1
    BY <1>0, <1>1, <1>2
  <2> QED
    BY <1>1, <2>1, <2>2 DEF Audited, The, At
<1>5. CASE ReplaceAudit(w)
  <2>1. /\ audit' = Append(audit, begun) /\ begun \in Id /\ begun' = begun
        /\ At(w, "idle")'
    BY <1>1, <1>3, <1>5, AuditSteps DEF ReplaceAudit, At, Idle
  <2>2. {audit'[i] : i \in DOMAIN audit'} = {audit[i] : i \in DOMAIN audit} \cup {begun}
    BY <1>0, <2>1, AuditGrows
  <2>3. \A i \in DOMAIN audit' : audit'[i] \in {audit'[j] : j \in DOMAIN audit'}
    OBVIOUS
  <2>4. begun \in 1..begun
    BY <1>0, <2>1 DEF Id
  <2>5. \A i \in DOMAIN audit' : audit'[i] \in 1..begun'
    BY <1>2, <2>1, <2>2, <2>3, <2>4
  <2> QED
    BY <1>1, <2>1, <2>5
<1>6. CASE ~(\E s \in Store : Begin(w, s)) /\ ~ReplaceAudit(w)
  <2>1. audit' = audit /\ begun' = begun
    BY <1>6, AuditSteps DEF Step, Append1, Copy, WriteTemp, ReplaceStore, OpenAudit, ReadAudit,
       WriteAudit, ReplaceAuditMissing, StoreFails, AuditFails, Crash
  <2>2. writer'[w].pc # "idle" => ~At(w, "idle") /\ writer'[w].event = The(w)
    BY <1>6, WriterSteps DEF At
  <2>3. Audited' = Audited
    BY <2>1 DEF Audited
  <2> QED
    BY <1>1, <1>2, <1>3, <2>1, <2>2, <2>3 DEF At, The
<1> QED
  BY <1>4, <1>5, <1>6

(* What is stored, is not under way and is missing from the audit log.     *)
Lost == Stored \ (Audited \cup Busy)

(* While nobody races, only a fault loses an entry, and only the entry of  *)
(* the append it ends.                                                     *)
LEMMA LostGrows ==
  ASSUME IInv, BusyAlone, NewestIsBusy, AuditInHand, NEW w \in Writer, Step(w), raced' = {}
  PROVE  Lost' \subseteq Lost \/ (Faulty(w) /\ Lost' \subseteq Lost \cup {The(w).id})
<1>1. /\ raced = {} /\ \A v \in Writer \ {w} : At(v, "idle") /\ At(v, "idle")'
      /\ audit \in Seq(Line) /\ ~ReplaceAuditMissing(w)
  BY LoneStep, AuditSteps, Types DEF IInv
<1>2. Busy = IF At(w, "idle") THEN {} ELSE {The(w).id}
  BY <1>1 DEF Busy
<1>3. Busy' = IF writer'[w].pc = "idle" THEN {} ELSE {writer'[w].event.id}
  BY <1>1 DEF Busy, At, The
<1>4. Stored' = Stored \/ (ReplaceStore(w) /\ Stored' = Stored \cup {The(w).id})
  BY <1>1, StoredGrows
<1>5. CASE ReplaceAudit(w)
  <2>1. Audited' = Audited \cup {The(w).id}
    BY <1>1, <1>5, AuditSteps, AuditGrows DEF Audited
  <2>2. Stored' = Stored
    BY <1>4, <1>5 DEF ReplaceAudit, ReplaceStore, At
  <2> QED
    BY <1>2, <2>1, <2>2 DEF Lost
<1>6. CASE ~ReplaceAudit(w)
  <2>1. Audited' = Audited
    BY <1>6, AuditSteps DEF Audited
  <2>2. CASE \E s \in Store : Begin(w, s)
    <3>1. At(w, "idle")
      BY <2>2 DEF Begin
    <3>2. Stored' = Stored
      BY <1>4, <3>1 DEF ReplaceStore, At
    <3> QED
      BY <1>2, <2>1, <3>1, <3>2 DEF Lost
  <2>3. CASE Faulty(w)
    <3>1. log' = log
      BY <2>3 DEF Faulty, StoreFails, AuditFails, Crash
    <3>2. Stored' = Stored
      BY <3>1 DEF Stored
    <3> QED
      BY <1>2, <2>1, <2>3, <3>2 DEF Lost
  <2>4. CASE ~(\E s \in Store : Begin(w, s)) /\ ~Faulty(w)
    <3>1. ~At(w, "idle") /\ writer'[w].pc # "idle" /\ writer'[w].event = The(w)
      BY <1>1, <1>6, <2>4, WriterSteps DEF At
    <3> QED
      BY <1>2, <1>3, <1>4, <2>1, <3>1 DEF Lost
  <2> QED
    BY <2>2, <2>3, <2>4
<1> QED
  BY <1>5, <1>6

(* Every event there is has a number, so finitely many are lost.           *)
LEMMA LostIsFinite ==
  ASSUME TypeOK
  PROVE  Lost \subseteq Id /\ IsFiniteSet(Lost) /\ Cardinality(Lost) \in Nat
<1>1. ASSUME NEW s \in Store PROVE IdsOf(log[s]) \subseteq Id
  <2>1. log[s] \in Seq(Event)
    BY Types
  <2>2. \A i \in DOMAIN log[s] : log[s][i] \in Event
    BY <2>1
  <2>3. \A e \in Event : e.id \in Id
    BY DEF Event
  <2> QED
    BY <2>2, <2>3 DEF IdsOf
<1>2. Lost \subseteq Id
  BY <1>1 DEF Lost, Stored
<1>3. IsFiniteSet(Id)
  BY FS_Interval, BoundsAssumption DEF Id
<1> QED
  BY <1>2, <1>3, FS_Subset, FS_CardinalityType

(* The step of a lone writer keeps the audit log in step with the stores.  *)
LEMMA AgreesStep ==
  ASSUME IInv, BusyAlone, NewestIsBusy, AuditInHand, AuditAgrees, NEW w \in Writer, Step(w),
         raced' = {}, IInv'
  PROVE  AuditFollowsStore' /\ AuditMissesOnlyFaults'
<1>1. /\ raced = {} /\ audit \in Seq(Line) /\ AuditFollowsStore /\ AuditMissesOnlyFaults
      /\ Stored \subseteq Stored'
  BY LoneStep, StoredGrows, Types DEF IInv, AuditAgrees
<1>2. ASSUME ReplaceAudit(w) PROVE AuditFollowsStore' /\ returned' \subseteq Audited'
  <2>1. /\ audit' = Append(audit, The(w).id) /\ The(w).id \in Id /\ ~At(w, "idle")
        /\ returned' = returned \cup {The(w).id}
    BY <1>2, AuditSteps DEF ReplaceAudit
  <2>2. Audited' = Audited \cup {The(w).id}
    BY <1>1, <2>1, AuditGrows DEF Audited
  <2>3. The(w).id \in Stored
    <3>1. writer[w].store \in Store /\ writer[w].pc \in AfterReplace
      BY <1>2, Types DEF IInv, ReplaceAudit, At, AfterReplace
    <3>2. The(w).id \in IdsOf(LogOf(w))
      BY <1>1, <3>1 DEF IInv, EventIsThere
    <3> QED
      BY <3>1, <3>2 DEF Stored, LogOf
  <2>4. \A i \in DOMAIN audit : audit[i] < The(w).id
    <3>1. /\ \A i \in DOMAIN audit : audit[i] \in 1..begun /\ audit[i] \in Audited
          /\ The(w).id = begun /\ begun \notin Audited /\ begun \in Nat
      <4>1. begun \in Nat
        BY BoundsAssumption DEF IInv, TypeOK
      <4>2. The(w).id = begun /\ begun \notin Audited
        BY <1>1, <2>1 DEF NewestIsBusy
      <4>3. \A i \in DOMAIN audit : audit[i] \in Audited
        BY DEF Audited
      <4>4. \A i \in DOMAIN audit : audit[i] \in 1..begun
        BY <1>1, <4>3 DEF NewestIsBusy
      <4> QED
        BY <4>1, <4>2, <4>3, <4>4
    <3>2. ASSUME NEW i \in DOMAIN audit PROVE audit[i] < begun
      <4>1. audit[i] \in 1..begun /\ audit[i] # begun
        BY <3>1
      <4> QED
        BY <3>1, <4>1
    <3> QED
      BY <3>1, <3>2
  <2>5. \A i, j \in DOMAIN audit' : i < j => audit'[i] < audit'[j]
    BY <1>1, <2>1, <2>4, AuditGrows DEF AuditFollowsStore
  <2> QED
    BY <1>1, <2>1, <2>2, <2>3, <2>5 DEF AuditFollowsStore, AuditMissesOnlyFaults
<1>3. ASSUME ~ReplaceAudit(w) PROVE AuditFollowsStore' /\ returned' \subseteq Audited'
  <2>1. audit' = audit /\ returned' = returned
    BY <1>3, AuditSteps DEF Step, Append1, Begin, Copy, WriteTemp, ReplaceStore, OpenAudit,
       ReadAudit, WriteAudit, ReplaceAuditMissing, StoreFails, AuditFails, Crash
  <2> QED
    BY <1>1, <2>1 DEF AuditFollowsStore, AuditMissesOnlyFaults, Audited
<1>4. Cardinality(Lost') <= faults'
  <2>1. /\ IsFiniteSet(Lost) /\ Cardinality(Lost) \in Nat /\ Cardinality(Lost) <= faults
        /\ faults \in Nat
    <3>1. Cardinality(Lost) <= faults
      BY <1>1 DEF AuditMissesOnlyFaults, Lost
    <3>2. TypeOK
      BY DEF IInv
    <3>3. faults \in Nat
      BY <3>2, BoundsAssumption DEF TypeOK
    <3> QED
      BY <3>1, <3>2, <3>3, LostIsFinite
  <2>2. CASE Lost' \subseteq Lost
    <3>1. faults' = faults \/ faults' = faults + 1
      BY DEF Step, Append1, Begin, Copy, WriteTemp, ReplaceStore, OpenAudit, ReadAudit, WriteAudit,
         ReplaceAudit, ReplaceAuditMissing, StoreFails, AuditFails, Crash, Fault
    <3>2. Cardinality(Lost') <= Cardinality(Lost) /\ Cardinality(Lost') \in Nat
      BY <2>1, <2>2, FS_Subset, FS_CardinalityType
    <3> QED
      BY <2>1, <3>1, <3>2
  <2>3. CASE Faulty(w) /\ Lost' \subseteq Lost \cup {The(w).id}
    <3>1. faults' = faults + 1
      BY <2>3 DEF Faulty, StoreFails, AuditFails, Crash, Fault
    <3>2. /\ IsFiniteSet(Lost \cup {The(w).id})
          /\ Cardinality(Lost \cup {The(w).id}) \in {Cardinality(Lost), Cardinality(Lost) + 1}
      BY <2>1, FS_AddElement
    <3>3. /\ Cardinality(Lost') <= Cardinality(Lost \cup {The(w).id})
          /\ Cardinality(Lost') \in Nat
      BY <2>3, <3>2, FS_Subset, FS_CardinalityType
    <3> QED
      BY <2>1, <3>1, <3>2, <3>3
  <2> QED
    BY <2>2, <2>3, LostGrows
<1> QED
  BY <1>2, <1>3, <1>4 DEF AuditMissesOnlyFaults, Lost

(* Every step keeps the audit log of a lone writer in agreement with the   *)
(* stores.                                                                 *)
LEMMA AuditStep ==
  IInv /\ BusyAlone /\ NewestIsBusy /\ AuditInHand /\ AuditAgrees /\ [Next]_vars /\ IInv'
    => BusyAlone' /\ NewestIsBusy' /\ AuditInHand' /\ AuditAgrees'
<1> SUFFICES ASSUME IInv, BusyAlone, NewestIsBusy, AuditInHand, AuditAgrees, [Next]_vars, IInv'
             PROVE  BusyAlone' /\ NewestIsBusy' /\ AuditInHand' /\ AuditAgrees'
  OBVIOUS
<1>1. CASE UNCHANGED vars
  BY <1>1 DEF vars, BusyAlone, NewestIsBusy, AuditInHand, AuditAgrees, AuditFollowsStore,
     AuditMissesOnlyFaults, Audited, Stored, Busy, IdsOf, At, The
<1>2. CASE Next
  <2>1. PICK w \in Writer : Step(w)
    BY <1>2 DEF Next, Step
  <2>2. BusyAlone'
    BY <2>1, LoneStep
  <2>3. raced' = {} => /\ \A i \in DOMAIN audit' : audit'[i] \in 1..begun'
                       /\ \A v \in Writer : ~At(v, "idle")' =>
                             The(v)'.id = begun' /\ begun' \notin Audited'
    BY <2>1, NewestStep
  <2>4. raced' # {} => AuditInHand'
    BY DEF AuditInHand
  <2>5. raced' = {} => AuditInHand'
    BY <2>1, AuditSteps
  <2>6. raced' = {} => AuditFollowsStore' /\ AuditMissesOnlyFaults'
    BY <2>1, AgreesStep
  <2> QED
    BY <2>2, <2>3, <2>4, <2>5, <2>6 DEF NewestIsBusy, AuditAgrees
<1> QED
  BY <1>1, <1>2

(***************************************************************************)
(* While one process appends at a time the audit log tells of stored       *)
(* events only, each once and in their order, misses none whose append     *)
(* returned and none but those a fault took: for any number of writers,    *)
(* appends and faults.                                                     *)
(***************************************************************************)
THEOREM AuditHolds == Spec => []AuditAgrees
<1>1. Init => BusyAlone /\ NewestIsBusy /\ AuditInHand /\ AuditAgrees
  <2> SUFFICES ASSUME Init PROVE BusyAlone /\ NewestIsBusy /\ AuditInHand /\ AuditAgrees
    OBVIOUS
  <2>1. \A w \in Writer : writer[w].pc = "idle"
    BY DEF Init, Idle
  <2>2. BusyAlone /\ NewestIsBusy /\ AuditInHand
    BY <2>1 DEF Init, BusyAlone, NewestIsBusy, AuditInHand, At
  <2>3. AuditFollowsStore /\ returned = {} /\ faults = 0
    BY DEF Init, AuditFollowsStore, Audited
  <2>4. Stored \ (Audited \cup Busy) = {}
    BY DEF Init, Stored, IdsOf
  <2> QED
    BY <2>2, <2>3, <2>4, FS_EmptySet DEF AuditAgrees, AuditMissesOnlyFaults
<1> QED
  BY <1>1, AuditStep, InitInv, InvStep, PTL DEF Spec

=============================================================================
