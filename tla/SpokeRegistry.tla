----------------------------- MODULE SpokeRegistry -----------------------------
(***************************************************************************)
(* The registry of spokes (hub/registry.py): a ledger of registrations and *)
(* tombstones, what register_spoke and deregister_spoke read off it before *)
(* they append, the strict fold every user of it goes through, the health  *)
(* of the spokes, and the capability calls made through a folded state the *)
(* caller keeps.                                                           *)
(*                                                                         *)
(* Nothing locks the ledger: a call checks it, copies it and puts the copy *)
(* with its line back, each at a time of its own, and other calls may      *)
(* replace it in between.  _append_event reads the file twice, once for    *)
(* the number and the hash of the line, which nothing here looks at, and   *)
(* once for the bytes it copies; only the second is a step.  The temporary *)
(* file, the hash chain and the audit line are HubLog's subject.           *)
(*                                                                         *)
(* A definition marked "Slip" is not part of the model: it is a plausible  *)
(* mistake in the definition that follows it, kept to show that the        *)
(* properties below notice it.                                             *)
(***************************************************************************)
EXTENDS Integers, Sequences, FiniteSets

CONSTANTS
  Caller,          \* those who call register_spoke and deregister_spoke
  Spoke,           \* spoke ids
  Registration,    \* registration ids
  SpokeOf,         \* the spoke each definition is of; stands for its provider too
  CapabilitiesOf,  \* the capabilities each definition offers
  MaxAge,          \* max_age_seconds, in ticks of the clock
  MaxClock,        \* bound: ticks of the clock
  MaxEvents,       \* bound: lines of the ledger
  MaxOverlap       \* bound: lines from which on calls no longer overlap

Definition == DOMAIN SpokeOf
Capability == UNION {CapabilitiesOf[d] : d \in Definition}
Never == -1   \* a line of an older version, without last_seen

ASSUME RegistryAssumption ==
  /\ SpokeOf \in [Definition -> Spoke]
  /\ CapabilitiesOf = [d \in Definition |-> CapabilitiesOf[d]]
  /\ \A d \in Definition : CapabilitiesOf[d] # {}
  /\ MaxAge \in Nat /\ MaxClock \in Nat
  /\ MaxEvents \in Nat \ {0} /\ MaxOverlap \in Nat

Event == [action : {"register", "deregister"}, reg : Registration, spoke : Spoke,
          definition : Definition, seen : Nat \cup {Never}]

VARIABLES
  ledger,    \* the lines of spoke-ledger.jsonl
  clock,     \* the time of day
  view,      \* the lines the RegistryState kept by a reader was folded from
  call,      \* how far each caller is
  behind,    \* history: calls whose ledger was replaced since they checked it
  overtaken  \* history: one of those has put its line in all the same

vars == <<ledger, clock, view, call, behind, overtaken>>

Idle == [pc |-> "idle"]
Checked == [pc : {"checked"}, line : Event]
Copied == [pc : {"copied"}, line : Event, base : Seq(Event)]
Pending == {c \in Caller : call[c] # Idle}

-----------------------------------------------------------------------------
Line(action, r, d, seen) ==
  [action |-> action, reg |-> r, spoke |-> SpokeOf[d], definition |-> d, seen |-> seen]

Registers(events) == {i \in DOMAIN events : events[i].action = "register"}
Tombstones(events) == DOMAIN events \ Registers(events)

(* The dictionary by spoke that fold_registry has filled before line n: a  *)
(* tombstone takes away whatever registration its spoke has.               *)
ActiveBefore(events, n) ==
  {i \in Registers(events) : i < n
     /\ \A j \in Tombstones(events) : i < j /\ j < n => events[j].spoke # events[i].spoke}

Active(events) == ActiveBefore(events, Len(events) + 1)

Collides(events, i, k) ==
  CapabilitiesOf[events[i].definition] \cap CapabilitiesOf[events[k].definition] # {}

-----------------------------------------------------------------------------
(* fold_registry raises no error.                                          *)

(* Slip: an identifier is free again once it has been retired.             *)
RegisterFoldsReused(events, i) ==
  /\ \A k \in ActiveBefore(events, i) :
       /\ events[k].spoke # events[i].spoke /\ ~Collides(events, k, i)
       /\ events[k].reg # events[i].reg
  /\ SpokeOf[events[i].definition] = events[i].spoke

RegisterFolds(events, i) ==
  /\ \A k \in ActiveBefore(events, i) :
       events[k].spoke # events[i].spoke /\ ~Collides(events, k, i)
  /\ \A k \in Registers(events) : k < i => events[k].reg # events[i].reg
  /\ SpokeOf[events[i].definition] = events[i].spoke

(* The spoke is the one the identifier was registered for, and is active,  *)
(* though perhaps by a later registration.                                 *)
TombstoneFolds(events, i) ==
  /\ \E k \in Registers(events) : k < i
       /\ events[k].reg = events[i].reg /\ events[k].spoke = events[i].spoke
  /\ \E k \in ActiveBefore(events, i) : events[k].spoke = events[i].spoke

Folds(events) ==
  \A i \in DOMAIN events :
     IF events[i].action = "register" THEN RegisterFolds(events, i)
                                      ELSE TombstoneFolds(events, i)

-----------------------------------------------------------------------------
(* What the writers read off the ledger.                                   *)

(* Two registrations of one id: register_spoke calls the ledger corrupt.   *)
SeenTwice(events) ==
  \E i, k \in Registers(events) : i # k /\ events[i].reg = events[k].reg

Retired(events) == {events[j].reg : j \in Tombstones(events)}
Registered(events) == {events[i].reg : i \in Registers(events)}

(* Slip: only the last line counts.                                        *)
SpokeTakenLast(events, s) ==
  /\ events # <<>>
  /\ events[Len(events)].action = "register" /\ events[Len(events)].spoke = s

(* active_spokes of register_spoke: tombstones count by their spoke.       *)
SpokeTaken(events, s) ==
  \E i \in Registers(events) :
     /\ events[i].spoke = s
     /\ \A j \in Tombstones(events) : i < j => events[j].spoke # s

(* The check on capabilities announced by the docstring is not made.       *)
MayRegister(r, d) ==
  /\ ~SeenTwice(ledger)
  /\ r \in Registered(ledger) => r \in Retired(ledger)
  /\ ~SpokeTaken(ledger, SpokeOf[d])

(* Slip: any registration ever made can be retired.                        *)
RetirableEver(r) == {i \in Registers(ledger) : ledger[i].reg = r}

(* active of deregister_spoke, by registration id: the last one wins.      *)
Retirable(r) ==
  {i \in Registers(ledger) : ledger[i].reg = r
     /\ \A j \in DOMAIN ledger : i < j => ledger[j].reg # r}

-----------------------------------------------------------------------------
(* What the readers make of a folded state and the file.                   *)

(* RegistryState.active of the reader.                                     *)
ViewActive == {view[i] : i \in Active(view)}

(* last_seen_by_spoke: from the file as it is now, whatever was folded.    *)
LastSeen(s) ==
  LET lines == {i \in Registers(ledger) : ledger[i].spoke = s /\ ledger[i].seen # Never}
  IN IF lines = {} THEN Never ELSE ledger[CHOOSE i \in lines : \A k \in lines : k <= i].seen

(* Slip: the limit itself is still healthy.                                *)
YoungOrAtLimit(seen) == seen # Never /\ clock - seen <= MaxAge

Young(seen) == seen # Never /\ clock - seen < MaxAge

Healthy == {a \in ViewActive : Young(LastSeen(a.spoke))}

(* can_accept_run.                                                         *)
CanAcceptRun(required) ==
  {a \in Healthy : required \subseteq CapabilitiesOf[a.definition]}

(* resolve_capability.                                                     *)
Offering(c) == {a \in ViewActive : c \in CapabilitiesOf[a.definition]}

-----------------------------------------------------------------------------
Init ==
  /\ ledger \in {<<>>} \cup {<<Line("register", r, d, Never)>> :
                               r \in Registration, d \in Definition}
  /\ clock = 0 /\ view = <<>>
  /\ call = [c \in Caller |-> Idle] /\ behind = {} /\ overtaken = FALSE

Room == Len(ledger) < MaxEvents

(* The call has found its line admissible; last_seen is not set yet.       *)
Begin(c, x) ==
  /\ Pending = {} \/ Len(ledger) < MaxOverlap
  /\ call' = [call EXCEPT ![c] = [pc |-> "checked", line |-> x]]
  /\ UNCHANGED <<ledger, clock, view, behind, overtaken>>

(* register_spoke, up to its call of _append_event.                        *)
Register(c, r, d) ==
  /\ call[c] = Idle /\ MayRegister(r, d)
  /\ Begin(c, Line("register", r, d, Never))

(* deregister_spoke, likewise.                                             *)
Deregister(c, r) ==
  /\ call[c] = Idle
  /\ \E i \in Retirable(r) : Begin(c, Line("deregister", r, ledger[i].definition, Never))

(* _append_event reads what it will write back.                            *)
Copy(c) ==
  /\ Room /\ call[c].pc = "checked"
  /\ call' = [call EXCEPT ![c] = [pc |-> "copied", base |-> ledger,
                                  line |-> [call[c].line EXCEPT !.seen = clock]]]
  /\ UNCHANGED <<ledger, clock, view, behind, overtaken>>

(* os.replace, whatever the ledger has become.                             *)
Replace(c) ==
  /\ call[c].pc = "copied"
  /\ ledger' = Append(call[c].base, call[c].line)
  /\ call' = [call EXCEPT ![c] = Idle]
  /\ behind' = Pending \ {c}
  /\ overtaken' = (overtaken \/ c \in behind)
  /\ UNCHANGED <<clock, view>>

(* The call ends in an error or with its process.                          *)
Fail(c) ==
  /\ call[c] # Idle
  /\ call' = [call EXCEPT ![c] = Idle]
  /\ behind' = behind \ {c}
  /\ UNCHANGED <<ledger, clock, view, overtaken>>

(* Slip: whatever could be read is kept.                                   *)
FoldAnyway(known) == view' = ledger /\ UNCHANGED <<ledger, clock, call, behind, overtaken>>

(* fold_registry with the definitions and providers its caller knows: an   *)
(* error leaves the caller with the state it had.                          *)
Fold(known) ==
  /\ Folds(ledger)
  /\ \A i \in Registers(ledger) : ledger[i].definition \in known
  /\ view' = ledger
  /\ UNCHANGED <<ledger, clock, call, behind, overtaken>>

Tick ==
  /\ clock < MaxClock /\ clock' = clock + 1
  /\ UNCHANGED <<ledger, view, call, behind, overtaken>>

Next ==
  \/ \E c \in Caller :
       \/ \E r \in Registration, d \in Definition : Register(c, r, d)
       \/ \E r \in Registration : Deregister(c, r)
       \/ Copy(c) \/ Replace(c) \/ Fail(c)
  \/ \E known \in SUBSET Definition : Fold(known)
  \/ Tick

Spec == Init /\ [][Next]_vars

-----------------------------------------------------------------------------
(* The shape of the state; the reader's state always comes from lines that *)
(* fold.                                                                   *)
TypeOK ==
  /\ ledger \in Seq(Event) /\ Len(ledger) <= MaxEvents
  /\ clock \in 0..MaxClock
  /\ view \in Seq(Event) /\ Folds(view)
  /\ call \in [Caller -> {Idle} \cup Checked \cup Copied]
  /\ \A c \in Caller : call[c].pc = "copied" => Len(call[c].base) < MaxEvents
  /\ behind \subseteq Pending /\ overtaken \in BOOLEAN

(* A registration under an identifier that was used before.                *)
ReusesId(events) == SeenTwice(events)

(* A registration of a capability another spoke has at that time.          *)
SharesCapability(events) ==
  \E i \in Registers(events) : \E k \in ActiveBefore(events, i) : Collides(events, k, i)

(* The two things register_spoke lets through and a call that puts its     *)
(* line in a ledger replaced since its check (registry.py 463-482 and      *)
(* 233-262) are the only ways to make the ledger unreadable: everything    *)
(* else it and deregister_spoke append folds, although neither of them     *)
(* folds as fold_registry does, and however many calls overlap that end    *)
(* without writing.                                                        *)
OnlyKnownWaysToBreak ==
  Folds(ledger) \/ ReusesId(ledger) \/ SharesCapability(ledger) \/ overtaken

(* What the docstring of register_spoke (458) says: registrations of a     *)
(* capability another spoke has are rejected.  They are not: no check is   *)
(* made of capabilities (467-482).                                         *)
CollisionsRejected == ~SharesCapability(ledger)

(* On a ledger that folds, and that no call has written over, the three    *)
(* readings of it agree: the dictionary by spoke of register_spoke, the    *)
(* one by identifier of deregister_spoke and the strict fold.              *)
ReadersAgree ==
  Folds(ledger) /\ ~overtaken =>
    /\ {s \in Spoke : SpokeTaken(ledger, s)} = {ledger[i].spoke : i \in Active(ledger)}
    /\ \A r \in Registration : Retirable(r) = {i \in Active(ledger) : ledger[i].reg = r}

(* Through whatever state a reader has kept, a capability leads to at most *)
(* one spoke, so the order resolve_capability looks in does not matter.    *)
OneSpokePerCapability ==
  \A c \in Capability : Cardinality(Offering(c)) <= 1

(* As long as the ledger is the one the reader folded, a spoke it would    *)
(* give a run to is registered now, by the very line its health was read   *)
(* from, and for less than the allowed age; even after calls overlapped.   *)
FreshViewIsLive ==
  view = ledger =>
    \A a \in CanAcceptRun({}) :
       \E i \in Active(ledger) : ledger[i] = a /\ a.seen # Never /\ clock - a.seen < MaxAge

(* Whoever gives a run to a spoke of a folded state gives it to one spoke, *)
(* and to one that is there.                                               *)
RunsGoToLiveSpokes == OneSpokePerCapability /\ FreshViewIsLive

(* The registry implements its contract: identifiers retired once do not   *)
(* come back, capabilities are not shared, and a ledger that no longer     *)
(* folds, or that a call has written over, is of no more use.              *)
Usable == Folds(ledger) /\ ~overtaken

Contract == INSTANCE RegistryContract WITH
  active <- IF Usable
            THEN {[spoke |-> ledger[i].spoke, reg |-> ledger[i].reg,
                   definition |-> ledger[i].definition] : i \in Active(ledger)}
            ELSE {},
  retired <- Retired(ledger),
  usable <- Usable

ImplementsContract == Contract!Spec

=============================================================================
