-------------------------- MODULE SpokeRegistryProofs --------------------------
(***************************************************************************)
(* Proofs about the spoke registry, for any spokes, definitions and        *)
(* identifiers, a ledger of any length and any number of calls at once.    *)
(***************************************************************************)
EXTENDS SpokeRegistry, TLAPS, FiniteSetTheorems

(* What deregister_spoke relies on without checking it: a registration     *)
(* that has lost its spoke to a tombstone was retired by its own name.     *)
RetiredByName(events) ==
  \A i \in Registers(events) :
     (\E j \in Tombstones(events) : i < j /\ events[j].spoke = events[i].spoke)
       => \E j \in Tombstones(events) : i < j /\ events[j].reg = events[i].reg

(* Only the first line may be one of an older version.                     *)
SeenAfterFirst(events) == \A i \in DOMAIN events : i > 1 => events[i].seen # Never

(* The line of a call would pass the check of its function on the ledger   *)
(* as it is now.                                                           *)
Admissible(x) ==
  IF x.action = "register"
  THEN x.spoke = SpokeOf[x.definition] /\ MayRegister(x.reg, x.definition)
  ELSE \E i \in Retirable(x.reg) : x.spoke = SpokeOf[ledger[i].definition]

(* A line is put at the end of the ledger as it is.                        *)
Appends(x) == ledger' = Append(ledger, x) /\ overtaken' = overtaken

(* A call that nothing has happened behind is as good as atomic.           *)
CallOK(c) ==
  /\ call[c].pc = "copied" => SeenAfterFirst(call[c].base) /\ call[c].line.seen # Never
  /\ call[c] # Idle /\ c \notin behind =>
       /\ Admissible(call[c].line)
       /\ call[c].pc = "copied" => call[c].base = ledger

IInv ==
  /\ TypeOK /\ OnlyKnownWaysToBreak /\ SeenAfterFirst(ledger)
  /\ Folds(ledger) /\ ~overtaken => RetiredByName(ledger)
  /\ \A c \in Caller : CallOK(c)

-----------------------------------------------------------------------------
(* The lines of a ledger with one more.                                    *)
LEMMA AppendLines ==
  ASSUME NEW events \in Seq(Event), NEW x \in Event
  PROVE  LET longer == Append(events, x)
         IN /\ longer \in Seq(Event) /\ Len(longer) = Len(events) + 1
            /\ Len(events) \in Nat /\ DOMAIN events = 1..Len(events)
            /\ DOMAIN longer = 1..Len(events) + 1
            /\ longer[Len(events) + 1] = x
            /\ \A i \in DOMAIN events : longer[i] = events[i]
OBVIOUS

(* What was a registration or a tombstone stays one.                       *)
LEMMA AppendKinds ==
  ASSUME NEW events \in Seq(Event), NEW x \in Event
  PROVE  LET longer == Append(events, x)
         IN /\ \A i \in DOMAIN events :
                 /\ i \in Registers(longer) <=> i \in Registers(events)
                 /\ i \in Tombstones(longer) <=> i \in Tombstones(events)
            /\ Registers(longer) =
                 Registers(events) \cup (IF x.action = "register" THEN {Len(events) + 1} ELSE {})
            /\ Tombstones(longer) =
                 Tombstones(events) \cup (IF x.action = "register" THEN {} ELSE {Len(events) + 1})
<1> DEFINE longer == Append(events, x)
<1>1. /\ Len(events) \in Nat /\ DOMAIN events = 1..Len(events)
      /\ DOMAIN longer = 1..Len(events) + 1 /\ longer[Len(events) + 1] = x
      /\ \A i \in DOMAIN events : longer[i] = events[i]
  BY AppendLines
<1> HIDE DEF longer
<1>2. DOMAIN longer = DOMAIN events \cup {Len(events) + 1} /\ Len(events) + 1 \notin DOMAIN events
  BY <1>1
<1> QED
  BY <1>1, <1>2 DEF Registers, Tombstones, longer

(* A line changes nothing about what was active before it.                 *)
LEMMA AppendActive ==
  ASSUME NEW events \in Seq(Event), NEW x \in Event, NEW m \in 1..Len(events) + 1
  PROVE  ActiveBefore(Append(events, x), m) = ActiveBefore(events, m)
<1> DEFINE longer == Append(events, x)
<1>1. Len(events) \in Nat /\ DOMAIN events = 1..Len(events)
      /\ \A i \in DOMAIN events : longer[i] = events[i]
  BY AppendLines
<1>2. /\ \A i \in Registers(longer) : i < m => i \in Registers(events)
      /\ Registers(events) \subseteq Registers(longer)
      /\ \A j \in Tombstones(longer) : j < m => j \in Tombstones(events)
      /\ Tombstones(events) \subseteq Tombstones(longer)
  BY AppendKinds
<1>3. Registers(events) \subseteq DOMAIN events /\ Tombstones(events) \subseteq DOMAIN events
  BY DEF Registers, Tombstones
<1> HIDE DEF longer
<1> QED
  BY <1>1, <1>2, <1>3 DEF ActiveBefore, longer

(* A ledger folds when its beginning does and its last line does.          *)
LEMMA AppendFolds ==
  ASSUME NEW events \in Seq(Event), NEW x \in Event
  PROVE  LET longer == Append(events, x)
             last == Len(events) + 1
         IN Folds(longer) <=>
              /\ Folds(events)
              /\ IF x.action = "register" THEN RegisterFolds(longer, last)
                                          ELSE TombstoneFolds(longer, last)
<1> DEFINE longer == Append(events, x)
           last == Len(events) + 1
<1>1. /\ Len(events) \in Nat /\ DOMAIN events = 1..Len(events)
      /\ DOMAIN longer = 1..last /\ longer[last] = x
      /\ \A i \in DOMAIN events : longer[i] = events[i]
  BY AppendLines
<1>2. \A i \in DOMAIN events : ActiveBefore(longer, i) = ActiveBefore(events, i)
  BY <1>1, AppendActive
<1>3. \A i \in DOMAIN events : \A k \in Registers(longer) : k < i => k \in Registers(events)
  BY <1>1, AppendKinds
<1>4. Registers(events) \subseteq Registers(longer) /\ Registers(events) \subseteq DOMAIN events
  BY AppendKinds DEF Registers
<1>5. \A i \in DOMAIN events : ActiveBefore(events, i) \subseteq DOMAIN events
  BY <1>4 DEF ActiveBefore
<1> HIDE DEF longer
<1>6. ASSUME NEW i \in DOMAIN events
      PROVE  RegisterFolds(longer, i) <=> RegisterFolds(events, i)
  BY <1>1, <1>2, <1>3, <1>4, <1>5, <1>6 DEF RegisterFolds, Collides
<1>7. ASSUME NEW i \in DOMAIN events
      PROVE  TombstoneFolds(longer, i) <=> TombstoneFolds(events, i)
  BY <1>1, <1>2, <1>3, <1>4, <1>5, <1>7 DEF TombstoneFolds
<1>8. \A i \in 1..last : i = last \/ i \in DOMAIN events
  BY <1>1
<1>9. last \in DOMAIN longer /\ DOMAIN events \subseteq DOMAIN longer
  BY <1>1
<1> HIDE DEF last
<1>10. Folds(longer) <=>
         /\ Folds(events)
         /\ IF x.action = "register" THEN RegisterFolds(longer, last) ELSE TombstoneFolds(longer, last)
  BY <1>1, <1>6, <1>7, <1>8, <1>9 DEF Folds
<1> QED
  BY <1>10 DEF longer, last

(* An identifier used twice and a capability shared stay so.               *)
LEMMA AppendBroken ==
  ASSUME NEW events \in Seq(Event), NEW x \in Event
  PROVE  /\ ReusesId(events) => ReusesId(Append(events, x))
         /\ SharesCapability(events) => SharesCapability(Append(events, x))
<1> DEFINE longer == Append(events, x)
<1>1. /\ Len(events) \in Nat /\ DOMAIN events = 1..Len(events)
      /\ \A i \in DOMAIN events : longer[i] = events[i]
  BY AppendLines
<1>2. Registers(events) \subseteq Registers(longer) /\ Registers(events) \subseteq DOMAIN events
  BY AppendKinds DEF Registers
<1>3. \A i \in DOMAIN events : ActiveBefore(longer, i) = ActiveBefore(events, i)
  BY <1>1, AppendActive
<1>4. \A i \in DOMAIN events : ActiveBefore(events, i) \subseteq DOMAIN events
  BY <1>2 DEF ActiveBefore
<1> HIDE DEF longer
<1>5. ReusesId(events) => ReusesId(longer)
  BY <1>1, <1>2 DEF ReusesId, SeenTwice
<1>6. SharesCapability(events) => SharesCapability(longer)
  BY <1>1, <1>2, <1>3, <1>4 DEF SharesCapability, Collides
<1> QED
  BY <1>5, <1>6 DEF longer

-----------------------------------------------------------------------------
(* Active registrations are those no tombstone has come for.               *)
LEMMA ActiveLines ==
  ASSUME NEW events \in Seq(Event)
  PROVE  \A i : i \in Active(events) <=>
           /\ i \in Registers(events)
           /\ \A j \in Tombstones(events) : i < j => events[j].spoke # events[i].spoke
<1>1. Len(events) \in Nat /\ DOMAIN events = 1..Len(events)
  OBVIOUS
<1>2. Registers(events) \subseteq DOMAIN events /\ Tombstones(events) \subseteq DOMAIN events
  BY DEF Registers, Tombstones
<1>3. \A i \in DOMAIN events : i < Len(events) + 1
  BY <1>1
<1> QED
  BY <1>2, <1>3 DEF Active, ActiveBefore

(* On a ledger that folds a spoke is registered again only after a         *)
(* tombstone, an identifier never, and a line is about its own spoke.      *)
LEMMA FoldedLines ==
  ASSUME NEW events \in Seq(Event), Folds(events)
  PROVE  /\ \A i \in Registers(events) : SpokeOf[events[i].definition] = events[i].spoke
         /\ \A i, k \in Registers(events) :
              i < k => /\ events[i].reg # events[k].reg
                       /\ events[i].spoke = events[k].spoke =>
                            \E j \in Tombstones(events) :
                               i < j /\ j < k /\ events[j].spoke = events[i].spoke
         /\ \A j \in Tombstones(events) :
              \E k \in Registers(events) :
                 k < j /\ events[k].reg = events[j].reg /\ events[k].spoke = events[j].spoke
<1>1. \A i \in Registers(events) : RegisterFolds(events, i)
  BY DEF Folds, Registers
<1>2. \A j \in Tombstones(events) : TombstoneFolds(events, j)
  BY DEF Folds, Registers, Tombstones
<1> QED
  BY <1>1, <1>2 DEF RegisterFolds, TombstoneFolds, ActiveBefore

(* In a ledger that folds, no two active registrations share a spoke or a  *)
(* capability.                                                             *)
LEMMA ActiveUnique ==
  ASSUME NEW events \in Seq(Event), Folds(events),
         NEW i \in Active(events), NEW k \in Active(events)
  PROVE  /\ events[i].spoke = events[k].spoke => i = k
         /\ Collides(events, i, k) => i = k
<1>1. i \in Registers(events) /\ k \in Registers(events)
  BY ActiveLines
<1>2. i \in Int /\ k \in Int
  BY <1>1 DEF Registers
<1>3. events[i].spoke = events[k].spoke => i = k
  <2>1. \A j \in Tombstones(events) : (i < j => events[j].spoke # events[i].spoke)
                                    /\ (k < j => events[j].spoke # events[k].spoke)
    BY ActiveLines
  <2> QED
    BY <1>1, <1>2, <2>1, FoldedLines
<1>4. ASSUME NEW a \in Active(events), NEW b \in Active(events), a < b
      PROVE  ~Collides(events, a, b)
  <2>1. b \in Registers(events) /\ a \in Registers(events)
    BY ActiveLines
  <2>2. a \in ActiveBefore(events, b)
    BY <1>4, <2>1, ActiveLines DEF ActiveBefore
  <2> QED
    BY <2>1, <2>2 DEF Folds, Registers, RegisterFolds
<1>5. Collides(events, i, k) => Collides(events, k, i)
  BY DEF Collides
<1> QED
  BY <1>2, <1>3, <1>4, <1>5

(* The registrations deregister_spoke finds by identifier are those the    *)
(* fold finds by spoke.                                                    *)
LEMMA RetirableIsActive ==
  ASSUME TypeOK, Folds(ledger), RetiredByName(ledger), NEW r \in Registration
  PROVE  Retirable(r) = {i \in Active(ledger) : ledger[i].reg = r}
<1>1. ledger \in Seq(Event) /\ DOMAIN ledger = Registers(ledger) \cup Tombstones(ledger)
  BY DEF TypeOK, Registers, Tombstones
<1>2. ASSUME NEW i \in Retirable(r)
      PROVE  i \in Active(ledger) /\ ledger[i].reg = r
  BY <1>1, <1>2, ActiveLines DEF Retirable, RetiredByName
<1>3. ASSUME NEW i \in Active(ledger), ledger[i].reg = r
      PROVE  i \in Retirable(r)
  <2>1. i \in Registers(ledger) /\ i \in Int
    BY <1>1, ActiveLines DEF Registers
  <2> SUFFICES ASSUME NEW j \in DOMAIN ledger, i < j, ledger[j].reg = r
               PROVE  FALSE
    BY <1>3, <2>1 DEF Retirable
  <2>2. j \notin Registers(ledger)
    <3>1. \A k \in Registers(ledger) : i < k => ledger[i].reg # ledger[k].reg
      BY <1>1, <2>1, FoldedLines
    <3> QED
      BY <1>3, <3>1
  <2>3. j \in Tombstones(ledger)
    BY <1>1, <2>2
  <2>4. PICK k \in Registers(ledger) :
          k < j /\ ledger[k].reg = ledger[j].reg /\ ledger[k].spoke = ledger[j].spoke
    BY <1>1, <2>3, FoldedLines
  <2>5. k \in Int /\ (i < k \/ k < i => ledger[k].reg # ledger[i].reg)
    BY <1>1, <2>1, FoldedLines DEF Registers
  <2>6. k = i
    BY <1>3, <2>1, <2>4, <2>5
  <2> QED
    BY <1>1, <2>3, <2>4, <2>6, ActiveLines
<1>4. Retirable(r) \subseteq DOMAIN ledger
  BY DEF Retirable, Registers
<1> QED
  BY <1>2, <1>3

-----------------------------------------------------------------------------
(* A line of the ledger has the type of an event, and the fields it was    *)
(* made of.                                                                *)
LEMMA LineType ==
  ASSUME NEW action \in {"register", "deregister"}, NEW r \in Registration,
         NEW d \in Definition, NEW seen \in Nat \cup {Never}
  PROVE  /\ Line(action, r, d, seen) \in Event
         /\ Line(action, r, d, seen).action = action /\ Line(action, r, d, seen).reg = r
         /\ Line(action, r, d, seen).spoke = SpokeOf[d]
         /\ Line(action, r, d, seen).definition = d /\ Line(action, r, d, seen).seen = seen
BY RegistryAssumption DEF Line, Event

(* The empty ledger folds.                                                 *)
LEMMA EmptyFolds == Folds(<<>>) /\ RetiredByName(<<>>)
BY DEF Folds, RetiredByName, Registers

(* Nothing before it, a registration folds.                                *)
LEMMA SingleFolds ==
  ASSUME NEW r \in Registration, NEW d \in Definition
  PROVE  LET single == <<Line("register", r, d, Never)>>
         IN Folds(single) /\ RetiredByName(single)
<1> DEFINE single == <<Line("register", r, d, Never)>>
<1>1. DOMAIN single = {1} /\ single[1] = Line("register", r, d, Never)
  OBVIOUS
<1>2. single[1].action = "register" /\ SpokeOf[single[1].definition] = single[1].spoke
  BY <1>1, LineType DEF Never
<1> HIDE DEF single
<1>3. Registers(single) = {1} /\ Tombstones(single) = {} /\ ActiveBefore(single, 1) = {}
  BY <1>1, <1>2 DEF Registers, Tombstones, ActiveBefore
<1>4. RegisterFolds(single, 1)
  BY <1>2, <1>3 DEF RegisterFolds
<1>5. Folds(single)
  BY <1>1, <1>2, <1>4 DEF Folds
<1>6. RetiredByName(single)
  BY <1>3 DEF RetiredByName
<1> QED
  BY <1>5, <1>6 DEF single

(* The invariant holds of the empty ledger.                                *)
LEMMA InitInv == Init => IInv /\ Folds(ledger)
<1> SUFFICES ASSUME Init PROVE IInv /\ Folds(ledger)
  OBVIOUS
<1> DEFINE Short(events) == /\ events \in Seq(Event) /\ Len(events) \in {0, 1}
                            /\ DOMAIN events \subseteq {1}
                            /\ Folds(events) /\ RetiredByName(events)
<1>1. Short(<<>>)
  BY EmptyFolds
<1>2. ASSUME NEW r \in Registration, NEW d \in Definition
      PROVE  Short(<<Line("register", r, d, Never)>>)
  <2>1. Line("register", r, d, Never) \in Event
    BY LineType
  <2> QED
    BY <2>1, SingleFolds
<1>3. Short(ledger)
  <2> HIDE DEF Short
  <2>1. CASE ledger = <<>>
    BY <1>1, <2>1
  <2>2. ASSUME NEW r \in Registration, NEW d \in Definition,
               ledger = <<Line("register", r, d, Never)>>
        PROVE  Short(ledger)
    BY <1>2, <2>2
  <2> QED
    BY <2>1, <2>2 DEF Init
<1>4. /\ view = <<>> /\ clock = 0 /\ call = [c \in Caller |-> Idle]
      /\ behind = {} /\ overtaken = FALSE
  BY DEF Init
<1>5. MaxEvents \in Nat \ {0} /\ MaxClock \in Nat
  BY RegistryAssumption
<1>6. \A c \in Caller : call[c] = Idle /\ call[c].pc # "copied"
  BY <1>4 DEF Idle
<1>7. call \in [Caller -> {Idle} \cup Checked \cup Copied]
  BY <1>4
<1>8. clock \in 0..MaxClock
  BY <1>4, <1>5
<1>10. Len(ledger) <= MaxEvents
  <2>1. CASE Len(ledger) = 0
    BY <1>5, <2>1
  <2>2. CASE Len(ledger) = 1
    BY <1>5, <2>2
  <2> QED
    BY <1>3, <2>1, <2>2
<1>11. view \in Seq(Event)
  BY <1>4
<1>9. TypeOK
  BY <1>3, <1>4, <1>6, <1>7, <1>8, <1>10, <1>11, EmptyFolds DEF TypeOK
<1> QED
  BY <1>3, <1>6, <1>9 DEF IInv, CallOK, OnlyKnownWaysToBreak, SeenAfterFirst

-----------------------------------------------------------------------------
(* A caller's record, by how far it is.                                    *)
LEMMA CallTypes ==
  ASSUME TypeOK, NEW c \in Caller
  PROVE  /\ call[c] # Idle => call[c].line \in Event
         /\ call[c].pc = "checked" => call[c] # Idle
         /\ call[c].pc = "copied" =>
              /\ call[c] # Idle /\ call[c].base \in Seq(Event)
              /\ Len(call[c].base) < MaxEvents
BY DEF TypeOK, Idle, Checked, Copied

(* The line register_spoke has found admissible keeps the ledger as the    *)
(* invariant wants it (registry.py 461-491).                               *)
LEMMA RegisterKeeps ==
  ASSUME IInv, NEW x \in Event, x.action = "register", Admissible(x), Appends(x)
  PROVE  OnlyKnownWaysToBreak' /\ (Folds(ledger') /\ ~overtaken' => RetiredByName(ledger'))
<1>a. ledger' = Append(ledger, x) /\ overtaken' = overtaken
  BY DEF Appends
<1> DEFINE last == Len(ledger) + 1
<1>1. ledger \in Seq(Event)
  BY DEF IInv, TypeOK
<1>2. x.spoke = SpokeOf[x.definition] /\ MayRegister(x.reg, x.definition)
  BY DEF Admissible
<1>5. /\ DOMAIN ledger = 1..Len(ledger) /\ Len(ledger) \in Nat
      /\ ledger'[last] = x /\ \A i \in DOMAIN ledger : ledger'[i] = ledger[i]
      /\ Registers(ledger') = Registers(ledger) \cup {last}
      /\ Tombstones(ledger') = Tombstones(ledger)
      /\ ActiveBefore(ledger', last) = Active(ledger)
      /\ Registers(ledger) \subseteq DOMAIN ledger /\ Tombstones(ledger) \subseteq DOMAIN ledger
  BY <1>a, <1>1, AppendLines, AppendKinds, AppendActive DEF Active, Registers, Tombstones
<1>6. Folds(ledger') <=> Folds(ledger) /\ RegisterFolds(ledger', last)
  BY <1>a, <1>1, AppendFolds
<1> HIDE DEF last
<1>7. OnlyKnownWaysToBreak'
  <2> SUFFICES ASSUME ~ReusesId(ledger'), ~SharesCapability(ledger'), ~overtaken'
               PROVE  Folds(ledger')
    BY DEF OnlyKnownWaysToBreak
  <2>1. Folds(ledger)
    BY <1>a, <1>1, AppendBroken DEF IInv, OnlyKnownWaysToBreak
  <2>2. \A k \in Registers(ledger') : k < last => ledger'[k].reg # ledger'[last].reg
    <3>1. last \in Registers(ledger') /\ last \in Int /\ Registers(ledger) \subseteq Int
      BY <1>5 DEF last
    <3>2. \A k \in Registers(ledger') : k < last => k # last
      BY <1>5, <3>1
    <3> QED
      BY <3>1, <3>2 DEF ReusesId, SeenTwice
  <2>3. \A k \in ActiveBefore(ledger', last) : ~Collides(ledger', k, last)
    BY <1>5 DEF SharesCapability, Collides
  <2>4. \A k \in ActiveBefore(ledger', last) : ledger'[k].spoke # ledger'[last].spoke
    BY <1>1, <1>2, <1>5, ActiveLines DEF MayRegister, SpokeTaken
  <2>5. SpokeOf[ledger'[last].definition] = ledger'[last].spoke
    BY <1>2, <1>5
  <2> QED
    BY <1>6, <2>1, <2>2, <2>3, <2>4, <2>5 DEF RegisterFolds
<1>8. Folds(ledger') /\ ~overtaken' => RetiredByName(ledger')
  <2> SUFFICES ASSUME Folds(ledger'), ~overtaken' PROVE RetiredByName(ledger')
    OBVIOUS
  <2>1. RetiredByName(ledger)
    BY <1>a, <1>6 DEF IInv
  <2>2. \A j \in Tombstones(ledger) : j < last
    BY <1>5 DEF last
  <2>3. \A j \in Tombstones(ledger) : ~(last < j)
    BY <1>5 DEF last
  <2> QED
    BY <1>5, <2>1, <2>3 DEF RetiredByName
<1> QED
  BY <1>7, <1>8

(* So does the one of deregister_spoke, and a ledger that folded still     *)
(* does.                                                                   *)
LEMMA DeregisterKeeps ==
  ASSUME IInv, NEW x \in Event, x.action # "register", Admissible(x), Appends(x)
  PROVE  /\ OnlyKnownWaysToBreak' /\ (Folds(ledger') /\ ~overtaken' => RetiredByName(ledger'))
         /\ Folds(ledger) /\ ~overtaken => Folds(ledger')
<1>a. ledger' = Append(ledger, x) /\ overtaken' = overtaken
  BY DEF Appends
<1>0. PICK r \in Registration : x.reg = r
  BY DEF Event
<1>1. PICK i \in Retirable(r) :
        x.spoke = SpokeOf[ledger[i].definition] /\ ledger[i].reg = r /\ x.reg = r
  BY <1>0 DEF Admissible, Retirable
<1> DEFINE last == Len(ledger) + 1
<1>2. ledger \in Seq(Event) /\ TypeOK
  BY DEF IInv, TypeOK
<1>4. /\ DOMAIN ledger = 1..Len(ledger) /\ Len(ledger) \in Nat
      /\ ledger'[last] = x /\ \A k \in DOMAIN ledger : ledger'[k] = ledger[k]
      /\ Registers(ledger') = Registers(ledger)
      /\ Tombstones(ledger') = Tombstones(ledger) \cup {last}
      /\ ActiveBefore(ledger', last) = Active(ledger)
      /\ Registers(ledger) \subseteq DOMAIN ledger
  BY <1>a, <1>1, <1>2, AppendLines, AppendKinds, AppendActive DEF Active, Registers
<1>5. Folds(ledger') <=> Folds(ledger) /\ TombstoneFolds(ledger', last)
  BY <1>a, <1>1, <1>2, AppendFolds
<1>6. \A k \in Registers(ledger) : k < last
  BY <1>4
<1> HIDE DEF last
<1>7. ASSUME Folds(ledger), ~overtaken
      PROVE  Folds(ledger') /\ RetiredByName(ledger')
  <2>1. i \in Active(ledger) /\ i \in Registers(ledger)
    BY <1>0, <1>1, <1>2, <1>7, RetirableIsActive, ActiveLines DEF IInv
  <2>2. x.spoke = ledger[i].spoke
    BY <1>1, <1>2, <1>7, <2>1, FoldedLines
  <2>3. TombstoneFolds(ledger', last)
    BY <1>1, <1>4, <1>6, <2>1, <2>2 DEF TombstoneFolds
  <2>4. ASSUME NEW k \in Registers(ledger), ledger[k].spoke = x.spoke,
               \A j \in Tombstones(ledger) : k < j => ledger[j].spoke # ledger[k].spoke
        PROVE  ledger[k].reg = r
    <3>1. k \in Active(ledger)
      BY <1>2, <2>4, ActiveLines
    <3> QED
      BY <1>1, <1>2, <1>7, <2>1, <2>2, <2>4, <3>1, ActiveUnique
  <2>5. RetiredByName(ledger)
    BY <1>7 DEF IInv
  <2>6. Tombstones(ledger) \subseteq DOMAIN ledger
    BY DEF Tombstones
  <2>7. RetiredByName(ledger')
    <3> SUFFICES ASSUME NEW k \in Registers(ledger), NEW m \in Tombstones(ledger) \cup {last},
                        k < m, ledger'[m].spoke = ledger[k].spoke
                 PROVE  \E j \in Tombstones(ledger) \cup {last} :
                           k < j /\ ledger'[j].reg = ledger[k].reg
      BY <1>4 DEF RetiredByName
    <3>1. CASE \E j \in Tombstones(ledger) : k < j /\ ledger[j].spoke = ledger[k].spoke
      <4>1. \E j \in Tombstones(ledger) : k < j /\ ledger[j].reg = ledger[k].reg
        BY <2>5, <3>1 DEF RetiredByName
      <4> QED
        BY <1>4, <2>6, <4>1
    <3>2. CASE \A j \in Tombstones(ledger) : k < j => ledger[j].spoke # ledger[k].spoke
      <4>1. m = last
        BY <1>4, <2>6, <3>2
      <4>2. ledger[k].reg = r
        BY <1>4, <2>4, <3>2, <4>1
      <4> QED
        BY <1>1, <1>4, <1>6, <4>2
    <3> QED
      BY <3>1, <3>2
  <2> QED
    BY <1>5, <1>7, <2>3, <2>7
<1>8. OnlyKnownWaysToBreak'
  BY <1>a, <1>2, <1>7, AppendBroken DEF IInv, OnlyKnownWaysToBreak
<1> QED
  BY <1>a, <1>5, <1>7, <1>8

(* What a call that nothing has happened behind does to the ledger.        *)
LEMMA ReplaceFacts ==
  ASSUME IInv, NEW c \in Caller, Replace(c), c \notin behind
  PROVE  call[c].line \in Event /\ Admissible(call[c].line) /\ Appends(call[c].line)
<1>1. call[c].pc = "copied" /\ call[c] # Idle /\ call[c].line \in Event /\ CallOK(c)
  BY CallTypes DEF Replace, IInv
<1>2. overtaken \in BOOLEAN
  BY DEF IInv, TypeOK
<1> QED
  BY <1>1, <1>2 DEF Replace, CallOK, Appends

(* What a replacing call does to the ledger, whatever happened meanwhile.  *)
LEMMA ReplaceTypes ==
  ASSUME IInv, NEW c \in Caller, Replace(c)
  PROVE  TypeOK' /\ SeenAfterFirst(ledger') /\ \A k \in Caller : CallOK(k)'
<1> DEFINE base == call[c].base
           x == call[c].line
<1>1. /\ base \in Seq(Event) /\ Len(base) < MaxEvents /\ x \in Event
      /\ SeenAfterFirst(base) /\ x.seen # Never
  BY CallTypes DEF Replace, IInv, CallOK
<1>2. ledger' = Append(base, x)
  BY DEF Replace
<1> HIDE DEF base, x
<1>3. /\ ledger' \in Seq(Event) /\ Len(ledger') = Len(base) + 1 /\ Len(base) \in Nat
      /\ DOMAIN base = 1..Len(base) /\ DOMAIN ledger' = 1..Len(base) + 1
      /\ ledger'[Len(base) + 1] = x /\ \A i \in DOMAIN base : ledger'[i] = base[i]
  BY <1>1, <1>2, AppendLines
<1>4. Len(ledger') <= MaxEvents
  BY <1>1, <1>3, RegistryAssumption
<1>5. SeenAfterFirst(ledger')
  BY <1>1, <1>3 DEF SeenAfterFirst
<1>6. /\ call \in [Caller -> {Idle} \cup Checked \cup Copied]
      /\ call' = [call EXCEPT ![c] = Idle] /\ Idle.pc = "idle"
  BY DEF Replace, IInv, TypeOK, Idle
<1>7. \A k \in Caller : \/ (call'[k] = Idle /\ call'[k].pc # "copied")
                         \/ (k # c /\ call'[k] = call[k])
  BY <1>6
<1>8. behind' = Pending \ {c} /\ behind' \subseteq Pending'
  BY <1>6, <1>7 DEF Replace, Pending
<1>9. overtaken' \in BOOLEAN /\ UNCHANGED <<clock, view>>
  BY DEF Replace, IInv, TypeOK
<1>10. call' \in [Caller -> {Idle} \cup Checked \cup Copied]
  BY <1>6
<1>11. \A k \in Caller : call'[k].pc = "copied" => Len(call'[k].base) < MaxEvents
  BY <1>7 DEF IInv, TypeOK
<1>12. TypeOK'
  BY <1>3, <1>4, <1>8, <1>9, <1>10, <1>11 DEF IInv, TypeOK
<1>13. ASSUME NEW k \in Caller
       PROVE  CallOK(k)'
  <2>1. CASE call'[k] = Idle /\ call'[k].pc # "copied"
    BY <2>1 DEF CallOK
  <2>2. CASE k # c /\ call'[k] = call[k]
    <3>1. CallOK(k) /\ (call[k] # Idle => k \in behind')
      BY <1>8, <2>2 DEF IInv, Pending
    <3> QED
      BY <2>2, <3>1 DEF CallOK
  <2> QED
    BY <1>7, <2>1, <2>2
<1> QED
  BY <1>5, <1>12, <1>13

(* os.replace keeps the invariant (registry.py 247-262).                   *)
LEMMA ReplaceInv ==
  ASSUME IInv, NEW c \in Caller, Replace(c)
  PROVE  IInv'
<1>1. CASE c \in behind
  <2>1. overtaken' = TRUE
    BY <1>1 DEF Replace
  <2> QED
    BY <2>1, ReplaceTypes DEF IInv, OnlyKnownWaysToBreak
<1>2. CASE c \notin behind
  <2>1. OnlyKnownWaysToBreak' /\ (Folds(ledger') /\ ~overtaken' => RetiredByName(ledger'))
    BY <1>2, ReplaceFacts, RegisterKeeps, DeregisterKeeps
  <2> QED
    BY <2>1, ReplaceTypes DEF IInv
<1> QED
  BY <1>1, <1>2

(* The steps of a call that leave the ledger as it is.                     *)
LEMMA CallInv ==
  ASSUME IInv, NEW c \in Caller, NEW y \in {Idle} \cup Checked \cup Copied,
         call' = [call EXCEPT ![c] = y], UNCHANGED <<ledger, clock, view, overtaken>>,
         behind' = IF y = Idle THEN behind \ {c} ELSE behind,
         y.pc = "copied" => /\ y.base = ledger /\ Room /\ y.line.seen # Never,
         y # Idle /\ c \notin behind => Admissible(y.line)
  PROVE  IInv'
<1>1. /\ call \in [Caller -> {Idle} \cup Checked \cup Copied] /\ behind \subseteq Pending
      /\ \A k \in Caller : call[k].pc = "copied" => Len(call[k].base) < MaxEvents
      /\ \A k \in Caller : CallOK(k) /\ SeenAfterFirst(ledger)
  BY DEF IInv, TypeOK
<1>2. /\ call' \in [Caller -> {Idle} \cup Checked \cup Copied]
      /\ call'[c] = y /\ \A k \in Caller : k # c => call'[k] = call[k]
  BY <1>1
<1>3. behind' \subseteq Pending'
  BY <1>1, <1>2 DEF Pending
<1>4. \A k \in Caller : call'[k].pc = "copied" => Len(call'[k].base) < MaxEvents
  BY <1>1, <1>2 DEF Room
<1>5. TypeOK'
  BY <1>2, <1>3, <1>4 DEF IInv, TypeOK
<1>6. \A x : Admissible(x)' <=> Admissible(x)
  BY DEF Admissible, MayRegister, SeenTwice, Registered, Retired, SpokeTaken, Retirable,
         Registers, Tombstones
<1>7. ASSUME NEW k \in Caller
      PROVE  CallOK(k)'
  <2>1. CASE k # c
    <3>1. CallOK(k) /\ call'[k] = call[k] /\ (k \in behind' <=> k \in behind) /\ ledger' = ledger
      BY <1>1, <1>2, <2>1
    <3> QED
      BY <1>6, <3>1 DEF CallOK, SeenAfterFirst
  <2>2. CASE k = c
    <3>1. call'[k] = y /\ (y # Idle => (c \in behind' <=> c \in behind)) /\ ledger' = ledger
      BY <1>2, <2>2
    <3>2. y.pc = "copied" => SeenAfterFirst(y.base) /\ y.line.seen # Never
      BY <1>1
    <3> QED
      BY <1>6, <2>2, <3>1, <3>2 DEF CallOK
  <2> QED
    BY <2>1, <2>2
<1>8. OnlyKnownWaysToBreak' /\ SeenAfterFirst(ledger')
  BY DEF IInv, OnlyKnownWaysToBreak
<1> QED
  BY <1>5, <1>7, <1>8 DEF IInv

(* A check leaves an admissible line.                                      *)
LEMMA BeginInv ==
  ASSUME IInv, NEW c \in Caller, call[c] = Idle, NEW x \in Event, Admissible(x), Begin(c, x)
  PROVE  IInv'
<1> DEFINE y == [pc |-> "checked", line |-> x]
<1>1. y \in Checked /\ y # Idle /\ y.pc # "copied" /\ y.line = x
  BY DEF Checked, Idle
<1>2. /\ call' = [call EXCEPT ![c] = y] /\ behind' = behind
      /\ UNCHANGED <<ledger, clock, view, overtaken>>
  BY DEF Begin
<1> HIDE DEF y
<1> QED
  BY <1>1, <1>2, CallInv

(* register_spoke up to the append.                                        *)
LEMMA RegisterInv ==
  ASSUME IInv, NEW c \in Caller, NEW r \in Registration, NEW d \in Definition,
         Register(c, r, d)
  PROVE  IInv'
<1> DEFINE x == Line("register", r, d, Never)
<1>1. x \in Event /\ x.action = "register" /\ x.reg = r /\ x.definition = d /\ x.spoke = SpokeOf[d]
  <2>1. SpokeOf[d] \in Spoke /\ Never \in Nat \cup {Never}
    BY RegistryAssumption
  <2> QED
    BY <2>1 DEF Line, Event
<1>2. call[c] = Idle /\ MayRegister(r, d) /\ Begin(c, x)
  BY DEF Register
<1> HIDE DEF x
<1>3. Admissible(x)
  BY <1>1, <1>2 DEF Admissible
<1> QED
  BY <1>1, <1>2, <1>3, BeginInv

(* The line of a tombstone.                                                *)
LEMMA TombstoneLine ==
  ASSUME NEW r \in Registration, NEW d \in Definition
  PROVE  \E x \in Event :
           /\ x = Line("deregister", r, d, Never) /\ x.action # "register" /\ x.reg = r
           /\ x.spoke = SpokeOf[d]
<1> DEFINE x == Line("deregister", r, d, Never)
<1>1. x \in Event /\ x.action = "deregister" /\ x.reg = r /\ x.spoke = SpokeOf[d]
  <2>1. SpokeOf[d] \in Spoke /\ Never \in Nat \cup {Never}
    BY RegistryAssumption
  <2> QED
    BY <2>1 DEF Line, Event
<1>2. "deregister" # "register"
  OBVIOUS
<1> HIDE DEF x
<1>3. x \in Event /\ x.action # "register" /\ x.reg = r /\ x.spoke = SpokeOf[d]
  BY <1>1, <1>2
<1>4. x = Line("deregister", r, d, Never)
  BY DEF x
<1> QED
  BY <1>3, <1>4

(* deregister_spoke up to the append.                                      *)
LEMMA DeregisterInv ==
  ASSUME IInv, NEW c \in Caller, NEW r \in Registration, Deregister(c, r)
  PROVE  IInv'
<1>1. PICK i \in Retirable(r) : Begin(c, Line("deregister", r, ledger[i].definition, Never))
  BY DEF Deregister
<1>2. PICK d \in Definition : d = ledger[i].definition
  <2>1. ledger \in Seq(Event) /\ i \in DOMAIN ledger
    BY DEF IInv, TypeOK, Retirable, Registers
  <2>2. ledger[i] \in Event
    BY <2>1
  <2> QED
    BY <2>2 DEF Event
<1>3. PICK x \in Event : /\ x = Line("deregister", r, d, Never) /\ x.action # "register"
                         /\ x.reg = r /\ x.spoke = SpokeOf[d]
  BY <1>2, TombstoneLine
<1>4. call[c] = Idle /\ Begin(c, x)
  BY <1>1, <1>2, <1>3 DEF Deregister
<1>5. Admissible(x)
  BY <1>1, <1>2, <1>3 DEF Admissible
<1> QED
  BY <1>3, <1>4, <1>5, BeginInv

(* The copy of the ledger in _append_event, and the time of the line.      *)
LEMMA CopyInv ==
  ASSUME IInv, NEW c \in Caller, Copy(c)
  PROVE  IInv'
<1> DEFINE x == [call[c].line EXCEPT !.seen = clock]
           y == [pc |-> "copied", line |-> x, base |-> ledger]
<1>1. call[c] # Idle /\ call[c].line \in Event /\ CallOK(c) /\ Room
  BY CallTypes DEF IInv, Copy
<1>2. clock \in Nat /\ ledger \in Seq(Event)
  BY RegistryAssumption DEF IInv, TypeOK
<1>3. /\ x \in Event /\ x.seen # Never /\ x.action = call[c].line.action
      /\ x.reg = call[c].line.reg /\ x.spoke = call[c].line.spoke
      /\ x.definition = call[c].line.definition
  BY <1>1, <1>2 DEF Event, Never
<1>4. c \notin behind => Admissible(x)
  BY <1>1, <1>3 DEF CallOK, Admissible
<1>5. call' = [call EXCEPT ![c] = y] /\ behind' = behind /\ UNCHANGED <<ledger, clock, view, overtaken>>
  BY DEF Copy
<1> HIDE DEF x
<1>6. y \in Copied /\ y # Idle /\ y.pc = "copied" /\ y.line = x /\ y.base = ledger
  BY <1>2, <1>3 DEF Copied, Idle
<1> HIDE DEF y
<1> QED
  BY <1>1, <1>3, <1>4, <1>5, <1>6, CallInv

(* A call that ends without writing.                                       *)
LEMMA FailInv ==
  ASSUME IInv, NEW c \in Caller, Fail(c)
  PROVE  IInv'
<1>1. Idle.pc # "copied"
  BY DEF Idle
<1> QED
  BY <1>1, CallInv DEF Fail

(* Steps that leave the ledger and the calls as they are.                  *)
LEMMA QuietInv ==
  ASSUME IInv, UNCHANGED <<ledger, call, behind, overtaken>>, TypeOK'
  PROVE  IInv'
<1>1. \A x : Admissible(x)' <=> Admissible(x)
  BY DEF Admissible, MayRegister, SeenTwice, Registered, Retired, SpokeTaken, Retirable,
         Registers, Tombstones
<1>2. \A c \in Caller : CallOK(c)'
  BY <1>1 DEF IInv, CallOK
<1>3. OnlyKnownWaysToBreak' /\ SeenAfterFirst(ledger')
  BY DEF IInv, OnlyKnownWaysToBreak
<1> QED
  BY <1>2, <1>3 DEF IInv

(* The invariant is inductive ...                                          *)
LEMMA InvStep == IInv /\ [Next]_vars => IInv'
<1> SUFFICES ASSUME IInv, [Next]_vars PROVE IInv'
  OBVIOUS
<1>1. CASE UNCHANGED vars
  <2>1. TypeOK'
    BY <1>1 DEF vars, IInv, TypeOK, Pending
  <2> QED
    BY <1>1, <2>1, QuietInv DEF vars
<1>2. ASSUME NEW known \in SUBSET Definition, Fold(known)
      PROVE  IInv'
  <2>1. TypeOK'
    BY <1>2 DEF Fold, IInv, TypeOK, Pending
  <2> QED
    BY <1>2, <2>1, QuietInv DEF Fold
<1>3. CASE Tick
  <2>1. clock' \in 0..MaxClock
    BY <1>3, RegistryAssumption DEF Tick, IInv, TypeOK
  <2>2. TypeOK'
    BY <1>3, <2>1 DEF Tick, IInv, TypeOK, Pending
  <2> QED
    BY <1>3, <2>2, QuietInv DEF Tick
<1> QED
  BY <1>1, <1>2, <1>3, RegisterInv, DeregisterInv, CopyInv, ReplaceInv, FailInv DEF Next

-----------------------------------------------------------------------------
(* ... and so it holds in every reachable state.                           *)
LEMMA InvHolds == Spec => []IInv
BY InitInv, InvStep, PTL DEF Spec

(***************************************************************************)
(* The ledger, the clock and the calls keep their types, and whatever      *)
(* happens to the ledger afterwards, the lines a reader folded do fold.    *)
(***************************************************************************)
THEOREM TypeCorrect == Spec => []TypeOK
BY InvHolds, PTL DEF IInv

(***************************************************************************)
(* No sequence of registrations and retirements, however long and by       *)
(* however many callers at once, makes the ledger unreadable but by an     *)
(* identifier used again, a capability shared, or a call that puts its     *)
(* line in a ledger replaced since its check.                              *)
(***************************************************************************)
THEOREM OnlyKnownWays == Spec => []OnlyKnownWaysToBreak
BY InvHolds, PTL DEF IInv

(***************************************************************************)
(* register_spoke, deregister_spoke and fold_registry read the same        *)
(* registrations off every ledger that folds and was not written over.     *)
(***************************************************************************)
THEOREM ReadersAlwaysAgree == Spec => []ReadersAgree
<1>1. IInv => ReadersAgree
  <2> SUFFICES ASSUME IInv, Folds(ledger), ~overtaken PROVE ReadersAgree
    BY DEF ReadersAgree
  <2>1. ledger \in Seq(Event) /\ TypeOK /\ RetiredByName(ledger)
    BY DEF IInv, TypeOK
  <2>2. \A i \in Active(ledger) : ledger[i].spoke \in Spoke
    <3>1. \A i \in Active(ledger) : i \in DOMAIN ledger
      BY <2>1, ActiveLines DEF Registers
    <3>2. \A i \in DOMAIN ledger : ledger[i] \in Event
      BY <2>1
    <3> QED
      BY <3>1, <3>2 DEF Event
  <2>3. \A s : SpokeTaken(ledger, s) <=> \E i \in Active(ledger) : ledger[i].spoke = s
    BY <2>1, ActiveLines DEF SpokeTaken
  <2>4. {s \in Spoke : SpokeTaken(ledger, s)} = {ledger[i].spoke : i \in Active(ledger)}
    BY <2>2, <2>3
  <2> QED
    BY <2>1, <2>4, RetirableIsActive DEF ReadersAgree
<1> QED
  BY <1>1, InvHolds, PTL

-----------------------------------------------------------------------------
(* What the reader holds is active in the lines it folded.                 *)
LEMMA ViewLines ==
  ASSUME IInv
  PROVE  /\ view \in Seq(Event) /\ Folds(view)
         /\ \A i \in Active(view) : i \in DOMAIN view
<1>1. view \in Seq(Event) /\ Folds(view)
  BY DEF IInv, TypeOK
<1> QED
  BY <1>1, ActiveLines DEF Registers

(* A folded state offers one spoke for a capability at most.               *)
LEMMA OneSpoke == IInv => OneSpokePerCapability
<1> SUFFICES ASSUME IInv, NEW c \in Capability PROVE Cardinality(Offering(c)) <= 1
  BY DEF OneSpokePerCapability
<1>1. ASSUME NEW a \in Offering(c), NEW b \in Offering(c)
      PROVE  a = b
  <2>1. PICK i \in Active(view) : a = view[i]
    BY <1>1 DEF Offering, ViewActive
  <2>2. PICK k \in Active(view) : b = view[k]
    BY <1>1 DEF Offering, ViewActive
  <2>3. c \in CapabilitiesOf[a.definition] /\ c \in CapabilitiesOf[b.definition]
    BY <1>1 DEF Offering
  <2>4. Collides(view, i, k)
    BY <2>1, <2>2, <2>3, ViewLines DEF Collides
  <2> QED
    BY <2>1, <2>2, <2>4, ViewLines, ActiveUnique
<1>2. CASE Offering(c) = {}
  BY <1>2, FS_EmptySet
<1>3. ASSUME NEW a \in Offering(c)
      PROVE  Cardinality(Offering(c)) <= 1
  <2>1. Offering(c) = {a}
    BY <1>1, <1>3
  <2>2. Cardinality({a}) = 1
    BY FS_Singleton
  <2> QED
    BY <2>1, <2>2
<1> QED
  BY <1>2, <1>3

(* The last line that tells when a spoke was seen is its registration.     *)
LEMMA SeenByOwnLine ==
  ASSUME IInv, Folds(ledger), NEW i \in Active(ledger), LastSeen(ledger[i].spoke) # Never
  PROVE  LastSeen(ledger[i].spoke) = ledger[i].seen
<1> DEFINE s == ledger[i].spoke
           lines == {k \in Registers(ledger) : ledger[k].spoke = s /\ ledger[k].seen # Never}
<1>1. /\ ledger \in Seq(Event) /\ i \in Registers(ledger)
      /\ Registers(ledger) \subseteq DOMAIN ledger /\ DOMAIN ledger \subseteq Nat \ {0}
  BY ActiveLines DEF IInv, TypeOK, Registers
<1>2. \A k \in lines : k <= i
  <2> SUFFICES ASSUME NEW k \in lines, i < k PROVE FALSE
    BY <1>1
  <2>1. PICK j \in Tombstones(ledger) : i < j /\ ledger[j].spoke = ledger[i].spoke
    BY <1>1, FoldedLines
  <2> QED
    BY <1>1, <2>1, ActiveLines
<1>3. lines # {} /\ LastSeen(s) = ledger[CHOOSE k \in lines : \A m \in lines : m <= k].seen
  BY DEF LastSeen
<1>4. i \in lines
  <2>1. PICK k \in lines : TRUE
    BY <1>3
  <2>2. k = i \/ i > 1
    BY <1>1, <1>2
  <2> QED
    BY <1>1, <2>1, <2>2 DEF IInv, SeenAfterFirst
<1> HIDE DEF lines
<1>5. \A k \in lines : k \in Nat
  BY <1>1 DEF lines
<1>6. (CHOOSE k \in lines : \A m \in lines : m <= k) = i
  BY <1>2, <1>4, <1>5
<1> QED
  BY <1>3, <1>6

(* If the ledger is what the reader folded, what it holds is what is       *)
(* registered.                                                             *)
LEMMA FreshIsLive == IInv => FreshViewIsLive
<1> SUFFICES ASSUME IInv, view = ledger, NEW a \in CanAcceptRun({})
             PROVE  \E i \in Active(ledger) :
                       ledger[i] = a /\ a.seen # Never /\ clock - a.seen < MaxAge
  BY DEF FreshViewIsLive
<1>1. view = ledger /\ Folds(ledger)
  BY ViewLines
<1>2. a \in ViewActive /\ Young(LastSeen(a.spoke))
  BY DEF CanAcceptRun, Healthy
<1>3. PICK i \in Active(ledger) : ledger[i] = a
  BY <1>1, <1>2 DEF ViewActive
<1>4. LastSeen(a.spoke) = a.seen
  BY <1>1, <1>2, <1>3, SeenByOwnLine DEF Young
<1> QED
  BY <1>2, <1>3, <1>4 DEF Young

(***************************************************************************)
(* A reader that gives a run to a spoke of the state it folded gives it to *)
(* at most one spoke per capability, and if the ledger is still that one,  *)
(* to one that is registered and was seen lately.                          *)
(***************************************************************************)
THEOREM RunsGoToLive == Spec => []RunsGoToLiveSpokes
<1>1. IInv => RunsGoToLiveSpokes
  BY OneSpoke, FreshIsLive DEF RunsGoToLiveSpokes
<1> QED
  BY <1>1, InvHolds, PTL

-----------------------------------------------------------------------------
(* The registrations of the contract, as the refinement mapping has them.  *)
Current(events) ==
  {[spoke |-> events[i].spoke, reg |-> events[i].reg,
    definition |-> events[i].definition] : i \in Active(events)}

(* The actions of the contract, spoken of in terms of the ledger.          *)
LEMMA ContractRegister ==
  ASSUME Usable, Usable',
         NEW s \in Spoke, NEW r \in Registration, NEW d \in Definition,
         \A a \in Current(ledger) : /\ a.spoke # s /\ a.reg # r
                                    /\ CapabilitiesOf[d] \cap CapabilitiesOf[a.definition] = {},
         r \notin Retired(ledger), Retired(ledger') = Retired(ledger),
         Current(ledger') = Current(ledger) \cup {[spoke |-> s, reg |-> r, definition |-> d]}
  PROVE  Contract!Next
<1>1. Contract!Register(s, r, d)
  BY DEF Contract!Register, Contract!Spokes, Contract!Offered, Current, Usable
<1>2. d \in DOMAIN CapabilitiesOf
  BY RegistryAssumption
<1> QED
  BY <1>1, <1>2 DEF Contract!Next

(* Taking one registration from the current ones is a step of the          *)
(* contract.                                                               *)
LEMMA ContractRetire ==
  ASSUME Usable, Usable', NEW r \in Registration,
         NEW a \in Current(ledger), a.reg = r, Current(ledger') = Current(ledger) \ {a},
         Retired(ledger') = Retired(ledger) \cup {r}
  PROVE  Contract!Next
<1>1. Contract!Retire(r)
  BY DEF Contract!Retire, Current
<1> QED
  BY <1>1 DEF Contract!Next

(* So is a ledger that is of no more use ...                               *)
LEMMA ContractBreak ==
  ASSUME Usable, ~Usable'
  PROVE  Contract!Next
<1>1. Usable = TRUE /\ Usable' = FALSE
  BY DEF Usable, Folds
<1>2. Contract!Break
  BY <1>1 DEF Contract!Break
<1> QED
  BY <1>2 DEF Contract!Next

(* ... and whatever becomes of it then.                                    *)
LEMMA ContractForget ==
  ASSUME ~Usable, ~Usable'
  PROVE  Contract!Next
<1>1. Usable = FALSE /\ Usable' = FALSE
  BY DEF Usable, Folds
<1>2. Contract!Forget
  BY <1>1 DEF Contract!Forget
<1> QED
  BY <1>2 DEF Contract!Next

(* A registration nothing has happened behind is a step of the contract,   *)
(* whether it keeps the ledger folding or not.                             *)
LEMMA RegisterImplements ==
  ASSUME IInv, NEW x \in Event, x.action = "register", Admissible(x), Appends(x)
  PROVE  Contract!Next
<1>a. ledger' = Append(ledger, x) /\ overtaken' = overtaken
  BY DEF Appends
<1> DEFINE last == Len(ledger) + 1
<1>1. ledger \in Seq(Event)
  BY DEF IInv, TypeOK
<1>2. PICK r \in Registration, d \in Definition :
        /\ x.spoke = SpokeOf[d] /\ SpokeOf[d] \in Spoke
        /\ x.reg = r /\ x.definition = d
  BY RegistryAssumption DEF Admissible, Event
<1>4. /\ DOMAIN ledger = 1..Len(ledger) /\ Len(ledger) \in Nat /\ ledger' \in Seq(Event)
      /\ ledger'[last] = x /\ \A i \in DOMAIN ledger : ledger'[i] = ledger[i]
      /\ Registers(ledger') = Registers(ledger) \cup {last}
      /\ Tombstones(ledger') = Tombstones(ledger)
      /\ ActiveBefore(ledger', last) = Active(ledger)
      /\ Registers(ledger) \subseteq DOMAIN ledger /\ Tombstones(ledger) \subseteq DOMAIN ledger
  BY <1>a, <1>1, AppendLines, AppendKinds, AppendActive DEF Active, Registers, Tombstones
<1>5. Folds(ledger') <=> Folds(ledger) /\ RegisterFolds(ledger', last)
  BY <1>a, <1>1, AppendFolds
<1>6. Retired(ledger') = Retired(ledger)
  BY <1>4 DEF Retired
<1>7. (\A j \in Tombstones(ledger) : ~(last < j)) /\ \A i \in Registers(ledger) : i < last /\ i # last
  BY <1>4
<1> HIDE DEF last
<1>8. Active(ledger') = Active(ledger) \cup {last}
  BY <1>1, <1>4, <1>7, ActiveLines, SMTT(30)
<1>9. ASSUME Usable'
      PROVE  Contract!Next
  <2>1. RegisterFolds(ledger', last) /\ Folds(ledger) /\ Usable
    BY <1>a, <1>5, <1>9 DEF Usable
  <2>2. Active(ledger) \subseteq DOMAIN ledger /\ Active(ledger) \subseteq Registers(ledger)
    BY <1>1, <1>4, ActiveLines
  <2>3. \A a \in Current(ledger) :
          /\ a.spoke # SpokeOf[d] /\ a.reg # r
          /\ CapabilitiesOf[d] \cap CapabilitiesOf[a.definition] = {}
    BY <1>2, <1>4, <1>7, <2>1, <2>2 DEF Current, RegisterFolds, Collides
  <2>4. r \notin Retired(ledger)
    <3>1. \A k \in Registers(ledger) : ledger[k].reg # r
      BY <1>2, <1>4, <1>7, <2>1 DEF RegisterFolds
    <3> QED
      BY <1>1, <2>1, <3>1, FoldedLines DEF Retired
  <2>5. Current(ledger') = Current(ledger) \cup {[spoke |-> SpokeOf[d], reg |-> r, definition |-> d]}
    BY <1>2, <1>4, <1>8, <2>2 DEF Current
  <2> QED
    BY <1>2, <1>6, <1>9, <2>1, <2>3, <2>4, <2>5, ContractRegister
<1> QED
  BY <1>9, ContractBreak, ContractForget

(* So is a retirement.                                                     *)
LEMMA DeregisterImplements ==
  ASSUME IInv, NEW x \in Event, x.action # "register", Admissible(x), Appends(x)
  PROVE  Contract!Next
<1>a. ledger' = Append(ledger, x) /\ overtaken' = overtaken
  BY DEF Appends
<1>0. PICK r \in Registration : x.reg = r
  BY DEF Event
<1>1. PICK i \in Retirable(r) :
        x.spoke = SpokeOf[ledger[i].definition] /\ ledger[i].reg = r /\ x.reg = r
  BY <1>0 DEF Admissible, Retirable
<1> DEFINE last == Len(ledger) + 1
<1>2. ledger \in Seq(Event) /\ TypeOK
  BY DEF IInv, TypeOK
<1>3. /\ DOMAIN ledger = 1..Len(ledger) /\ Len(ledger) \in Nat /\ ledger' \in Seq(Event)
      /\ ledger'[last] = x /\ \A k \in DOMAIN ledger : ledger'[k] = ledger[k]
      /\ Registers(ledger') = Registers(ledger)
      /\ Tombstones(ledger') = Tombstones(ledger) \cup {last}
      /\ Registers(ledger) \subseteq DOMAIN ledger /\ Tombstones(ledger) \subseteq DOMAIN ledger
  BY <1>a, <1>1, <1>2, AppendLines, AppendKinds DEF Registers, Tombstones
<1>4. \A k \in Registers(ledger) : k < last
  BY <1>3
<1> HIDE DEF last
<1>5. Usable' => Usable
  BY <1>a, <1>1, <1>2, AppendFolds DEF Usable
<1>6. ASSUME Usable
      PROVE  Contract!Next
  <2>0. Folds(ledger) /\ ~overtaken
    BY <1>6 DEF Usable
  <2>1. Usable'
    BY <1>a, <2>0, DeregisterKeeps DEF Usable
  <2>2. i \in Active(ledger) /\ i \in Registers(ledger)
    BY <1>0, <1>1, <1>2, <2>0, RetirableIsActive, ActiveLines DEF IInv
  <2>3. x.spoke = ledger[i].spoke
    BY <1>1, <1>2, <2>0, <2>2, FoldedLines
  <2>4. \A k \in Active(ledger) : k # i => ledger[k].spoke # ledger[i].spoke
    BY <1>2, <2>0, <2>2, ActiveUnique
  <2>5. Active(ledger') = Active(ledger) \ {i}
    <3>1. \A k : k \in Active(ledger') <=>
            /\ k \in Registers(ledger)
            /\ \A j \in Tombstones(ledger) \cup {last} :
                 k < j => ledger'[j].spoke # ledger'[k].spoke
      BY <1>3, ActiveLines
    <3>2. \A k \in Registers(ledger) : ledger'[k].spoke = ledger[k].spoke /\ k < last
      BY <1>3, <1>4
    <3>3. \A j \in Tombstones(ledger) : ledger'[j].spoke = ledger[j].spoke
      BY <1>3
    <3>4. ledger'[last].spoke = ledger[i].spoke
      BY <1>3, <2>3
    <3>5. \A k : k \in Active(ledger') <=> k \in Active(ledger) /\ ledger[k].spoke # ledger[i].spoke
      BY <1>2, <3>1, <3>2, <3>3, <3>4, ActiveLines
    <3> QED
      BY <2>2, <2>4, <3>5
  <2>6. Active(ledger) \subseteq DOMAIN ledger
    BY <1>2, <1>3, ActiveLines
  <2> DEFINE a == [spoke |-> ledger[i].spoke, reg |-> ledger[i].reg,
                   definition |-> ledger[i].definition]
  <2>7. a \in Current(ledger) /\ a.reg = r
    BY <1>1, <2>2 DEF Current
  <2>8. Current(ledger') = Current(ledger) \ {a}
    BY <1>3, <2>4, <2>5, <2>6 DEF Current
  <2>9. Retired(ledger') = Retired(ledger) \cup {r}
    <3>1. ledger'[last].reg = r /\ \A j \in Tombstones(ledger) : ledger'[j].reg = ledger[j].reg
      BY <1>1, <1>3
    <3> QED
      BY <1>3, <3>1 DEF Retired
  <2> HIDE DEF a
  <2> QED
    BY <1>0, <1>6, <2>1, <2>7, <2>8, <2>9, ContractRetire
<1> QED
  BY <1>5, <1>6, ContractForget

(***************************************************************************)
(* The ledger with its readers and its callers implements the contract of  *)
(* a registry: one registration to a spoke, one spoke to a capability,     *)
(* retired identifiers stay retired, and what no longer folds or has been  *)
(* written over is lost.                                                   *)
(***************************************************************************)
THEOREM ContractHolds == Spec => ImplementsContract
<1>1. Init => Contract!Init
  <2>1. Init => (Usable = TRUE)
    BY InitInv DEF Usable, Init, Folds
  <2> QED
    BY <2>1 DEF Contract!Init
<1>2. IInv /\ [Next]_vars => [Contract!Next]_(Contract!vars)
  <2> SUFFICES ASSUME IInv, [Next]_vars PROVE Contract!Next \/ UNCHANGED Contract!vars
    OBVIOUS
  <2>1. CASE UNCHANGED <<ledger, overtaken>>
    BY <2>1 DEF Contract!vars, Usable
  <2>2. ASSUME NEW c \in Caller, Replace(c), c \notin behind
        PROVE  Contract!Next
    BY <2>2, ReplaceFacts, RegisterImplements, DeregisterImplements
  <2>3. ASSUME NEW c \in Caller, Replace(c), c \in behind
        PROVE  Contract!Next
    <3>1. ~Usable'
      BY <2>3 DEF Replace, Usable
    <3> QED
      BY <3>1, ContractBreak, ContractForget
  <2> QED
    BY <2>1, <2>2, <2>3
    DEF Next, Register, Deregister, Begin, Copy, Fail, Fold, Tick, vars
<1> QED
  BY <1>1, <1>2, InvHolds, PTL DEF Spec, ImplementsContract, Contract!Spec

=============================================================================
