--------------------------- MODULE RegistryContract ---------------------------
(***************************************************************************)
(* What the spoke registry promises: a spoke has at most one registration, *)
(* a registration is retired under its own identifier, which is never used *)
(* again, and no capability has two spokes.  A registry may become         *)
(* unusable; then it stays so.                                             *)
(***************************************************************************)
CONSTANTS Spoke, Registration, CapabilitiesOf

VARIABLES
  active,   \* the current registrations
  retired,  \* the identifiers of earlier ones
  usable    \* whether the registry can be read at all

vars == <<active, retired, usable>>

Spokes == {a.spoke : a \in active}
Offered == UNION {CapabilitiesOf[a.definition] : a \in active}

(* The registry is found with whatever registrations it has.               *)
Init == usable = TRUE

Register(s, r, d) ==
  /\ usable
  /\ s \notin Spokes /\ r \notin retired \cup {a.reg : a \in active}
  /\ CapabilitiesOf[d] \cap Offered = {}
  /\ active' = active \cup {[spoke |-> s, reg |-> r, definition |-> d]}
  /\ UNCHANGED <<retired, usable>>

Retire(r) ==
  /\ usable
  /\ \E a \in active : a.reg = r /\ active' = active \ {a}
  /\ retired' = retired \cup {r}
  /\ UNCHANGED usable

(* What an unusable registry still remembers is of no consequence.         *)
Break == usable /\ usable' = FALSE /\ active' = {}

Forget == ~usable /\ UNCHANGED <<active, usable>>

Next ==
  \/ \E s \in Spoke, r \in Registration, d \in DOMAIN CapabilitiesOf : Register(s, r, d)
  \/ \E r \in Registration : Retire(r)
  \/ Break \/ Forget

Spec == Init /\ [][Next]_vars

=============================================================================
