---------------------------- MODULE GoalCompilation -----------------------------
(***************************************************************************)
(* A goal, the document a person writes and the hub compiles into a        *)
(* creator manifest (hub/goal.py).  The hub compiles it when it validates  *)
(* and again when it runs, keys the plan cache and the run record by its   *)
(* hash, and hands the manifest to the planner, which validates it anew:   *)
(* the properties say that these readings of one goal are one.             *)
(*                                                                         *)
(* A goal is a record; what it leaves out is "" or an empty function, as   *)
(* in a manifest.  `game` tells whether it has a game section, `gameExtra` *)
(* whether that has an unknown key.  Messages and the loading of YAML are  *)
(* left out, and a hash is the value it is the hash of.                    *)
(*                                                                         *)
(* A definition marked "Slip" is not part of the model: it is a plausible  *)
(* mistake in the definition that follows it, kept to show that the        *)
(* properties notice it.                                                   *)
(***************************************************************************)
EXTENDS CreatorManifest, FiniteSets

CONSTANTS Goals,     \* goals a person starts from
          Edits(_),  \* the goals one edit makes of a goal
          MaxEdits   \* bound on the edits

(* A goal has its fields, and a number or a word where a number belongs.   *)
GoalFields == {"version", "extra", "game", "gameExtra", "name", "template", "parameters",
               "renderer", "physics_3d", "input_map", "resources"}

IsBlock(block) == \A key \in DOMAIN block : block[key] \in Decimal

IsGoal(g) ==
  /\ g = [field \in GoalFields |-> g[field]]
  /\ \A role \in DOMAIN g.parameters : IsBlock(g.parameters[role])
  /\ IsBlock(g.physics_3d)

ASSUME GoalAssumption == \A g \in Goals : IsGoal(g)

VARIABLES goal,     \* the document as it is
          edits,    \* edits made, up to MaxEdits
          outcome   \* what its last compilation gave

vars == <<goal, edits, outcome>>

TemplateVersion == [t \in {Template2D, Template3D} |-> IF t = Template2D THEN 2 ELSE 3]

(* The role a template's goal may set: in 3D only the enforcer is read,    *)
(* though the other two may be there.                                      *)
ReadRole(template) == IF template = Template3D THEN "enforcer" ELSE Behavior
AllowedRoles(template) == IF template = Template3D THEN Roles ELSE {Behavior}

PathLike(text) == text \in {"../up", "res://a"}

(* _reject_path_like_in_mapping: over every string of the document.        *)
HasPath(g) ==
  \/ PathLike(g.name) \/ PathLike(g.template) \/ PathLike(g.renderer) \/ PathLike(g.resources)
  \/ \E i \in DOMAIN g.input_map : \E action \in DOMAIN g.input_map[i] :
       \E b \in DOMAIN g.input_map[i][action] : PathLike(g.input_map[i][action][b])

Missing(g) ==
  IF ~g.game THEN {"game"}
  ELSE {f \in {"game.name", "game.template"} :
          (IF f = "game.name" THEN g.name ELSE g.template) = ""}

(* _resolve_parameters accepts the parameters of the goal.                 *)
Resolvable(g) ==
  /\ DOMAIN g.parameters \subseteq AllowedRoles(g.template)
  /\ DOMAIN GivenFor(g.parameters, ReadRole(g.template))
       \subseteq DOMAIN Limits[ReadRole(g.template)]

(* Slip: a default is recorded only when the whole block is missing.       *)
DefaultsIfNone(g) ==
  LET role == ReadRole(g.template)
  IN  {<<role, key>> : key \in {k \in DOMAIN Limits[role] : role \notin DOMAIN g.parameters}}

ResolvedDefaults(g) ==
  LET role == ReadRole(g.template)
  IN  {<<role, key>> : key \in DOMAIN Limits[role] \ DOMAIN GivenFor(g.parameters, role)}

Resolved(g) ==
  [role \in {ReadRole(g.template)} \cap DOMAIN g.parameters |-> g.parameters[role]]

(* The manifest document a goal is turned into before it is validated.     *)
ManifestOf(g) ==
  LET solid == g.template = Template3D
  IN  [version |-> TemplateVersion[g.template], extra |-> FALSE,
       name |-> g.name, template |-> g.template,
       inputs |-> FixedOf(TemplateVersion[g.template]),
       parameters |-> Resolved(g),
       renderer |-> IF solid THEN g.renderer ELSE "",
       physics_3d |-> IF solid THEN g.physics_3d ELSE Nothing,
       input_map |-> IF solid THEN g.input_map ELSE Nothing]

(* GoalSpec.as_dict, which is what is hashed and what a goal that leaves   *)
(* nothing out looks like.                                                 *)
Spelled(g, manifest) ==
  [g EXCEPT !.parameters = FormattedRoles(manifest.parameters),
            !.renderer = manifest.renderer,
            !.physics_3d = Formatted(manifest.physics_3d),
            !.input_map = WrittenMap(manifest)]

Result(status, missing, spelled, manifest, defaults) ==
  [status |-> status, missing |-> missing, hash |-> spelled, manifest |-> manifest,
   defaults |-> defaults]

NotCompiled == Result("none", {}, Nothing, Nothing, {})
Rejected == Result("rejected", {}, Nothing, Nothing, {})

(* compile_goal.                                                           *)
CompileGoal(g) ==
  IF HasPath(g) \/ g.version # 1 \/ g.extra THEN Rejected
  ELSE IF ~g.game \/ (~g.gameExtra /\ Missing(g) # {})
       THEN Result("clarification", Missing(g), Nothing, Nothing, {})
  ELSE IF \/ g.gameExtra \/ g.template \notin DOMAIN TemplateVersion
          \/ ~Resolvable(g) \/ ~ManifestOk(ManifestOf(g))
       THEN Rejected
  ELSE LET manifest == Manifest(ManifestOf(g))
       IN  Result("ok", {}, Spelled(g, manifest), AsDocument(manifest), ResolvedDefaults(g))

Init == goal \in Goals /\ edits = 0 /\ outcome = NotCompiled

Write ==
  /\ edits < MaxEdits /\ edits' = edits + 1
  /\ goal' \in Edits(goal)
  /\ outcome' = NotCompiled

Compile ==
  /\ outcome.status = "none"
  /\ outcome' = CompileGoal(goal)
  /\ UNCHANGED <<goal, edits>>

Next == Write \/ Compile

Spec == Init /\ [][Next]_vars

-----------------------------------------------------------------------------
Compiled == outcome.status = "ok"

Numbers(parameters) ==
  UNION {{parameters[role][key] : key \in DOMAIN parameters[role]} : role \in DOMAIN parameters}

\* A number written without an exponent and without a zero too many.
InCanonicalForm(n) == n.exp = -1 \/ (n.exp < -1 /\ n.coef % 10 # 0)

\* TypeOK: a compilation ends in one of its three outcomes, and what an
\* accepted goal is hashed and planned from holds canonical numbers only.
TypeOK ==
  /\ IsGoal(goal)
  /\ outcome.status \in {"none", "ok", "clarification", "rejected"}
  /\ (outcome.status = "clarification") = (outcome.missing # {})
  /\ Compiled =>
       \A n \in Numbers(outcome.manifest.parameters) \cup Numbers(outcome.hash.parameters)
                \cup Numbers([p \in {1} |-> outcome.hash.physics_3d]) :
         IsCanonical(n) /\ InCanonicalForm(n)

\* CompiledIsPlannable: the planner, which validates the manifest it is
\* given once more, accepts what a goal was compiled to and reads the same
\* manifest from it: rounding a number to its canonical form never takes it
\* out of its range (goal.py compile_goal, plan.py plan_creator_manifest).
CompiledIsPlannable ==
  Compiled =>
    /\ ManifestOk(outcome.manifest)
    /\ AsDocument(Manifest(outcome.manifest)) = outcome.manifest

\* RecompileIsStable: the goal the hub spells out (GoalSpec.as_dict) is
\* itself a goal, and compiles to the same hash and the same manifest: it
\* can be stored, cached and run in place of the one that was written.
RecompileIsStable ==
  Compiled =>
    LET again == CompileGoal(outcome.hash)
    IN  /\ again.status = "ok"
        /\ again.hash = outcome.hash /\ again.manifest = outcome.manifest

\* The goal with the values written out that it was told it left out.
Explicit(g, defaults) ==
  LET role == ReadRole(g.template)
      given == GivenFor(g.parameters, role)
      left == {d[2] : d \in defaults}
  IN  [g EXCEPT !.parameters =
         [r \in DOMAIN @ \cup {role} |->
            IF r # role THEN @[r]
            ELSE [key \in DOMAIN given \cup left |->
                    IF key \in left THEN Tenths(Limits[role][key][3]) ELSE given[key]]]]

\* ExplicitDefaults: a default that is written out changes nothing: a goal
\* and the same goal with its recorded defaults spelled out have one hash
\* and one manifest, and the second has no default left to record
\* (compute_goal_hash).
ExplicitDefaults ==
  Compiled =>
    LET again == CompileGoal(Explicit(goal, outcome.defaults))
    IN  /\ again.status = "ok" /\ again.defaults = {}
        /\ again.hash = outcome.hash /\ again.manifest = outcome.manifest

\* NothingInvented: of the role a goal is read for, every value of the
\* manifest is the goal's number in canonical form, or the contract's
\* default and recorded as one, and never both.
NothingInvented ==
  Compiled =>
    LET role == ReadRole(goal.template)
        given == GivenFor(goal.parameters, role)
    IN  \A key \in DOMAIN Limits[role] :
          LET planned == outcome.manifest.parameters[role][key]
              recorded == <<role, key>> \in outcome.defaults
          IN  /\ key \in DOMAIN given <=> ~recorded
              /\ planned = Format(IF recorded THEN Tenths(Limits[role][key][3]) ELSE given[key])

\* Manifests a person might write for the goal: the inputs in another order.
Handwritten(g) ==
  LET fixed == FixedOf(TemplateVersion[g.template])
  IN  {[ManifestOf(g) EXCEPT !.inputs = inputs] :
         inputs \in {fixed, Reverse(fixed), Tail(fixed) \o <<Head(fixed)>>}}

\* HandWrittenAgrees: the goal and every hand-written manifest that says the
\* same have one canonical document, so one plan id, whatever the order of
\* the inputs (manifest.py validate_manifest_dict, its comment on order).
HandWrittenAgrees ==
  Compiled =>
    \A m \in Handwritten(goal) : ManifestOk(m) /\ AsDocument(Manifest(m)) = outcome.manifest

Longer(n) == IF n.kind = "number" THEN [n EXCEPT !.coef = @ * 10, !.exp = @ - 1] ELSE n
LongerBlock(block) == [key \in DOMAIN block |-> Longer(block[key])]

\* SameNumberSameHash: a goal whose numbers are written another way, 2.0e2
\* or 200.00 for 200, is accepted or refused alike and has the same hash.
SameNumberSameHash ==
  outcome.status \in {"ok", "rejected"} =>
    LET other == [goal EXCEPT
                    !.parameters = [role \in DOMAIN @ |-> LongerBlock(@[role])],
                    !.physics_3d = LongerBlock(@)]
        again == CompileGoal(other)
    IN  again.status = outcome.status /\ again.hash = outcome.hash

\* OneManifest: the goal, what the hub spells out of it, the manifest it
\* compiles to and every one written by hand are readings of one document.
OneManifest == TypeOK /\ CompiledIsPlannable /\ RecompileIsStable /\ HandWrittenAgrees

\* ReadRoleDefaultsAreTold: what the goal leaves out of the one role it is read
\* for (the enforcer of a 3D goal) is filled in with the defaults the compilation
\* tells of, and what it does not leave out is not.  Of the other roles, the
\* renderer, the physics and the input map nothing is told at all.
ReadRoleDefaultsAreTold == ExplicitDefaults /\ NothingInvented
================================================================================
