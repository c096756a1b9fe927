---------------------------- MODULE CreatorManifest -----------------------------
(***************************************************************************)
(* The creator manifest (creator/manifest.py): which documents are one,    *)
(* what a valid one means, and the canonical document written back for it. *)
(*                                                                         *)
(* A document is a record; what it leaves out is "" or an empty function,  *)
(* and an input map, which differs from an empty one when it is left out,  *)
(* is a sequence of at most one.  `extra` tells of an unknown top-level    *)
(* key.  Parameters map a role to the parameters given for it.             *)
(*                                                                         *)
(* A definition marked "Slip" is not part of the model: it is a plausible  *)
(* mistake in the definition that follows it, kept to show that the        *)
(* properties of GoalCompilation notice it.                                *)
(***************************************************************************)
EXTENDS CanonicalDecimal, Sequences, SequencesExt

Template2D == "2d-platformer-minimal"
Template3D == "3d-tactical-shooter"

BadNames == {"", "a\nb", "../up", "res://a"}

Nothing == <<>>

-----------------------------------------------------------------------------
(* The contract.  A limit is <<lowest, highest, default>>, in tenths.      *)

Behavior == "platformer_controller"
Roles == {"enforcer", "scout", "fixer"}
CharacterParameters == {"health", "armor", "move_speed", "sprint_multiplier"}

Character(health, armor, moveSpeed, sprint) ==
  [health |-> health, armor |-> armor, move_speed |-> moveSpeed, sprint_multiplier |-> sprint]

Limits ==
  [platformer_controller |-> [speed         |-> <<500, 5000, 2000>>,
                              jump_velocity |-> <<-10000, -1000, -3500>>],
   enforcer |-> Character(<<500, 5000, 1000>>, <<0, 2000, 500>>, <<30, 100, 60>>, <<10, 25, 15>>),
   scout    |-> Character(<<500, 3000, 750>>, <<0, 1000, 250>>, <<50, 150, 80>>, <<12, 30, 18>>),
   fixer    |-> Character(<<500, 4000, 850>>, <<0, 1500, 400>>, <<40, 120, 70>>, <<10, 20, 15>>)]

PhysicsLimits == [gravity |-> <<1, 500, 98>>, floor_snap_length |-> <<1, 20, 5>>]

Renderers == {"forward_plus", "mobile", "compatibility"}

Same(name) == [name |-> name, binding |-> name]
FixedInputs ==
  << [name |-> "move_left", binding |-> "ui_left"],
     [name |-> "move_right", binding |-> "ui_right"],
     [name |-> "jump", binding |-> "ui_accept"] >>
FixedInputs3D ==
  << Same("move_forward"), Same("move_backward"), Same("move_left"), Same("move_right"),
     Same("jump"), Same("sprint"), Same("aim"), Same("fire_primary"), Same("fire_secondary"),
     Same("ability_1"), Same("ability_2"), Same("ability_ultimate"), Same("reload"),
     Same("interact") >>

DefaultBindings ==
  [move_forward |-> <<"W", "gamepad_left_stick_up">>,
   move_backward |-> <<"S", "gamepad_left_stick_down">>,
   move_left |-> <<"A", "gamepad_left_stick_left">>,
   move_right |-> <<"D", "gamepad_left_stick_right">>,
   jump |-> <<"Space", "gamepad_button_a">>,
   sprint |-> <<"Shift", "gamepad_button_left_stick">>,
   aim |-> <<"mouse_motion">>,
   fire_primary |-> <<"mouse_left", "gamepad_trigger_right">>,
   fire_secondary |-> <<"mouse_right", "gamepad_trigger_left">>,
   ability_1 |-> <<"Q", "gamepad_button_x">>,
   ability_2 |-> <<"E", "gamepad_button_b">>,
   ability_ultimate |-> <<"R", "gamepad_button_y">>,
   reload |-> <<"R", "gamepad_button_left_stick">>,
   interact |-> <<"F", "gamepad_button_a">>]

-----------------------------------------------------------------------------
(* Blocks of numbers: a value that is left out takes its default, and only *)
(* then are the precision and the range checked.                           *)

Taken(block, key, limit) == IF key \in DOMAIN block THEN block[key] ELSE Tenths(limit[3])

BlockOk(block, limits) ==
  \A key \in DOMAIN limits :
    LET n == Taken(block, key, limits[key])
    IN  IsCanonical(n) /\ Within(n, limits[key][1], limits[key][2])

Block(block, limits) == [key \in DOMAIN limits |-> Taken(block, key, limits[key])]

GivenFor(parameters, role) == IF role \in DOMAIN parameters THEN parameters[role] ELSE Nothing

RoleOk(parameters, role) ==
  LET block == GivenFor(parameters, role)
  IN  DOMAIN block \subseteq DOMAIN Limits[role] /\ BlockOk(block, Limits[role])

(* A 2D manifest refuses a role it does not know, a 3D one looks up its    *)
(* three and at nothing else.                                              *)
ParametersOk(data) ==
  \/ data.version = 1 /\ DOMAIN data.parameters = {}
  \/ /\ data.version = 2
     /\ DOMAIN data.parameters \subseteq {Behavior}
     /\ RoleOk(data.parameters, Behavior)
  \/ /\ data.version = 3
     /\ \A role \in Roles : RoleOk(data.parameters, role)

RolesOf(version) ==
  CASE version = 1 -> {} [] version = 2 -> {Behavior} [] version = 3 -> Roles

InputsOk(inputs, fixed) ==
  Len(inputs) = Len(fixed) /\ ToSet(inputs) = ToSet(fixed)

TemplateOf(version) == IF version = 3 THEN Template3D ELSE Template2D
FixedOf(version) == IF version = 3 THEN FixedInputs3D ELSE FixedInputs

OnlyIn3D(data) ==
  IF data.version = 3
  THEN /\ data.renderer \in Renderers \cup {""}
       /\ BlockOk(data.physics_3d, PhysicsLimits)
       /\ \A i \in DOMAIN data.input_map : \A action \in DOMAIN data.input_map[i] :
            data.input_map[i][action] # <<>>
  ELSE data.renderer = "" /\ DOMAIN data.physics_3d = {} /\ Len(data.input_map) = 0

(* validate_manifest_dict returns.                                         *)
ManifestOk(data) ==
  /\ data.version \in 1..3 /\ ~data.extra
  /\ ParametersOk(data) /\ OnlyIn3D(data)
  /\ data.name \notin BadNames
  /\ data.template = TemplateOf(data.version)
  /\ InputsOk(data.inputs, FixedOf(data.version))

(* The inputs, sorted by the order the contract declares them in.          *)
CanonicalInputs(data) == FixedOf(data.version)

(* What it returns: every value the document leaves out is filled in.      *)
Manifest(data) ==
  [version |-> data.version, name |-> data.name, template |-> data.template,
   inputs |-> CanonicalInputs(data),
   parameters |-> [role \in RolesOf(data.version) |->
                     Block(GivenFor(data.parameters, role), Limits[role])],
   renderer |-> IF data.version # 3 THEN ""
                ELSE IF data.renderer = "" THEN "forward_plus" ELSE data.renderer,
   physics_3d |-> IF data.version = 3 THEN Block(data.physics_3d, PhysicsLimits) ELSE Nothing,
   input_map |-> IF data.version # 3 THEN Nothing
                 ELSE IF Len(data.input_map) = 0 THEN <<DefaultBindings>> ELSE data.input_map]

Formatted(block) == [key \in DOMAIN block |-> Format(block[key])]
FormattedRoles(parameters) == [role \in DOMAIN parameters |-> Formatted(parameters[role])]

(* Slip: an input map is written when it is not empty.                     *)
WrittenMapIfAny(manifest) ==
  SelectSeq(manifest.input_map, LAMBDA bindings : DOMAIN bindings # {})

WrittenMap(manifest) == manifest.input_map

(* CreatorManifest.as_dict.                                                *)
AsDocument(manifest) ==
  [version |-> manifest.version, extra |-> FALSE, name |-> manifest.name,
   template |-> manifest.template, inputs |-> manifest.inputs,
   parameters |-> FormattedRoles(manifest.parameters), renderer |-> manifest.renderer,
   physics_3d |-> Formatted(manifest.physics_3d), input_map |-> WrittenMap(manifest)]
================================================================================
