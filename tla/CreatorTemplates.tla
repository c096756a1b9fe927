---------------------------- MODULE CreatorTemplates ----------------------------
(***************************************************************************)
(* The two project templates of the creator (creator/plan.py): the files   *)
(* and directories each one owns, what the emitter of a file reads of the  *)
(* manifest, and the other files its text names by a res:// path.          *)
(*                                                                         *)
(* A path is the sequence of its segments.  The text of a file is left out *)
(* but for these two: an emitted file is the template and the parts of the *)
(* manifest that went into it.  A manifest is a record of such parts, each *)
(* a string, that stands for a validated one (see CreatorManifest).        *)
(*                                                                         *)
(* A definition marked "Slip" is not part of the model: it is a plausible  *)
(* mistake in the definition that follows it, kept to show that the        *)
(* properties of CreatorProject notice it.                                 *)
(***************************************************************************)
EXTENDS Sequences

In(dir, names) == [i \in DOMAIN names |-> Append(dir, names[i])]

External == <<"scripts", "external">>

-----------------------------------------------------------------------------
(* The files and directories, each list in the order of its paths' text.   *)

Files2D ==
  In(<<>>, <<"project.godot">>) \o In(<<"scenes">>, <<"main.tscn">>)
    \o In(<<"scripts">>, <<"coin.gd", "player_controller.gd">>)

Dirs2D == In(<<>>, <<"scenes", "scripts">>)

ExternalFiles ==
  In(Append(External, "powerups"),
     <<"ability_base.gd", "ability_effects.gd", "ability_manager.gd", "ability_pickup.gd">>)
  \o In(Append(External, "signal_generator"), <<"signal_macros.gd">>)
  \o In(Append(External, "spritebrew"),
        <<"asset_import_pipeline.gd", "decals_and_labels.gd", "texture_processor_3d.gd">>)
  \o In(Append(External, "world_generator"),
        <<"city_noise_generator.gd", "map_generator.gd", "terrain_utils.gd">>)

Files3D ==
  In(<<>>, <<"PROJECT_TRACKING.md">>)
  \o In(<<"data", "abilities">>, <<"dash.tres", "heal.tres", "shield.tres">>)
  \o In(<<"data", "characters">>, <<"enforcer.tres", "fixer.tres", "scout.tres">>)
  \o In(<<"data", "weapons">>, <<"rifle.tres", "shotgun.tres", "sniper.tres">>)
  \o In(<<>>, <<"project.godot">>)
  \o In(<<"scenes">>, <<"ability_base.tscn", "district_zone.tscn", "graybox_district.tscn",
                        "hud.tscn", "player_3d.tscn", "weapon_base.tscn">>)
  \o In(<<"scripts">>, <<"ability_data.gd", "ability_system.gd", "bot_state_machine.gd",
                         "character_data.gd", "damageable.gd", "district_zone.gd", "event_bus.gd">>)
  \o ExternalFiles
  \o In(<<"scripts">>, <<"game_manager.gd", "hud_controller.gd", "input_manager.gd",
                         "level_setup.gd", "player_controller.gd", "weapon_controller.gd",
                         "weapon_data.gd">>)

(* Slip: the directories of the external scripts are sorted by depth and   *)
(* the deepest come first.                                                 *)
DirsDeepFirst3D ==
  In(External, <<"powerups", "signal_generator", "spritebrew", "world_generator">>)
  \o In(<<"data">>, <<"abilities", "characters", "weapons">>) \o In(<<"scripts">>, <<"external">>)
  \o In(<<>>, <<"data", "scenes", "scripts">>)

Dirs3D ==
  In(<<>>, <<"data">>) \o In(<<"data">>, <<"abilities", "characters", "weapons">>)
  \o In(<<>>, <<"scenes", "scripts">>) \o In(<<"scripts">>, <<"external">>)
  \o In(External, <<"powerups", "signal_generator", "spritebrew", "world_generator">>)

Is3D(m) == m.template = "3d-tactical-shooter"

(* _g_files_for and _g_dirs_for, sorted.                                   *)
GFiles(m) == IF Is3D(m) THEN Files3D ELSE Files2D
GDirs(m)  == IF Is3D(m) THEN Dirs3D ELSE Dirs2D

-----------------------------------------------------------------------------
(* What is written.                                                        *)

(* The parts of the manifest a file's emitter reads; the 3D scenes carry   *)
(* the schema version too, which their template fixes.                     *)
Reads2D(file) ==
  CASE file = <<"project.godot">> -> <<"name">>
    [] file = <<"scenes", "main.tscn">> -> <<"version", "parameters">>
    [] file = <<"scripts", "player_controller.gd">> -> <<"version">>
    [] OTHER -> <<>>

Reads3D(file) ==
  CASE file = <<"project.godot">> -> <<"name", "renderer", "gravity", "input_map">>
    [] file = <<"scenes", "player_3d.tscn">> -> <<"gravity", "floor_snap_length">>
    [] file = <<"data", "characters", "enforcer.tres">> -> <<"enforcer">>
    [] file = <<"data", "characters", "scout.tres">> -> <<"scout">>
    [] file = <<"data", "characters", "fixer.tres">> -> <<"fixer">>
    [] OTHER -> <<>>

(* _desired_contents_for.                                                  *)
Emitted(m, file) ==
  LET reads == IF Is3D(m) THEN Reads3D(file) ELSE Reads2D(file)
  IN  <<m.template>> \o [i \in DOMAIN reads |-> m[reads[i]]]

Script(name) == <<"scripts", name>>
Scene(name) == <<"scenes", name>>

(* The files a 2D file names: the main scene of the project, the scripts   *)
(* of the scene's nodes.                                                   *)
Names2D(file) ==
  CASE file = <<"project.godot">> -> {Scene("main.tscn")}
    [] file = Scene("main.tscn") -> {Script("player_controller.gd"), Script("coin.gd")}
    [] OTHER -> {}

(* The scripts of the 3D resources.                                        *)
DataNames(file) ==
  CASE file[2] = "characters" -> {Script("character_data.gd")}
    [] file[2] = "weapons" -> {Script("weapon_data.gd")}
    [] file[2] = "abilities" -> {Script("ability_data.gd")}

(* What the 3D scenes are put together of.                                 *)
SceneNames(file) ==
  CASE file = Scene("graybox_district.tscn") ->
         {Script("level_setup.gd"), Scene("player_3d.tscn"), Scene("district_zone.tscn"),
          Scene("hud.tscn")}
    [] file = Scene("player_3d.tscn") ->
         {Script("player_controller.gd"), <<"data", "characters", "enforcer.tres">>,
          Script("damageable.gd")}
    [] file = Scene("weapon_base.tscn") ->
         {Script("weapon_controller.gd"), <<"data", "weapons", "rifle.tres">>}
    [] file = Scene("ability_base.tscn") ->
         {Script("ability_system.gd"), <<"data", "abilities", "dash.tres">>}
    [] file = Scene("district_zone.tscn") -> {Script("district_zone.gd")}
    [] file = Scene("hud.tscn") -> {Script("hud_controller.gd")}

(* The files a 3D file names; the project names its autoloads too.         *)
Names3D(file) ==
  CASE file = <<"project.godot">> ->
         {Scene("graybox_district.tscn"), Script("event_bus.gd"), Script("game_manager.gd"),
          Script("input_manager.gd")}
    [] file[1] = "data" -> DataNames(file)
    [] file[1] = "scenes" -> SceneNames(file)
    [] OTHER -> {}

Names(m, file) == IF Is3D(m) THEN Names3D(file) ELSE Names2D(file)
================================================================================
