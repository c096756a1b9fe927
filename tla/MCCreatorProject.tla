---------------------------- MODULE MCCreatorProject ----------------------------
(* An instance of CreatorProject for TLC: both templates as they are, two  *)
(* manifests of each, and a person who edits a few paths.                  *)
EXTENDS CreatorProject

Flat(version, parameters) ==
  [template |-> "2d-platformer-minimal", version |-> version, name |-> "Demo",
   parameters |-> parameters]

Solid(gravity) ==
  [template |-> "3d-tactical-shooter", name |-> "Demo", renderer |-> "mobile",
   gravity |-> gravity, floor_snap_length |-> "0.5", input_map |-> "default",
   enforcer |-> "enforcer", scout |-> "scout", fixer |-> "fixer"]

SomeManifests == {Flat("1", ""), Flat("2", "200.0"), Solid("9.8"), Solid("5.0")}

Notes == <<"notes.txt">>
Art == <<"art">>
SomeStrays == <<Notes, Art>>

With(t, dirs, files) ==
  [p \in ProjectPath |-> IF p \in dirs THEN Directory ELSE IF p \in files THEN UserText ELSE t[p]]

SomeStarts ==
  {EmptyTree,
   With(EmptyTree, {Forge}, {ProjectYaml}),
   With(EmptyTree, {<<"scripts">>, External}, {}),
   With(EmptyTree, {Art}, {}),
   With(EmptyTree, {}, {Forge}),
   With(EmptyTree, {Forge, <<"scenes">>, <<"scenes", "hud.tscn">>}, {ProjectYaml}),
   With(EmptyTree, {Forge}, {ProjectYaml, Notes})}

Edited == {Notes, <<"scripts">>, <<"scenes", "hud.tscn">>, <<"scripts", "coin.gd">>}

Run(timedOut, launched, exitZero, kept, cut) ==
  [timedOut |-> timedOut, launched |-> launched, exitZero |-> exitZero, kept |-> kept, cut |-> cut]

SomeRuns ==
  {Run(FALSE, TRUE, TRUE, {}, {}), Run(FALSE, TRUE, TRUE, Noise, {"fatal"}),
   Run(FALSE, TRUE, TRUE, {"unknown"}, {}), Run(FALSE, TRUE, TRUE, {"noise", "fatal"}, {}),
   Run(FALSE, TRUE, FALSE, {}, {}), Run(TRUE, TRUE, FALSE, {}, {}), Run(FALSE, FALSE, FALSE, {}, {}),
   Run(FALSE, TRUE, TRUE, {"crash"}, {})}
================================================================================
