-------------------------- MODULE MCGoalCompilation -----------------------------
(***************************************************************************)
(* A small instance of GoalCompilation for TLC: four goals to start from   *)
(* and every document a few edits make of them.  Numbers keep 4 digits and *)
(* may have 3 that count, in place of 28 and 6, so that 499.99 is rounded  *)
(* to the limit 500 and 499.9 has too many.                                *)
(***************************************************************************)
EXTENDS GoalCompilation

Bare(template) ==
  [version |-> 1, extra |-> FALSE, game |-> TRUE, gameExtra |-> FALSE,
   name |-> "Demo", template |-> template, parameters |-> Nothing, renderer |-> "",
   physics_3d |-> Nothing, input_map |-> Nothing, resources |-> ""]

Given(g, role, key, n) ==
  [g EXCEPT !.parameters = (role :> ((key :> n) @@ GivenFor(@, role))) @@ @]

Start ==
  {Bare(Template2D), Bare(Template3D),
   Given(Given(Bare(Template2D), Behavior, "speed", Number(FALSE, 200, 0)),
         Behavior, "jump_velocity", Number(TRUE, 35, 1)),
   [Given(Given(Bare(Template3D), "enforcer", "armor", Number(FALSE, 0, 0)),
          "scout", "health", Number(FALSE, 80, 0))
     EXCEPT !.renderer = "mobile", !.physics_3d = [gravity |-> Number(FALSE, 5, 1)]]}

\* Numbers at, inside and outside a limit, and in more than one form.
Speeds == {Tenths(2000), Number(FALSE, 20, 1), Tenths(500), Number(FALSE, 499, -1), Tenths(5000),
           Number(FALSE, 49999, -2), Number(FALSE, 4999, -1), Number(FALSE, 501, 0), NotANumber}
Jumps == {Number(TRUE, 1, 3), Tenths(-1000), Number(TRUE, 99995, -3), Number(TRUE, 101, 1)}
Armors == {Tenths(2000), Number(FALSE, 0, -2), Number(TRUE, 0, 0), Number(FALSE, 201, 0)}
Gravities == {Tenths(1), Number(FALSE, 50, 0), Number(FALSE, 501, -1), Number(FALSE, 49999, -3)}

Numbered(g) ==
  {Given(g, Behavior, "speed", n) : n \in Speeds}
  \cup {Given(g, Behavior, "jump_velocity", n) : n \in Jumps}
  \cup {Given(g, "enforcer", "armor", n) : n \in Armors}
  \cup {Given(g, "enforcer", "sprint_multiplier", Number(FALSE, 25, -1)),
        Given(g, "enforcer", "speed", Tenths(2000)), Given(g, "wizard", "health", Tenths(1000)),
        Given(g, "scout", "armor", Number(FALSE, 900, 0)),
        Given(g, "fixer", "health", Number(FALSE, 90, 0))}
  \cup {[g EXCEPT !.physics_3d = ("gravity" :> n) @@ @] : n \in Gravities}
  \cup {[g EXCEPT !.physics_3d = ("floor_snap_length" :> Tenths(20)) @@ @],
        [g EXCEPT !.physics_3d = ("wind" :> Tenths(1)) @@ @]}

Worded(g) ==
  {[g EXCEPT !.name = name] : name \in {"", "Other", "a\nb", "../up"}}
  \cup {[g EXCEPT !.template = template] : template \in {"", Template2D, Template3D, "4d"}}
  \cup {[g EXCEPT !.renderer = renderer] : renderer \in {"compatibility", "vulkan", "res://a"}}
  \cup {[g EXCEPT !.resources = resources] : resources \in {"audio", "res://a"}}
  \cup {[g EXCEPT !.input_map = <<bindings>>] :
          bindings \in {[jump |-> <<"K">>], [dance |-> <<"D", "K">>], [jump |-> <<>>],
                        [jump |-> <<"res://a">>], [action \in {} |-> <<>>]}}
  \cup {[g EXCEPT !.version = 2], [g EXCEPT !.extra = TRUE], [g EXCEPT !.game = FALSE],
        [g EXCEPT !.gameExtra = TRUE]}

OneEdit(g) == Numbered(g) \cup Worded(g)
================================================================================
