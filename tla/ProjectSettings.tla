----------------------------- MODULE ProjectSettings -----------------------------
(***************************************************************************)
(* One `project settings` command (commands/project_settings.py): an       *)
(* adapter of patch/project_godot_plan.py parses project.godot, turns the  *)
(* request into an edit of one section, reads the file again and plans the *)
(* edited text, which the command shows or applies.  Meanwhile the Godot   *)
(* editor may save the file.  The inside of apply_plan is                  *)
(* PatchTransaction's subject: here it is one step, after one check.       *)
(*                                                                         *)
(* A definition marked "Slip" is not part of the model: it is a plausible  *)
(* mistake in the definition that follows it, kept to show that the        *)
(* properties below notice it.                                             *)
(***************************************************************************)
EXTENDS SettingsFile

CONSTANTS
  Files,      \* by section: what project.godot may hold at first, as lines
  Saves,      \* what the editor may save over it
  Requests,   \* what the command may be asked for
  NameKey,    \* config/name, the key no project may lack
  ReadTwice,  \* config/description and config/icon, which a second read finds
  MaxSaves    \* bound: saves by the editor

Application == "application"

Sections == {"autoload", "input", "layer_names", "rendering", Application}

(* _validate_input_event_literal, of the lines after the first: outside    *)
(* strings the brackets balance with the last line and not before.         *)
ValidLiteral(body) ==
  LET open[n \in 0..Len(body)] ==
        IF n = 0 THEN 1
        ELSE open[n - 1] + (IF body[n].kind = "string" THEN 0 ELSE Delta(body[n]))
  IN open[Len(body)] = 0 /\ \A n \in 0..(Len(body) - 1) : open[n] > 0

(* A request: an `add` or `set` of keys with values, in order; a `remove`  *)
(* of keys, in order; `clear`; and the singleton flags to set.  A `set` is *)
(* a dict.  Only the literal of an input action has several lines, and any *)
(* other value is quoted and not empty.                                    *)
RequestType(r) ==
  /\ r.section \in Sections
  /\ r.clear \in BOOLEAN /\ (r.section \in {"autoload", Application} => ~r.clear)
  /\ r.add \in Seq([key : Nat, value : Values])
  /\ r.remove \in Seq(Nat)
  /\ r.flags \in Seq([key : Nat, star : BOOLEAN]) /\ (r.section # "autoload" => r.flags = <<>>)
  /\ \A i \in DOMAIN r.add :
       LET value == r.add[i].value
       IN /\ ~value.star
          /\ IF r.section = "input" THEN value.body = <<>> \/ ValidLiteral(value.body)
             ELSE value.body = <<>> /\ value.text # ""
          /\ \A j \in DOMAIN value.body : value.body[j].ended
  /\ r.section \notin {"autoload", "input"} =>
       \A i, j \in DOMAIN r.add : r.add[i].key = r.add[j].key => i = j

ASSUME SettingsAssumption ==
  /\ \A f \in (UNION Range(Files)) \cup Saves : IsText(f)
  /\ \A r \in Requests : RequestType(r) /\ r.section \in DOMAIN Files
  /\ Sections \subseteq Texts /\ NameKey \in Nat /\ ReadTwice \subseteq Nat /\ MaxSaves \in Nat

VARIABLES
  file,     \* project.godot
  request,  \* what the command was asked for
  pc,       \* where the command is, or how it ended
  seen,     \* the section of the request, as the adapter has parsed it
  plan,     \* the file the plan expects and the one it leaves, or NoPlan
  saves,    \* saves by the editor so far
  raced     \* history: the editor saved between two reads of the adapter

vars == <<file, request, pc, seen, plan, saves, raced>>

NoPlan == [from |-> <<>>, to |-> <<>>]
Ends == {"refused", "noop", "previewed", "conflict", "applied"}

-----------------------------------------------------------------------------
(* The adapters.  Each turns a request and the parsed section into an edit *)
(* or refuses it.                                                          *)

Added(r) == {r.add[i].key : i \in DOMAIN r.add}
AddedValue(r, k) == r.add[CHOOSE i \in DOMAIN r.add : r.add[i].key = k].value
AddsOf(r, keys) == Where(r.add, {i \in DOMAIN r.add : r.add[i].key \in keys})
Sorted(keys) == ByRank(SetToSeq(keys), SetToSeq(keys))

(* Those of `remove` not cleared already, each once.                       *)
Once(s, cleared) ==
  Where(s, {i \in DOMAIN s : s[i] \notin cleared /\ \A j \in 1..(i - 1) : s[j] # s[i]})
Removals(r, existing) ==
  LET cleared == IF r.clear THEN existing ELSE {}
  IN Sorted(cleared) \o Once(r.remove, cleared)

Refusal == [refused |-> TRUE, replace |-> <<>>, remove |-> <<>>, insert |-> <<>>]
Edit(replace, remove, insert) ==
  [refused |-> FALSE, replace |-> replace, remove |-> remove, insert |-> insert]

NoChange(edit) == edit.replace = <<>> /\ edit.remove = <<>> /\ edit.insert = <<>>

(* What follows the `*` of an autoload; a literal of several lines is      *)
(* taken for one line of text.                                             *)
Quoted(star, text) == [star |-> star, text |-> text, body |-> <<>>]
Path(value) == IF value.body = <<>> THEN value.text ELSE "joined"

(* A new autoload is a singleton unless a flag of the same request says    *)
(* not; a flag that holds already asks for nothing.                        *)

(* Slip: a flag turns the singleton over, whatever it is.                  *)
AutoloadEditToggles(r, existing) ==
  LET flagged(k, star) == \E i \in DOMAIN r.flags : r.flags[i] = [key |-> k, star |-> star]
      changed == {k \in (DOMAIN existing) \ Added(r) : flagged(k, TRUE) \/ flagged(k, FALSE)}
  IN IF \/ ~(ToSet(r.remove) \subseteq DOMAIN existing)
        \/ Added(r) \cap DOMAIN existing # {}
        \/ \E i \in DOMAIN r.flags :
             r.flags[i].key \notin ((DOMAIN existing) \ ToSet(r.remove)) \cup Added(r)
     THEN Refusal
     ELSE Edit([k \in changed |-> Quoted(~existing[k].star, Path(existing[k]))], r.remove, r.add)

AutoloadEdit(r, existing) ==
  LET flagged(k, star) == \E i \in DOMAIN r.flags : r.flags[i] = [key |-> k, star |-> star]
      changed == {k \in (DOMAIN existing) \ Added(r) : flagged(k, ~existing[k].star)}
  IN IF \/ ~(ToSet(r.remove) \subseteq DOMAIN existing)
        \/ Added(r) \cap DOMAIN existing # {}
        \/ \E i \in DOMAIN r.flags :
             r.flags[i].key \notin ((DOMAIN existing) \ ToSet(r.remove)) \cup Added(r)
     THEN Refusal
     ELSE Edit([k \in changed |-> Quoted(~existing[k].star, Path(existing[k]))],
               r.remove,
               [i \in DOMAIN r.add |->
                  [r.add[i] EXCEPT !.value.star = ~flagged(r.add[i].key, FALSE)]])

InputEdit(r, existing) ==
  LET removals == Removals(r, DOMAIN existing)
  IN IF \/ ~(ToSet(r.remove) \subseteq DOMAIN existing)
        \/ ~(Added(r) \cap DOMAIN existing \subseteq ToSet(removals))
     THEN Refusal
     ELSE Edit(<<>>, removals, r.add)

(* Layer names and renderer settings: an empty value counts as absent.     *)
SetRemoveClear(r, section) ==
  LET existing == {k \in DOMAIN section : section[k].text # "" \/ section[k].body # <<>>}
      removals == Removals(r, existing)
      kept == existing \ ToSet(removals)
  IN IF ~(ToSet(r.remove) \subseteq existing) THEN Refusal
     ELSE Edit([k \in Added(r) \cap kept |-> AddedValue(r, k)],
               removals,
               AddsOf(r, Nat \ kept))

LayerNamesEdit(r, section) == SetRemoveClear(r, section)
RendererEdit(r, section) == SetRemoveClear(r, section)

ApplicationEdit(r, existing) ==
  LET changed == {k \in Added(r) : k \notin DOMAIN existing \/ existing[k] # AddedValue(r, k)}
  IN IF \/ NameKey \in ToSet(r.remove)
        \/ ~(ToSet(r.remove) \subseteq DOMAIN existing)
        \/ ToSet(r.remove) \cap Added(r) # {}
     THEN Refusal
     ELSE Edit([k \in changed \cap DOMAIN existing |-> AddedValue(r, k)],
               Once(r.remove, {}),
               AddsOf(r, changed \ DOMAIN existing))

EditFor(r, section) ==
  CASE r.section = "autoload" -> AutoloadEdit(r, section)
    [] r.section = "input" -> InputEdit(r, section)
    [] r.section = "layer_names" -> LayerNamesEdit(r, section)
    [] r.section = "rendering" -> RendererEdit(r, section)
    [] r.section = Application -> ApplicationEdit(r, section)

-----------------------------------------------------------------------------
Init ==
  /\ request \in Requests /\ file \in Files[request.section]
  /\ pc = "start" /\ seen = <<>> /\ plan = NoPlan /\ saves = 0 /\ raced = FALSE

(* _preflight: a project without a name is refused.                        *)
Preflight ==
  /\ pc = "start"
  /\ LET data == Scan(file)
     IN /\ seen' = SectionOf(data, request.section)
        /\ pc' = IF NameKey \notin DOMAIN SectionOf(data, Application) THEN "refused"
                 ELSE IF request.section = Application THEN "optional" ELSE "parsed"
  /\ UNCHANGED <<file, request, plan, saves, raced>>

(* The application adapter reads the keys the scanner does not keep.       *)
ReadOptional ==
  /\ pc = "optional"
  /\ LET again == SectionOf(Scan(file), Application)
         kept == (DOMAIN seen) \ ReadTwice
         found == DOMAIN again \cap ReadTwice
     IN seen' = [k \in kept \cup found |-> IF k \in found THEN again[k] ELSE seen[k]]
  /\ pc' = "parsed"
  /\ UNCHANGED <<file, request, plan, saves, raced>>

(* The adapter's edit, and _plan_from_edits over a file read anew.         *)
Plan ==
  /\ pc = "parsed"
  /\ LET edit == EditFor(request, seen)
         refused == \/ edit.refused
                    \/ ~NoChange(edit) /\ EditorRefuses(file, request.section, edit)
     IN IF refused THEN pc' = "refused" /\ UNCHANGED plan
        ELSE IF NoChange(edit) THEN pc' = "noop" /\ UNCHANGED plan
        ELSE /\ plan' = [from |-> file,
                         to |-> ApplySectionEdits(file, request.section, edit)]
             /\ pc' = "planned"
  /\ UNCHANGED <<file, request, seen, saves, raced>>

(* Without --apply the command shows the difference and ends.              *)
Preview ==
  /\ pc = "planned" /\ pc' = "previewed"
  /\ UNCHANGED <<file, request, seen, plan, saves, raced>>

(* Slip: the hash the plan expects is not compared.                        *)
ExpectedAny == TRUE

Expected == file = plan.from

Check ==
  /\ pc = "planned"
  /\ pc' = IF Expected THEN "checked" ELSE "conflict"
  /\ UNCHANGED <<file, request, seen, plan, saves, raced>>

(* apply_plan compares again before it replaces the file.                  *)
Apply ==
  /\ pc = "checked"
  /\ IF Expected THEN file' = plan.to /\ pc' = "applied"
     ELSE pc' = "conflict" /\ UNCHANGED file
  /\ UNCHANGED <<request, seen, plan, saves, raced>>

(* The Godot editor, or any other program, saves project.godot.            *)
Save ==
  /\ saves < MaxSaves /\ pc \notin Ends
  /\ saves' = saves + 1
  /\ file' \in Saves
  /\ raced' = (raced \/ pc \in {"optional", "parsed"})
  /\ UNCHANGED <<request, pc, seen, plan>>

Next == Preflight \/ ReadOptional \/ Plan \/ Preview \/ Check \/ Apply \/ Save

Spec == Init /\ [][Next]_vars

-----------------------------------------------------------------------------
(* The state has its type; the file, whatever was spliced, glued or saved, *)
(* is a text: only its last line may lack its ending.                      *)
TypeOK ==
  /\ request \in Requests
  /\ pc \in {"start", "optional", "parsed", "planned", "checked"} \cup Ends
  /\ IsText(file)
  /\ DOMAIN seen \subseteq Nat /\ \A k \in DOMAIN seen : seen[k] \in Values
  /\ saves \in 0..MaxSaves /\ raced \in BOOLEAN

(* What a section means: an autoload is a path and its `*`, and layer      *)
(* names and renderer settings that are empty mean nothing.                *)
Shown(section, view) ==
  LET shown == {k \in DOMAIN view : \/ section \notin {"layer_names", "rendering"}
                                   \/ view[k].text # "" \/ view[k].body # <<>>}
  IN [k \in shown |-> IF section = "autoload" THEN Quoted(view[k].star, Path(view[k])) ELSE view[k]]

Meaning(lines, section) == Shown(section, SectionOf(Scan(lines), section))

(* What it means once a request is carried out; the comments and blank     *)
(* lines of a literal mean nothing.                                        *)
Read(value) ==
  [value EXCEPT !.body = Where(@, {i \in DOMAIN value.body : ~Skipped(value.body[i])})]

Requested(r, old) ==
  LET gone == ToSet(r.remove) \cup (IF r.clear THEN DOMAIN old ELSE {})
      off(k) == [key |-> k, star |-> FALSE] \in ToSet(r.flags)
      on(k) == [key |-> k, star |-> TRUE] \in ToSet(r.flags)
      added(k) == [Read(AddedValue(r, k)) EXCEPT !.star = r.section = "autoload" /\ ~off(k)]
      flagged(k) == [old[k] EXCEPT !.star = (@ \/ on(k)) /\ ~off(k)]
  IN [k \in ((DOMAIN old) \ gone) \cup Added(r) |->
        IF k \in Added(r) THEN added(k) ELSE flagged(k)]

(* The ways an edit goes wrong in this code: an autoload removed twice; an *)
(* autoload set both ways, which turns it over; a literal with a bracket   *)
(* in a string, which the validator does not count and the two parsers do, *)
(* or with a line only one of them takes for part of it; a file the two    *)
(* parsers do not read in step, or one whose last value or line is open.   *)
RemovesTwice(r) ==
  /\ r.section = "autoload"
  /\ \E i, j \in DOMAIN r.remove : i # j /\ r.remove[i] = r.remove[j]
SetsBothWays(r) ==
  \E i, j \in DOMAIN r.flags : r.flags[i].key = r.flags[j].key /\ r.flags[i].star # r.flags[j].star
AddsLine(r, kinds) ==
  \E i \in DOMAIN r.add : \E j \in DOMAIN r.add[i].value.body :
    r.add[i].value.body[j].kind \in kinds
AddsBracketInString(r) == AddsLine(r, {"string"})
AddsUnreadable(r) == AddsLine(r, {"string", "bracket", "header"})

ParsersAgree(lines) ==
  \A n \in 0..Len(lines) : Scanned(lines)[n].depth = Index(lines)[n].depth
Sound ==
  ~RemovesTwice(request) /\ Ended(plan.from) /\ Balanced(plan.from) /\ ParsersAgree(plan.from)
Planned == plan # NoPlan /\ ~raced /\ Sound

Others(lines, section) == {d \in Scan(lines) : d.section # section}

(* What is planned is what was asked for: the section comes to mean what   *)
(* the request says and no other section changes its meaning, provided the *)
(* editor and the scanner read the file in step, the last line is ended,   *)
(* no autoload is removed twice or set both ways and the two parsers can   *)
(* read the literals.                                                      *)
PlanMeansRequest ==
  Planned /\ ~AddsUnreadable(request) /\ ~SetsBothWays(request) =>
    /\ Meaning(plan.to, request.section)
         = Requested(request, Meaning(plan.from, request.section))
    /\ Others(plan.to, request.section) = Others(plan.from, request.section)

(* "No-op" is only answered when the request holds already.                *)
NoopIsTrue ==
  pc = "noop" /\ ~raced =>
    LET meant == Shown(request.section, seen) IN Requested(request, meant) = meant

(* Whether a plan or a no-op is the answer, it is the one to the request.   *)
EditMeansRequest == PlanMeansRequest /\ NoopIsTrue

(* A file both parsers read in step stays one, also when the editor saved  *)
(* between two reads, unless the literal of an input action holds a line   *)
(* only one of them counts.                                                *)
ParsersStayAgreed ==
  plan # NoPlan /\ Sound /\ ~AddsUnreadable(request) =>
    Balanced(plan.to) /\ ParsersAgree(plan.to)

(* A project that has a name keeps one through every command, whatever the *)
(* literals it adds.                                                       *)
NameSurvives ==
  plan # NoPlan /\ Sound /\ NameKey \in DOMAIN SectionOf(Scan(plan.from), Application)
    => NameKey \in DOMAIN SectionOf(Scan(plan.to), Application)

(* No command leaves a file that is no text, that the next command reads   *)
(* otherwise than the editor, or that has lost its name.                   *)
StaysReadable == TypeOK /\ ParsersStayAgreed /\ NameSurvives

(* The same request over the planned file is refused, asks for nothing or  *)
(* changes no meaning: a retry is harmless.                                *)
RepeatIsIdempotent ==
  Planned /\ ~AddsUnreadable(request) /\ ~SetsBothWays(request) =>
    LET section == request.section
        edit == EditFor(request, SectionOf(Scan(plan.to), section))
    IN \/ edit.refused \/ NoChange(edit) \/ EditorRefuses(plan.to, section, edit)
       \/ Scan(ApplySectionEdits(plan.to, section, edit)) = Scan(plan.to)

(* The lines of a file outside the entries of some keys of a section.      *)
Touched(lines, section, keys) ==
  LET index == Index(lines)
  IN {n \in DOMAIN lines : /\ index[n].section = section /\ index[n].key \in keys
                           /\ index[n - 1].depth # 0 \/ Assigns(lines[n])}
Rest(lines, section, keys) == Where(lines, (DOMAIN lines) \ Touched(lines, section, keys))

Asked == Added(request) \cup ToSet(request.remove)
           \cup {request.flags[i].key : i \in DOMAIN request.flags}
           \cup (IF request.clear THEN DOMAIN seen ELSE {})

RestKept ==
  IF Targets(file, request.section) = {} THEN IsPrefix(End(file), file')
  ELSE Rest(file', request.section, Asked) = Rest(file, request.section, Asked)

Applies ==
  pc = "checked" /\ file' # file /\ pc' = "applied" /\ ~AddsBracketInString(request)

(* Whatever the editor saved in the meantime, applying a plan changes no   *)
(* line but the entries of the keys the request names, provided the last    *)
(* line is ended and no autoload is removed twice.                         *)
RestIsPreserved ==
  [][Applies /\ ~RemovesTwice(request) /\ Ended(file) => RestKept]_vars

(* The same of every request, as the contract has it ("every untouched     *)
(* line's original bytes are preserved"); the code does not keep it.       *)
UntouchedLinesKept ==
  [][Applies /\ Ended(file) => RestKept]_vars
=============================================================================
