------------------------------ MODULE SettingsFile ------------------------------
(***************************************************************************)
(* project.godot as text: the two parsers the program reads it with (the   *)
(* scanner's _read_sections and the editor's _index_lines) and the line    *)
(* editor _apply_section_edits (patch/project_godot_plan.py).              *)
(*                                                                         *)
(* A line is abstracted to what the parsers tell apart.  "comment" holds   *)
(* no bracket and "bracket" is a comment that opens one; "open" is a       *)
(* `key={`, "string" a line with an opening bracket inside a quoted        *)
(* string, "close" a `}`.  An "entry" or a "header" inside a multi-line    *)
(* value is a line that merely looks like one.  A "header" holds no "=": a *)
(* line [a=b], a header to the scanner and an entry to the editor, is none *)
(* of the kinds, and files that have one are left out.  A value is quoted  *)
(* on one line or is an "open" line and its body; a leading "*" is `star`. *)
(* Line endings are not told apart, but whether the last line has one is.  *)
(*                                                                         *)
(* A definition marked "Slip" is not part of the model: it is a plausible  *)
(* mistake in the definition that follows it, kept to show that the        *)
(* properties of ProjectSettings notice it.                                *)
(***************************************************************************)
EXTENDS Integers, Sequences, FiniteSets, SequencesExt

LineKind == {"blank", "comment", "bracket", "header", "entry", "open", "string", "close"}

CONSTANT Texts  \* what may be written in a line: a section's name, a value's text

ASSUME TextsAssumption == {"", "glued", "joined"} \subseteq Texts

\* The fields of a line its kind has no use for.
NoSection == ""
NoKey == 0

Line ==
  [kind : LineKind, section : Texts, key : Nat, star : BOOLEAN, text : Texts, ended : BOOLEAN]
Values == [star : BOOLEAN, text : Texts, body : Seq(Line)]

Plain(kind) ==
  [kind |-> kind, section |-> NoSection, key |-> NoKey, star |-> FALSE, text |-> "", ended |-> TRUE]
Header(section) == [Plain("header") EXCEPT !.section = section]
Assigns(line) == line.kind \in {"entry", "open"}
Skipped(line) == line.kind \in {"blank", "comment", "bracket"}

\* A text: of its lines only the last may lack its ending.
IsText(lines) ==
  /\ lines \in Seq(Line) /\ lines # <<>>
  /\ \A i \in 1..(Len(lines) - 1) : lines[i].ended

Ended(lines) == lines[Len(lines)].ended
End(lines) == [lines EXCEPT ![Len(lines)].ended = TRUE]

(* Net brackets of a line.                                                 *)
Delta(line) ==
  CASE line.kind \in {"open", "bracket", "string"} -> 1
    [] line.kind = "close" -> -1
    [] OTHER -> 0

Value(line) == [star |-> line.star, text |-> line.text, body |-> <<>>]

(* The elements of s at the positions `at`.                                *)
Where(s, at) ==
  LET kept[n \in 0..Len(s)] ==
        IF n = 0 THEN <<>>
        ELSE IF n \in at THEN Append(kept[n - 1], s[n]) ELSE kept[n - 1]
  IN kept[Len(s)]

(* The elements of s, those of lower rank first.                           *)
ByRank(s, rank) ==
  LET order == CHOOSE p \in [DOMAIN s -> DOMAIN s] :
                 /\ \A i, j \in DOMAIN s : p[i] = p[j] => i = j
                 /\ \A i, j \in DOMAIN s : i < j => rank[p[i]] <= rank[p[j]]
  IN [i \in DOMAIN s |-> s[order[i]]]

(* _emit_entry: the lines of `key=value`.                                  *)

(* Slip: the first line of a value is written and no other.                *)
EmitFirst(key, value) ==
  <<[kind |-> IF value.body = <<>> THEN "entry" ELSE "open", section |-> NoSection, key |-> key,
     star |-> value.star, text |-> value.text, ended |-> TRUE]>>

Emit(key, value) ==
  <<[kind |-> IF value.body = <<>> THEN "entry" ELSE "open", section |-> NoSection, key |-> key,
     star |-> value.star, text |-> value.text, ended |-> TRUE]>> \o value.body

-----------------------------------------------------------------------------
(* The scanner.  It skips comments wherever they are, and a line that      *)
(* looks like a header ends the value it is in.                            *)

Put(data, section, key, value) ==
  {d \in data : d.section # section \/ d.key # key}
    \cup {[section |-> section, key |-> key, value |-> value]}

ScanLine(s, line) ==
  CASE Skipped(line) -> s
    [] line.kind = "header" -> [s EXCEPT !.section = line.section, !.depth = 0]
    [] s.depth = 0 /\ Assigns(line) ->
         [s EXCEPT !.key = line.key, !.value = Value(line), !.depth = Delta(line),
                   !.data = Put(s.data, s.section, line.key, Value(line))]
    [] ~Skipped(line) /\ line.kind # "header" /\ s.depth # 0 ->
         LET value == [s.value EXCEPT !.body = Append(@, [line EXCEPT !.ended = TRUE])]
         IN [s EXCEPT !.value = value, !.depth = @ + Delta(line),
                      !.data = Put(s.data, s.section, s.key, value)]
    [] OTHER -> s

(* Where the scanner is after each line.                                   *)
Scanned(lines) ==
  LET after[n \in 0..Len(lines)] ==
        IF n = 0
        THEN [section |-> NoSection, key |-> NoKey, depth |-> 0, data |-> {},
              value |-> Value(Plain("blank"))]
        ELSE ScanLine(after[n - 1], lines[n])
  IN after

Scan(lines) == Scanned(lines)[Len(lines)].data

(* A section as a function from its keys to their values.                  *)
SectionOf(data, section) ==
  LET here == {d \in data : d.section = section}
  IN [k \in {d.key : d \in here} |-> (CHOOSE d \in here : d.key = k).value]

-----------------------------------------------------------------------------
(* The editor.  It counts the brackets of every line of a value, comments  *)
(* included, and sees no header before they balance.                       *)

IndexLine(c, line) ==
  CASE c.depth # 0 -> [c EXCEPT !.depth = @ + Delta(line)]
    [] c.depth = 0 /\ line.kind = "header" -> [c EXCEPT !.section = line.section]
    [] c.depth = 0 /\ Assigns(line) -> [c EXCEPT !.key = line.key, !.depth = Delta(line)]
    [] OTHER -> c

(* Where the editor is after each line: in which section, and within the   *)
(* value of which key when `depth` is not 0.                               *)
Index(lines) ==
  LET after[n \in 0..Len(lines)] ==
        IF n = 0 THEN [section |-> NoSection, key |-> NoKey, depth |-> 0]
        ELSE IndexLine(after[n - 1], lines[n])
  IN after

(* The headers of a section, and the first lines of its entries.           *)
Targets(lines, section) ==
  LET index == Index(lines)
  IN {n \in DOMAIN lines : /\ index[n - 1].depth = 0
                           /\ lines[n].kind = "header" /\ lines[n].section = section}
Entries(lines, section) ==
  LET index == Index(lines)
  IN {n \in DOMAIN lines : /\ index[n - 1].depth = 0 /\ Assigns(lines[n])
                           /\ index[n].section = section}
KeysOf(lines, section) == {lines[n].key : n \in Entries(lines, section)}

(* The last line of an entry: one that never balances runs to the end.     *)
EndOf(lines, n) ==
  LET index == Index(lines)
  IN CHOOSE m \in n..Len(lines) :
       /\ index[m].depth = 0 \/ m = Len(lines)
       /\ \A j \in n..(m - 1) : index[j].depth # 0

Balanced(lines) == Index(lines)[Len(lines)].depth = 0
Unterminated(lines, section) ==
  ~Balanced(lines) /\ Index(lines)[Len(lines)].section = section

-----------------------------------------------------------------------------
(* _apply_section_edits.  An edit is [replace, remove, insert]: the keys   *)
(* to replace with their values, a sequence of keys to remove and a        *)
(* sequence of [key, value] to insert.                                     *)

InsertKeys(edit) == {edit.insert[i].key : i \in DOMAIN edit.insert}
RemoveKeys(edit) == ToSet(edit.remove)
ReplaceKeys(edit) == DOMAIN edit.replace

InsertsTwice(edit) ==
  \E i, j \in DOMAIN edit.insert : i # j /\ edit.insert[i].key = edit.insert[j].key

(* Slip: a section or a key that is there twice is edited where it is      *)
(* first.                                                                  *)
EditorRefusesLess(lines, section, edit) ==
  LET present == KeysOf(lines, section)
  IN \/ InsertsTwice(edit)
     \/ InsertKeys(edit) \cap ReplaceKeys(edit) # {}
     \/ ~(RemoveKeys(edit) \cup ReplaceKeys(edit) \subseteq present)
     \/ Unterminated(lines, section)
     \/ ~(InsertKeys(edit) \cap present \subseteq RemoveKeys(edit))

EditorRefuses(lines, section, edit) ==
  LET targets == Targets(lines, section)
      entries == Entries(lines, section)
      present == KeysOf(lines, section)
  IN \/ InsertsTwice(edit)
     \/ InsertKeys(edit) \cap ReplaceKeys(edit) # {}
     \/ \E m, n \in targets : m # n
     \/ targets = {} /\ ReplaceKeys(edit) \cup RemoveKeys(edit) # {}
     \/ /\ targets # {}
        /\ \/ \E m, n \in entries : m # n /\ lines[m].key = lines[n].key
           \/ Unterminated(lines, section)
           \/ ~(InsertKeys(edit) \cap present \subseteq RemoveKeys(edit))
           \/ ~(RemoveKeys(edit) \cup ReplaceKeys(edit) \subseteq present)

EmitSorted(insertions) ==
  LET sorted == ByRank(insertions, [i \in DOMAIN insertions |-> insertions[i].key])
      emitted[n \in 0..Len(sorted)] ==
        IF n = 0 THEN <<>> ELSE emitted[n - 1] \o Emit(sorted[n].key, sorted[n].value)
  IN emitted[Len(sorted)]

(* A section that is not there is appended, after a blank line.            *)
AppendSection(lines, section, edit) ==
  End(lines)
    \o (IF lines[Len(lines)].kind = "blank" THEN <<>> ELSE <<Plain("blank")>>)
    \o <<Header(section), Plain("blank")>> \o EmitSorted(edit.insert)

(* The lines an edit takes out and what it puts in their place, by key.    *)
Slices(lines, section, edit) ==
  LET entry(key) == CHOOSE n \in Entries(lines, section) : lines[n].key = key
      slice(key, with) ==
        [start |-> entry(key), end |-> EndOf(lines, entry(key)), with |-> with]
      replaced == SetToSeq(ReplaceKeys(edit))
  IN [i \in DOMAIN edit.remove |-> slice(edit.remove[i], <<>>)]
       \o [i \in DOMAIN replaced |-> slice(replaced[i], Emit(replaced[i], edit.replace[replaced[i]]))]

FromBelow(slices) == ByRank(slices, [i \in DOMAIN slices |-> -slices[i].start])

(* new_lines[start:end] = with                                             *)
Splice(lines, slice) ==
  SubSeq(lines, 1, slice.start - 1) \o slice.with \o SubSeq(lines, slice.end + 1, Len(lines))

Spliced(lines, slices) ==
  LET after[n \in 0..Len(slices)] ==
        IF n = 0 THEN lines ELSE Splice(after[n - 1], slices[n])
  IN after

(* The insertion point: after the last entry that stays, or the header.    *)
LastKept(lines, section, edit) ==
  LET ends == {EndOf(lines, n) : n \in {m \in Entries(lines, section) :
                                          lines[m].key \notin RemoveKeys(edit)}}
                \cup Targets(lines, section)
  IN CHOOSE e \in ends : \A f \in ends : f <= e

(* How far the slices before line `last` have moved it.                    *)
Shift(slices, last) ==
  LET after[n \in 0..Len(slices)] ==
        IF n = 0 THEN 0
        ELSE IF slices[n].start <= last
             THEN after[n - 1] + Len(slices[n].with) - (slices[n].end - slices[n].start + 1)
             ELSE after[n - 1]
  IN after[Len(slices)]

(* The position in a list of n elements that Python means by p.            *)
Position(p, n) ==
  CASE p > n -> n
    [] p < 0 /\ n + p < 0 -> 0
    [] p < 0 /\ n + p >= 0 -> n + p
    [] OTHER -> p

InsertLines(lines, at, block) == SubSeq(lines, 1, at) \o block \o SubSeq(lines, at + 1, Len(lines))

(* A line without its ending runs into the next one.                       *)
Glue(line, next) ==
  CASE line.kind \in {"comment", "bracket"} -> [line EXCEPT !.ended = next.ended]
    [] line.kind = "header" -> [line EXCEPT !.kind = "entry", !.section = NoSection,
                                            !.text = "glued", !.ended = next.ended]
    [] OTHER -> [line EXCEPT !.text = "glued", !.ended = next.ended]

Joined(lines) ==
  LET loose == {i \in 1..(Len(lines) - 1) : ~lines[i].ended}
  IN IF loose = {} THEN lines
     ELSE LET i == CHOOSE i \in loose : TRUE
          IN SubSeq(lines, 1, i - 1) \o <<Glue(lines[i], lines[i + 1])>>
               \o SubSeq(lines, i + 2, Len(lines))

EditSection(lines, section, edit) ==
  LET slices == FromBelow(Slices(lines, section, edit))
      sliced == Spliced(lines, slices)[Len(slices)]
      last == LastKept(lines, section, edit)
      at == Position(last + Shift(slices, last), Len(sliced))
  IN Joined(IF edit.insert = <<>> THEN sliced ELSE InsertLines(sliced, at, EmitSorted(edit.insert)))

(* Only for edits the editor does not refuse.                              *)
ApplySectionEdits(lines, section, edit) ==
  CASE Targets(lines, section) # {} -> EditSection(lines, section, edit)
    [] Targets(lines, section) = {} /\ edit.insert = <<>> -> lines
    [] Targets(lines, section) = {} /\ edit.insert # <<>> -> AppendSection(lines, section, edit)
=============================================================================
