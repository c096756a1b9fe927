--------------------------- MODULE MCProjectSettings ---------------------------
(* A small instance of ProjectSettings for TLC: a project with its name,   *)
(* then every file of a few lines over the kinds of line a section meets.  *)
EXTENDS ProjectSettings

CONSTANTS MaxTail  \* bound: lines after config/name

Strings == STRING

LineOf(kind, key, star, text) ==
  [Plain(kind) EXCEPT !.key = key, !.star = star, !.text = text]
Entry(key, text) == LineOf("entry", key, FALSE, text)
Block(body) == [star |-> FALSE, text |-> "", body |-> body]
Pair(key, value) == [key |-> key, value |-> value]

Names == {"layer_names", "rendering"}

\* The lines worth telling apart in a file edited in `section`.
Alphabet(section) ==
  {Header(section), Header("other"), Entry(2, "a")}
    \cup CASE section = "autoload" ->
               {Plain("comment"), LineOf("entry", 2, TRUE, "a"), Entry(3, "b"), LineOf("open", 2, FALSE, ""),
                Plain("close")}
          [] section = "input" ->
               {Plain("bracket"), LineOf("open", 2, FALSE, ""), Plain("close"), LineOf("open", 3, FALSE, "")}
          [] section \in Names -> {Plain("blank"), Entry(2, ""), Entry(3, "b"), Entry(3, "")}
          [] section = Application -> {Plain("comment"), Entry(3, "a"), Entry(1, "b")}

Start == <<Header(Application), Entry(1, "a")>>
Whole(section) == {Start \o tail : tail \in BoundedSeq(Alphabet(section), MaxTail)}
Loose(files) ==
  {[f EXCEPT ![Len(f)].ended = FALSE] : f \in {g \in files : g[Len(g)].kind # "blank"}}

\* A bracket in a comment keeps the editor in a value the scanner has left: the
\* editor takes the second header of the section for the first.
Apart ==
  Start \o <<Header("other"), LineOf("open", 2, FALSE, ""), Plain("bracket"), Plain("close"),
            Header("input"), Entry(2, "a"), Plain("close"), Header("input"), Entry(2, "b")>>

AllFiles ==
  [s \in Sections |-> Whole(s) \cup Loose(Whole(s)) \cup (IF s = "input" THEN {Apart} ELSE {})]
EditorSaves ==
  {<<Header(Application), Entry(3, "b")>>,
   Start \o <<Header("autoload"), LineOf("entry", 2, TRUE, "b"), Header("input"), Entry(2, "b")>>}

Request(section, adds, removes, clears, flags) ==
  {[section |-> section, add |-> a, remove |-> r, clear |-> c, flags |-> f] :
     a \in adds, r \in removes, c \in clears, f \in flags}
Flag(star) == <<[key |-> 2, star |-> star]>>

AllRequests ==
  Request("autoload", {<<>>, <<Pair(3, Quoted(FALSE, "b")), Pair(2, Quoted(FALSE, "a"))>>},
          {<<>>, <<2>>, <<2, 2>>}, {FALSE},
          {<<>>, Flag(TRUE), Flag(FALSE), Flag(TRUE) \o Flag(FALSE)})
  \cup Request("input", {<<>>, <<Pair(3, Block(<<Plain("comment"), Plain("close")>>))>>,
                         <<Pair(2, Block(<<Plain("string"), Plain("close")>>))>>,
                         <<Pair(3, Block(<<Header(Application), Entry(1, "a"), Plain("close")>>))>>},
               {<<>>, <<2>>, <<3, 2, 3>>}, BOOLEAN, {<<>>})
  \cup Request("layer_names", {<<>>, <<Pair(3, Quoted(FALSE, "b")), Pair(2, Quoted(FALSE, "b"))>>},
               {<<>>, <<2, 3>>}, BOOLEAN, {<<>>})
  \cup Request("rendering", {<<Pair(2, Quoted(FALSE, "b"))>>}, {<<3, 3>>}, {FALSE}, {<<>>})
  \cup Request(Application, {<<>>, <<Pair(1, Quoted(FALSE, "b"))>>, <<Pair(3, Quoted(FALSE, "a")), Pair(2, Quoted(FALSE, "b"))>>},
               {<<>>, <<2>>, <<1>>}, {FALSE}, {<<>>})
=============================================================================
