-------------------------- MODULE CreatorProjectProofs --------------------------
(***************************************************************************)
(* What is proved of CreatorProject, for every set of manifests, every     *)
(* project to start from, every edit, every run of the engine and every    *)
(* bound: its types, that no command overwrites a file, that a verdict is  *)
(* sound, that the copy the engine ran on is the project, and that an      *)
(* apply makes the whole project.                                          *)
(***************************************************************************)
EXTENDS CreatorProject, FiniteSetTheorems, TLAPS

(* A set of numbers that has an element has a least one (the library's     *)
(* well-founded induction on Nat, without its operator parameter).         *)
LEMMA LeastIsThere ==
  ASSUME NEW T \in SUBSET Nat, T # {}
  PROVE  \E n \in T : \A m \in T : n <= m
<1> DEFINE Less == {ss \in Nat \X Nat : ss[1] < ss[2]}
<1>1. IsWellFoundedOn(Less, Nat)
  BY NatLessThanWellFounded DEF OpToRel
<1>2. PICK n \in T : \A m \in T : <<m, n>> \notin Less
  <2> HIDE DEF Less
  <2>1. \A R, S, U : IsWellFoundedOn(R, S) /\ U \subseteq S /\ U # {}
                       => \E x \in U : \A y \in U : ~ (<<y, x>> \in R)
    BY WFMin
  <2> QED BY <1>1, <2>1
<1>3. \A m \in T : <<m, n>> \in Nat \X Nat /\ <<m, n>>[1] = m /\ <<m, n>>[2] = n
  BY <1>2
<1>4. \A m \in T : ~(m < n)
  BY <1>2, <1>3
<1> QED BY <1>2, <1>4

(* How many elements of at are below i.                                    *)
Rank(at, i) == Cardinality({j \in at : j < i})

(* Ranks are the numbers from 0 to one less than there are elements ...    *)
LEMMA RanksAreBounded ==
  ASSUME NEW at \in SUBSET Int, IsFiniteSet(at), NEW i \in at
  PROVE  Rank(at, i) \in 0..(Cardinality(at) - 1)
<1> DEFINE below == {j \in at : j < i}
<1>1. below \in SUBSET at /\ i \notin below
  OBVIOUS
<1>2. IsFiniteSet(below) /\ Cardinality(below) <= Cardinality(at)
      /\ (Cardinality(below) = Cardinality(at) => at = below)
  <2> HIDE DEF below
  <2> QED BY <1>1, FS_Subset
<1>3. Cardinality(below) \in Nat /\ Cardinality(at) \in Nat
  BY <1>2, FS_CardinalityType
<1> QED BY <1>1, <1>2, <1>3 DEF Rank

(* ... they grow with the element ...                                      *)
LEMMA RanksAscend ==
  ASSUME NEW at \in SUBSET Int, IsFiniteSet(at), NEW i \in at, NEW j \in at, i < j
  PROVE  Rank(at, i) < Rank(at, j)
<1> DEFINE low  == {k \in at : k < i}
           high == {k \in at : k < j}
<1>1. low \in SUBSET high /\ low # high /\ high \in SUBSET at
  <2>1. i \in high /\ i \notin low
    OBVIOUS
  <2>2. low \subseteq high
    <3>1. \A k \in at : k < i => k < j
      OBVIOUS
    <3> QED BY <3>1
  <2>3. high \subseteq at
    OBVIOUS
  <2> HIDE DEF low, high
  <2> QED BY <2>1, <2>2, <2>3
<1>2. IsFiniteSet(high)
  <2> HIDE DEF high
  <2> QED BY <1>1, FS_Subset
<1>3. IsFiniteSet(low) /\ Cardinality(low) <= Cardinality(high)
      /\ (Cardinality(low) = Cardinality(high) => high = low)
  <2> HIDE DEF low, high
  <2> QED BY <1>1, <1>2, FS_Subset
<1>4. Cardinality(low) \in Nat /\ Cardinality(high) \in Nat
  BY <1>2, <1>3, FS_CardinalityType
<1> QED BY <1>1, <1>3, <1>4 DEF Rank

(* ... and every one of them is the rank of an element.                    *)
LEMMA RanksAreTaken ==
  ASSUME NEW at \in SUBSET Int, IsFiniteSet(at), NEW r \in 0..(Cardinality(at) - 1)
  PROVE  \E i \in at : Rank(at, i) = r
<1> DEFINE n == Cardinality(at)
           rank == [i \in at |-> Rank(at, i)]
<1>1. n \in Nat
  BY FS_CardinalityType
<1>2. rank \in [at -> 0..(n - 1)]
  BY RanksAreBounded
<1>3. \A i, j \in at : rank[i] = rank[j] => i = j
  <2> SUFFICES ASSUME NEW i \in at, NEW j \in at, i < j
               PROVE  rank[i] # rank[j]
    OBVIOUS
  <2> Rank(at, i) \in Int /\ Rank(at, j) \in Int
    BY RanksAreBounded
  <2> QED BY RanksAscend
<1>4. rank \in Injection(at, 0..(n - 1))
  BY <1>2, <1>3 DEF Injection, IsInjective
<1>5. IsFiniteSet(0..(n - 1)) /\ Cardinality(0..(n - 1)) = n
  BY <1>1, FS_Interval
<1>6. rank \in Surjection(at, 0..(n - 1))
  <2> HIDE DEF rank
  <2> QED BY <1>4, <1>5, FS_Injection
<1>7. \E i \in at : rank[i] = r
  <2> HIDE DEF rank
  <2> QED BY <1>6 DEF Surjection
<1> QED BY <1>7

-----------------------------------------------------------------------------
(* Sequences, and the elements of one that are in a set.                   *)

(* s is a sequence, of whatever its elements are.                          *)
IsSeq(s) == s \in Seq(ToSet(s))

(* Every sequence over a set is one.                                       *)
LEMMA SequencesAreThat ==
  ASSUME NEW D, NEW s \in Seq(D)
  PROVE  IsSeq(s) /\ ToSet(s) \subseteq D
<1>1. s \in [1..Len(s) -> D] /\ Len(s) \in Nat
  OBVIOUS
<1>2. s \in [1..Len(s) -> ToSet(s)]
  BY <1>1 DEF ToSet
<1> QED BY <1>1, <1>2 DEF IsSeq, ToSet

(* A function on 1..n is one.                                              *)
LEMMA NumberedIsSequence ==
  ASSUME NEW n \in Nat, NEW s, s = [i \in 1..n |-> s[i]]
  PROVE  IsSeq(s)
BY DEF IsSeq, ToSet

(* Two sequences put together hold what each of them holds.                *)
LEMMA JoinedSequences ==
  ASSUME NEW a, NEW b, IsSeq(a), IsSeq(b)
  PROVE  IsSeq(a \o b) /\ ToSet(a \o b) = ToSet(a) \cup ToSet(b)
<1> DEFINE D == ToSet(a) \cup ToSet(b)
<1>1. a \in Seq(D) /\ b \in Seq(D)
  BY DEF IsSeq
<1>2. a \o b \in Seq(D)
  BY <1>1
<1>3. \A i \in DOMAIN a : (a \o b)[i] = a[i] /\ i \in DOMAIN (a \o b)
  BY <1>1
<1>4. \A i \in DOMAIN b : (a \o b)[Len(a) + i] = b[i] /\ Len(a) + i \in DOMAIN (a \o b)
  BY <1>1
<1>5. IsSeq(a \o b) /\ ToSet(a \o b) \subseteq D
  BY <1>2, SequencesAreThat
<1>6. ToSet(a) \subseteq ToSet(a \o b)
  BY <1>3 DEF ToSet
<1>7. ToSet(b) \subseteq ToSet(a \o b)
  BY <1>4 DEF ToSet
<1> QED BY <1>5, <1>6, <1>7

(* Those(s, S) takes n elements of s, at the ascending positions pos, and  *)
(* misses none of S.                                                       *)
IsSelection(s, S, n, pos) ==
  /\ pos \in [1..n -> DOMAIN s]
  /\ Those(s, S) = [k \in 1..n |-> s[pos[k]]]
  /\ \A k \in 1..n : s[pos[k]] \in S
  /\ \A k, l \in 1..n : k < l => pos[k] < pos[l]
  /\ \A i \in DOMAIN s : s[i] \in S => \E k \in 1..n : pos[k] = i

(* Those(s, S), which the planner and the walk use, is such a selection.   *)
LEMMA ThoseAreInOrder ==
  ASSUME NEW s, IsSeq(s), NEW S
  PROVE  \E n \in Nat : \E pos : IsSelection(s, S, n, pos)
<1> DEFINE at == {i \in DOMAIN s : s[i] \in S}
           n == Cardinality(at)
           Pos(k) == CHOOSE i \in at : Rank(at, i) = k - 1
           pos == [k \in 1..n |-> Pos(k)]
<1>1. at \in SUBSET Int /\ IsFiniteSet(at)
  <2>1. DOMAIN s = 1..Len(s) /\ Len(s) \in Nat
    BY DEF IsSeq
  <2>2. IsFiniteSet(1..Len(s))
    BY <2>1, FS_Interval
  <2>3. at \in SUBSET (1..Len(s))
    BY <2>1
  <2> HIDE DEF at
  <2>4. IsFiniteSet(at)
    BY <2>2, <2>3, FS_Subset
  <2> QED BY <2>1, <2>3, <2>4
<1>2. n \in Nat
  BY <1>1, FS_CardinalityType
<1>3. \A k \in 1..n : Pos(k) \in at /\ Rank(at, Pos(k)) = k - 1
  <2> SUFFICES ASSUME NEW k \in 1..n PROVE Pos(k) \in at /\ Rank(at, Pos(k)) = k - 1
    OBVIOUS
  <2>1. \E i \in at : Rank(at, i) = k - 1
    <3> k - 1 \in 0..(n - 1)
      BY <1>2
    <3> HIDE DEF at
    <3> QED BY <1>1, RanksAreTaken
  <2> HIDE DEF at
  <2> QED BY <2>1
<1>4. pos \in [1..n -> DOMAIN s] /\ \A k \in 1..n : s[pos[k]] \in S
  <2> HIDE DEF Pos
  <2> QED BY <1>3
<1>5. ASSUME NEW k \in 1..n, NEW l \in 1..n, k < l PROVE pos[k] < pos[l]
  <2> HIDE DEF at, Pos
  <2>1. Pos(k) \in Int /\ Pos(l) \in Int
    BY <1>1, <1>3
  <2>2. Pos(l) # Pos(k)
    BY <1>2, <1>3, <1>5
  <2>3. ~(Pos(l) < Pos(k))
    <3>1. ~(Rank(at, Pos(l)) < Rank(at, Pos(k)))
      BY <1>2, <1>3, <1>5
    <3> QED BY <3>1, <1>1, <1>3, RanksAscend
  <2> QED BY <2>1, <2>2, <2>3
<1>6. ASSUME NEW i \in DOMAIN s, s[i] \in S PROVE \E k \in 1..n : pos[k] = i
  <2> i \in at
    BY <1>6
  <2> HIDE DEF at, Pos
  <2> DEFINE k == Rank(at, i) + 1
  <2>1. k \in 1..n /\ Rank(at, i) \in Int
    BY <1>1, <1>2, RanksAreBounded
  <2>2. Pos(k) \in at /\ Rank(at, Pos(k)) = Rank(at, i) /\ Pos(k) \in Int /\ i \in Int
    BY <2>1, <1>1, <1>3
  <2>3. ~(Pos(k) < i) /\ ~(i < Pos(k))
    BY <2>1, <2>2, <1>1, RanksAscend
  <2> QED BY <2>1, <2>2, <2>3
<1>7. Those(s, S) = [k \in 1..n |-> s[pos[k]]]
  BY DEF Those, Rank
<1> HIDE DEF n, pos
<1>8. IsSelection(s, S, n, pos)
  BY <1>4, <1>5, <1>6, <1>7 DEF IsSelection
<1> QED BY <1>2, <1>8

(* What Those(s, S) holds.                                                 *)
LEMMA ThoseAreThose ==
  ASSUME NEW s, IsSeq(s), NEW S
  PROVE  IsSeq(Those(s, S)) /\ ToSet(Those(s, S)) = ToSet(s) \cap S
<1>1. PICK n \in Nat : \E pos : IsSelection(s, S, n, pos)
  BY ThoseAreInOrder
<1>2. PICK pos : IsSelection(s, S, n, pos)
  BY <1>1
<1>3. IsSeq(Those(s, S))
  BY <1>2, NumberedIsSequence DEF IsSelection
<1>4. ToSet(Those(s, S)) \subseteq ToSet(s) \cap S
  BY <1>2 DEF ToSet, IsSelection
<1>5. ToSet(s) \cap S \subseteq ToSet(Those(s, S))
  BY <1>2 DEF ToSet, IsSelection
<1> QED BY <1>3, <1>4, <1>5

-----------------------------------------------------------------------------
(* The paths of the model.                                                 *)

(* The lists of CreatorTemplates are sequences: those in one directory ... *)
LEMMA ShortLists ==
  ASSUME NEW d
  PROVE  /\ \A a : IsSeq(In(d, <<a>>))
         /\ \A a, b : IsSeq(In(d, <<a, b>>))
         /\ \A a, b, c : IsSeq(In(d, <<a, b, c>>)) /\ IsSeq(<<a, b, c>>)
         /\ \A a, b, c, e : IsSeq(In(d, <<a, b, c, e>>))
         /\ \A a, b, c, e, f, g : IsSeq(In(d, <<a, b, c, e, f, g>>))
         /\ \A a, b, c, e, f, g, h : IsSeq(In(d, <<a, b, c, e, f, g, h>>))
<1>1. ASSUME NEW n \in Nat, NEW names, DOMAIN names = 1..n
      PROVE  IsSeq(In(d, names))
  <2>1. In(d, names) = [i \in 1..n |-> In(d, names)[i]]
    BY <1>1 DEF In
  <2> QED BY <2>1, NumberedIsSequence
<1>2. \A a : DOMAIN <<a>> = 1..1
  OBVIOUS
<1>3. \A a, b : DOMAIN <<a, b>> = 1..2
  OBVIOUS
<1>4. \A a, b, c : DOMAIN <<a, b, c>> = 1..3
  OBVIOUS
<1>5. \A a, b, c, e : DOMAIN <<a, b, c, e>> = 1..4
  OBVIOUS
<1>6. \A a, b, c, e, f, g : DOMAIN <<a, b, c, e, f, g>> = 1..6
  OBVIOUS
<1>7. \A a, b, c, e, f, g, h : DOMAIN <<a, b, c, e, f, g, h>> = 1..7
  OBVIOUS
<1>8. \A a, b, c : IsSeq(<<a, b, c>>)
  <2> TAKE a, b, c
  <2>1. <<a, b, c>> \in Seq({a, b, c})
    OBVIOUS
  <2> QED BY <2>1, SequencesAreThat
<1>9. \A a : IsSeq(In(d, <<a>>))
  BY <1>1, <1>2
<1>10. \A a, b : IsSeq(In(d, <<a, b>>))
  BY <1>1, <1>3
<1>11. \A a, b, c : IsSeq(In(d, <<a, b, c>>))
  BY <1>1, <1>4
<1>12. \A a, b, c, e : IsSeq(In(d, <<a, b, c, e>>))
  BY <1>1, <1>5
<1>13. \A a, b, c, e, f, g : IsSeq(In(d, <<a, b, c, e, f, g>>))
  BY <1>1, <1>6
<1>14. \A a, b, c, e, f, g, h : IsSeq(In(d, <<a, b, c, e, f, g, h>>))
  BY <1>1, <1>7
<1> QED BY <1>8, <1>9, <1>10, <1>11, <1>12, <1>13, <1>14

(* ... and the files and directories of a template.                        *)
LEMMA TemplatesAreLists ==
  IsSeq(Files2D) /\ IsSeq(Dirs2D) /\ IsSeq(Files3D) /\ IsSeq(Dirs3D)
<1>1. IsSeq(Files2D)
  <2>1. IsSeq(In(<<>>, <<"project.godot">>)) /\ IsSeq(In(<<"scenes">>, <<"main.tscn">>))
        /\ IsSeq(In(<<"scripts">>, <<"coin.gd", "player_controller.gd">>))
    BY ShortLists
  <2> QED BY <2>1, JoinedSequences DEF Files2D
<1>2. IsSeq(Dirs2D)
  BY ShortLists DEF Dirs2D
<1>3. IsSeq(Dirs3D)
  <2>1. /\ IsSeq(In(<<>>, <<"data">>)) /\ IsSeq(In(<<"data">>, <<"abilities", "characters", "weapons">>))
        /\ IsSeq(In(<<>>, <<"scenes", "scripts">>)) /\ IsSeq(In(<<"scripts">>, <<"external">>))
        /\ IsSeq(In(External, <<"powerups", "signal_generator", "spritebrew", "world_generator">>))
    BY ShortLists
  <2> QED BY <2>1, JoinedSequences DEF Dirs3D
<1>4. IsSeq(ExternalFiles)
  <2>1. /\ \A d, a : IsSeq(In(d, <<a>>))
        /\ \A d, a, b, c : IsSeq(In(d, <<a, b, c>>))
        /\ \A d, a, b, c, e : IsSeq(In(d, <<a, b, c, e>>))
    BY ShortLists
  <2> QED BY <2>1, JoinedSequences DEF ExternalFiles
<1>5. IsSeq(Files3D)
  <2>1. /\ \A d, a : IsSeq(In(d, <<a>>))
        /\ \A d, a, b, c : IsSeq(In(d, <<a, b, c>>))
    BY ShortLists
  <2>2. /\ \A d, a, b, c, e, f, g : IsSeq(In(d, <<a, b, c, e, f, g>>))
        /\ \A d, a, b, c, e, f, g, h : IsSeq(In(d, <<a, b, c, e, f, g, h>>))
    BY ShortLists
  <2> QED BY <1>4, <2>1, <2>2, JoinedSequences DEF Files3D
<1> QED BY <1>1, <1>2, <1>3, <1>5

(* What the model's paths are.                                             *)
LEMMA ListedPaths ==
  /\ IsSeq(Listed)
  /\ ToSet(Listed) = ToSet(Files3D) \cup ToSet(Files2D) \cup ToSet(Dirs3D)
                       \cup {Forge, ProjectYaml, Validator} \cup ToSet(Strays)
<1> DEFINE rest == Those(Files2D, ToSet(Files2D) \ ToSet(Files3D))
<1>1. IsSeq(rest) /\ ToSet(rest) = ToSet(Files2D) \ ToSet(Files3D)
  BY TemplatesAreLists, ThoseAreThose
<1>2. IsSeq(Strays)
  BY PathAssumption, SequencesAreThat
<1>3. IsSeq(<<Forge, ProjectYaml, Validator>>)
  BY ShortLists
<1>4. ToSet(<<Forge, ProjectYaml, Validator>>) = {Forge, ProjectYaml, Validator}
  <2>1. \A a, b, c : ToSet(<<a, b, c>>) = {a, b, c}
    <3> TAKE a, b, c
    <3> DOMAIN <<a, b, c>> = 1..3
      OBVIOUS
    <3> QED BY DEF ToSet
  <2> QED BY <2>1
<1> HIDE DEF rest
<1> DEFINE special == <<Forge, ProjectYaml, Validator>>
           a == Files3D \o rest
           b == a \o Dirs3D
           c == b \o special
<1> HIDE DEF special
<1>5. IsSeq(a) /\ ToSet(a) = ToSet(Files3D) \cup ToSet(rest)
  BY <1>1, TemplatesAreLists, JoinedSequences
<1> HIDE DEF a
<1>6. IsSeq(b) /\ ToSet(b) = ToSet(a) \cup ToSet(Dirs3D)
  BY <1>5, TemplatesAreLists, JoinedSequences
<1> HIDE DEF b
<1>7. IsSeq(c) /\ ToSet(c) = ToSet(b) \cup ToSet(special)
  BY <1>3, <1>6, JoinedSequences DEF special
<1> HIDE DEF c
<1>8. IsSeq(c \o Strays) /\ ToSet(c \o Strays) = ToSet(c) \cup ToSet(Strays)
  BY <1>2, <1>7, JoinedSequences
<1>9. Listed = c \o Strays
  BY DEF Listed, a, b, c, rest, special
<1> QED BY <1>1, <1>4, <1>5, <1>6, <1>7, <1>8, <1>9 DEF special

(* The template's paths, and those under .godotforge, are among them.      *)
LEMMA PathsAreListed ==
  /\ IsSeq(Listed) /\ ToSet(Listed) = ProjectPath
  /\ {Forge, ProjectYaml, Validator} \subseteq ProjectPath
  /\ \A m : /\ IsSeq(GFiles(m)) /\ ToSet(GFiles(m)) \subseteq ProjectPath
            /\ IsSeq(GDirs(m)) /\ ToSet(GDirs(m)) \subseteq ProjectPath
<1>1. ToSet(Dirs2D) \subseteq ToSet(Dirs3D)
  <2>1. /\ \A d, a : IsSeq(In(d, <<a>>))
        /\ \A d, a, b : IsSeq(In(d, <<a, b>>))
        /\ \A d, a, b, c : IsSeq(In(d, <<a, b, c>>))
        /\ \A d, a, b, c, e : IsSeq(In(d, <<a, b, c, e>>))
    BY ShortLists
  <2> QED BY <2>1, JoinedSequences DEF Dirs2D, Dirs3D
<1> QED BY <1>1, ListedPaths, TemplatesAreLists DEF ProjectPath, GFiles, GDirs

(* The directory of a path is one segment shorter.                         *)
LEMMA FrontIsShorter ==
  ASSUME NEW D, NEW s \in Seq(D), s # <<>>
  PROVE  Len(Front(s)) = Len(s) - 1
<1>1. Len(s) \in Nat \ {0} /\ \A i \in 1..(Len(s) - 1) : s[i] \in D
  OBVIOUS
<1>2. SubSeq(s, 1, Len(s) - 1) = [i \in 1..(Len(s) - 1) |-> s[i]]
  BY <1>1
<1>3. Len([i \in 1..(Len(s) - 1) |-> s[i]]) = Len(s) - 1
  BY <1>1
<1> QED BY <1>2, <1>3 DEF Front

(* The elements of s are paths: sequences of segments.                     *)
Paths(s) == \A p \in ToSet(s) : IsSeq(p)

(* In makes paths of a path and names.                                     *)
LEMMA PathsInDirectory ==
  ASSUME NEW d, IsSeq(d), NEW names
  PROVE  Paths(In(d, names))
<1>1. ASSUME NEW a PROVE IsSeq(Append(d, a))
  <2>1. Append(d, a) \in Seq(ToSet(d) \cup {a})
    BY DEF IsSeq
  <2> QED BY <2>1, SequencesAreThat
<1>2. \A p \in ToSet(In(d, names)) : \E a : p = Append(d, a)
  BY DEF In, ToSet
<1> QED BY <1>1, <1>2 DEF Paths

(* Two lists of paths make one.                                            *)
LEMMA JoinedPaths ==
  ASSUME NEW a, NEW b, IsSeq(a), IsSeq(b), Paths(a), Paths(b)
  PROVE  IsSeq(a \o b) /\ Paths(a \o b)
BY JoinedSequences DEF Paths

(* The paths written out in the model are sequences.                       *)
LEMMA ShortPaths ==
  /\ IsSeq(<<>>)
  /\ \A a : IsSeq(<<a>>)
  /\ \A a, b : IsSeq(<<a, b>>) /\ IsSeq(Append(<<a, b>>, a))
  /\ IsSeq(Forge) /\ IsSeq(ProjectYaml) /\ IsSeq(Validator)
  /\ IsSeq(External) /\ \A a : IsSeq(Append(External, a))
<1>1. \A a, b : /\ <<>> \in Seq({a, b}) /\ <<a>> \in Seq({a, b}) /\ <<a, b>> \in Seq({a, b})
                /\ Append(<<a>>, b) \in Seq({a, b})
  OBVIOUS
<1>2. \A a, b, c : Append(<<a, b>>, c) \in Seq({a, b, c})
  OBVIOUS
<1>3. \A D, s : s \in Seq(D) => IsSeq(s)
  BY SequencesAreThat
<1> QED BY <1>1, <1>2, <1>3 DEF Forge, ProjectYaml, Validator, External

(* So are the paths of the templates ...                                   *)
LEMMA TemplatePathsAreSequences ==
  Paths(Files2D) /\ Paths(Dirs3D) /\ Paths(Files3D)
<1>1. Paths(Files2D)
  <2>1. /\ \A a : IsSeq(In(<<>>, <<a>>)) /\ Paths(In(<<>>, <<a>>))
        /\ \A d, a : IsSeq(In(<<d>>, <<a>>)) /\ Paths(In(<<d>>, <<a>>))
        /\ \A d, a, b : IsSeq(In(<<d>>, <<a, b>>)) /\ Paths(In(<<d>>, <<a, b>>))
    BY ShortLists, ShortPaths, PathsInDirectory
  <2> QED BY <2>1, JoinedPaths DEF Files2D
<1>2. Paths(Dirs3D)
  <2>1. /\ \A a : IsSeq(In(<<>>, <<a>>)) /\ Paths(In(<<>>, <<a>>))
        /\ \A a, b : IsSeq(In(<<>>, <<a, b>>)) /\ Paths(In(<<>>, <<a, b>>))
    BY ShortLists, ShortPaths, PathsInDirectory
  <2>2. /\ \A d, a : IsSeq(In(<<d>>, <<a>>)) /\ Paths(In(<<d>>, <<a>>))
        /\ \A d, a, b, c : IsSeq(In(<<d>>, <<a, b, c>>)) /\ Paths(In(<<d>>, <<a, b, c>>))
        /\ \A a, b, c, e : IsSeq(In(External, <<a, b, c, e>>)) /\ Paths(In(External, <<a, b, c, e>>))
    BY ShortLists, ShortPaths, PathsInDirectory
  <2> QED BY <2>1, <2>2, JoinedPaths DEF Dirs3D
<1>3. IsSeq(ExternalFiles) /\ Paths(ExternalFiles)
  <2>1. \A d : LET dir == Append(External, d)
               IN  /\ \A a : IsSeq(In(dir, <<a>>)) /\ Paths(In(dir, <<a>>))
                   /\ \A a, b, c : IsSeq(In(dir, <<a, b, c>>)) /\ Paths(In(dir, <<a, b, c>>))
                   /\ \A a, b, c, e : IsSeq(In(dir, <<a, b, c, e>>)) /\ Paths(In(dir, <<a, b, c, e>>))
    BY ShortLists, ShortPaths, PathsInDirectory
  <2> QED BY <2>1, JoinedPaths DEF ExternalFiles
<1>4. Paths(Files3D)
  <2>1. /\ \A a : IsSeq(In(<<>>, <<a>>)) /\ Paths(In(<<>>, <<a>>))
        /\ \A d, f, a, b, c : IsSeq(In(<<d, f>>, <<a, b, c>>)) /\ Paths(In(<<d, f>>, <<a, b, c>>))
    BY ShortLists, ShortPaths, PathsInDirectory
  <2>2. /\ \A d, a, b, c, e, f, g : /\ IsSeq(In(<<d>>, <<a, b, c, e, f, g>>))
                                    /\ Paths(In(<<d>>, <<a, b, c, e, f, g>>))
        /\ \A d, a, b, c, e, f, g, h : /\ IsSeq(In(<<d>>, <<a, b, c, e, f, g, h>>))
                                       /\ Paths(In(<<d>>, <<a, b, c, e, f, g, h>>))
    BY ShortLists, ShortPaths, PathsInDirectory
  <2> QED BY <1>3, <2>1, <2>2, JoinedPaths DEF Files3D
<1> QED BY <1>1, <1>2, <1>4

(* ... and all the others, whose directory is one segment shorter.         *)
LEMMA PathsAreSequences ==
  ASSUME NEW p \in ProjectPath
  PROVE  IsSeq(p) /\ Len(p) \in Nat /\ Len(ParentOf[p]) = Len(p) - 1
<1>1. \A q \in ToSet(Strays) : IsSeq(q)
  <2>1. ToSet(Strays) \subseteq Seq(STRING)
    BY PathAssumption, SequencesAreThat
  <2> QED BY <2>1, SequencesAreThat
<1>2. IsSeq(p)
  BY <1>1, ListedPaths, ShortPaths, TemplatePathsAreSequences DEF ProjectPath, Paths
<1>3. p # <<>>
  BY PathAssumption DEF Root
<1>4. p \in Seq(ToSet(p))
  BY <1>2 DEF IsSeq
<1>5. Len(p) \in Nat
  BY <1>4
<1> QED BY <1>2, <1>3, <1>4, <1>5, FrontIsShorter DEF ParentOf

-----------------------------------------------------------------------------
(* What the templates own: no theorem about an apply holds without it.     *)

(* A path is its directory and its name.                                   *)
LEMMA LastOfPath ==
  ASSUME NEW d, IsSeq(d), NEW a
  PROVE  Front(Append(d, a)) = d /\ Last(Append(d, a)) = a
<1>1. d \in Seq(ToSet(d)) /\ Append(d, a) \in Seq(ToSet(d) \cup {a})
  BY DEF IsSeq
<1>2. Len(Append(d, a)) = Len(d) + 1 /\ Len(d) \in Nat
  BY <1>1
<1>3. Last(Append(d, a)) = a
  BY <1>1, <1>2 DEF Last
<1>4. Front(Append(d, a)) = [i \in 1..Len(d) |-> d[i]]
  BY <1>1, <1>2 DEF Front
<1> QED BY <1>1, <1>3, <1>4

(* The paths of one directory, listed once each when the names are.        *)
LEMMA PathsOf ==
  ASSUME NEW d, IsSeq(d), NEW names
  PROVE  /\ \A p \in ToSet(In(d, names)) :
              Front(p) = d /\ Last(p) \in ToSet(names) /\ p = Append(d, Last(p))
         /\ IsInjective(names) => IsInjective(In(d, names))
<1>1. ASSUME NEW i \in DOMAIN names
      PROVE  /\ Front(In(d, names)[i]) = d /\ Last(In(d, names)[i]) = names[i]
             /\ In(d, names)[i] = Append(d, names[i])
  BY LastOfPath DEF In
<1>2. DOMAIN In(d, names) = DOMAIN names
  BY DEF In
<1>3. IsInjective(names) => IsInjective(In(d, names))
  BY <1>1, <1>2 DEF IsInjective
<1> QED BY <1>1, <1>2, <1>3 DEF ToSet

(* Lists without a common element, put together, repeat nothing.           *)
LEMMA JoinedInjective ==
  ASSUME NEW a, NEW b, IsSeq(a), IsSeq(b), IsInjective(a), IsInjective(b),
         ToSet(a) \cap ToSet(b) = {}
  PROVE  IsInjective(a \o b)
<1> SUFFICES ASSUME NEW i \in DOMAIN (a \o b), NEW j \in DOMAIN (a \o b), (a \o b)[i] = (a \o b)[j]
             PROVE  i = j
  BY DEF IsInjective
<1>1. a \in Seq(ToSet(a) \cup ToSet(b)) /\ b \in Seq(ToSet(a) \cup ToSet(b))
  BY DEF IsSeq
<1>2. \A k \in DOMAIN (a \o b) :
        \/ k \in DOMAIN a /\ (a \o b)[k] = a[k] /\ k \in 1..Len(a)
        \/ k - Len(a) \in DOMAIN b /\ (a \o b)[k] = b[k - Len(a)] /\ k \in Nat
  BY <1>1
<1>3. \A k \in DOMAIN a : a[k] \in ToSet(a)
  BY DEF ToSet
<1>4. \A k \in DOMAIN b : b[k] \in ToSet(b)
  BY DEF ToSet
<1>5. Len(a) \in Nat
  BY <1>1
<1> QED BY <1>2, <1>3, <1>4, <1>5 DEF IsInjective

(* What a list of names holds ...                                          *)
LEMMA NamesAreThose ==
  /\ \A a : ToSet(<<a>>) = {a}
  /\ \A a, b : ToSet(<<a, b>>) = {a, b}
  /\ \A a, b, c : ToSet(<<a, b, c>>) = {a, b, c}
  /\ \A a, b, c, e : ToSet(<<a, b, c, e>>) = {a, b, c, e}
  /\ \A a, b, c, e, f, g : ToSet(<<a, b, c, e, f, g>>) = {a, b, c, e, f, g}
  /\ \A a, b, c, e, f, g, h : ToSet(<<a, b, c, e, f, g, h>>) = {a, b, c, e, f, g, h}
<1>1. \A a : ToSet(<<a>>) = {a}
  BY DEF ToSet
<1>2. \A a, b : ToSet(<<a, b>>) = {a, b}
  BY DEF ToSet
<1>3. \A a, b, c : ToSet(<<a, b, c>>) = {a, b, c}
  BY DEF ToSet
<1>4. \A a, b, c, e : ToSet(<<a, b, c, e>>) = {a, b, c, e}
  BY DEF ToSet
<1>5. \A a, b, c, e, f, g : ToSet(<<a, b, c, e, f, g>>) = {a, b, c, e, f, g}
  BY DEF ToSet
<1>6. \A a, b, c, e, f, g, h : ToSet(<<a, b, c, e, f, g, h>>) = {a, b, c, e, f, g, h}
  BY DEF ToSet
<1> QED BY <1>1, <1>2, <1>3, <1>4, <1>5, <1>6

(* ... and that short ones, of names that differ, repeat nothing.          *)
LEMMA NamesDiffer ==
  /\ \A a : IsInjective(<<a>>)
  /\ \A a, b : a # b => IsInjective(<<a, b>>)
  /\ \A a, b, c : a # b /\ a # c /\ b # c => IsInjective(<<a, b, c>>)
<1>1. \A a : IsInjective(<<a>>)
  BY DEF IsInjective
<1>2. \A a, b : a # b => IsInjective(<<a, b>>)
  BY DEF IsInjective
<1>3. \A a, b, c : a # b /\ a # c /\ b # c => IsInjective(<<a, b, c>>)
  BY DEF IsInjective
<1> QED BY <1>1, <1>2, <1>3

(* Every path of s lies at the root or in an earlier path of s.            *)
ParentsEarlier(s) ==
  \A i \in DOMAIN s : Front(s[i]) = <<>> \/ \E j \in DOMAIN s : j < i /\ s[j] = Front(s[i])

(* The paths of s lie in the directories D.                                *)
Within(s, D) == \A p \in ToSet(s) : Front(p) \in D /\ p = Append(Front(p), Last(p))

(* No path of s has one of the names in the directory d.                   *)
Free(s, d, names) == \A p \in ToSet(s) : Front(p) = d => Last(p) \notin ToSet(names)

(* A list of paths in the directories D that repeats nothing.              *)
IsList(s, D) == IsSeq(s) /\ IsInjective(s) /\ Within(s, D)

(* u is s with the names added to the directory d.                         *)
Added(u, s, d, names) ==
  /\ \A p \in ToSet(u) : p \in ToSet(s) \/ (Front(p) = d /\ Last(p) \in ToSet(names))
  /\ ToSet(s) \subseteq ToSet(u)
  /\ \A a \in ToSet(names) : Append(d, a) \in ToSet(u)
  /\ ParentsEarlier(s) /\ d \in {<<>>} \cup ToSet(s) => ParentsEarlier(u)

(* A list of a template grows by the names of one more directory, or by    *)
(* more names of one it has.                                               *)
LEMMA DirectoryAdded ==
  ASSUME NEW s, NEW D, IsList(s, D),
         NEW d, IsSeq(d), NEW names, IsSeq(In(d, names)), IsInjective(names),
         d \notin D \/ Free(s, d, names),
         NEW u, u = s \o In(d, names)
  PROVE  IsList(u, D \cup {d}) /\ Added(u, s, d, names)
<1> DEFINE b == In(d, names)
<1>1. IsInjective(b) /\ \A p \in ToSet(b) : Front(p) = d /\ Last(p) \in ToSet(names) /\ p = Append(d, Last(p))
  BY PathsOf
<1>2. \A i \in DOMAIN names : Append(d, names[i]) \in ToSet(b)
  BY DEF In, ToSet
<1>10. \A a \in ToSet(names) : Append(d, a) \in ToSet(b)
  BY <1>2 DEF ToSet
<1>11. u = s \o b
  OBVIOUS
<1> HIDE DEF b
<1>3. ToSet(s) \cap ToSet(b) = {}
  BY <1>1 DEF IsList, Within, Free
<1>4. IsSeq(b) /\ IsSeq(u) /\ ToSet(u) = ToSet(s) \cup ToSet(b)
  BY JoinedSequences DEF b, IsList
<1>5. IsInjective(u)
  BY <1>1, <1>3, <1>4, <1>11, JoinedInjective DEF IsList
<1>6. ASSUME ParentsEarlier(s), d \in {<<>>} \cup ToSet(s) PROVE ParentsEarlier(u)
  <2> SUFFICES ASSUME NEW i \in DOMAIN u
               PROVE  Front(u[i]) = <<>> \/ \E j \in DOMAIN u : j < i /\ u[j] = Front(u[i])
    BY DEF ParentsEarlier
  <2>1. s \in Seq(ToSet(s) \cup ToSet(b)) /\ b \in Seq(ToSet(s) \cup ToSet(b))
    BY <1>4 DEF IsSeq, IsList
  <2>2. \A k \in DOMAIN s : k \in DOMAIN u /\ u[k] = s[k] /\ k \in 1..Len(s)
    BY <2>1, <1>11
  <2>3. \/ i \in DOMAIN s
        \/ i > Len(s) /\ i - Len(s) \in DOMAIN b /\ u[i] = b[i - Len(s)]
    BY <2>1, <1>11
  <2>4. CASE i \in DOMAIN s
    BY <1>6, <2>2, <2>4 DEF ParentsEarlier
  <2>5. CASE i > Len(s) /\ i - Len(s) \in DOMAIN b /\ u[i] = b[i - Len(s)]
    <3>1. Front(u[i]) = d
      BY <1>1, <2>5 DEF ToSet
    <3>2. Len(s) \in Nat /\ i \in Nat
      BY <2>1, <1>4 DEF IsSeq, IsList
    <3>3. CASE d \in ToSet(s)
      <4>1. PICK j \in DOMAIN s : s[j] = d
        BY <3>3 DEF ToSet
      <4>2. j < i
        BY <2>2, <2>5, <3>2
      <4> QED BY <2>2, <3>1, <4>1, <4>2
    <3> QED BY <1>6, <3>1, <3>3
  <2> QED BY <2>3, <2>4, <2>5
<1>7. Within(u, D \cup {d})
  BY <1>1, <1>4 DEF Within, IsList
<1>8. \A p \in ToSet(u) : p \in ToSet(s) \/ (Front(p) = d /\ Last(p) \in ToSet(names))
  BY <1>1, <1>4
<1>9. ToSet(s) \subseteq ToSet(u) /\ \A a \in ToSet(names) : Append(d, a) \in ToSet(u)
  BY <1>10, <1>4
<1> QED BY <1>4, <1>5, <1>6, <1>7, <1>8, <1>9 DEF IsList, Added

(* It begins with the names of one.                                        *)
LEMMA FirstDirectory ==
  ASSUME NEW d, IsSeq(d), NEW names, IsSeq(In(d, names)), IsInjective(names),
         NEW u, u = In(d, names)
  PROVE  /\ IsList(u, {d})
         /\ \A p \in ToSet(u) : Front(p) = d /\ Last(p) \in ToSet(names)
         /\ \A a \in ToSet(names) : Append(d, a) \in ToSet(u)
         /\ d = <<>> => ParentsEarlier(u)
<1>1. IsInjective(u) /\ \A p \in ToSet(u) : Front(p) = d /\ Last(p) \in ToSet(names) /\ p = Append(d, Last(p))
  BY PathsOf
<1>2. \A a \in ToSet(names) : Append(d, a) \in ToSet(u)
  BY DEF In, ToSet
<1> QED BY <1>1, <1>2 DEF IsList, Within, ParentsEarlier, ToSet

(* Sequences with the same elements are the same.                          *)
LEMMA SameSequence ==
  ASSUME NEW D, NEW s \in Seq(D), NEW u \in Seq(D), Len(s) = Len(u), \A i \in 1..Len(s) : s[i] = u[i]
  PROVE  s = u
<1>1. s \in [1..Len(s) -> D] /\ u \in [1..Len(u) -> D]
  OBVIOUS
<1> QED BY <1>1

(* Appended segments, written out.                                         *)
LEMMA PathsInFull ==
  /\ \A a : Append(<<>>, a) = <<a>>
  /\ \A a, b : Append(<<a>>, b) = <<a, b>>
  /\ \A a, b, c : Append(<<a, b>>, c) = <<a, b, c>>
<1>1. \A a : Append(<<>>, a) = <<a>>
  OBVIOUS
<1>2. ASSUME NEW a, NEW b PROVE Append(<<a>>, b) = <<a, b>>
  <2> DEFINE s == Append(<<a>>, b)
             u == <<a, b>>
  <2>1. s \in Seq({a, b}) /\ Len(s) = 2 /\ s[1] = a /\ s[2] = b
    OBVIOUS
  <2>2. u \in Seq({a, b}) /\ Len(u) = 2 /\ u[1] = a /\ u[2] = b
    OBVIOUS
  <2> HIDE DEF s, u
  <2>3. s = u
    BY <2>1, <2>2, SameSequence
  <2> QED BY <2>3 DEF s, u
<1>3. ASSUME NEW a, NEW b, NEW c PROVE Append(<<a, b>>, c) = <<a, b, c>>
  <2> DEFINE s == Append(<<a, b>>, c)
             u == <<a, b, c>>
  <2>1. s \in Seq({a, b, c}) /\ Len(s) = 3 /\ s[1] = a /\ s[2] = b /\ s[3] = c
    OBVIOUS
  <2>2. u \in Seq({a, b, c}) /\ Len(u) = 3 /\ u[1] = a /\ u[2] = b /\ u[3] = c
    OBVIOUS
  <2> HIDE DEF s, u
  <2>3. s = u
    BY <2>1, <2>2, SameSequence
  <2> QED BY <2>3 DEF s, u
<1> QED BY <1>1, <1>2, <1>3

(* The directories of the 2D template: no repetition, parents first.       *)
LEMMA Dirs2DAre ==
  /\ IsList(Dirs2D, {<<>>}) /\ ParentsEarlier(Dirs2D)
  /\ ToSet(Dirs2D) = {<<"scenes">>, <<"scripts">>}
<1> DEFINE names == <<"scenes", "scripts">>
<1>1. IsSeq(<<>>) /\ IsSeq(In(<<>>, names)) /\ IsInjective(names)
  BY ShortPaths, ShortLists, NamesDiffer
<1>2. IsList(Dirs2D, {<<>>}) /\ ParentsEarlier(Dirs2D)
  <2>1. Dirs2D = In(<<>>, names)
    BY DEF Dirs2D
  <2> HIDE DEF names
  <2> QED BY <1>1, <2>1, FirstDirectory
<1>3. DOMAIN names = 1..2
  OBVIOUS
<1>4. ToSet(Dirs2D) = {Append(<<>>, names[1]), Append(<<>>, names[2])}
  BY <1>3 DEF Dirs2D, In, ToSet
<1> QED BY <1>2, <1>4, PathsInFull

(* The longer lists of names of the 3D template repeat nothing.            *)
LEMMA LongLists ==
  /\ IsInjective(<<"ability_base.gd", "ability_effects.gd", "ability_manager.gd", "ability_pickup.gd">>)
  /\ IsInjective(<<"ability_base.tscn", "district_zone.tscn", "graybox_district.tscn",
                   "hud.tscn", "player_3d.tscn", "weapon_base.tscn">>)
  /\ IsInjective(<<"ability_data.gd", "ability_system.gd", "bot_state_machine.gd",
                   "character_data.gd", "damageable.gd", "district_zone.gd", "event_bus.gd">>)
  /\ IsInjective(<<"game_manager.gd", "hud_controller.gd", "input_manager.gd",
                   "level_setup.gd", "player_controller.gd", "weapon_controller.gd",
                   "weapon_data.gd">>)
  /\ IsInjective(<<"powerups", "signal_generator", "spritebrew", "world_generator">>)
<1>1. IsInjective(<<"ability_base.gd", "ability_effects.gd", "ability_manager.gd", "ability_pickup.gd">>)
  BY DEF IsInjective
<1>2. IsInjective(<<"ability_base.tscn", "district_zone.tscn", "graybox_district.tscn",
                    "hud.tscn", "player_3d.tscn", "weapon_base.tscn">>)
  BY DEF IsInjective
<1>3. IsInjective(<<"ability_data.gd", "ability_system.gd", "bot_state_machine.gd",
                    "character_data.gd", "damageable.gd", "district_zone.gd", "event_bus.gd">>)
  BY DEF IsInjective
<1>4. IsInjective(<<"game_manager.gd", "hud_controller.gd", "input_manager.gd",
                    "level_setup.gd", "player_controller.gd", "weapon_controller.gd",
                    "weapon_data.gd">>)
  BY DEF IsInjective
<1>5. IsInjective(<<"powerups", "signal_generator", "spritebrew", "world_generator">>)
  BY DEF IsInjective
<1> QED BY <1>1, <1>2, <1>3, <1>4, <1>5

(* The directories of the 3D template: no repetition, parents first.       *)
LEMMA Dirs3DAre ==
  /\ IsList(Dirs3D, {<<>>, <<"data">>, <<"scripts">>, External}) /\ ParentsEarlier(Dirs3D)
  /\ \A d \in ToSet(Dirs3D) : /\ Front(d) = <<>> => Last(d) \in {"data", "scenes", "scripts"}
                              /\ Front(d) = <<"scripts">> => Last(d) = "external"
  /\ {<<"data">>, <<"scenes">>, <<"scripts">>, External} \subseteq ToSet(Dirs3D)
  /\ \A n \in {"abilities", "characters", "weapons"} : Append(<<"data">>, n) \in ToSet(Dirs3D)
  /\ \A n \in {"powerups", "signal_generator", "spritebrew", "world_generator"} :
       Append(External, n) \in ToSet(Dirs3D)
<1> DEFINE n1 == <<"data">>
           n2 == <<"abilities", "characters", "weapons">>
           n3 == <<"scenes", "scripts">>
           n4 == <<"external">>
           n5 == <<"powerups", "signal_generator", "spritebrew", "world_generator">>
           s1 == In(<<>>, n1)
           s2 == s1 \o In(<<"data">>, n2)
           s3 == s2 \o In(<<>>, n3)
           s4 == s3 \o In(<<"scripts">>, n4)
           s5 == s4 \o In(External, n5)
<1>1. /\ IsSeq(In(<<>>, n1)) /\ IsSeq(In(<<"data">>, n2)) /\ IsSeq(In(<<>>, n3))
      /\ IsSeq(In(<<"scripts">>, n4)) /\ IsSeq(In(External, n5))
  BY ShortLists
<1>2. IsInjective(n1) /\ IsInjective(n2) /\ IsInjective(n3) /\ IsInjective(n4) /\ IsInjective(n5)
  BY NamesDiffer, LongLists
<1>3. /\ ToSet(n1) = {"data"} /\ ToSet(n2) = {"abilities", "characters", "weapons"}
      /\ ToSet(n3) = {"scenes", "scripts"} /\ ToSet(n4) = {"external"}
      /\ ToSet(n5) = {"powerups", "signal_generator", "spritebrew", "world_generator"}
  BY NamesAreThose
<1>4. IsSeq(<<>>) /\ IsSeq(<<"data">>) /\ IsSeq(<<"scripts">>) /\ IsSeq(External)
  BY ShortPaths
<1>5. External # <<>> /\ External # <<"data">> /\ External # <<"scripts">>
      /\ <<"data">> # <<>> /\ <<"scripts">> # <<>> /\ <<"data">> # <<"scripts">>
  BY DEF External
<1>6. Dirs3D = s5
  BY DEF Dirs3D
<1>7. \A a : Append(<<>>, a) = <<a>>
  BY PathsInFull
<1>8. External = Append(<<"scripts">>, "external")
  BY PathsInFull DEF External
<1> HIDE DEF n1, n2, n3, n4, n5
<1>9. /\ IsList(s1, {<<>>}) /\ ParentsEarlier(s1)
      /\ \A p \in ToSet(s1) : Front(p) = <<>> /\ Last(p) = "data"
      /\ <<"data">> \in ToSet(s1)
  <2>1. /\ IsList(s1, {<<>>}) /\ ParentsEarlier(s1)
        /\ \A p \in ToSet(s1) : Front(p) = <<>> /\ Last(p) \in ToSet(n1)
        /\ \A a \in ToSet(n1) : Append(<<>>, a) \in ToSet(s1)
    BY <1>1, <1>2, <1>4, FirstDirectory
  <2> QED BY <1>3, <1>7, <2>1
<1> HIDE DEF s1
<1>10. IsList(s2, {<<>>} \cup {<<"data">>}) /\ Added(s2, s1, <<"data">>, n2)
  <2>1. <<"data">> \notin {<<>>}
    BY <1>5
  <2> QED BY <1>1, <1>2, <1>4, <1>9, <2>1, DirectoryAdded
<1> HIDE DEF s2
<1>11. IsList(s3, {<<>>} \cup {<<"data">>} \cup {<<>>}) /\ Added(s3, s2, <<>>, n3)
  <2>1. Free(s2, <<>>, n3)
    BY <1>3, <1>5, <1>9, <1>10 DEF Added, Free
  <2> QED BY <1>1, <1>2, <1>4, <1>10, <2>1, DirectoryAdded
<1> HIDE DEF s3
<1>12. IsList(s4, {<<>>} \cup {<<"data">>} \cup {<<>>} \cup {<<"scripts">>})
       /\ Added(s4, s3, <<"scripts">>, n4)
  <2>1. <<"scripts">> \notin {<<>>} \cup {<<"data">>} \cup {<<>>}
    BY <1>5
  <2> QED BY <1>1, <1>2, <1>4, <1>11, <2>1, DirectoryAdded
<1> HIDE DEF s4
<1>13. IsList(s5, {<<>>} \cup {<<"data">>} \cup {<<>>} \cup {<<"scripts">>} \cup {External})
       /\ Added(s5, s4, External, n5)
  <2>1. External \notin {<<>>} \cup {<<"data">>} \cup {<<>>} \cup {<<"scripts">>}
    BY <1>5
  <2> QED BY <1>1, <1>2, <1>4, <1>12, <2>1, DirectoryAdded
<1> HIDE DEF s5
<1>14. {<<>>} \cup {<<"data">>} \cup {<<>>} \cup {<<"scripts">>} \cup {External}
         = {<<>>, <<"data">>, <<"scripts">>, External}
  OBVIOUS
<1>15. <<"data">> \in ToSet(s2) /\ <<"scripts">> \in ToSet(s3) /\ <<"scenes">> \in ToSet(s3)
       /\ External \in ToSet(s4)
  BY <1>3, <1>7, <1>8, <1>9, <1>10, <1>11, <1>12 DEF Added
<1>16. ParentsEarlier(s5)
  <2>1. ParentsEarlier(s2)
    BY <1>9, <1>10 DEF Added
  <2>2. ParentsEarlier(s3)
    BY <2>1, <1>11 DEF Added
  <2>3. ParentsEarlier(s4)
    BY <2>2, <1>12, <1>15 DEF Added
  <2> QED BY <2>3, <1>13, <1>15 DEF Added
<1>17. \A d \in ToSet(s5) : /\ Front(d) = <<>> => Last(d) \in {"data", "scenes", "scripts"}
                            /\ Front(d) = <<"scripts">> => Last(d) = "external"
  <2> TAKE d \in ToSet(s5)
  <2>1. \/ Front(d) = <<>> /\ Last(d) \in {"data", "scenes", "scripts"}
        \/ Front(d) = <<"data">>
        \/ Front(d) = <<"scripts">> /\ Last(d) = "external"
        \/ Front(d) = External
    BY <1>3, <1>9, <1>10, <1>11, <1>12, <1>13 DEF Added
  <2> QED BY <1>5, <2>1
<1>18. {<<"data">>, <<"scenes">>, <<"scripts">>, External} \subseteq ToSet(s5)
  BY <1>11, <1>12, <1>13, <1>15 DEF Added
<1>19. \A n \in {"abilities", "characters", "weapons"} : Append(<<"data">>, n) \in ToSet(s5)
  BY <1>3, <1>10, <1>11, <1>12, <1>13 DEF Added
<1>20. \A n \in {"powerups", "signal_generator", "spritebrew", "world_generator"} :
         Append(External, n) \in ToSet(s5)
  BY <1>3, <1>13 DEF Added
<1> QED BY <1>6, <1>13, <1>14, <1>16, <1>17, <1>18, <1>19, <1>20

(* The files of the 2D template.                                           *)
LEMMA Files2DAre ==
  /\ IsList(Files2D, {<<>>, <<"scenes">>, <<"scripts">>})
  /\ \A f \in ToSet(Files2D) : /\ Front(f) = <<>> => Last(f) = "project.godot"
  /\ {<<"project.godot">>, Scene("main.tscn"), Script("coin.gd"), Script("player_controller.gd")}
       \subseteq ToSet(Files2D)
<1> DEFINE n1 == <<"project.godot">>
           n2 == <<"main.tscn">>
           n3 == <<"coin.gd", "player_controller.gd">>
           s1 == In(<<>>, n1)
           s2 == s1 \o In(<<"scenes">>, n2)
           s3 == s2 \o In(<<"scripts">>, n3)
<1>1. /\ IsSeq(In(<<>>, n1)) /\ IsSeq(In(<<"scenes">>, n2)) /\ IsSeq(In(<<"scripts">>, n3))
      /\ IsSeq(<<>>) /\ IsSeq(<<"scenes">>) /\ IsSeq(<<"scripts">>)
  BY ShortLists, ShortPaths
<1>2. IsInjective(n1) /\ IsInjective(n2) /\ IsInjective(n3)
  BY NamesDiffer
<1>3. /\ ToSet(n1) = {"project.godot"} /\ ToSet(n2) = {"main.tscn"}
      /\ ToSet(n3) = {"coin.gd", "player_controller.gd"}
  BY NamesAreThose
<1>4. <<"scenes">> # <<>> /\ <<"scripts">> # <<>> /\ <<"scenes">> # <<"scripts">>
  OBVIOUS
<1>5. Files2D = s3
  BY DEF Files2D
<1> HIDE DEF n1, n2, n3
<1>6. /\ IsList(s1, {<<>>})
      /\ \A p \in ToSet(s1) : Front(p) = <<>> /\ Last(p) \in ToSet(n1)
      /\ \A a \in ToSet(n1) : Append(<<>>, a) \in ToSet(s1)
  BY <1>1, <1>2, FirstDirectory
<1> HIDE DEF s1
<1>7. IsList(s2, {<<>>} \cup {<<"scenes">>}) /\ Added(s2, s1, <<"scenes">>, n2)
  <2>1. <<"scenes">> \notin {<<>>}
    BY <1>4
  <2> QED BY <1>1, <1>2, <1>6, <2>1, DirectoryAdded
<1> HIDE DEF s2
<1>8. IsList(s3, {<<>>} \cup {<<"scenes">>} \cup {<<"scripts">>}) /\ Added(s3, s2, <<"scripts">>, n3)
  <2>1. <<"scripts">> \notin {<<>>} \cup {<<"scenes">>}
    BY <1>4
  <2> QED BY <1>1, <1>2, <1>7, <2>1, DirectoryAdded
<1> HIDE DEF s3
<1>9. {<<>>} \cup {<<"scenes">>} \cup {<<"scripts">>} = {<<>>, <<"scenes">>, <<"scripts">>}
  OBVIOUS
<1>10. \A f \in ToSet(s3) : Front(f) = <<>> => Last(f) = "project.godot"
  BY <1>3, <1>4, <1>6, <1>7, <1>8 DEF Added
<1>11. /\ Append(<<>>, "project.godot") \in ToSet(s3) /\ Append(<<"scenes">>, "main.tscn") \in ToSet(s3)
       /\ Append(<<"scripts">>, "coin.gd") \in ToSet(s3)
       /\ Append(<<"scripts">>, "player_controller.gd") \in ToSet(s3)
  BY <1>3, <1>6, <1>7, <1>8 DEF Added
<1> QED BY <1>5, <1>8, <1>9, <1>10, <1>11, PathsInFull DEF Scene, Script

(* The directories of the external scripts.                                *)
Externals ==
  {Append(External, "powerups"), Append(External, "signal_generator"),
   Append(External, "spritebrew"), Append(External, "world_generator")}

(* The external scripts.                                                   *)
LEMMA ExternalFilesAre == IsList(ExternalFiles, Externals)
<1> DEFINE d1 == Append(External, "powerups")
           d2 == Append(External, "signal_generator")
           d3 == Append(External, "spritebrew")
           d4 == Append(External, "world_generator")
           n1 == <<"ability_base.gd", "ability_effects.gd", "ability_manager.gd", "ability_pickup.gd">>
           n2 == <<"signal_macros.gd">>
           n3 == <<"asset_import_pipeline.gd", "decals_and_labels.gd", "texture_processor_3d.gd">>
           n4 == <<"city_noise_generator.gd", "map_generator.gd", "terrain_utils.gd">>
           s1 == In(d1, n1)
           s2 == s1 \o In(d2, n2)
           s3 == s2 \o In(d3, n3)
           s4 == s3 \o In(d4, n4)
<1>1. IsSeq(In(d1, n1)) /\ IsSeq(In(d2, n2)) /\ IsSeq(In(d3, n3)) /\ IsSeq(In(d4, n4))
  BY ShortLists
<1>2. IsSeq(d1) /\ IsSeq(d2) /\ IsSeq(d3) /\ IsSeq(d4)
  BY ShortPaths
<1>3. IsInjective(n1) /\ IsInjective(n2) /\ IsInjective(n3) /\ IsInjective(n4)
  BY NamesDiffer, LongLists
<1>4. /\ Last(d1) = "powerups" /\ Last(d2) = "signal_generator" /\ Last(d3) = "spritebrew"
      /\ Last(d4) = "world_generator"
  BY LastOfPath, ShortPaths
<1>5. ExternalFiles = s4
  BY DEF ExternalFiles
<1>6. Externals = {d1} \cup {d2} \cup {d3} \cup {d4}
  BY DEF Externals
<1> HIDE DEF d1, d2, d3, d4, n1, n2, n3, n4
<1>7. IsList(s1, {d1})
  BY <1>1, <1>2, <1>3, FirstDirectory
<1> HIDE DEF s1
<1>8. IsList(s2, {d1} \cup {d2})
  BY <1>1, <1>2, <1>3, <1>4, <1>7, DirectoryAdded
<1> HIDE DEF s2
<1>9. IsList(s3, {d1} \cup {d2} \cup {d3})
  BY <1>1, <1>2, <1>3, <1>4, <1>8, DirectoryAdded
<1> HIDE DEF s3
<1>10. IsList(s4, {d1} \cup {d2} \cup {d3} \cup {d4})
  BY <1>1, <1>2, <1>3, <1>4, <1>9, DirectoryAdded
<1> QED BY <1>5, <1>6, <1>10

(* Two lists without a common directory make one.                          *)
LEMMA ListsJoined ==
  ASSUME NEW s, NEW D, IsList(s, D), NEW b, NEW E, IsList(b, E), D \cap E = {}
  PROVE  IsList(s \o b, D \cup E) /\ ToSet(s \o b) = ToSet(s) \cup ToSet(b)
<1> DEFINE u == s \o b
<1>1. IsSeq(u) /\ ToSet(u) = ToSet(s) \cup ToSet(b)
  BY JoinedSequences DEF IsList
<1>2. ToSet(s) \cap ToSet(b) = {}
  BY DEF IsList, Within
<1>3. IsInjective(u)
  BY <1>2, JoinedInjective DEF IsList
<1> HIDE DEF u
<1>4. IsList(u, D \cup E)
  BY <1>1, <1>3 DEF IsList, Within
<1> QED BY <1>1, <1>4 DEF u

(* The directories that hold files of the 3D template.                     *)
FileDirectories ==
  {<<>>, <<"data", "abilities">>, <<"data", "characters">>, <<"data", "weapons">>, <<"scenes">>,
   <<"scripts">>} \cup Externals

(* They differ, by their length or by a segment.                           *)
LEMMA DirectoriesDiffer ==
  /\ <<"scenes">> # <<"scripts">>
  /\ \A a : <<a>> # <<>>
  /\ \A a, b : <<a, b>> # <<>>
  /\ \A a, b, c : <<a, b>> # <<c>>
  /\ \A a, b, c, e : a # c \/ b # e => <<a, b>> # <<c, e>>
  /\ \A d \in Externals : d # <<>> /\ d # <<"scripts">> /\ d # <<"scenes">> /\ d # External
  /\ \A d \in Externals : \A b, c : d # <<b, c>>
<1>1. \A a : Append(External, a) = <<"scripts", "external", a>>
  BY PathsInFull DEF External
<1>2. \A d \in Externals : \E a : d = <<"scripts", "external", a>>
  BY <1>1 DEF Externals
<1>3. /\ <<"scenes">> # <<"scripts">>
      /\ \A a : <<a>> # <<>>
  OBVIOUS
<1>4. \A a, b : <<a, b>> # <<>>
  OBVIOUS
<1>5. \A a, b, c : <<a, b>> # <<c>>
  OBVIOUS
<1>6. \A a, b, c, e : a # c \/ b # e => <<a, b>> # <<c, e>>
  OBVIOUS
<1>7. \A d \in Externals : d # <<>> /\ d # <<"scripts">> /\ d # <<"scenes">> /\ d # External
  BY <1>2 DEF External
<1>8. \A d \in Externals : \A b, c : d # <<b, c>>
  BY <1>2
<1> QED BY <1>3, <1>4, <1>5, <1>6, <1>7, <1>8, Zenon

(* The files of the 3D template: no repetition, the directories they are   *)
(* in, and the files that others name.                                     *)
LEMMA Files3DAre ==
  /\ IsList(Files3D, FileDirectories)
  /\ \A f \in ToSet(Files3D) :
       /\ Front(f) = <<>> => Last(f) \in {"PROJECT_TRACKING.md", "project.godot"}
       /\ Front(f) = <<"scenes">> => Last(f) \in {"ability_base.tscn", "district_zone.tscn",
            "graybox_district.tscn", "hud.tscn", "player_3d.tscn", "weapon_base.tscn"}
       /\ Front(f) = <<"scripts">> => Last(f) # "external"
  /\ <<"project.godot">> \in ToSet(Files3D)
  /\ {<<"data", "abilities", "dash.tres">>, <<"data", "characters", "enforcer.tres">>,
      <<"data", "weapons", "rifle.tres">>} \subseteq ToSet(Files3D)
  /\ {Scene("district_zone.tscn"), Scene("graybox_district.tscn"), Scene("hud.tscn"),
      Scene("player_3d.tscn")} \subseteq ToSet(Files3D)
  /\ \A n \in {"ability_data.gd", "ability_system.gd", "character_data.gd", "damageable.gd",
               "district_zone.gd", "event_bus.gd", "game_manager.gd", "hud_controller.gd",
               "input_manager.gd", "level_setup.gd", "player_controller.gd",
               "weapon_controller.gd", "weapon_data.gd"} : Script(n) \in ToSet(Files3D)
<1> DEFINE n1 == <<"PROJECT_TRACKING.md">>
           n2 == <<"dash.tres", "heal.tres", "shield.tres">>
           n3 == <<"enforcer.tres", "fixer.tres", "scout.tres">>
           n4 == <<"rifle.tres", "shotgun.tres", "sniper.tres">>
           n5 == <<"project.godot">>
           n6 == <<"ability_base.tscn", "district_zone.tscn", "graybox_district.tscn",
                   "hud.tscn", "player_3d.tscn", "weapon_base.tscn">>
           n7 == <<"ability_data.gd", "ability_system.gd", "bot_state_machine.gd",
                   "character_data.gd", "damageable.gd", "district_zone.gd", "event_bus.gd">>
           n9 == <<"game_manager.gd", "hud_controller.gd", "input_manager.gd",
                   "level_setup.gd", "player_controller.gd", "weapon_controller.gd",
                   "weapon_data.gd">>
           s1 == In(<<>>, n1)
           s2 == s1 \o In(<<"data", "abilities">>, n2)
           s3 == s2 \o In(<<"data", "characters">>, n3)
           s4 == s3 \o In(<<"data", "weapons">>, n4)
           s5 == s4 \o In(<<>>, n5)
           s6 == s5 \o In(<<"scenes">>, n6)
           s7 == s6 \o In(<<"scripts">>, n7)
           s8 == s7 \o ExternalFiles
           s9 == s8 \o In(<<"scripts">>, n9)
           D2 == {<<>>} \cup {<<"data", "abilities">>}
           D3 == D2 \cup {<<"data", "characters">>}
           D4 == D3 \cup {<<"data", "weapons">>}
           D5 == D4 \cup {<<>>}
           D6 == D5 \cup {<<"scenes">>}
           D7 == D6 \cup {<<"scripts">>}
<1>1. /\ IsSeq(In(<<>>, n1)) /\ IsSeq(In(<<"data", "abilities">>, n2))
      /\ IsSeq(In(<<"data", "characters">>, n3)) /\ IsSeq(In(<<"data", "weapons">>, n4))
      /\ IsSeq(In(<<>>, n5)) /\ IsSeq(In(<<"scenes">>, n6)) /\ IsSeq(In(<<"scripts">>, n7))
      /\ IsSeq(In(<<"scripts">>, n9))
  BY ShortLists
<1>2. /\ IsSeq(<<>>) /\ IsSeq(<<"data", "abilities">>) /\ IsSeq(<<"data", "characters">>)
      /\ IsSeq(<<"data", "weapons">>) /\ IsSeq(<<"scenes">>) /\ IsSeq(<<"scripts">>)
  BY ShortPaths
<1>3. /\ IsInjective(n1) /\ IsInjective(n2) /\ IsInjective(n3) /\ IsInjective(n4)
      /\ IsInjective(n5) /\ IsInjective(n6) /\ IsInjective(n7) /\ IsInjective(n9)
  BY NamesDiffer, LongLists
<1>4. /\ ToSet(n1) = {"PROJECT_TRACKING.md"} /\ ToSet(n5) = {"project.godot"}
      /\ ToSet(n2) = {"dash.tres", "heal.tres", "shield.tres"}
      /\ ToSet(n3) = {"enforcer.tres", "fixer.tres", "scout.tres"}
      /\ ToSet(n4) = {"rifle.tres", "shotgun.tres", "sniper.tres"}
  BY NamesAreThose
<1>5. /\ ToSet(n6) = {"ability_base.tscn", "district_zone.tscn", "graybox_district.tscn",
                      "hud.tscn", "player_3d.tscn", "weapon_base.tscn"}
      /\ ToSet(n7) = {"ability_data.gd", "ability_system.gd", "bot_state_machine.gd",
                      "character_data.gd", "damageable.gd", "district_zone.gd", "event_bus.gd"}
      /\ ToSet(n9) = {"game_manager.gd", "hud_controller.gd", "input_manager.gd", "level_setup.gd",
                      "player_controller.gd", "weapon_controller.gd", "weapon_data.gd"}
  BY NamesAreThose
<1>6. Files3D = s9
  BY DEF Files3D
<1> HIDE DEF n1, n2, n3, n4, n5, n6, n7, n9
<1>11. /\ IsList(s1, {<<>>})
       /\ \A p \in ToSet(s1) : Front(p) = <<>> /\ Last(p) \in ToSet(n1)
  BY <1>1, <1>2, <1>3, FirstDirectory
<1> HIDE DEF s1
<1>12. IsList(s2, D2) /\ Added(s2, s1, <<"data", "abilities">>, n2)
  <2>1. <<"data", "abilities">> \notin {<<>>}
    BY DirectoriesDiffer
  <2> QED BY <1>1, <1>2, <1>3, <1>11, <2>1, DirectoryAdded
<1> HIDE DEF s2
<1>13. IsList(s3, D3) /\ Added(s3, s2, <<"data", "characters">>, n3)
  <2>1. <<"data", "characters">> \notin D2
    BY DirectoriesDiffer
  <2> QED BY <1>1, <1>2, <1>3, <1>12, <2>1, DirectoryAdded
<1> HIDE DEF s3
<1>14. IsList(s4, D4) /\ Added(s4, s3, <<"data", "weapons">>, n4)
  <2>1. <<"data", "weapons">> \notin D3
    BY DirectoriesDiffer
  <2> QED BY <1>1, <1>2, <1>3, <1>13, <2>1, DirectoryAdded
<1> HIDE DEF s4
<1>15. IsList(s5, D5) /\ Added(s5, s4, <<>>, n5)
  <2>1. Free(s4, <<>>, n5)
    BY <1>4, <1>11, <1>12, <1>13, <1>14, DirectoriesDiffer DEF Added, Free
  <2> QED BY <1>1, <1>2, <1>3, <1>14, <2>1, DirectoryAdded
<1> HIDE DEF s5
<1>16. IsList(s6, D6) /\ Added(s6, s5, <<"scenes">>, n6)
  <2>1. <<"scenes">> \notin D5
    BY DirectoriesDiffer
  <2> QED BY <1>1, <1>2, <1>3, <1>15, <2>1, DirectoryAdded
<1> HIDE DEF s6
<1>17. IsList(s7, D7) /\ Added(s7, s6, <<"scripts">>, n7)
  <2>1. <<"scripts">> \notin D6
    BY DirectoriesDiffer
  <2> QED BY <1>1, <1>2, <1>3, <1>16, <2>1, DirectoryAdded
<1> HIDE DEF s7
<1>18. IsList(s8, D7 \cup Externals)
       /\ ToSet(s8) = ToSet(s7) \cup ToSet(ExternalFiles)
  <2>1. D7 \cap Externals = {}
    BY DirectoriesDiffer
  <2>2. IsList(s7, D7)
    BY <1>17
  <2> HIDE DEF D7
  <2> QED BY <2>1, <2>2, ExternalFilesAre, ListsJoined
<1> HIDE DEF s8
<1>19. \A p \in ToSet(ExternalFiles) : Front(p) \in Externals
  BY ExternalFilesAre DEF IsList, Within
<1>20. \A p \in Externals : p # <<>> /\ p # <<"scripts">> /\ p # <<"scenes">>
  BY DirectoriesDiffer
<1>21. /\ IsList(s9, D7 \cup Externals \cup {<<"scripts">>})
       /\ Added(s9, s8, <<"scripts">>, n9)
  <2>1. Free(s8, <<"scripts">>, n9)
    <3> SUFFICES ASSUME NEW p \in ToSet(s8), Front(p) = <<"scripts">> PROVE Last(p) \notin ToSet(n9)
      BY DEF Free
    <3>1. p \in ToSet(s7)
      BY <1>18, <1>19, <1>20
    <3>2. p \notin ToSet(s6)
      BY <1>16, DirectoriesDiffer DEF IsList, Within
    <3>3. Last(p) \in ToSet(n7)
      BY <3>1, <3>2, <1>17 DEF Added
    <3> QED BY <3>3, <1>5
  <2> QED BY <1>1, <1>2, <1>3, <1>18, <2>1, DirectoryAdded
<1> HIDE DEF s9
<1>22. D7 \cup Externals \cup {<<"scripts">>} = FileDirectories
  BY DEF FileDirectories
<1>23. \A f \in ToSet(s9) : \/ f \in ToSet(s1) \/ f \in ToSet(ExternalFiles)
                            \/ Front(f) = <<"data", "abilities">> \/ Front(f) = <<"data", "characters">>
                            \/ Front(f) = <<"data", "weapons">>
                            \/ Front(f) = <<>> /\ Last(f) \in ToSet(n5)
                            \/ Front(f) = <<"scenes">> /\ Last(f) \in ToSet(n6)
                            \/ Front(f) = <<"scripts">> /\ Last(f) \in ToSet(n7) \cup ToSet(n9)
  BY <1>12, <1>13, <1>14, <1>15, <1>16, <1>17, <1>18, <1>21 DEF Added
<1>24. ASSUME NEW f \in ToSet(s9)
       PROVE  /\ Front(f) = <<>> => Last(f) \in {"PROJECT_TRACKING.md", "project.godot"}
              /\ Front(f) = <<"scenes">> => Last(f) \in {"ability_base.tscn", "district_zone.tscn",
                   "graybox_district.tscn", "hud.tscn", "player_3d.tscn", "weapon_base.tscn"}
              /\ Front(f) = <<"scripts">> => Last(f) # "external"
  <2>1. ASSUME Front(f) = <<>> PROVE Last(f) \in {"PROJECT_TRACKING.md", "project.godot"}
    BY <2>1, <1>4, <1>11, <1>19, <1>20, <1>23, DirectoriesDiffer
  <2>2. ASSUME Front(f) = <<"scenes">> PROVE Last(f) \in ToSet(n6)
    BY <2>2, <1>11, <1>19, <1>20, <1>23, DirectoriesDiffer
  <2>3. ASSUME Front(f) = <<"scripts">> PROVE Last(f) \in ToSet(n7) \cup ToSet(n9)
    BY <2>3, <1>11, <1>19, <1>20, <1>23, DirectoriesDiffer
  <2>4. "external" \notin ToSet(n7) \cup ToSet(n9)
    BY <1>5
  <2> QED BY <2>1, <2>2, <2>3, <2>4, <1>5
<1>25. ToSet(s5) \subseteq ToSet(s6) /\ ToSet(s6) \subseteq ToSet(s7) /\ ToSet(s7) \subseteq ToSet(s8)
       /\ ToSet(s8) \subseteq ToSet(s9)
  BY <1>16, <1>17, <1>18, <1>21 DEF Added
<1>26. ToSet(s2) \subseteq ToSet(s9) /\ ToSet(s3) \subseteq ToSet(s9) /\ ToSet(s4) \subseteq ToSet(s9)
  BY <1>13, <1>14, <1>15, <1>25 DEF Added
<1>27. <<"project.godot">> \in ToSet(s9)
  BY <1>4, <1>15, <1>25, PathsInFull DEF Added
<1>28. {<<"data", "abilities", "dash.tres">>, <<"data", "characters", "enforcer.tres">>,
        <<"data", "weapons", "rifle.tres">>} \subseteq ToSet(s9)
  <2>1. /\ Append(<<"data", "abilities">>, "dash.tres") \in ToSet(s2)
        /\ Append(<<"data", "characters">>, "enforcer.tres") \in ToSet(s3)
        /\ Append(<<"data", "weapons">>, "rifle.tres") \in ToSet(s4)
    BY <1>4, <1>12, <1>13, <1>14 DEF Added
  <2> QED BY <2>1, <1>26, PathsInFull
<1>29. \A n \in ToSet(n6) : Scene(n) \in ToSet(s9)
  BY <1>16, <1>25, PathsInFull DEF Added, Scene
<1>30. \A n \in ToSet(n7) \cup ToSet(n9) : Script(n) \in ToSet(s9)
  BY <1>17, <1>21, <1>25, PathsInFull DEF Added, Script
<1>31. /\ {Scene("district_zone.tscn"), Scene("graybox_district.tscn"), Scene("hud.tscn"),
           Scene("player_3d.tscn")} \subseteq ToSet(s9)
       /\ \A n \in {"ability_data.gd", "ability_system.gd", "character_data.gd", "damageable.gd",
                    "district_zone.gd", "event_bus.gd", "game_manager.gd", "hud_controller.gd",
                    "input_manager.gd", "level_setup.gd", "player_controller.gd",
                    "weapon_controller.gd", "weapon_data.gd"} : Script(n) \in ToSet(s9)
  BY <1>5, <1>29, <1>30
<1> QED BY <1>6, <1>21, <1>22, <1>24, <1>27, <1>28, <1>31

(* The files and directories of a template make a tree of their own:       *)
(* nothing twice, no file that is a directory, nothing of .godotforge,     *)
(* every directory before what is in it.                                   *)
OwnsTree(files, dirs) ==
  /\ IsInjective(files) /\ IsInjective(dirs) /\ ToSet(files) \cap ToSet(dirs) = {}
  /\ \A p \in {Forge, ProjectYaml} : p \notin ToSet(files) \cup ToSet(dirs)
  /\ \A f \in ToSet(files) : Front(f) \in {<<>>} \cup ToSet(dirs)
  /\ ParentsEarlier(dirs)
  /\ <<"project.godot">> \in ToSet(files)

(* The paths under .godotforge that the planner knows.                     *)
LEMMA ForgePaths ==
  Front(Forge) = <<>> /\ Last(Forge) = ".godotforge" /\ Front(ProjectYaml) = <<".godotforge">>
<1>1. Forge = Append(<<>>, ".godotforge")
  BY PathsInFull DEF Forge
<1>2. IsSeq(<<>>) /\ IsSeq(Forge)
  BY ShortPaths
<1> QED BY <1>1, <1>2, LastOfPath DEF ProjectYaml, Forge

(* Both templates do so.                                                   *)
LEMMA Template2DOwnsTree == OwnsTree(Files2D, Dirs2D)
<1>1. \A f \in ToSet(Files2D) :
        /\ Front(f) \in {<<>>, <<"scenes">>, <<"scripts">>}
        /\ Front(f) = <<>> => Last(f) = "project.godot"
  BY Files2DAre DEF IsList, Within
<1>2. \A d \in ToSet(Dirs2D) : d \in {<<"scenes">>, <<"scripts">>} /\ Front(d) = <<>>
  BY Dirs2DAre DEF IsList, Within
<1>3. Last(<<"scenes">>) = "scenes" /\ Last(<<"scripts">>) = "scripts"
  BY DEF Last
<1>4. ToSet(Files2D) \cap ToSet(Dirs2D) = {}
  BY <1>1, <1>2, <1>3
<1>5. \A p \in {Forge, ProjectYaml} : p \notin ToSet(Files2D) \cup ToSet(Dirs2D)
  <2>1. <<".godotforge">> \notin {<<>>, <<"scenes">>, <<"scripts">>}
    OBVIOUS
  <2>2. Forge \notin {<<"scenes">>, <<"scripts">>}
    BY DEF Forge
  <2>3. Last(Forge) # "project.godot"
    BY ForgePaths
  <2> QED BY <2>1, <2>2, <2>3, <1>1, <1>2, ForgePaths
<1>6. \A f \in ToSet(Files2D) : Front(f) \in {<<>>} \cup ToSet(Dirs2D)
  BY <1>1, Dirs2DAre
<1> QED BY <1>4, <1>5, <1>6, Files2DAre, Dirs2DAre DEF OwnsTree, IsList

(* The same of the 3D template.                                            *)
LEMMA Template3DOwnsTree == OwnsTree(Files3D, Dirs3D)
<1>1. \A f \in ToSet(Files3D) :
        /\ Front(f) \in FileDirectories
        /\ Front(f) = <<>> => Last(f) \in {"PROJECT_TRACKING.md", "project.godot"}
        /\ Front(f) = <<"scripts">> => Last(f) # "external"
  BY Files3DAre DEF IsList, Within
<1>2. \A d \in ToSet(Dirs3D) :
        /\ Front(d) \in {<<>>, <<"data">>, <<"scripts">>, External}
        /\ Front(d) = <<>> => Last(d) \in {"data", "scenes", "scripts"}
        /\ Front(d) = <<"scripts">> => Last(d) = "external"
  BY Dirs3DAre DEF IsList, Within
<1>3. <<"data">> \notin FileDirectories /\ External \notin FileDirectories
      /\ <<".godotforge">> \notin FileDirectories
  <2>1. \A d \in Externals : \E a : d = <<"scripts", "external", a>>
    BY PathsInFull DEF Externals, External
  <2> QED BY <2>1 DEF FileDirectories, External
<1>4. ToSet(Files3D) \cap ToSet(Dirs3D) = {}
  <2> SUFFICES ASSUME NEW p \in ToSet(Files3D), p \in ToSet(Dirs3D) PROVE FALSE
    OBVIOUS
  <2>1. Front(p) = <<>> \/ Front(p) = <<"scripts">>
    BY <1>1, <1>2, <1>3
  <2> QED BY <2>1, <1>1, <1>2
<1>5. \A p \in {Forge, ProjectYaml} : p \notin ToSet(Files3D) \cup ToSet(Dirs3D)
  <2>1. Forge \notin ToSet(Files3D) \cup ToSet(Dirs3D)
    <3>1. Last(Forge) \notin {"PROJECT_TRACKING.md", "project.godot", "data", "scenes", "scripts"}
      BY ForgePaths
    <3> QED BY <3>1, <1>1, <1>2, ForgePaths
  <2>2. ProjectYaml \notin ToSet(Files3D) \cup ToSet(Dirs3D)
    <3>1. <<".godotforge">> \notin {<<>>, <<"data">>, <<"scripts">>, External}
      BY DEF External
    <3> QED BY <3>1, <1>1, <1>2, <1>3, ForgePaths
  <2> QED BY <2>1, <2>2
<1>6. FileDirectories \subseteq {<<>>} \cup ToSet(Dirs3D)
  <2>1. \A n : Append(<<"data">>, n) = <<"data", n>>
    BY PathsInFull
  <2>2. {<<"data", "abilities">>, <<"data", "characters">>, <<"data", "weapons">>} \subseteq ToSet(Dirs3D)
    BY <2>1, Dirs3DAre
  <2>3. {<<"scenes">>, <<"scripts">>} \subseteq ToSet(Dirs3D) /\ Externals \subseteq ToSet(Dirs3D)
    BY Dirs3DAre DEF Externals
  <2> QED BY <2>2, <2>3 DEF FileDirectories
<1>7. \A f \in ToSet(Files3D) : Front(f) \in {<<>>} \cup ToSet(Dirs3D)
  BY <1>1, <1>6
<1> QED BY <1>4, <1>5, <1>7, Files3DAre, Dirs3DAre DEF OwnsTree, IsList

(* So does the template of any manifest.                                   *)
LEMMA TemplatesOwnTheirTree ==
  \A m : OwnsTree(GFiles(m), GDirs(m))
BY Template2DOwnsTree, Template3DOwnsTree DEF GFiles, GDirs

(* What is under data/ is of one of the three kinds DataNames tells apart  *)
(* ...                                                                     *)
LEMMA DataFiles ==
  ASSUME NEW f \in ToSet(Files3D), f[1] = "data"
  PROVE  f[2] \in {"abilities", "characters", "weapons"}
<1>1. Front(f) \in FileDirectories /\ f = Append(Front(f), Last(f))
  BY Files3DAre DEF IsList, Within
<1>2. CASE \E n \in {"abilities", "characters", "weapons"} : Front(f) = <<"data", n>>
  <2>1. PICK n \in {"abilities", "characters", "weapons"} : Front(f) = <<"data", n>>
    BY <1>2
  <2>2. f = <<"data", n, Last(f)>>
    BY <1>1, <2>1, PathsInFull
  <2> QED BY <2>2
<1>3. CASE Front(f) = <<>>
  <2>1. f = <<Last(f)>> /\ Last(f) \in {"PROJECT_TRACKING.md", "project.godot"}
    BY <1>1, <1>3, PathsInFull, Files3DAre
  <2> QED BY <2>1
<1>4. CASE Front(f) = <<"scenes">> \/ Front(f) = <<"scripts">>
  <2>1. f = <<"scenes", Last(f)>> \/ f = <<"scripts", Last(f)>>
    BY <1>1, <1>4, PathsInFull
  <2> QED BY <2>1
<1>5. CASE Front(f) \in Externals
  <2>1. PICK a : Front(f) = <<"scripts", "external", a>>
    BY <1>5, PathsInFull DEF Externals, External
  <2>2. Append(Front(f), Last(f))[1] = "scripts"
    BY <2>1
  <2> QED BY <1>1, <2>2
<1> QED BY <1>1, <1>2, <1>3, <1>4, <1>5 DEF FileDirectories

(* ... and what is under scenes/ is a scene SceneNames knows.              *)
LEMMA SceneFiles ==
  ASSUME NEW f \in ToSet(Files3D), f[1] = "scenes"
  PROVE  f \in {Scene("ability_base.tscn"), Scene("district_zone.tscn"), Scene("graybox_district.tscn"),
                Scene("hud.tscn"), Scene("player_3d.tscn"), Scene("weapon_base.tscn")}
<1>1. Front(f) \in FileDirectories /\ f = Append(Front(f), Last(f))
  BY Files3DAre DEF IsList, Within
<1>2. CASE Front(f) = <<"scenes">>
  <2>1. f = <<"scenes", Last(f)>>
    BY <1>1, <1>2, PathsInFull
  <2> QED BY <1>2, <2>1, Files3DAre DEF Scene
<1>3. CASE Front(f) = <<>>
  <2>1. f = <<Last(f)>> /\ Last(f) \in {"PROJECT_TRACKING.md", "project.godot"}
    BY <1>1, <1>3, PathsInFull, Files3DAre
  <2> QED BY <2>1
<1>4. CASE Front(f) = <<"scripts">>
  <2>1. f = <<"scripts", Last(f)>>
    BY <1>1, <1>4, PathsInFull
  <2> QED BY <2>1
<1>5. CASE Front(f) \in Externals \cup {<<"data", "abilities">>, <<"data", "characters">>, <<"data", "weapons">>}
  <2>1. \A d \in Externals : \E a : d = <<"scripts", "external", a>>
    BY PathsInFull DEF Externals, External
  <2>2. Append(Front(f), Last(f))[1] \in {"scripts", "data"}
    BY <1>5, <2>1
  <2> QED BY <1>1, <2>2
<1> QED BY <1>1, <1>2, <1>3, <1>4, <1>5 DEF FileDirectories

(* A file of a template names only files of the template (the res:// paths *)
(* that the emitters of creator/plan.py write).                            *)
LEMMA NamesAreFiles ==
  ASSUME NEW m, NEW f \in ToSet(GFiles(m))
  PROVE  Names(m, f) \subseteq ToSet(GFiles(m))
<1>1. CASE ~Is3D(m)
  BY <1>1, Files2DAre DEF Names, Names2D, GFiles
<1>2. CASE Is3D(m)
  <2>1. f \in ToSet(Files3D) /\ Names(m, f) = Names3D(f) /\ GFiles(m) = Files3D
    BY <1>2 DEF Names, GFiles
  <2>2. CASE f = <<"project.godot">>
    <3>1. Names3D(f) = {Scene("graybox_district.tscn"), Script("event_bus.gd"),
                        Script("game_manager.gd"), Script("input_manager.gd")}
      BY <2>2 DEF Names3D
    <3> QED BY <2>1, <3>1, Files3DAre
  <2>3. CASE f[1] = "data"
    <3>1. Names3D(f) = DataNames(f)
      BY <2>3 DEF Names3D
    <3>2. f[2] \in {"abilities", "characters", "weapons"}
      BY <2>1, <2>3, DataFiles
    <3>3. DataNames(f) \subseteq
            {Script("character_data.gd"), Script("weapon_data.gd"), Script("ability_data.gd")}
      BY <3>2 DEF DataNames
    <3> QED BY <2>1, <3>1, <3>3, Files3DAre
  <2>4. CASE f[1] = "scenes"
    <3>1. Names3D(f) = SceneNames(f)
      BY <2>4 DEF Names3D
    <3>2. f \in {Scene("ability_base.tscn"), Scene("district_zone.tscn"),
                 Scene("graybox_district.tscn"), Scene("hud.tscn"), Scene("player_3d.tscn"),
                 Scene("weapon_base.tscn")}
      BY <2>1, <2>4, SceneFiles
    <3>3. \A a, b : a # b => Scene(a) # Scene(b)
      BY DEF Scene
    <3> QED BY <2>1, <3>1, <3>2, <3>3, Files3DAre DEF SceneNames
  <2>5. CASE f # <<"project.godot">> /\ f[1] # "data" /\ f[1] # "scenes"
    <3>1. Names3D(f) = {}
      BY <2>5 DEF Names3D
    <3> QED BY <2>1, <3>1
  <2> QED BY <2>2, <2>3, <2>4, <2>5
<1> QED BY <1>1, <1>2

-----------------------------------------------------------------------------
(* The types.                                                              *)

(* Where a command is.                                                     *)
Phases ==
  {"idle", "planned", "checked", "applying", "writing", "copying", "running", "cleaning", "concluding",
   "reported"}

(* The operations the planner makes: new directories, and new files with   *)
(* bytes it emitted.                                                       *)
PlannedOperation ==
  {op \in P!PatchOperation :
     /\ op.kind \in {"create", "mkdir"}
     /\ op.kind = "create" => op.content \in Contents /\ op.desired = op.content}

(* What the walk of the source has still to do.                            *)
Items ==
  [kind : {"dir"}, path : ProjectPath \cup {Root}] \cup [kind : {"file"}, path : ProjectPath]

(* The files of a project, with their bytes.                               *)
FileMaps == [ProjectPath -> Contents \cup {Absent}]

(* What a verification remembers.                                          *)
Checks ==
  [before : FileMaps \cup {<<>>}, copy : P!Tree \cup {<<>>}, todo : Seq(Items),
   mode : Modes \cup {""}, failure : {"", "configuration", "internal"}, engine : BOOLEAN]

(* The phases of a verification that has begun and not ended.              *)
Verifying == {"copying", "running", "cleaning", "concluding"}

(* Whatever is in the tree is in a directory.                              *)
Placed(t) == \A p \in ProjectPath : P!Exists(t, p) => P!ParentIsDir(t, p)

(* The inductive type invariant: the types of the state, a tree in which   *)
(* whatever there is has a directory around it, and nothing done of a plan *)
(* that is not being applied yet.                                          *)
Types ==
  /\ pc \in Phases
  /\ tree \in P!Tree /\ Placed(tree)
  /\ plan \in Seq(PlannedOperation) /\ done \in 0..Len(plan)
  /\ pc \in {"idle", "planned", "checked"} => done = 0
  /\ pc = "writing" => done < Len(plan)
  /\ check \in Checks
  /\ pc \in Verifying => check.before \in FileMaps /\ check.copy \in P!Tree
  /\ runs \in Seq(EngineRuns)
  /\ temp \in BOOLEAN
  /\ edited \in Nat
  /\ late \subseteq ProjectPath

(* What holds bytes is a file, and nothing else is.                        *)
LEMMA FilesHoldContents ==
  ASSUME NEW t \in P!Tree
  PROVE  /\ \A p \in ProjectPath : p \in Files(t) <=> t[p] \in Contents
         /\ FileMap(t) \in FileMaps
BY ContentAssumption DEF P!Tree, P!Node, Files, FileMap, FileMaps

(* Nothing and a directory differ.                                         *)
LEMMA NodesDiffer == Absent # Directory
BY DEF Absent, Directory

(* What the planner emits is bytes the model knows.                        *)
LEMMA EmittedIsContent ==
  ASSUME NEW m \in Manifests, NEW f \in ToSet(GFiles(m))
  PROVE  Emitted(m, f) \in Contents
BY DEF Contents

(* What the planner builds is an operation of a plan.                      *)
LEMMA OperationsArePlanned ==
  ASSUME NEW p \in ProjectPath
  PROVE  /\ Operation("mkdir", p, NoHash) \in PlannedOperation
         /\ \A c \in Contents : Operation("create", p, c) \in PlannedOperation
BY DEF Operation, PlannedOperation, P!PatchOperation, P!Kind, P!Hash

(* Plans are sequences of them.                                            *)
LEMMA PlansArePlanned ==
  ASSUME NEW m \in Manifests, NEW t
  PROVE  PlanFor(t, m) \in Seq(PlannedOperation)
<1> DEFINE missing == Those(GDirs(m), {d \in ToSet(GDirs(m)) : t[d] # Directory})
           dirs == [i \in DOMAIN missing |-> Operation("mkdir", missing[i], NoHash)]
           files == GFiles(m)
<1>1. IsSeq(missing) /\ ToSet(missing) \subseteq ProjectPath
  BY PathsAreListed, ThoseAreThose
<1>2. dirs \in Seq(PlannedOperation)
  <2> HIDE DEF missing
  <2>1. DOMAIN missing = 1..Len(missing) /\ Len(missing) \in Nat
    BY <1>1 DEF IsSeq
  <2>2. \A i \in DOMAIN missing : missing[i] \in ProjectPath
    BY <1>1 DEF ToSet
  <2> QED BY <2>1, <2>2, OperationsArePlanned
<1>3. Creates(t, m) \in Seq(PlannedOperation)
  <2>1. DOMAIN files = 1..Len(files) /\ Len(files) \in Nat
    BY PathsAreListed DEF IsSeq
  <2>2. \A i \in DOMAIN files : files[i] \in ToSet(files) /\ files[i] \in ProjectPath
    BY PathsAreListed DEF ToSet
  <2>3. \A i \in DOMAIN files : Operation("create", files[i], Emitted(m, files[i])) \in PlannedOperation
    BY <2>2, EmittedIsContent, OperationsArePlanned
  <2> QED BY <2>1, <2>3 DEF Creates
<1>4. PlanFor(t, m) = dirs \o Creates(t, m)
  BY DEF PlanFor
<1> QED BY <1>2, <1>3, <1>4

(* A listing has an item for every child of the directory, a file for a    *)
(* file and a directory for a directory.                                   *)
LEMMA ListingIs ==
  ASSUME NEW d, tree \in P!Tree
  PROVE  /\ Listing(d) \in Seq(Items)
         /\ ToSet(Listing(d)) =
              {Item("file", p) : p \in Children(tree, d) \cap Files(tree)}
                \cup {Item("dir", p) : p \in Children(tree, d) \ Files(tree)}
<1> DEFINE Of(kind, paths) ==
      LET s == Those(Listed, paths) IN [i \in DOMAIN s |-> Item(kind, s[i])]
<1>1. ASSUME NEW kind \in {"file", "dir"}, NEW paths \in SUBSET ProjectPath
      PROVE  /\ IsSeq(Of(kind, paths))
             /\ ToSet(Of(kind, paths)) = {Item(kind, p) : p \in paths}
  <2> DEFINE s == Those(Listed, paths)
  <2>1. IsSeq(s) /\ ToSet(s) = paths
    BY PathsAreListed, ThoseAreThose
  <2> HIDE DEF s
  <2>2. DOMAIN s = 1..Len(s) /\ Len(s) \in Nat
    BY <2>1 DEF IsSeq
  <2> DEFINE o == [i \in DOMAIN s |-> Item(kind, s[i])]
  <2>3. IsSeq(o)
    BY <2>2, NumberedIsSequence
  <2>4. ToSet(o) = {Item(kind, p) : p \in paths}
    BY <2>1 DEF ToSet
  <2> QED BY <2>3, <2>4 DEF s
<1> DEFINE files == Children(tree, d) \cap Files(tree)
           dirs  == Children(tree, d) \ Files(tree)
<1>2. files \in SUBSET ProjectPath /\ dirs \in SUBSET ProjectPath
  BY DEF Children
<1>3. Listing(d) = Of("file", files) \o Of("dir", dirs)
  BY DEF Listing
<1> HIDE DEF Of, files, dirs
<1>4. ToSet(Listing(d)) = {Item("file", p) : p \in files} \cup {Item("dir", p) : p \in dirs}
      /\ IsSeq(Listing(d))
  BY <1>1, <1>2, <1>3, JoinedSequences
<1>5. ToSet(Listing(d)) \subseteq Items
  BY <1>2, <1>4 DEF Item, Items
<1>6. Listing(d) \in Seq(Items)
  BY <1>4, <1>5 DEF IsSeq
<1> QED BY <1>4, <1>6 DEF files, dirs

(* A tree stays a tree when a path whose directory exists gets a node,     *)
(* unless a directory that has something in it goes.                       *)
LEMMA PutInPlace ==
  ASSUME NEW t \in P!Tree, Placed(t), NEW p \in ProjectPath, P!ParentIsDir(t, p),
         NEW node \in P!Node,
         node = Directory \/ t[p] # Directory \/ Children(t, p) = {}
  PROVE  /\ [t EXCEPT ![p] = node] \in P!Tree
         /\ Placed([t EXCEPT ![p] = node])
<1> DEFINE u == [t EXCEPT ![p] = node]
<1>1. u \in P!Tree
  BY DEF P!Tree
<1>2. ASSUME NEW q \in ProjectPath, P!Exists(u, q) PROVE P!ParentIsDir(u, q)
  <2>1. P!ParentIsDir(t, q)
    BY <1>2 DEF Placed, P!Exists, P!Tree
  <2>2. CASE ParentOf[q] = Root
    BY <2>2 DEF P!ParentIsDir
  <2>3. CASE ParentOf[q] # Root /\ ParentOf[q] # p
    BY <2>1, <2>3, PathAssumption DEF P!ParentIsDir, P!Tree
  <2>4. CASE ParentOf[q] # Root /\ ParentOf[q] = p
    <3>1. t[p] = Directory
      BY <2>1, <2>4 DEF P!ParentIsDir
    <3>2. q # Root
      BY PathAssumption
    <3>3. CASE q # p
      <4>1. q \in Children(t, p)
        BY <1>2, <2>4, <3>2, <3>3 DEF Children, P!Exists, P!Tree
      <4>2. node = Directory
        BY <3>1, <4>1
      <4> QED BY <2>4, <4>2 DEF P!ParentIsDir, P!Tree
    <3>4. CASE q = p
      <4>1. t[p] # Absent
        BY <3>1 DEF Absent, Directory
      <4>2. q \in Children(t, p)
        BY <2>4, <3>2, <3>4, <4>1 DEF Children
      <4>3. node = Directory
        BY <3>1, <4>2
      <4> QED BY <3>4, <2>4, <4>3 DEF P!ParentIsDir, P!Tree
    <3> QED BY <3>3, <3>4
  <2> QED BY <2>2, <2>3, <2>4
<1> QED BY <1>1, <1>2 DEF Placed

(* An operation of the planner puts one node where nothing was.            *)
LEMMA EffectIsPut ==
  ASSUME NEW op \in PlannedOperation, NEW t \in P!Tree
  PROVE  /\ P!Effect(op, t) = [t EXCEPT ![op.path] = IF op.kind = "mkdir" THEN Directory ELSE op.content]
         /\ P!TargetReady(op, t) => t[op.path] = Absent /\ P!ParentIsDir(t, op.path)
         /\ op.path \in ProjectPath
         /\ Lands(op) /\ t = tree =>
              P!ParentIsDir(t, op.path) /\ t[op.path] # Directory /\ (op.kind = "mkdir" => t[op.path] = Absent)
         /\ (IF op.kind = "mkdir" THEN Directory ELSE op.content) \in P!Node
<1>1. op.kind \in {"create", "mkdir"} /\ op.path \in ProjectPath /\ op.to = op.path
  BY DEF PlannedOperation, P!PatchOperation
<1>2. op.kind = "create" => op.content \in Contents
  BY DEF PlannedOperation
<1>3. P!Effect(op, t) = [t EXCEPT ![op.path] = IF op.kind = "mkdir" THEN Directory ELSE op.content]
  BY <1>1 DEF P!Effect, P!Tree, P!WritesContent
<1>4. P!TargetReady(op, t) => t[op.path] = Absent /\ P!ParentIsDir(t, op.path)
  BY <1>1 DEF P!TargetReady, P!Exists
<1>5. Lands(op) /\ t = tree =>
        P!ParentIsDir(t, op.path) /\ t[op.path] # Directory /\ (op.kind = "mkdir" => t[op.path] = Absent)
  BY <1>1, NodesDiffer DEF Lands, P!SyscallOk, P!Exists, P!WritesContent
<1> QED BY <1>1, <1>2, <1>3, <1>4, <1>5 DEF P!Node

(* What a command is left with when it is over has its type.               *)
LEMMA NothingIsTyped ==
  <<>> \in Seq(PlannedOperation) /\ 0 \in 0..Len(<<>>) /\ NoCheck \in Checks /\ <<>> \in Seq(EngineRuns)
<1>1. \A D : <<>> \in Seq(D)
  OBVIOUS
<1>2. Len(<<>>) = 0
  OBVIOUS
<1>3. 0 \in 0..Len(<<>>)
  BY <1>2
<1> QED BY <1>1, <1>3 DEF NoCheck, Checks

(* .godotforge lies at the root of the project.                            *)
LEMMA ForgeIsAtRoot == ParentOf[Forge] = Root
<1>1. Forge \in ProjectPath
  BY PathsAreListed
<1>2. Front(Forge) = <<>>
  BY DEF Front, Forge
<1> QED BY <1>1, <1>2 DEF ParentOf, Root

(* The same of the step that ends it.                                      *)
LEMMA ClearedIsTyped ==
  ASSUME Clear
  PROVE  /\ pc' \in Phases /\ plan' \in Seq(PlannedOperation) /\ done' \in 0..Len(plan')
         /\ done' = 0 /\ check' \in Checks /\ pc' \notin Verifying
         /\ runs' \in Seq(EngineRuns) /\ temp' \in BOOLEAN /\ edited' \in Nat
         /\ pc' # "writing" /\ late' \subseteq ProjectPath
BY NothingIsTyped DEF Clear, Phases, Verifying

(* What a step that performs or fails an operation makes of the project.   *)
LEMMA TreeAfterOperation ==
  ASSUME tree \in P!Tree, Placed(tree), plan \in Seq(PlannedOperation), done \in 0..Len(plan),
         done < Len(plan), Lands(plan[done + 1]),
         tree' \in {tree, P!Effect(plan[done + 1], tree)}
  PROVE  tree' \in P!Tree /\ Placed(tree')
<1>1. PICK op \in PlannedOperation : op = plan[done + 1]
  OBVIOUS
<1>2. CASE tree' = P!Effect(op, tree)
  <2> DEFINE node == IF op.kind = "mkdir" THEN Directory ELSE op.content
  <2>1. tree' = [tree EXCEPT ![op.path] = node] /\ tree[op.path] # Directory
        /\ P!ParentIsDir(tree, op.path) /\ op.path \in ProjectPath /\ node \in P!Node
    BY <1>1, <1>2, EffectIsPut
  <2> HIDE DEF node
  <2> QED BY <2>1, PutInPlace
<1>3. CASE tree' = tree
  BY <1>3
<1> QED BY <1>1, <1>2, <1>3

(* Types holds in every reachable state: of every command, whatever a      *)
(* person edits and wherever a command is killed (creator/plan.py,         *)
(* creator/verify.py).                                                     *)
THEOREM TypesHold == Spec => []Types
<1>1. Init => Types
  <2> SUFFICES ASSUME Init PROVE Types
    OBVIOUS
  <2>1. tree \in P!Tree /\ Placed(tree)
    BY StartAssumption DEF Init, Placed
  <2> QED BY <2>1, NothingIsTyped DEF Init, Types, Phases, Verifying
<1>2. Types /\ [Next]_vars => Types'
  <2> SUFFICES ASSUME Types, [Next]_vars PROVE Types'
    OBVIOUS
  <2> USE DEF Types
  <2>1. ASSUME NEW m \in Manifests, Apply(m) PROVE Types'
    <3>1. plan' \in Seq(PlannedOperation)
      BY <2>1, PlansArePlanned DEF Apply
    <3>2. done = 0 /\ done' = 0
      BY <2>1 DEF Apply, Idle
    <3>3. done' \in 0..Len(plan')
      BY <3>1, <3>2
    <3>4. pc' \in {"planned", "reported"}
      BY <2>1 DEF Apply, Report
    <3> QED BY <2>1, <3>1, <3>2, <3>3, <3>4 DEF Apply, Phases, Verifying, Placed
  <2>2. CASE CheckPlan
    BY <2>2 DEF CheckPlan, Report, Phases, Verifying, Placed
  <2>3. CASE Backup
    <3>1. tree' \in P!Tree /\ Placed(tree')
      <4>1. CASE tree' = [tree EXCEPT ![Forge] = Directory]
        <5>1. P!ParentIsDir(tree, Forge) /\ Forge \in ProjectPath /\ Directory \in P!Node
          BY ForgeIsAtRoot, PathsAreListed DEF P!ParentIsDir, P!Node
        <5> QED BY <4>1, <5>1, PutInPlace
      <4>2. CASE tree' = tree
        BY <4>2
      <4> QED BY <2>3, <4>1, <4>2 DEF Backup
    <3>2. pc' \in {"applying", "reported"}
      BY <2>3 DEF Backup, Report
    <3> QED BY <2>3, <3>1, <3>2 DEF Backup, Phases, Verifying
  <2>4. CASE CheckTarget
    BY <2>4 DEF CheckTarget, Report, Phases, Verifying, Placed
  <2>17. CASE PerformOperation
    <3>1. tree' \in P!Tree /\ Placed(tree')
      BY <2>17, TreeAfterOperation DEF PerformOperation
    <3> QED BY <2>17, <3>1 DEF PerformOperation, Phases, Verifying
  <2>18. CASE FailOperation
    <3>1. tree' \in P!Tree /\ Placed(tree')
      BY <2>18, TreeAfterOperation DEF FailOperation
    <3> QED BY <2>18, <3>1 DEF FailOperation, Report, Phases, Verifying
  <2>5. CASE Commit
    BY <2>5 DEF Commit, Report, Phases, Verifying, Placed
  <2>6. ASSUME NEW mode \in Modes, StartVerify(mode) PROVE Types'
    <3>1. FileMap(tree) \in FileMaps /\ EmptyTree \in P!Tree /\ <<Item("dir", Root)>> \in Seq(Items)
      BY FilesHoldContents DEF EmptyTree, P!Tree, P!Node, Item, Items
    <3>2. check' \in Checks /\ check'.before \in FileMaps /\ check'.copy \in P!Tree
      BY <2>6, <3>1 DEF StartVerify, Checks
    <3> QED BY <2>6, <3>2 DEF StartVerify, Phases, Placed
  <2>7. CASE CopyDirectory
    <3>1. check.todo \in Seq(Items) /\ check.todo # <<>> /\ check.copy \in P!Tree /\ pc = "copying"
      BY <2>7 DEF CopyDirectory, Checks, Verifying
    <3>2. Tail(check.todo) \in Seq(Items)
      BY <3>1
    <3>3. \A d : Listing(d) \o Tail(check.todo) \in Seq(Items)
      BY <3>2, ListingIs
    <3>4. \A d : [p \in ProjectPath |-> IF p = d THEN Directory ELSE check.copy[p]] \in P!Tree
      BY <3>1 DEF P!Tree, P!Node
    <3>5. check' \in Checks /\ check'.before = check.before /\ check'.copy \in P!Tree
      BY <2>7, <3>1, <3>2, <3>3, <3>4 DEF CopyDirectory, Checks
    <3> QED BY <2>7, <3>5 DEF CopyDirectory, Placed
  <2>8. CASE CopyFile
    <3> DEFINE f == Head(check.todo).path
    <3>1. check.todo \in Seq(Items) /\ check.todo # <<>> /\ check.copy \in P!Tree /\ pc = "copying"
      BY <2>8 DEF CopyFile, Checks, Verifying
    <3>2. Tail(check.todo) \in Seq(Items) /\ f \in ProjectPath
      BY <2>8, <3>1 DEF CopyFile, Items
    <3>3. [check.copy EXCEPT ![f] = tree[f]] \in P!Tree
      BY <3>1, <3>2 DEF P!Tree
    <3> HIDE DEF f
    <3>4. \/ pc' = "cleaning" /\ \E code \in {"configuration", "internal"} : check' = [check EXCEPT !.failure = code]
          \/ pc' = pc /\ check' = [check EXCEPT !.todo = Tail(@), !.copy[f] = tree[f]]
      BY <2>8 DEF CopyFile, Failed, f
    <3>5. check' \in Checks /\ check'.before = check.before /\ check'.copy \in P!Tree
      BY <3>1, <3>2, <3>3, <3>4 DEF Checks
    <3> QED BY <2>8, <3>1, <3>4, <3>5 DEF CopyFile, Phases, Verifying, Placed
  <2>9. CASE Inject
    <3>1. check.copy \in P!Tree /\ pc = "copying" /\ check.before \in FileMaps
      BY <2>9 DEF Inject, Verifying
    <3> DEFINE put == [check.copy EXCEPT ![Forge] = Directory, ![Validator] = ValidatorText]
    <3>2. put \in P!Tree
      BY <3>1 DEF P!Tree, P!Node, Contents
    <3>3. \/ pc' = "cleaning" /\ check' = [check EXCEPT !.failure = "internal"]
          \/ /\ pc' \in {"running", "cleaning"}
             /\ \E engine \in BOOLEAN :
                  check' = [check EXCEPT !.copy[Forge] = Directory, !.copy[Validator] = ValidatorText,
                                         !.engine = engine]
      BY <2>9 DEF Inject, Failed
    <3>4. check' \in Checks /\ check'.before = check.before /\ check'.copy \in P!Tree
      BY <3>1, <3>2, <3>3 DEF Checks
    <3> QED BY <2>9, <3>1, <3>3, <3>4 DEF Inject, Phases, Verifying, Placed
  <2>10. CASE RunStage
    BY <2>10 DEF RunStage, Phases, Verifying, Placed
  <2>11. CASE RemoveTemp
    BY <2>11 DEF RemoveTemp, Report, Phases, Verifying, Placed
  <2>12. CASE Conclude
    BY <2>12 DEF Conclude, Report, Phases, Verifying, Placed
  <2>13. CASE Return
    BY <2>13, ClearedIsTyped DEF Return, Placed
  <2>14. CASE Crash
    BY <2>14, ClearedIsTyped DEF Crash, Placed
  <2>15. CASE Edit
    <3>1. PICK p \in EditorPaths :
            /\ P!ParentIsDir(tree, p)
            /\ \/ tree[p] # Directory /\ tree' = [tree EXCEPT ![p] = UserText]
               \/ tree[p] = Absent /\ tree' = [tree EXCEPT ![p] = Directory]
               \/ Children(tree, p) = {} /\ tree' = [tree EXCEPT ![p] = Absent]
      BY <2>15 DEF Edit
    <3>2. UserText \in P!Node /\ Directory \in P!Node /\ Absent \in P!Node
      BY DEF P!Node, Contents
    <3>3. tree' \in P!Tree /\ Placed(tree')
      BY <3>1, <3>2, PutInPlace, EditorAssumption
    <3>4. edited' \in Nat
      BY <2>15 DEF Edit
    <3>5. late' \subseteq ProjectPath
      BY <2>15, EditorAssumption DEF Edit
    <3> QED BY <2>15, <3>3, <3>4, <3>5 DEF Edit
  <2>16. CASE UNCHANGED vars
    BY <2>16 DEF vars, Placed
  <2> QED BY <2>1, <2>2, <2>3, <2>4, <2>5, <2>6, <2>7, <2>8, <2>9, <2>10, <2>11, <2>12, <2>13,
             <2>14, <2>15, <2>16, <2>17, <2>18 DEF Next
<1> QED BY <1>1, <1>2, PTL DEF Spec

(* The path about to be written was absent when the command looked at it:  *)
(* what is there was put there since.                                      *)
TargetIsWatched ==
  pc = "writing" => LET p == plan[done + 1].path IN tree[p] = Absent \/ p \in late

(* (apply_plan looks at the target itself just before, patch/apply.py      *)
(* 282-288 and 330-337)                                                    *)
LEMMA TargetIsWatchedHolds == Spec => []TargetIsWatched
<1>1. Init => TargetIsWatched
  BY DEF Init, TargetIsWatched
<1>2. Types /\ TargetIsWatched /\ [Next]_vars => TargetIsWatched'
  <2> SUFFICES ASSUME Types, TargetIsWatched, [Next]_vars, pc' = "writing" PROVE TargetIsWatched'
    BY DEF TargetIsWatched
  <2>1. CASE CheckTarget
    <3>1. plan[done + 1] \in PlannedOperation /\ P!TargetReady(plan[done + 1], tree)
          /\ UNCHANGED <<tree, plan, done>>
      BY <2>1 DEF CheckTarget, Report, Types
    <3>2. tree[plan[done + 1].path] = Absent
      BY <3>1, EffectIsPut DEF Types
    <3> QED BY <3>1, <3>2 DEF TargetIsWatched
  <2>2. CASE Edit
    <3>1. pc = "writing" /\ UNCHANGED <<plan, done>> /\ late \subseteq late'
      BY <2>2 DEF Edit
    <3>2. PICK q \in EditorPaths : late' = late \cup {q} /\ \E node : tree' = [tree EXCEPT ![q] = node]
      BY <2>2, <3>1 DEF Edit
    <3>3. \A p \in ProjectPath : p # q => tree'[p] = tree[p]
      BY <3>2 DEF Types, P!Tree
    <3>4. plan[done + 1].path \in ProjectPath
      BY <3>1 DEF Types, PlannedOperation, P!PatchOperation
    <3> QED BY <3>1, <3>2, <3>3, <3>4 DEF TargetIsWatched
  <2>3. CASE UNCHANGED vars
    BY <2>3 DEF vars, TargetIsWatched
  <2> QED BY <2>1, <2>2, <2>3 DEF Next, Apply, CheckPlan, Backup, PerformOperation, FailOperation, Commit,
             StartVerify, CopyDirectory, CopyFile, Inject, RunStage, RemoveTemp, Conclude, Return, Crash,
             Clear, Report, Failed, Idle
<1> QED BY <1>1, <1>2, TypesHold, PTL DEF Spec

(* No step of a command changes or removes a file of the project that was  *)
(* there when the command looked at its path: backup only adds             *)
(* .godotforge, and apply_plan goes on only when it finds its target       *)
(* absent, so that what it replaces was saved after (patch/apply.py        *)
(* 282-339).                                                               *)
THEOREM NothingIsOverwrittenHolds == Spec => NothingIsOverwritten
<1> DEFINE Kept == edited' = edited /\ pc # "idle" =>
                     \A p \in Files(tree) : tree'[p] = tree[p] \/ (pc = "writing" /\ p \in late)
<1>1. Types /\ TargetIsWatched /\ [Next]_vars => [Kept]_vars
  <2> SUFFICES ASSUME Types, TargetIsWatched, Next PROVE Kept
    BY DEF vars
  <2>1. CASE tree' = tree
    BY <2>1
  <2>2. CASE Backup
    <3>1. CASE tree' = [tree EXCEPT ![Forge] = Directory] /\ tree[Forge] \in {Absent, Directory}
      BY <3>1 DEF Types, P!Tree, Files
    <3>2. CASE tree' = tree
      BY <3>2
    <3> QED BY <2>2, <3>1, <3>2 DEF Backup
  <2>3. CASE pc = "writing" /\ tree' = P!Effect(plan[done + 1], tree)
    <3>1. PICK op \in PlannedOperation : op = plan[done + 1]
      BY <2>3 DEF Types
    <3>2. tree' = [tree EXCEPT ![op.path] = IF op.kind = "mkdir" THEN Directory ELSE op.content]
      BY <2>3, <3>1, EffectIsPut DEF Types
    <3>3. tree[op.path] = Absent \/ op.path \in late
      BY <2>3, <3>1 DEF TargetIsWatched
    <3>4. \A p \in ProjectPath : p # op.path => tree'[p] = tree[p]
      BY <3>2 DEF Types, P!Tree
    <3>5. \A p \in Files(tree) : p \in ProjectPath /\ tree[p] # Absent
      BY DEF Files
    <3> QED BY <2>3, <3>3, <3>4, <3>5
  <2>4. CASE Edit
    BY <2>4 DEF Edit, Types
  <2>5. CASE PerformOperation \/ FailOperation
    BY <2>1, <2>3, <2>5 DEF PerformOperation, FailOperation
  <2> QED BY <2>1, <2>2, <2>4, <2>5 DEF Next, Apply, CheckPlan, CheckTarget, Commit, StartVerify,
             CopyDirectory, CopyFile, Inject, RunStage, RemoveTemp, Conclude, Return, Crash
<1> QED BY <1>1, TypesHold, TargetIsWatchedHolds, PTL DEF Spec, NothingIsOverwritten

-----------------------------------------------------------------------------
(* Verdicts.                                                               *)

(* Every stage of the mode ran, or one failed.                             *)
RanAsAsked == Len(runs) = Len(StagesOf(check.mode)) \/ Verdict(runs) = "fail"

(* The inductive strengthening of VerdictIsSound: what a verification has  *)
(* not done yet has left no trace, and the engine has done all its stages, *)
(* or failed one, when the verification begins to clean up.                *)
VerdictIsEarned ==
  /\ pc \in {"idle", "planned", "checked", "applying", "writing"} => check = NoCheck /\ runs = <<>> /\ ~temp
  /\ pc = "copying" => runs = <<>>
  /\ pc \in Verifying \ {"cleaning"} => check.failure = ""
  /\ pc \in {"cleaning", "concluding"} /\ check.failure = "" /\ check.engine => RanAsAsked
  /\ VerdictIsSound

(* A verdict of ok means that every stage ran, ended with zero and in      *)
(* time, and that only known noise was kept of its output                  *)
(* (engine/validate.py).                                                   *)
LEMMA OkIsClean ==
  ASSUME NEW ended \in Seq(EngineRun), Verdict(ended) = "ok"
  PROVE  \A i \in DOMAIN ended :
           /\ ended[i].launched /\ ~ended[i].timedOut /\ ended[i].exitZero
           /\ ended[i].kept \subseteq Noise
<1> TAKE i \in DOMAIN ended
<1>1. Overall(StageStatus(ended[i])) # "fail"
  BY DEF Verdict
<1>2. StageStatus(ended[i]) \notin {"fail", "inconclusive"}
  BY <1>1 DEF Overall
<1>3. ended[i] \in EngineRun
  OBVIOUS
<1>4. /\ ended[i].launched /\ ~ended[i].timedOut /\ ended[i].exitZero
      /\ ended[i].kept \cap {"crash", "fatal", "unknown"} = {}
  BY <1>2, <1>3 DEF StageStatus, EngineRun
<1> QED BY <1>3, <1>4 DEF EngineRun, Message, Noise

(* VerdictIsEarned is inductive.                                           *)
LEMMA VerdictIsEarnedHolds == Spec => []VerdictIsEarned
<1>1. Init => VerdictIsEarned
  BY DEF Init, VerdictIsEarned, VerdictIsSound, SuccessIsEvidence, VerdictIsComplete, Verified,
         Verifying, NoCheck
<1>2. Types /\ VerdictIsEarned /\ [Next]_vars => VerdictIsEarned'
  <2> SUFFICES ASSUME Types, VerdictIsEarned, [Next]_vars PROVE VerdictIsEarned'
    OBVIOUS
  <2> USE DEF VerdictIsSound, SuccessIsEvidence, VerdictIsComplete, Verified
  <2>1. ASSUME NEW m \in Manifests, Apply(m) PROVE VerdictIsEarned'
    <3>1. pc' \in {"planned", "reported"} /\ UNCHANGED <<check, runs, temp>> /\ check = NoCheck
          /\ runs = <<>> /\ ~temp
      BY <2>1 DEF Apply, Report, Idle, VerdictIsEarned
    <3> QED BY <3>1 DEF VerdictIsEarned, NoCheck, Verifying
  <2>2. CASE CheckPlan \/ Backup \/ CheckTarget \/ PerformOperation \/ FailOperation \/ Commit
    <3>1. pc' \in {"planned", "checked", "applying", "writing", "reported"} /\ UNCHANGED <<check, runs, temp>>
          /\ check = NoCheck /\ runs = <<>> /\ ~temp
      BY <2>2 DEF CheckPlan, Backup, CheckTarget, PerformOperation, FailOperation, Commit, Report,
                  VerdictIsEarned
    <3> QED BY <3>1 DEF VerdictIsEarned, NoCheck, Verifying
  <2>3. ASSUME NEW mode \in Modes, StartVerify(mode) PROVE VerdictIsEarned'
    BY <2>3 DEF StartVerify, Idle, VerdictIsEarned, Verifying
  <2>4. CASE CopyDirectory
    <3>1. pc = "copying" /\ pc' = pc /\ UNCHANGED <<runs, temp>> /\ check'.failure = check.failure
      BY <2>4 DEF CopyDirectory, Types, Checks
    <3> QED BY <3>1 DEF VerdictIsEarned, Verifying
  <2>5. CASE CopyFile
    <3>1. /\ pc = "copying" /\ UNCHANGED <<runs, temp>>
          /\ \/ pc' = pc /\ check'.failure = check.failure
             \/ pc' = "cleaning" /\ check'.failure # ""
      BY <2>5 DEF CopyFile, Failed, Types, Checks
    <3> QED BY <3>1 DEF VerdictIsEarned, Verifying
  <2>6. CASE Inject
    <3>1. /\ pc = "copying" /\ UNCHANGED <<runs, temp>>
          /\ \/ pc' = "running" /\ check'.failure = check.failure
             \/ pc' = "cleaning" /\ check'.failure = check.failure /\ ~check'.engine
             \/ pc' = "cleaning" /\ check'.failure # ""
      BY <2>6 DEF Inject, Failed, Types, Checks
    <3> QED BY <3>1 DEF VerdictIsEarned, Verifying
  <2>7. CASE RunStage
    <3>1. pc = "running" /\ check' = check /\ (pc' = pc \/ (pc' = "cleaning" /\ RanAsAsked'))
      BY <2>7 DEF RunStage, RanAsAsked
    <3> QED BY <3>1 DEF VerdictIsEarned, Verifying
  <2>8. CASE RemoveTemp
    <3>1. /\ pc = "cleaning" /\ check' = check /\ runs' = runs
          /\ \/ check.failure # "" /\ pc' = "reported" /\ exit' = check.failure
             \/ check.failure = "" /\ pc' = "concluding"
      BY <2>8 DEF RemoveTemp, Report
    <3>2. check.failure \in {"", "configuration", "internal"}
      BY DEF Types, Checks
    <3>3. RanAsAsked' = RanAsAsked
      BY <3>1 DEF RanAsAsked
    <3> QED BY <3>1, <3>2, <3>3 DEF VerdictIsEarned, Verifying
  <2>9. CASE Conclude
    <3>1. /\ pc = "concluding" /\ pc' = "reported" /\ exit' = ExitCode
          /\ UNCHANGED <<tree, check, runs, temp>>
      BY <2>9 DEF Conclude, Report
    <3>2. ExitCode \in {"success", "validation_failure", "tool_unavailable"}
            => ~temp /\ check.before = FileMap(tree)
      BY DEF ExitCode, SourceUnchanged
    <3>3. ASSUME ExitCode = "success"
          PROVE  /\ Len(runs) = Len(StagesOf(check.mode))
                 /\ \A i \in DOMAIN runs :
                      /\ runs[i].launched /\ ~runs[i].timedOut /\ runs[i].exitZero
                      /\ runs[i].kept \subseteq Noise
      <4>1. check.engine /\ Verdict(runs) = "ok"
        BY <3>3 DEF ExitCode
      <4>2. RanAsAsked
        BY <3>1, <4>1 DEF VerdictIsEarned, Verifying
      <4>3. runs \in Seq(EngineRun)
        BY EngineAssumption DEF Types
      <4> QED BY <4>1, <4>2, <4>3, OkIsClean DEF RanAsAsked
    <3> QED BY <3>1, <3>2, <3>3 DEF VerdictIsEarned, Verifying
  <2>10. CASE Return \/ Crash
    <3>1. pc' = "idle" /\ check' = NoCheck /\ runs' = <<>> /\ temp' = FALSE
      BY <2>10 DEF Return, Crash, Clear
    <3> QED BY <3>1 DEF VerdictIsEarned, NoCheck, Verifying
  <2>11. CASE Edit
    <3>1. pc # "reported" /\ UNCHANGED <<pc, check, runs, temp>>
      BY <2>11 DEF Edit
    <3>2. RanAsAsked' = RanAsAsked
      BY <3>1 DEF RanAsAsked
    <3> QED BY <3>1, <3>2 DEF VerdictIsEarned
  <2>12. CASE UNCHANGED vars
    <3>1. RanAsAsked' = RanAsAsked
      BY <2>12 DEF vars, RanAsAsked
    <3> QED BY <2>12, <3>1 DEF vars, VerdictIsEarned
  <2> QED BY <2>1, <2>2, <2>3, <2>4, <2>5, <2>6, <2>7, <2>8, <2>9, <2>10, <2>11, <2>12 DEF Next
<1> QED BY <1>1, <1>2, TypesHold, PTL DEF Spec

(* A verification says success only on the evidence of every stage, and    *)
(* gives no verdict at all when the copy is left behind or the source has  *)
(* changed (creator/verify.py).                                            *)
THEOREM VerdictIsSoundHolds == Spec => []VerdictIsSound
<1>1. VerdictIsEarned => VerdictIsSound
  BY DEF VerdictIsEarned
<1> QED BY <1>1, VerdictIsEarnedHolds, PTL

-----------------------------------------------------------------------------
(* The copy the engine runs on.                                            *)

(* The project is what was hashed, and at most one edit has come since, so *)
(* that no file has changed and changed back.                              *)
Same == edited <= 1 /\ check.before = FileMap(tree)

(* The directory d has been listed.                                        *)
Walked(d) ==
  IF d = Root THEN Item("dir", Root) \notin ToSet(check.todo) ELSE check.copy[d] = Directory

(* The copy has of p what the project has.                                 *)
Copied(p) == check.copy[p] = tree[p]

(* p is still to be copied, or to be listed.                               *)
Pending(p) == Item(IF p \in Files(tree) THEN "file" ELSE "dir", p) \in ToSet(check.todo)

(* p is an empty directory a person made since.                            *)
MadeSince(p) == edited # 0 /\ tree[p] = Directory /\ Children(tree, p) = {}

(* What is in a directory that was listed has been copied or will be.      *)
NothingIsMissed ==
  \A p \in ProjectPath :
    tree[p] # Absent /\ Walked(ParentOf[p]) => Copied(p) \/ Pending(p) \/ MadeSince(p)

(* What has been copied is as it is in the project.                        *)
NothingIsStale == \A p \in Files(check.copy) : Copied(p)

(* The copy has the files of the project, and no others but the validator. *)
CopyAgrees == \A p \in ProjectPath \ {Validator} : FileMap(check.copy)[p] = FileMap(tree)[p]

(* The inductive strengthening of CopyIsTheProject: as long as the project *)
(* is what was hashed, the copy under way misses nothing and holds nothing *)
(* stale; once it is complete it agrees with the project.                  *)
CopyIsFaithful ==
  /\ pc \in Verifying /\ edited = 0 => check.before = FileMap(tree)
  /\ pc = "copying" /\ Item("dir", Root) \in ToSet(check.todo) => check.todo = <<Item("dir", Root)>>
  /\ pc = "copying" /\ Same => NothingIsMissed /\ NothingIsStale
  /\ pc \in Verifying \ {"copying"} /\ check.failure = "" /\ Same => CopyAgrees
  /\ CopyIsTheProject

(* When nothing is left to do nothing was missed: of the files and         *)
(* directories missed the shortest path would lie in a directory that was  *)
(* listed.                                                                 *)
LEMMA EveryFileIsCopied ==
  ASSUME tree \in P!Tree, Placed(tree), check.todo = <<>>, NothingIsMissed
  PROVE  \A p \in Files(tree) : Copied(p)
<1> DEFINE missed == {p \in ProjectPath : ~Copied(p) /\ (p \in Files(tree) \/ Children(tree, p) # {})}
           lengths == {Len(p) : p \in missed}
<1> SUFFICES ASSUME missed # {} PROVE FALSE
  BY DEF Files
<1>1. lengths \in SUBSET Nat /\ lengths # {}
  BY PathsAreSequences
<1>2. PICK n \in lengths : \A l \in lengths : n <= l
  <2> HIDE DEF lengths
  <2> QED BY <1>1, LeastIsThere
<1>3. PICK p \in missed : Len(p) = n
  BY <1>2
<1>4. p \in ProjectPath /\ p # Root /\ ~Copied(p) /\ (p \in Files(tree) \/ Children(tree, p) # {})
  BY PathAssumption
<1>5. tree[p] # Absent
  <2>1. ASSUME NEW q \in Children(tree, p) PROVE tree[p] = Directory
    BY <1>4, <2>1 DEF Children, Placed, P!Exists, P!ParentIsDir
  <2> QED BY <1>4, <2>1, NodesDiffer DEF Files
<1>6. ~Pending(p)
  BY DEF ToSet, Pending
<1>7. ~MadeSince(p)
  BY <1>4 DEF MadeSince, Files
<1>8. ~Walked(ParentOf[p])
  BY <1>4, <1>5, <1>6, <1>7 DEF NothingIsMissed
<1>9. ParentOf[p] # Root
  BY <1>8 DEF Walked, ToSet
<1>10. ParentOf[p] \in ProjectPath /\ tree[ParentOf[p]] = Directory
  BY <1>4, <1>5, <1>9, PathAssumption DEF Placed, P!Exists, P!ParentIsDir
<1>11. p \in Children(tree, ParentOf[p])
  BY <1>4, <1>5 DEF Children
<1>12. ~Copied(ParentOf[p])
  BY <1>8, <1>9, <1>10 DEF Walked, Copied
<1>13. Len(ParentOf[p]) \in lengths
  BY <1>10, <1>11, <1>12
<1>14. Len(ParentOf[p]) = Len(p) - 1 /\ Len(p) \in Nat
  BY <1>4, PathsAreSequences
<1> QED BY <1>2, <1>3, <1>13, <1>14

(* Adding the validator to the copy leaves its other files as they are.    *)
LEMMA InjectKeepsTheFiles ==
  ASSUME tree \in P!Tree, check.copy \in P!Tree, NothingIsStale,
         \A p \in Files(tree) : Copied(p),
         check.copy[Forge] \in {Absent, Directory},
         NEW copy, copy = [check.copy EXCEPT ![Forge] = Directory, ![Validator] = ValidatorText]
  PROVE  \A p \in ProjectPath \ {Validator} : FileMap(copy)[p] = FileMap(tree)[p]
<1> TAKE p \in ProjectPath \ {Validator}
<1>1. CASE p \in Files(tree)
  <2>1. check.copy[p] = tree[p] /\ tree[p] \notin {Absent, Directory}
    BY <1>1 DEF Copied, Files
  <2>2. p # Forge
    BY <2>1
  <2>3. copy[p] = tree[p]
    BY <2>1, <2>2 DEF P!Tree
  <2> QED BY <2>1, <2>3 DEF FileMap, Files
<1>2. CASE p \notin Files(tree)
  <2>1. p \notin Files(check.copy)
    BY <1>2 DEF NothingIsStale, Copied, Files
  <2>2. copy[p] \in {Absent, Directory}
    BY <2>1 DEF P!Tree, Files
  <2> QED BY <1>2, <2>2 DEF FileMap, Files
<1> QED BY <1>1, <1>2

(* What is still to do is the first item and the rest.                     *)
LEMMA FirstAndRest ==
  ASSUME NEW s \in Seq(Items), s # <<>>
  PROVE  /\ Head(s) \in Items /\ ToSet(s) = {Head(s)} \cup ToSet(Tail(s))
         /\ IsSeq(Tail(s)) /\ (Tail(s) # <<>> => ToSet(Tail(s)) # {})
         /\ \A x : s = <<x>> => Tail(s) = <<>> /\ Head(s) = x
<1>1. Len(s) \in Nat \ {0} /\ DOMAIN s = 1..Len(s) /\ Head(s) = s[1] /\ s[1] \in Items
  OBVIOUS
<1>2. Tail(s) \in Seq(Items) /\ Len(Tail(s)) = Len(s) - 1
      /\ \A i \in 1..(Len(s) - 1) : Tail(s)[i] = s[i + 1]
  OBVIOUS
<1>3. DOMAIN Tail(s) = 1..(Len(s) - 1)
  BY <1>1, <1>2
<1>4. \A i \in 2..Len(s) : s[i] \in ToSet(Tail(s))
  <2> TAKE i \in 2..Len(s)
  <2>1. i - 1 \in 1..(Len(s) - 1) /\ Tail(s)[i - 1] = s[i]
    BY <1>1, <1>2
  <2> QED BY <1>3, <2>1 DEF ToSet
<1>5. ToSet(Tail(s)) \subseteq ToSet(s)
  <2>1. \A i \in 1..(Len(s) - 1) : i + 1 \in DOMAIN s
    BY <1>1
  <2> QED BY <1>2, <1>3, <2>1 DEF ToSet
<1>6. ToSet(s) = {Head(s)} \cup ToSet(Tail(s))
  <2>1. \A i \in DOMAIN s : i = 1 \/ i \in 2..Len(s)
    BY <1>1
  <2>2. Head(s) \in ToSet(s)
    BY <1>1 DEF ToSet
  <2>3. ToSet(s) \subseteq {Head(s)} \cup ToSet(Tail(s))
    BY <1>1, <1>4, <2>1 DEF ToSet
  <2> QED BY <1>5, <2>2, <2>3
<1>7. IsSeq(Tail(s))
  BY <1>2, SequencesAreThat
<1>8. Tail(s) # <<>> => ToSet(Tail(s)) # {}
  <2>1. Tail(s) # <<>> => 1 \in DOMAIN Tail(s)
    BY <1>2
  <2> QED BY <2>1 DEF ToSet
<1>9. \A x : s = <<x>> => Tail(s) = <<>> /\ Head(s) = x
  OBVIOUS
<1> QED BY <1>1, <1>6, <1>7, <1>8, <1>9

(* What a step of the walk must keep.                                      *)
WalkIsFaithful ==
  /\ Item("dir", Root) \in ToSet(check.todo) => check.todo = <<Item("dir", Root)>>
  /\ Same => NothingIsMissed /\ NothingIsStale

(* Listing a directory keeps it ...                                        *)
LEMMA DirectoryStep ==
  ASSUME Types, pc = "copying", CopyDirectory, WalkIsFaithful
  PROVE  WalkIsFaithful'
<1> DEFINE d == Head(check.todo).path
<1>1. check.todo \in Seq(Items) /\ check.todo # <<>> /\ check.copy \in P!Tree /\ tree \in P!Tree
  BY DEF CopyDirectory, Types, Checks, Verifying
<1>2. Head(check.todo) = Item("dir", d) /\ d \in ProjectPath \cup {Root}
  BY <1>1, FirstAndRest DEF CopyDirectory, Items, Item
<1>3. ToSet(check.todo) = {Item("dir", d)} \cup ToSet(Tail(check.todo))
  BY <1>1, <1>2, FirstAndRest
<1>4. Item("dir", Root) \in ToSet(check.todo) => d = Root /\ Tail(check.todo) = <<>>
  <2> SUFFICES ASSUME Item("dir", Root) \in ToSet(check.todo)
               PROVE  d = Root /\ Tail(check.todo) = <<>>
    OBVIOUS
  <2>1. check.todo = <<Item("dir", Root)>>
    BY DEF WalkIsFaithful
  <2>2. Tail(check.todo) = <<>> /\ Head(check.todo) = Item("dir", Root)
    BY <1>1, <2>1, FirstAndRest
  <2> QED BY <2>2 DEF Item
<1>5. ToSet(<<>>) = {}
  BY DEF ToSet
<1>6. Item("dir", Root) \notin ToSet(Tail(check.todo))
  BY <1>3, <1>4, <1>5
<1> HIDE DEF d
<1>7. UNCHANGED <<tree, edited>>
  BY DEF CopyDirectory
<1>8. CASE d = Root \/ tree[d] = Directory
  <2>1. /\ check'.todo = Listing(d) \o Tail(check.todo)
        /\ check'.copy = [p \in ProjectPath |-> IF p = d THEN Directory ELSE check.copy[p]]
        /\ check'.before = check.before
    BY <1>8 DEF CopyDirectory, Types, Checks, d
  <2>2. ToSet(check'.todo) =
          {Item("file", p) : p \in Children(tree, d) \cap Files(tree)}
            \cup {Item("dir", p) : p \in Children(tree, d) \ Files(tree)}
            \cup ToSet(Tail(check.todo))
    <3>1. IsSeq(Listing(d)) /\ IsSeq(Tail(check.todo))
      BY <1>1, ListingIs, SequencesAreThat, FirstAndRest
    <3> QED BY <1>1, <2>1, <3>1, ListingIs, JoinedSequences
  <2>3. Item("dir", Root) \notin ToSet(check'.todo)
    <3>1. \A p \in Children(tree, d) : Item("dir", p) # Item("dir", Root) /\ Item("file", p) # Item("dir", Root)
      BY DEF Children, Item
    <3> QED BY <1>6, <2>2, <3>1
  <2>4. ASSUME Same' PROVE NothingIsMissed' /\ NothingIsStale'
    <3>1. NothingIsMissed /\ NothingIsStale
      BY <1>7, <2>1, <2>4 DEF Same, WalkIsFaithful
    <3>2. ASSUME NEW p \in ProjectPath, tree[p] # Absent, Walked(ParentOf[p])'
          PROVE  Copied(p)' \/ Pending(p)' \/ MadeSince(p)'
      <4>1. CASE p = d
        <5>1. tree[p] = Directory
          BY <1>8, <4>1, PathAssumption
        <5> QED BY <1>7, <2>1, <4>1, <5>1 DEF Copied
      <4>2. CASE p # d /\ ParentOf[p] = d
        <5>1. p \in Children(tree, d)
          BY <3>2, <4>2, PathAssumption DEF Children
        <5>2. Pending(p)'
          BY <1>7, <2>2, <5>1 DEF Pending
        <5> QED BY <5>2
      <4>3. CASE p # d /\ ParentOf[p] # d
        <5>1. Walked(ParentOf[p])
          <6>1. CASE ParentOf[p] = Root
            BY <1>4, <4>3, <6>1 DEF Walked
          <6>2. CASE ParentOf[p] # Root
            <7>1. ParentOf[p] \in ProjectPath
              BY <6>2, PathAssumption
            <7> QED BY <2>1, <3>2, <4>3, <6>2, <7>1 DEF Walked
          <6> QED BY <6>1, <6>2
        <5>2. Copied(p) \/ Pending(p) \/ MadeSince(p)
          BY <3>1, <3>2, <5>1 DEF NothingIsMissed
        <5>3. Copied(p) => Copied(p)'
          BY <1>7, <2>1, <4>3 DEF Copied
        <5>4. Pending(p) => Pending(p)'
          <6>1. Item(IF p \in Files(tree) THEN "file" ELSE "dir", p) # Item("dir", d)
            BY <4>3 DEF Item
          <6> QED BY <1>3, <1>7, <2>2, <6>1 DEF Pending
        <5>5. MadeSince(p) => MadeSince(p)'
          BY <1>7 DEF MadeSince
        <5> QED BY <5>2, <5>3, <5>4, <5>5
      <4> QED BY <4>1, <4>2, <4>3
    <3>3. NothingIsMissed'
      BY <1>7, <3>2 DEF NothingIsMissed
    <3>4. NothingIsStale'
      BY <1>7, <2>1, <3>1 DEF NothingIsStale, Files, Copied
    <3> QED BY <3>3, <3>4
  <2> QED BY <2>3, <2>4 DEF WalkIsFaithful
<1>9. CASE ~(d = Root \/ tree[d] = Directory)
  <2>1. check'.todo = Tail(check.todo) /\ check'.copy = check.copy /\ check'.before = check.before
    BY <1>9 DEF CopyDirectory, Types, Checks, d
  <2>2. ASSUME Same' PROVE NothingIsMissed' /\ NothingIsStale'
    <3>1. NothingIsMissed /\ NothingIsStale
      BY <1>7, <2>1, <2>2 DEF Same, WalkIsFaithful
    <3>2. ASSUME NEW p \in ProjectPath, tree[p] # Absent, Walked(ParentOf[p])'
          PROVE  Copied(p)' \/ Pending(p)' \/ MadeSince(p)'
      <4>1. Walked(ParentOf[p])
        BY <1>4, <1>9, <2>1, <3>2 DEF Walked
      <4>2. Copied(p) \/ Pending(p) \/ MadeSince(p)
        BY <3>1, <3>2, <4>1 DEF NothingIsMissed
      <4>3. Pending(p) => Pending(p)'
        <5>1. Item(IF p \in Files(tree) THEN "file" ELSE "dir", p) # Item("dir", d)
          BY <1>9, <3>2 DEF Item, Files
        <5> QED BY <1>3, <1>7, <2>1, <5>1 DEF Pending
      <4> QED BY <1>7, <2>1, <4>2, <4>3 DEF Copied, MadeSince
    <3>3. NothingIsMissed'
      BY <1>7, <3>2 DEF NothingIsMissed
    <3>4. NothingIsStale'
      BY <1>7, <2>1, <3>1 DEF NothingIsStale, Files, Copied
    <3> QED BY <3>3, <3>4
  <2> QED BY <1>6, <2>1, <2>2 DEF WalkIsFaithful
<1> QED BY <1>8, <1>9

(* ... copying a file does ...                                             *)
LEMMA FileStep ==
  ASSUME Types, pc = "copying", CopyFile, pc' = "copying", WalkIsFaithful
  PROVE  WalkIsFaithful'
<1> DEFINE f == Head(check.todo).path
<1>1. check.todo \in Seq(Items) /\ check.todo # <<>> /\ check.copy \in P!Tree /\ tree \in P!Tree
  BY DEF CopyFile, Types, Checks, Verifying
<1>2. Head(check.todo) = Item("file", f) /\ f \in ProjectPath
  BY <1>1, FirstAndRest DEF CopyFile, Items, Item
<1>3. ToSet(check.todo) = {Item("file", f)} \cup ToSet(Tail(check.todo))
  BY <1>1, <1>2, FirstAndRest
<1>4. Item("dir", Root) \notin ToSet(check.todo)
  <2> SUFFICES ASSUME Item("dir", Root) \in ToSet(check.todo) PROVE FALSE
    OBVIOUS
  <2>1. check.todo = <<Item("dir", Root)>>
    BY DEF WalkIsFaithful
  <2>2. Head(check.todo) = Item("dir", Root)
    BY <1>1, <2>1, FirstAndRest
  <2> QED BY <1>2, <2>2 DEF Item
<1>5. UNCHANGED <<tree, edited>>
  BY DEF CopyFile
<1>6. /\ tree[f] \notin {Absent, Directory}
      /\ check'.todo = Tail(check.todo) /\ check'.copy = [check.copy EXCEPT ![f] = tree[f]]
      /\ check'.before = check.before
  BY DEF CopyFile, Failed, Types, Checks
<1> HIDE DEF f
<1>7. ASSUME Same' PROVE NothingIsMissed' /\ NothingIsStale'
  <2>1. NothingIsMissed /\ NothingIsStale
    BY <1>5, <1>6, <1>7 DEF Same, WalkIsFaithful
  <2>2. ASSUME NEW p \in ProjectPath, tree[p] # Absent, Walked(ParentOf[p])'
        PROVE  Copied(p)' \/ Pending(p)' \/ MadeSince(p)'
    <3>1. CASE p = f
      BY <1>1, <1>2, <1>5, <1>6, <3>1 DEF Copied, P!Tree
    <3>2. CASE p # f
      <4>1. Walked(ParentOf[p])
        <5>1. CASE ParentOf[p] = Root
          BY <1>4, <5>1 DEF Walked
        <5>2. CASE ParentOf[p] # Root
          <6>1. ParentOf[p] \in ProjectPath
            BY <5>2, PathAssumption
          <6> QED BY <1>1, <1>2, <1>6, <2>2, <5>2, <6>1 DEF Walked, P!Tree
        <5> QED BY <5>1, <5>2
      <4>2. Copied(p) \/ Pending(p) \/ MadeSince(p)
        BY <2>1, <2>2, <4>1 DEF NothingIsMissed
      <4>3. Copied(p) => Copied(p)'
        BY <1>1, <1>5, <1>6, <3>2 DEF Copied, P!Tree
      <4>4. Pending(p) => Pending(p)'
        <5>1. Item(IF p \in Files(tree) THEN "file" ELSE "dir", p) # Item("file", f)
          BY <3>2 DEF Item
        <5> QED BY <1>3, <1>5, <1>6, <5>1 DEF Pending
      <4> QED BY <1>5, <4>2, <4>3, <4>4 DEF MadeSince
    <3> QED BY <3>1, <3>2
  <2>3. NothingIsMissed'
    BY <1>5, <2>2 DEF NothingIsMissed
  <2>4. NothingIsStale'
    BY <1>1, <1>2, <1>5, <1>6, <2>1 DEF NothingIsStale, Files, Copied, P!Tree
  <2> QED BY <2>3, <2>4
<1> QED BY <1>3, <1>4, <1>6, <1>7 DEF WalkIsFaithful

(* (an edit that leaves the hashes as they were makes or removes an empty  *)
(* directory) ...                                                          *)
LEMMA EditChangesDirectories ==
  ASSUME Types, pc \in Verifying, Edit, edited = 0 => check.before = FileMap(tree), Same'
  PROVE  /\ edited = 0 /\ edited' = 1 /\ Same /\ check' = check /\ pc' = pc
         /\ FileMap(tree') = FileMap(tree) /\ Files(tree') = Files(tree)
         /\ \E q \in ProjectPath :
              \/ tree[q] = Absent /\ tree' = [tree EXCEPT ![q] = Directory]
              \/ tree[q] = Directory /\ Children(tree, q) = {} /\ tree' = [tree EXCEPT ![q] = Absent]
<1>1. edited \in Nat /\ edited' = edited + 1 /\ check' = check /\ pc' = pc /\ tree \in P!Tree
  BY DEF Edit, Types, Verifying
<1>2. edited = 0 /\ edited' = 1
  BY <1>1 DEF Same
<1>3. FileMap(tree') = check.before /\ FileMap(tree) = check.before
  BY <1>1, <1>2 DEF Same
<1>4. \A p \in ProjectPath : (p \in Files(tree) <=> p \in Files(tree'))
                             /\ (p \in Files(tree) => tree'[p] = tree[p])
  <2> TAKE p \in ProjectPath
  <2>1. FileMap(tree)[p] = FileMap(tree')[p]
    BY <1>3
  <2> QED BY <2>1 DEF FileMap, Files
<1>5. Files(tree') = Files(tree)
  BY <1>4 DEF Files
<1>6. PICK q \in EditorPaths :
        \/ tree[q] # Directory /\ tree' = [tree EXCEPT ![q] = UserText]
        \/ tree[q] = Absent /\ tree' = [tree EXCEPT ![q] = Directory]
        \/ Children(tree, q) = {} /\ tree' = [tree EXCEPT ![q] = Absent]
  BY DEF Edit
<1>7. q \in ProjectPath
  BY EditorAssumption
<1>8. tree' # tree
  BY DEF Edit
<1> SUFFICES \E r \in ProjectPath :
               \/ tree[r] = Absent /\ tree' = [tree EXCEPT ![r] = Directory]
               \/ tree[r] = Directory /\ Children(tree, r) = {} /\ tree' = [tree EXCEPT ![r] = Absent]
  <2>1. Same
    BY <1>2, <1>3 DEF Same
  <2> QED BY <1>1, <1>2, <1>3, <1>5, <2>1
<1>9. CASE tree' = [tree EXCEPT ![q] = UserText]
  <2>1. tree'[q] = UserText /\ UserText \notin {Absent, Directory}
    BY <1>1, <1>7, <1>9, ContentAssumption DEF P!Tree, Contents
  <2>2. q \in Files(tree')
    BY <1>7, <2>1 DEF Files
  <2>3. tree[q] = UserText
    BY <1>4, <1>7, <2>1, <2>2
  <2>4. tree' = tree
    BY <1>1, <1>9, <2>3 DEF P!Tree
  <2> QED BY <1>8, <2>4
<1>10. CASE tree[q] = Absent /\ tree' = [tree EXCEPT ![q] = Directory]
  BY <1>5, <1>7, <1>10
<1>11. CASE Children(tree, q) = {} /\ tree' = [tree EXCEPT ![q] = Absent]
  <2>1. q \notin Files(tree')
    BY <1>1, <1>7, <1>11 DEF P!Tree, Files
  <2>2. tree[q] \in {Absent, Directory}
    BY <1>5, <1>7, <2>1 DEF Files
  <2>3. tree[q] # Absent
    BY <1>1, <1>8, <1>11 DEF P!Tree
  <2> QED BY <1>7, <1>11, <2>2, <2>3
<1> QED BY <1>6, <1>9, <1>10, <1>11

(* ... and so does an edit.                                                *)
LEMMA EditStep ==
  ASSUME Types, pc = "copying", Edit, edited = 0 => check.before = FileMap(tree), WalkIsFaithful
  PROVE  WalkIsFaithful'
<1>1. check' = check /\ pc' = pc /\ tree \in P!Tree /\ Placed(tree)
  BY DEF Edit, Types
<1>2. ASSUME Same' PROVE NothingIsMissed' /\ NothingIsStale'
  <2>1. edited = 0 /\ edited' = 1 /\ Same /\ Files(tree') = Files(tree)
    BY <1>2, EditChangesDirectories DEF Verifying
  <2>2. NothingIsMissed /\ NothingIsStale
    BY <2>1 DEF WalkIsFaithful
  <2>3. PICK q \in ProjectPath :
          \/ tree[q] = Absent /\ tree' = [tree EXCEPT ![q] = Directory]
          \/ tree[q] = Directory /\ Children(tree, q) = {} /\ tree' = [tree EXCEPT ![q] = Absent]
    BY <1>2, EditChangesDirectories DEF Verifying
  <2>4. \A p \in ProjectPath : p # q => tree'[p] = tree[p]
    BY <1>1, <2>3 DEF P!Tree
  <2>5. ASSUME NEW p \in ProjectPath, tree'[p] # Absent, Walked(ParentOf[p])'
        PROVE  Copied(p)' \/ Pending(p)' \/ MadeSince(p)'
    <3>1. CASE p # q
      <4>1. Copied(p) \/ Pending(p)
        <5>1. tree[p] # Absent /\ Walked(ParentOf[p])
          BY <1>1, <2>4, <2>5, <3>1 DEF Walked
        <5> QED BY <2>1, <2>2, <5>1 DEF NothingIsMissed, MadeSince
      <4>2. Copied(p) => Copied(p)'
        BY <1>1, <2>4, <3>1 DEF Copied
      <4>3. Pending(p) => Pending(p)'
        BY <1>1, <2>1 DEF Pending
      <4> QED BY <4>1, <4>2, <4>3
    <3>2. CASE p = q
      <4>1. tree[q] = Absent /\ tree'[q] = Directory
        BY <1>1, <2>3, <2>5, <3>2 DEF P!Tree
      <4>2. ASSUME NEW r \in Children(tree', q) PROVE FALSE
        <5>1. r \in ProjectPath /\ r # Root /\ ParentOf[r] = q /\ tree'[r] # Absent
          BY <4>2 DEF Children
        <5>2. CASE r # q
          <6>1. tree[r] # Absent
            BY <2>4, <5>1, <5>2
          <6>2. q # Root
            BY PathAssumption
          <6>3. tree[q] = Directory
            BY <1>1, <5>1, <6>1, <6>2 DEF Placed, P!Exists, P!ParentIsDir
          <6> QED BY <4>1, <6>3, NodesDiffer
        <5>3. CASE r = q
          BY <5>1, <5>3, PathsAreSequences
        <5> QED BY <5>2, <5>3
      <4>3. Children(tree', q) = {}
        BY <4>2
      <4> QED BY <2>1, <3>2, <4>1, <4>3 DEF MadeSince
    <3> QED BY <3>1, <3>2
  <2>6. NothingIsMissed'
    BY <2>5 DEF NothingIsMissed
  <2>7. ASSUME NEW p \in Files(check.copy) PROVE check.copy[p] = tree'[p]
    <3>1. check.copy[p] = tree[p] /\ p \in ProjectPath /\ check.copy[p] \notin {Absent, Directory}
      BY <2>2, <2>7 DEF NothingIsStale, Copied, Files
    <3>2. p # q
      BY <2>3, <3>1
    <3> QED BY <2>4, <3>1, <3>2
  <2>8. NothingIsStale'
    BY <1>1, <2>7 DEF NothingIsStale, Copied
  <2> QED BY <2>6, <2>8
<1> QED BY <1>1, <1>2 DEF WalkIsFaithful

(* The copy agrees with the project once the walk is over.                 *)
LEMMA InjectStep ==
  ASSUME Types, pc = "copying", Inject, WalkIsFaithful, Same', check'.failure = ""
  PROVE  CopyAgrees'
<1>1. /\ check.todo = <<>> /\ UNCHANGED <<tree, edited>> /\ check.copy[Forge] \in {Absent, Directory}
      /\ check'.copy = [check.copy EXCEPT ![Forge] = Directory, ![Validator] = ValidatorText]
      /\ check'.before = check.before
  BY DEF Inject, Failed, Types, Checks
<1>2. tree \in P!Tree /\ Placed(tree) /\ check.copy \in P!Tree
  BY DEF Types, Verifying
<1>3. NothingIsMissed /\ NothingIsStale
  BY <1>1 DEF Same, WalkIsFaithful
<1>4. \A p \in Files(tree) : Copied(p)
  BY <1>1, <1>2, <1>3, EveryFileIsCopied
<1>5. \A p \in ProjectPath \ {Validator} : FileMap(check'.copy)[p] = FileMap(tree)[p]
  BY <1>1, <1>2, <1>3, <1>4, InjectKeepsTheFiles
<1> QED BY <1>1, <1>5 DEF CopyAgrees

(* Success is said of the project as it is: the engine ran on the very     *)
(* files it holds (creator/verify.py, the hashes before and after).        *)
THEOREM CopyIsTheProjectHolds == Spec => []CopyIsTheProject
<1>1. Init => CopyIsFaithful
  BY DEF Init, CopyIsFaithful, CopyIsTheProject, Verified, Verifying
<1>2. Types /\ VerdictIsEarned /\ VerdictIsEarned' /\ CopyIsFaithful /\ [Next]_vars => CopyIsFaithful'
  <2> SUFFICES ASSUME Types, VerdictIsEarned, VerdictIsEarned', CopyIsFaithful, [Next]_vars
               PROVE  CopyIsFaithful'
    OBVIOUS
  <2> USE DEF CopyIsTheProject, Verified
  <2>1. CASE \/ \E m \in Manifests : Apply(m)
             \/ CheckPlan \/ Backup \/ CheckTarget \/ PerformOperation \/ FailOperation \/ Commit
    <3>1. pc' \notin Verifying /\ check = NoCheck /\ check' = check
      BY <2>1 DEF Apply, CheckPlan, Backup, CheckTarget, PerformOperation, FailOperation, Commit, Report,
                  Idle, VerdictIsEarned, Verifying
    <3> QED BY <3>1 DEF CopyIsFaithful, NoCheck, Verifying
  <2>2. ASSUME NEW mode \in Modes, StartVerify(mode) PROVE CopyIsFaithful'
    <3>1. /\ pc' = "copying" /\ UNCHANGED <<tree, edited>> /\ check'.before = FileMap(tree)
          /\ check'.copy = EmptyTree /\ check'.todo = <<Item("dir", Root)>>
      BY <2>2 DEF StartVerify
    <3>2. ToSet(check'.todo) = {Item("dir", Root)}
      BY <3>1 DEF ToSet
    <3>3. NothingIsMissed'
      <4>1. \A d \in ProjectPath \cup {Root} : ~Walked(d)'
        BY <3>1, <3>2, NodesDiffer DEF Walked, EmptyTree
      <4> QED BY <4>1, PathAssumption DEF NothingIsMissed
    <3>4. NothingIsStale'
      BY <3>1 DEF NothingIsStale, EmptyTree, Files
    <3> QED BY <3>1, <3>3, <3>4 DEF CopyIsFaithful, Verifying
  <2>3. CASE CopyDirectory
    <3>1. pc = "copying" /\ pc' = pc /\ UNCHANGED <<tree, edited>> /\ check'.before = check.before
      BY <2>3 DEF CopyDirectory, Types, Checks
    <3>2. WalkIsFaithful
      BY <3>1 DEF CopyIsFaithful, WalkIsFaithful
    <3>3. WalkIsFaithful'
      BY <2>3, <3>1, <3>2, DirectoryStep
    <3> QED BY <3>1, <3>3 DEF CopyIsFaithful, WalkIsFaithful, Verifying
  <2>4. CASE CopyFile
    <3>1. /\ pc = "copying" /\ UNCHANGED <<tree, edited>> /\ check'.before = check.before
          /\ pc' = pc \/ (pc' = "cleaning" /\ check'.failure # "")
      BY <2>4 DEF CopyFile, Failed, Types, Checks
    <3>2. WalkIsFaithful
      BY <3>1 DEF CopyIsFaithful, WalkIsFaithful
    <3>3. CASE pc' = pc
      <4>1. WalkIsFaithful'
        BY <2>4, <3>1, <3>2, <3>3, FileStep
      <4> QED BY <3>1, <3>3, <4>1 DEF CopyIsFaithful, WalkIsFaithful, Verifying
    <3>4. CASE pc' = "cleaning" /\ check'.failure # ""
      BY <3>1, <3>4 DEF CopyIsFaithful, Verifying
    <3> QED BY <3>1, <3>3, <3>4
  <2>5. CASE Inject
    <3>1. /\ pc = "copying" /\ UNCHANGED <<tree, edited>> /\ check'.before = check.before
          /\ pc' \in {"running", "cleaning"}
      BY <2>5 DEF Inject, Failed, Types, Checks
    <3>2. WalkIsFaithful
      BY <3>1 DEF CopyIsFaithful, WalkIsFaithful
    <3>3. check'.failure = "" /\ Same' => CopyAgrees'
      BY <2>5, <3>1, <3>2, InjectStep
    <3> QED BY <3>1, <3>3 DEF CopyIsFaithful, Verifying
  <2>6. CASE RunStage \/ RemoveTemp \/ Conclude
    <3>1. /\ pc \in Verifying \ {"copying"} /\ pc' \in (Verifying \cup {"reported"}) \ {"copying"}
          /\ UNCHANGED <<tree, check, edited>>
      BY <2>6 DEF RunStage, RemoveTemp, Conclude, Report, Verifying
    <3>2. Same' = Same /\ CopyAgrees' = CopyAgrees
      BY <3>1 DEF Same, CopyAgrees
    <3>3. CASE pc' # "reported"
      BY <3>1, <3>2, <3>3 DEF CopyIsFaithful, Verifying
    <3>4. CASE pc' = "reported"
      <4>1. ASSUME Verified', exit' = "success", edited' <= 1 PROVE CopyAgrees'
        <5>1. Same'
          BY <3>4, <4>1 DEF VerdictIsEarned, VerdictIsSound, VerdictIsComplete, Same
        <5>2. check.failure = ""
          <6>1. CASE RemoveTemp
            BY <3>4, <4>1, <6>1 DEF RemoveTemp, Report, Types, Checks
          <6>2. CASE Conclude
            BY <6>2 DEF Conclude, VerdictIsEarned, Verifying
          <6>3. CASE RunStage
            BY <3>4, <6>3 DEF RunStage
          <6> QED BY <2>6, <6>1, <6>2, <6>3
        <5> QED BY <3>1, <3>2, <5>1, <5>2 DEF CopyIsFaithful
      <4> QED BY <3>4, <4>1 DEF CopyIsFaithful, Verifying, CopyAgrees
    <3> QED BY <3>3, <3>4
  <2>7. CASE Return \/ Crash
    <3>1. pc' = "idle"
      BY <2>7 DEF Return, Crash, Clear
    <3> QED BY <3>1 DEF CopyIsFaithful, Verifying
  <2>8. CASE Edit
    <3>1. pc # "reported" /\ check' = check /\ pc' = pc /\ edited \in Nat
          /\ (pc \in Verifying => edited' = edited + 1)
      BY <2>8 DEF Edit, Types, Verifying
    <3>2. edited = 0 /\ pc \in Verifying => check.before = FileMap(tree)
      BY DEF CopyIsFaithful
    <3>3. pc = "copying" => WalkIsFaithful'
      BY <2>8, <3>2, EditStep DEF CopyIsFaithful, WalkIsFaithful, Verifying
    <3>4. ASSUME pc \in Verifying \ {"copying"}, check.failure = "", Same' PROVE CopyAgrees'
      <4>1. Same /\ FileMap(tree') = FileMap(tree)
        BY <2>8, <3>2, <3>4, EditChangesDirectories
      <4>2. CopyAgrees
        BY <3>4, <4>1 DEF CopyIsFaithful
      <4> QED BY <3>1, <4>1, <4>2 DEF CopyAgrees
    <3>5. pc \in Verifying => edited' # 0
      BY <3>1
    <3> QED BY <3>1, <3>3, <3>4, <3>5 DEF CopyIsFaithful, WalkIsFaithful
  <2>9. CASE UNCHANGED vars
    BY <2>9 DEF vars, CopyIsFaithful, Same, NothingIsMissed, NothingIsStale, CopyAgrees, Walked,
                Copied, Pending, MadeSince
  <2> QED BY <2>1, <2>2, <2>3, <2>4, <2>5, <2>6, <2>7, <2>8, <2>9 DEF Next
<1>3. CopyIsFaithful => CopyIsTheProject
  BY DEF CopyIsFaithful
<1> QED BY <1>1, <1>2, <1>3, TypesHold, VerdictIsEarnedHolds, PTL DEF Spec

-----------------------------------------------------------------------------
(* The plan of an apply.                                                   *)

(* The plan s completes the project t of the manifest m: every file is     *)
(* made, every directory that is missing is, each once, and a directory    *)
(* before what is in it.                                                   *)
IsPlanFor(s, t, m) ==
  /\ \A i \in DOMAIN s :
       LET p == s[i].path
       IN  \/ s[i] = Operation("mkdir", p, NoHash) /\ p \in ToSet(GDirs(m)) /\ t[p] # Directory
           \/ s[i] = Operation("create", p, Emitted(m, p)) /\ p \in ToSet(GFiles(m))
  /\ \A f \in ToSet(GFiles(m)) : \E i \in DOMAIN s : s[i].path = f
  /\ \A d \in ToSet(GDirs(m)) : t[d] = Directory \/ \E i \in DOMAIN s : s[i].path = d
  /\ \A i, j \in DOMAIN s : s[i].path = s[j].path => i = j
  /\ \A i, j \in DOMAIN s : ParentOf[s[i].path] = s[j].path => j < i

(* plan_creator_manifest makes such a plan.                                *)
LEMMA PlansAreInOrder ==
  ASSUME NEW m \in Manifests, NEW t
  PROVE  IsPlanFor(PlanFor(t, m), t, m)
<1> DEFINE files == GFiles(m)
           gdirs == GDirs(m)
           M == {d \in ToSet(gdirs) : t[d] # Directory}
           missing == Those(gdirs, M)
           made == [i \in DOMAIN missing |-> Operation("mkdir", missing[i], NoHash)]
           creates == Creates(t, m)
           s == PlanFor(t, m)
<1>1. s = made \o creates
  BY DEF PlanFor
<1>2. IsSeq(files) /\ IsSeq(gdirs) /\ ToSet(files) \subseteq ProjectPath /\ ToSet(gdirs) \subseteq ProjectPath
  BY PathsAreListed
<1>3. OwnsTree(files, gdirs)
  BY TemplatesOwnTheirTree
<1>4. PICK n \in Nat : \E pos : IsSelection(gdirs, M, n, pos)
  BY <1>2, ThoseAreInOrder
<1>5. PICK pos : IsSelection(gdirs, M, n, pos)
  BY <1>4
<1>6. /\ pos \in [1..n -> DOMAIN gdirs] /\ missing = [k \in 1..n |-> gdirs[pos[k]]]
      /\ \A k \in 1..n : gdirs[pos[k]] \in M
      /\ \A k, l \in 1..n : k < l => pos[k] < pos[l]
      /\ \A i \in DOMAIN gdirs : gdirs[i] \in M => \E k \in 1..n : pos[k] = i
  BY <1>5 DEF IsSelection
<1>7. made \in Seq(PlannedOperation) /\ creates \in Seq(PlannedOperation)
      /\ Len(made) = n /\ DOMAIN creates = DOMAIN files
  <2>1. made = [i \in 1..n |-> Operation("mkdir", missing[i], NoHash)]
    BY <1>6
  <2>2. \A i \in 1..n : missing[i] \in ProjectPath
    BY <1>2, <1>6
  <2>3. made \in Seq(PlannedOperation)
    <3> HIDE DEF missing
    <3> QED BY <2>1, <2>2, OperationsArePlanned
  <2>4. Len(made) = n
    BY <2>1
  <2>5. creates = [i \in DOMAIN files |-> Operation("create", files[i], Emitted(m, files[i]))]
    BY DEF Creates
  <2>6. DOMAIN files = 1..Len(files) /\ Len(files) \in Nat
    BY <1>2 DEF IsSeq
  <2>7. \A i \in DOMAIN files : files[i] \in ToSet(files) /\ files[i] \in ProjectPath
    BY <1>2 DEF ToSet
  <2>8. \A i \in DOMAIN files : Operation("create", files[i], Emitted(m, files[i])) \in PlannedOperation
    BY <2>7, EmittedIsContent, OperationsArePlanned
  <2> HIDE DEF files
  <2>9. creates \in Seq(PlannedOperation) /\ DOMAIN creates = DOMAIN files
    BY <2>5, <2>6, <2>8
  <2> HIDE DEF made, creates
  <2> QED BY <2>3, <2>4, <2>9
<1>8. \A i \in 1..n : made[i] = Operation("mkdir", gdirs[pos[i]], NoHash)
  BY <1>6
<1>9. \A i \in DOMAIN files : creates[i] = Operation("create", files[i], Emitted(m, files[i]))
  BY DEF Creates
<1>10. \A kind, p, c : Operation(kind, p, c).path = p
  BY DEF Operation
<1> DEFINE Dir(i) == i \in 1..n /\ s[i] = Operation("mkdir", gdirs[pos[i]], NoHash)
                       /\ s[i].path = gdirs[pos[i]]
           File(i) == /\ i > n /\ i \in Nat /\ i - n \in DOMAIN files
                      /\ s[i] = Operation("create", files[i - n], Emitted(m, files[i - n]))
                      /\ s[i].path = files[i - n]
<1>11. \A i \in DOMAIN s : Dir(i) \/ File(i)
  <2> SUFFICES ASSUME NEW i \in DOMAIN s PROVE Dir(i) \/ File(i)
    OBVIOUS
  <2> HIDE DEF made, creates, s, missing, M, gdirs, files
  <2>1. \/ i \in 1..n /\ s[i] = made[i]
        \/ i > n /\ i \in Nat /\ i - n \in DOMAIN creates /\ s[i] = creates[i - n]
    BY <1>1, <1>7
  <2>2. CASE i \in 1..n /\ s[i] = made[i]
    BY <2>2, <1>8, <1>10
  <2>3. CASE i > n /\ i \in Nat /\ i - n \in DOMAIN creates /\ s[i] = creates[i - n]
    BY <2>3, <1>7, <1>9, <1>10
  <2> QED BY <2>1, <2>2, <2>3
<1>12. /\ \A i \in 1..n : i \in DOMAIN s
       /\ \A i \in DOMAIN files : n + i \in DOMAIN s /\ i \in Nat \ {0}
  <2>1. DOMAIN files \subseteq Nat \ {0}
    BY <1>2 DEF IsSeq
  <2> HIDE DEF made, creates, s, missing, M, gdirs, files
  <2> QED BY <1>1, <1>7, <2>1
<1>13. \A i \in DOMAIN files : files[i] \in ToSet(files)
  BY DEF ToSet
<1>14. \A i \in DOMAIN gdirs : gdirs[i] \in ToSet(gdirs)
  BY DEF ToSet
<1>15. M \subseteq ToSet(gdirs) /\ \A d \in M : t[d] # Directory
  OBVIOUS
<1>16. \A d \in ToSet(gdirs) : t[d] = Directory \/ \E k \in 1..n : gdirs[pos[k]] = d
  <2>1. \A d \in ToSet(gdirs) : \E i \in DOMAIN gdirs : gdirs[i] = d
    BY DEF ToSet
  <2> QED BY <1>6, <2>1
<1>17. \A f \in ToSet(files) : \E i \in DOMAIN files : files[i] = f
  BY DEF ToSet
<1> HIDE DEF made, creates, s, missing, M, gdirs, files
<1>18. \A f \in ToSet(files) : \E i \in DOMAIN s : s[i].path = f
  <2> TAKE f \in ToSet(files)
  <2>1. PICK k \in DOMAIN files : files[k] = f
    BY <1>17
  <2>2. PICK l \in DOMAIN s : l - n = k /\ ~(l \in 1..n)
    <3>1. n + k \in DOMAIN s /\ k \in Nat \ {0}
      BY <1>12
    <3>2. (n + k) - n = k /\ ~(n + k \in 1..n)
      BY <3>1
    <3> QED BY <3>1, <3>2
  <2>3. File(l)
    BY <1>11, <2>2
  <2>4. s[l].path = f
    BY <2>1, <2>2, <2>3
  <2> QED BY <2>4
<1>19. \A d \in ToSet(gdirs) : t[d] = Directory \/ \E i \in DOMAIN s : s[i].path = d
  <2> TAKE d \in ToSet(gdirs)
  <2>1. SUFFICES ASSUME NEW k \in 1..n, gdirs[pos[k]] = d PROVE \E i \in DOMAIN s : s[i].path = d
    BY <1>16
  <2>2. k \in DOMAIN s /\ Dir(k)
    BY <1>11, <1>12
  <2> QED BY <2>1, <2>2
<1>20. ASSUME NEW i \in DOMAIN s, NEW j \in DOMAIN s, s[i].path = s[j].path PROVE i = j
  <2>1. CASE Dir(i) /\ Dir(j)
    <3>1. pos[i] = pos[j]
      BY <1>20, <2>1, <1>3, <1>6 DEF OwnsTree, IsInjective
    <3>2. pos[i] \in Int /\ pos[j] \in Int
      BY <2>1, <1>6, <1>2 DEF IsSeq
    <3> QED BY <2>1, <3>1, <3>2, <1>6
  <2>2. CASE File(i) /\ File(j)
    <3>1. i - n = j - n
      BY <1>20, <2>2, <1>3 DEF OwnsTree, IsInjective
    <3> QED BY <2>2, <3>1
  <2>3. CASE (Dir(i) /\ File(j)) \/ (File(i) /\ Dir(j))
    BY <1>20, <2>3, <1>3, <1>6, <1>13, <1>15 DEF OwnsTree
  <2> QED BY <1>11, <2>1, <2>2, <2>3
<1>21. ASSUME NEW i \in DOMAIN s, NEW j \in DOMAIN s, ParentOf[s[i].path] = s[j].path PROVE j < i
  <2>1. s[i].path \in ProjectPath /\ s[j].path \in ProjectPath
    BY <1>2, <1>6, <1>11, <1>13, <1>15
  <2>2. Front(s[i].path) = s[j].path /\ s[j].path # <<>>
    BY <1>21, <2>1, PathAssumption DEF ParentOf, Root
  <2>3. CASE Dir(i) /\ Dir(j)
    <3>1. PICK k \in DOMAIN gdirs : k < pos[i] /\ gdirs[k] = s[j].path
      BY <2>2, <2>3, <1>3, <1>6 DEF OwnsTree, ParentsEarlier
    <3>2. k = pos[j]
      BY <2>3, <3>1, <1>3, <1>6 DEF OwnsTree, IsInjective
    <3>3. pos[i] \in Int /\ pos[j] \in Int
      BY <2>3, <1>6, <1>2 DEF IsSeq
    <3> QED BY <2>3, <3>1, <3>2, <3>3, <1>6
  <2>4. CASE File(j)
    <3>1. s[j].path \in ToSet(files)
      BY <2>4, <1>13
    <3>2. s[j].path \in ToSet(gdirs)
      <4>1. CASE File(i)
        BY <4>1, <2>2, <1>3, <1>13 DEF OwnsTree
      <4>2. CASE Dir(i)
        <5>1. PICK k \in DOMAIN gdirs : gdirs[k] = s[j].path
          BY <2>2, <4>2, <1>3, <1>6 DEF OwnsTree, ParentsEarlier
        <5> QED BY <5>1, <1>14
      <4> QED BY <1>11, <4>1, <4>2
    <3> QED BY <3>1, <3>2, <1>3 DEF OwnsTree
  <2>5. CASE File(i) /\ Dir(j)
    BY <2>5
  <2> QED BY <1>11, <2>3, <2>4, <2>5
<1>22. \A i \in DOMAIN s :
         \/ s[i] = Operation("mkdir", s[i].path, NoHash) /\ s[i].path \in ToSet(gdirs)
              /\ t[s[i].path] # Directory
         \/ s[i] = Operation("create", s[i].path, Emitted(m, s[i].path)) /\ s[i].path \in ToSet(files)
  BY <1>6, <1>11, <1>13, <1>15
<1>23. IsPlanFor(s, t, m)
  BY <1>18, <1>19, <1>20, <1>21, <1>22 DEF IsPlanFor, gdirs, files
<1> QED BY <1>23 DEF s

-----------------------------------------------------------------------------
(* Applying it.                                                            *)

(* The phases of an apply.                                                 *)
Applying == {"planned", "checked", "applying", "writing"}

(* What an operation leaves at its path.                                   *)
Made(op) == IF op.kind = "mkdir" THEN Directory ELSE op.content

(* The project is the whole project of the manifest.                       *)
Whole(m) == Preflight(tree, m) /\ FilesOk(tree, m) /\ DirsOk(tree, m)

(* The apply is half way: what the plan has done is there, what it has not *)
(* done is not, and there is nothing else but the skeleton and directories *)
(* of the template.                                                        *)
HalfMade ==
  /\ \A i \in DOMAIN plan : tree[plan[i].path] = IF i <= done THEN Made(plan[i]) ELSE Absent
  /\ \A d \in ToSet(GDirs(manifest)) : tree[d] = Directory \/ \E i \in DOMAIN plan : plan[i].path = d
  /\ Files(tree) \subseteq Skeleton \cup ToSet(GFiles(manifest))
  /\ \A p \in Children(tree, Root) \ Files(tree) : p = Forge \/ p \in ToSet(GDirs(manifest))

(* The plan at hand was made for some state of the project.                *)
PlanIsAPlan == manifest \in Manifests /\ \E t \in P!Tree : IsPlanFor(plan, t, manifest)

(* The inductive strengthening of ApplyIsWhole: what holds of an apply     *)
(* between planning and committing as long as nobody interferes.           *)
ApplyIsUnderWay ==
  /\ (exit # "") = (pc = "reported")
  /\ plan # <<>> => pc \in Applying \cup {"reported"}
  /\ pc \in Applying \/ plan # <<>> => PlanIsAPlan
  /\ edited = 0 =>
       /\ pc \in {"planned", "checked"} => Preflight(tree, manifest) /\ IsPlanFor(plan, tree, manifest)
       /\ pc = "checked" => CheckOk
       /\ pc \in {"applying", "writing"} => HalfMade
       /\ pc = "reported" /\ exit \in {"committed", "noop"} => manifest \in Manifests /\ Whole(manifest)

(* The operations of such a plan, each with what it leaves.                *)
LEMMA PlannedPaths ==
  ASSUME NEW m \in Manifests, NEW t, NEW s \in Seq(PlannedOperation), IsPlanFor(s, t, m)
  PROVE  \A i \in DOMAIN s :
           /\ s[i].path \in ProjectPath /\ s[i].to = s[i].path /\ s[i].expected = NoHash
           /\ s[i].path \notin {Forge, ProjectYaml}
           /\ \/ s[i].kind = "mkdir" /\ s[i].path \in ToSet(GDirs(m)) /\ t[s[i].path] # Directory
                   /\ s[i].desired = NoHash /\ Made(s[i]) = Directory
              \/ s[i].kind = "create" /\ s[i].path \in ToSet(GFiles(m))
                   /\ Made(s[i]) = Emitted(m, s[i].path) /\ Made(s[i]) \in Contents
<1> TAKE i \in DOMAIN s
<1> DEFINE p == s[i].path
<1>1. \/ s[i] = Operation("mkdir", p, NoHash) /\ p \in ToSet(GDirs(m)) /\ t[p] # Directory
      \/ s[i] = Operation("create", p, Emitted(m, p)) /\ p \in ToSet(GFiles(m))
  BY DEF IsPlanFor
<1>2. p \in ProjectPath
  BY <1>1, PathsAreListed
<1>3. p \notin {Forge, ProjectYaml}
  BY <1>1, TemplatesOwnTheirTree DEF OwnsTree
<1>4. s[i].to = p /\ s[i].expected = NoHash
  <2> HIDE DEF p
  <2> QED BY <1>1 DEF Operation
<1>5. CASE s[i] = Operation("mkdir", p, NoHash) /\ p \in ToSet(GDirs(m)) /\ t[p] # Directory
  <2>1. s[i].kind = "mkdir" /\ s[i].desired = NoHash
    <3> HIDE DEF p
    <3> QED BY <1>5 DEF Operation
  <2> QED BY <1>2, <1>3, <1>4, <1>5, <2>1 DEF Made
<1>6. CASE s[i] = Operation("create", p, Emitted(m, p)) /\ p \in ToSet(GFiles(m))
  <2>1. s[i].kind = "create" /\ s[i].content = Emitted(m, p)
    <3> HIDE DEF p
    <3> QED BY <1>6 DEF Operation
  <2> QED BY <1>2, <1>3, <1>4, <1>6, <2>1, EmittedIsContent DEF Made
<1> QED BY <1>1, <1>5, <1>6

(* check_plan accepts the plan for a project without files of a template.  *)
LEMMA PlanFindsItsTargets ==
  ASSUME Types, pc = "planned", PlanIsAPlan, IsPlanFor(plan, tree, manifest),
         Files(tree) \subseteq Skeleton, \A f \in ToSet(GFiles(manifest)) : tree[f] # Directory
  PROVE  CheckOk
<1> SUFFICES ASSUME NEW i \in DOMAIN plan PROVE P!Precondition(plan[i], tree)
  BY DEF CheckOk, P!PlanOk
<1>1. manifest \in Manifests /\ plan \in Seq(PlannedOperation) /\ tree \in P!Tree
  BY DEF Types, PlanIsAPlan
<1> DEFINE p == plan[i].path
<1>2. p \in ProjectPath /\ p \notin Skeleton /\ plan[i].expected = NoHash
  BY <1>1, PlannedPaths DEF Skeleton
<1>3. p \notin Files(tree)
  BY <1>2
<1>4. tree[p] \in {Absent, Directory}
  BY <1>1, <1>2, <1>3 DEF Files
<1>5. /\ plan[i].kind \in {"mkdir", "create"} /\ tree[p] # Directory
      /\ plan[i].kind = "mkdir" => plan[i].desired = NoHash
  BY <1>1, PlannedPaths
<1>6. tree[p] = Absent
  BY <1>4, <1>5
<1> QED BY <1>2, <1>5, <1>6 DEF P!Precondition, P!Exists

(* The next operation of a plan half made finds its target absent and its  *)
(* directory there: the plan made the directory before.                    *)
LEMMA TargetsAreReady ==
  ASSUME Types, PlanIsAPlan, HalfMade, done < Len(plan)
  PROVE  P!TargetReady(plan[done + 1], tree)
<1>1. manifest \in Manifests /\ plan \in Seq(PlannedOperation) /\ done \in Nat
  BY DEF Types, PlanIsAPlan
<1>2. PICK t \in P!Tree : IsPlanFor(plan, t, manifest)
  BY DEF PlanIsAPlan
<1> DEFINE n == done + 1
           p == plan[n].path
<1>3. n \in DOMAIN plan /\ ~(n <= done)
  BY <1>1
<1>4. plan[n].kind \in {"create", "mkdir"} /\ p \in ProjectPath /\ plan[n].to = p
  BY <1>1, <1>2, <1>3, PlannedPaths
<1>5. tree[p] = Absent
  BY <1>3 DEF HalfMade
<1>6. P!ParentIsDir(tree, p)
  <2>1. SUFFICES ASSUME ParentOf[p] # Root PROVE tree[ParentOf[p]] = Directory
    BY DEF P!ParentIsDir
  <2>2. ParentOf[p] \in ToSet(GDirs(manifest))
    <3>1. p \in ToSet(GFiles(manifest)) \cup ToSet(GDirs(manifest))
      BY <1>1, <1>2, <1>3, PlannedPaths
    <3>2. Front(p) = ParentOf[p]
      BY <1>4 DEF ParentOf
    <3>3. OwnsTree(GFiles(manifest), GDirs(manifest))
      BY TemplatesOwnTheirTree
    <3>4. CASE p \in ToSet(GFiles(manifest))
      BY <2>1, <3>2, <3>3, <3>4 DEF OwnsTree, Root
    <3>5. CASE p \in ToSet(GDirs(manifest))
      BY <2>1, <3>2, <3>3, <3>5 DEF OwnsTree, ParentsEarlier, Root, ToSet
    <3> QED BY <3>1, <3>4, <3>5
  <2>3. SUFFICES ASSUME NEW j \in DOMAIN plan, plan[j].path = ParentOf[p]
                 PROVE  tree[ParentOf[p]] = Directory
    BY <2>2 DEF HalfMade
  <2>4. j < n
    BY <1>2, <1>3, <2>3 DEF IsPlanFor
  <2>5. j <= done
    BY <1>1, <2>4
  <2>6. tree[plan[j].path] = Made(plan[j])
    BY <2>5 DEF HalfMade
  <2>7. plan[j].path \notin ToSet(GFiles(manifest))
    BY <2>2, <2>3, TemplatesOwnTheirTree DEF OwnsTree
  <2>8. Made(plan[j]) = Directory
    BY <1>1, <1>2, <2>7, PlannedPaths
  <2> QED BY <2>3, <2>6, <2>8
<1> QED BY <1>4, <1>5, <1>6 DEF P!TargetReady, P!Exists, P!HasBackup

(* The backup leaves the project as the plan needs it ...                  *)
LEMMA BackupStarts ==
  ASSUME Types, pc = "checked", PlanIsAPlan, Preflight(tree, manifest),
         IsPlanFor(plan, tree, manifest), CheckOk,
         tree' = [tree EXCEPT ![Forge] = Directory], tree[Forge] \in {Absent, Directory},
         UNCHANGED <<plan, manifest, done>>
  PROVE  HalfMade'
<1>1. manifest \in Manifests /\ plan \in Seq(PlannedOperation) /\ tree \in P!Tree /\ done = 0
  BY DEF Types, PlanIsAPlan
<1>2. Forge \in ProjectPath /\ \A p \in ProjectPath : p # Forge => tree'[p] = tree[p]
  BY <1>1, PathsAreListed DEF P!Tree
<1>3. tree'[Forge] = Directory
  BY <1>1, <1>2 DEF P!Tree
<1>4. \A i \in DOMAIN plan : tree[plan[i].path] = Absent
  <2> TAKE i \in DOMAIN plan
  <2>1. plan[i].kind \in {"create", "mkdir"}
    BY <1>1, PlannedPaths
  <2> QED BY <2>1 DEF CheckOk, P!PlanOk, P!Precondition, P!Exists
<1>5. \A i \in DOMAIN plan : tree'[plan[i].path] = Absent /\ ~(i <= done)
  <2> TAKE i \in DOMAIN plan
  <2>1. plan[i].path \in ProjectPath /\ plan[i].path # Forge
    BY <1>1, PlannedPaths
  <2>2. i \in Nat \ {0}
    BY <1>1
  <2> QED BY <1>1, <1>2, <1>4, <2>1, <2>2
<1>6. Files(tree') \subseteq Files(tree)
  BY <1>2, <1>3 DEF Files
<1>7. Files(tree) \subseteq Skeleton \cup ToSet(GFiles(manifest))
  BY DEF Preflight, PreflightFiles
<1>8. \A d \in ToSet(GDirs(manifest)) : tree'[d] = Directory \/ \E i \in DOMAIN plan : plan[i].path = d
  <2> TAKE d \in ToSet(GDirs(manifest))
  <2>1. d \in ProjectPath
    BY PathsAreListed
  <2> QED BY <1>2, <1>3, <2>1 DEF IsPlanFor
<1>9. \A p \in Children(tree', Root) \ Files(tree') : p = Forge \/ p \in ToSet(GDirs(manifest))
  <2> SUFFICES ASSUME NEW p \in Children(tree', Root) \ Files(tree'), p # Forge
               PROVE  p \in ToSet(GDirs(manifest))
    OBVIOUS
  <2>1. p \in Children(tree, Root) \ Files(tree)
    BY <1>2 DEF Children, Files
  <2> QED BY <2>1 DEF Preflight
<1> QED BY <1>5, <1>6, <1>7, <1>8, <1>9 DEF HalfMade

(* ... every operation makes one thing more ...                            *)
LEMMA OperationIsMade ==
  ASSUME Types, PlanIsAPlan, HalfMade, done < Len(plan), P!TargetReady(plan[done + 1], tree),
         tree' = P!Effect(plan[done + 1], tree), done' = done + 1, UNCHANGED <<plan, manifest>>
  PROVE  HalfMade'
<1>1. manifest \in Manifests /\ plan \in Seq(PlannedOperation) /\ tree \in P!Tree /\ done \in Nat
  BY DEF Types, PlanIsAPlan
<1>2. PICK t \in P!Tree : IsPlanFor(plan, t, manifest)
  BY DEF PlanIsAPlan
<1>3. PICK n \in DOMAIN plan : n = done + 1
  BY <1>1
<1>4. PICK op \in PlannedOperation : op = plan[n]
  BY <1>1
<1> DEFINE p == op.path
<1>5. p \in ProjectPath /\ tree[p] = Absent /\ tree' = [tree EXCEPT ![p] = Made(op)]
  BY <1>1, <1>3, <1>4, EffectIsPut DEF Made
<1>6. tree'[p] = Made(op) /\ \A q \in ProjectPath : q # p => tree'[q] = tree[q]
  BY <1>1, <1>5 DEF P!Tree
<1>7. \/ p \in ToSet(GDirs(manifest)) /\ Made(op) = Directory
      \/ p \in ToSet(GFiles(manifest)) /\ Made(op) \in Contents
  BY <1>1, <1>2, <1>4, PlannedPaths
<1> HIDE DEF p
<1>8. \A i \in DOMAIN plan' : tree'[plan'[i].path] = IF i <= done' THEN Made(plan'[i]) ELSE Absent
  <2> SUFFICES ASSUME NEW i \in DOMAIN plan
               PROVE  tree'[plan[i].path] = IF i <= done + 1 THEN Made(plan[i]) ELSE Absent
    OBVIOUS
  <2>1. CASE i = n
    BY <1>1, <1>3, <1>4, <1>6, <2>1 DEF p
  <2>2. CASE i # n
    <3>1. plan[i].path \in ProjectPath /\ plan[i].path # p
      <4>1. plan[i].path \in ProjectPath
        BY <1>1, <1>2, PlannedPaths
      <4>2. plan[i].path # plan[n].path
        BY <1>2, <2>2 DEF IsPlanFor
      <4> QED BY <1>4, <4>1, <4>2 DEF p
    <3>2. i <= done <=> i <= done + 1
      BY <1>1, <1>3, <2>2
    <3>3. tree[plan[i].path] = IF i <= done THEN Made(plan[i]) ELSE Absent
      BY DEF HalfMade
    <3> QED BY <1>6, <3>1, <3>2, <3>3
  <2> QED BY <2>1, <2>2
<1>9. \A d \in ToSet(GDirs(manifest)) : tree'[d] = Directory \/ \E i \in DOMAIN plan : plan[i].path = d
  <2> TAKE d \in ToSet(GDirs(manifest))
  <2>1. d \in ProjectPath
    BY PathsAreListed
  <2>2. tree[d] = Directory => d # p
    BY <1>5, NodesDiffer
  <2> QED BY <1>6, <2>1, <2>2 DEF HalfMade
<1>10. p \in Files(tree') => p \in ToSet(GFiles(manifest))
  BY <1>6, <1>7 DEF Files
<1>11. \A q \in ProjectPath \ {p} : q \in Files(tree') <=> q \in Files(tree)
  BY <1>6 DEF Files
<1>12. Files(tree') \subseteq Skeleton \cup ToSet(GFiles(manifest))
  <2> SUFFICES ASSUME NEW q \in Files(tree') PROVE q \in Skeleton \cup ToSet(GFiles(manifest))
    OBVIOUS
  <2>1. q \in ProjectPath
    BY DEF Files
  <2> QED BY <1>10, <1>11, <2>1 DEF HalfMade
<1>13. \A q \in Children(tree', Root) \ Files(tree') : q = Forge \/ q \in ToSet(GDirs(manifest))
  <2> TAKE q \in Children(tree', Root) \ Files(tree')
  <2>1. q \in ProjectPath
    BY DEF Children
  <2>2. CASE q = p
    <3>1. Made(op) \notin Contents
      <4>1. Made(op) \in {Absent, Directory}
        BY <1>6, <2>1, <2>2 DEF Files
      <4> QED BY <4>1, ContentAssumption
    <3> QED BY <1>7, <2>2, <3>1
  <2>3. CASE q # p
    <3>1. q \in Children(tree, Root) \ Files(tree)
      BY <1>6, <1>11, <2>1, <2>3 DEF Children
    <3> QED BY <3>1 DEF HalfMade
  <2> QED BY <2>2, <2>3
<1> QED BY <1>8, <1>9, <1>12, <1>13 DEF HalfMade

(* ... and the last one makes the project whole.                           *)
LEMMA AllIsMade ==
  ASSUME Types, PlanIsAPlan, HalfMade, done = Len(plan)
  PROVE  Whole(manifest)
<1>1. manifest \in Manifests /\ plan \in Seq(PlannedOperation) /\ tree \in P!Tree
  BY DEF Types, PlanIsAPlan
<1>2. PICK t \in P!Tree : IsPlanFor(plan, t, manifest)
  BY DEF PlanIsAPlan
<1>3. \A i \in DOMAIN plan : tree[plan[i].path] = Made(plan[i])
  <2> TAKE i \in DOMAIN plan
  <2>1. i <= done
    BY <1>1
  <2> QED BY <2>1 DEF HalfMade
<1>4. OwnsTree(GFiles(manifest), GDirs(manifest))
  BY TemplatesOwnTheirTree
<1>5. FilesOk(tree, manifest)
  <2> SUFFICES ASSUME NEW f \in ToSet(GFiles(manifest)) PROVE tree[f] = Emitted(manifest, f)
    BY DEF FilesOk
  <2>1. PICK i \in DOMAIN plan : plan[i].path = f
    BY <1>2 DEF IsPlanFor
  <2>2. f \notin ToSet(GDirs(manifest))
    BY <1>4 DEF OwnsTree
  <2>3. Made(plan[i]) = Emitted(manifest, f)
    BY <1>1, <1>2, <2>1, <2>2, PlannedPaths
  <2> QED BY <1>3, <2>1, <2>3
<1>6. DirsOk(tree, manifest)
  <2> SUFFICES ASSUME NEW d \in ToSet(GDirs(manifest)) PROVE tree[d] = Directory
    BY DEF DirsOk
  <2>1. SUFFICES ASSUME NEW i \in DOMAIN plan, plan[i].path = d PROVE tree[d] = Directory
    BY DEF HalfMade
  <2>2. d \notin ToSet(GFiles(manifest))
    BY <1>4 DEF OwnsTree
  <2>3. Made(plan[i]) = Directory
    BY <1>1, <1>2, <2>1, <2>2, PlannedPaths
  <2> QED BY <1>3, <2>1, <2>3
<1>7. Files(tree) # {}
  <2>1. <<"project.godot">> \in ToSet(GFiles(manifest))
    BY <1>4 DEF OwnsTree
  <2>2. <<"project.godot">> \in ProjectPath /\ tree[<<"project.godot">>] \in Contents
    BY <1>1, <1>5, <2>1, EmittedIsContent, PathsAreListed DEF FilesOk
  <2> QED BY <1>1, <2>2, FilesHoldContents
<1>8. Preflight(tree, manifest)
  BY <1>7 DEF Preflight, PreflightFiles, HalfMade
<1> QED BY <1>5, <1>6, <1>8 DEF Whole

(* ApplyIsUnderWay is inductive.                                           *)
LEMMA ApplyIsUnderWayHolds == Spec => []ApplyIsUnderWay
<1>1. Init => ApplyIsUnderWay
  BY DEF Init, ApplyIsUnderWay, Applying
<1>2. Types /\ ApplyIsUnderWay /\ [Next]_vars => ApplyIsUnderWay'
  <2> SUFFICES ASSUME Types, ApplyIsUnderWay, [Next]_vars PROVE ApplyIsUnderWay'
    OBVIOUS
  <2>1. ASSUME NEW m \in Manifests, Apply(m) PROVE ApplyIsUnderWay'
    <3>1. tree' = tree /\ manifest' = m /\ pc = "idle" /\ plan = <<>> /\ exit = "" /\ tree \in P!Tree
      BY <2>1 DEF Apply, Idle, ApplyIsUnderWay, Applying, Types
    <3>2. CASE ~Preflight(tree, m)
      <4>1. pc' = "reported" /\ exit' = "configuration" /\ plan' = <<>>
        BY <2>1, <3>1, <3>2 DEF Apply, Report
      <4> QED BY <4>1 DEF ApplyIsUnderWay, Applying
    <3>3. CASE Preflight(tree, m) /\ FilesOk(tree, m) /\ DirsOk(tree, m)
      <4>1. pc' = "reported" /\ exit' = "noop" /\ plan' = <<>>
        BY <2>1, <3>1, <3>3 DEF Apply, Report
      <4>2. (manifest \in Manifests /\ Whole(manifest))'
        BY <3>1, <3>3 DEF Whole
      <4> QED BY <4>1, <4>2 DEF ApplyIsUnderWay, Applying
    <3>4. CASE Preflight(tree, m) /\ ~(FilesOk(tree, m) /\ DirsOk(tree, m))
      <4>1. pc' = "planned" /\ exit' = "" /\ plan' = PlanFor(tree, m)
        BY <2>1, <3>1, <3>4 DEF Apply
      <4>2. IsPlanFor(plan', tree, m)
        BY <4>1, PlansAreInOrder
      <4>3. PlanIsAPlan'
        BY <3>1, <4>2 DEF PlanIsAPlan
      <4> QED BY <3>1, <3>4, <4>1, <4>2, <4>3 DEF ApplyIsUnderWay, Applying
    <3> QED BY <3>2, <3>3, <3>4
  <2>2. CASE CheckPlan
    <3>1. pc = "planned" /\ UNCHANGED <<tree, manifest, plan, edited>> /\ exit = "" /\ PlanIsAPlan
      BY <2>2 DEF CheckPlan, ApplyIsUnderWay, Applying
    <3>2. PlanIsAPlan'
      BY <3>1 DEF PlanIsAPlan
    <3>3. CASE CheckOk
      <4>1. pc' = "checked" /\ exit' = ""
        BY <2>2, <3>1, <3>3 DEF CheckPlan
      <4>2. CheckOk'
        BY <3>1, <3>3 DEF CheckOk
      <4> QED BY <3>1, <3>2, <4>1, <4>2 DEF ApplyIsUnderWay, Applying
    <3>4. CASE ~CheckOk
      <4>1. pc' = "reported" /\ exit' = "conflict"
        BY <2>2, <3>4 DEF CheckPlan, Report
      <4> QED BY <3>1, <3>2, <4>1 DEF ApplyIsUnderWay, Applying
    <3> QED BY <3>3, <3>4
  <2>3. CASE Backup
    <3>1. pc = "checked" /\ UNCHANGED <<manifest, plan, done, edited>> /\ exit = "" /\ PlanIsAPlan
      BY <2>3 DEF Backup, ApplyIsUnderWay, Applying
    <3>2. PlanIsAPlan'
      BY <3>1 DEF PlanIsAPlan
    <3>3. CASE /\ tree[Forge] \in {Absent, Directory} /\ tree' = [tree EXCEPT ![Forge] = Directory]
               /\ pc' = "applying" /\ exit' = exit
      <4>1. edited = 0 => HalfMade'
        BY <3>1, <3>3, BackupStarts DEF ApplyIsUnderWay
      <4> QED BY <3>1, <3>2, <3>3, <4>1 DEF ApplyIsUnderWay, Applying
    <3>4. CASE pc' = "reported" /\ exit' = "conflict"
      BY <3>1, <3>2, <3>4 DEF ApplyIsUnderWay, Applying
    <3> QED BY <2>3, <3>3, <3>4 DEF Backup, Report
  <2>4. CASE CheckTarget
    <3>1. /\ pc = "applying" /\ UNCHANGED <<tree, manifest, plan, done, edited>>
          /\ exit = "" /\ PlanIsAPlan
      BY <2>4 DEF CheckTarget, ApplyIsUnderWay, Applying
    <3>2. PlanIsAPlan' /\ HalfMade' = HalfMade
      BY <3>1 DEF PlanIsAPlan, HalfMade
    <3>3. (pc' = "writing" /\ exit' = "") \/ (pc' = "reported" /\ exit' = "conflict")
      BY <2>4, <3>1 DEF CheckTarget, Report
    <3> QED BY <3>1, <3>2, <3>3 DEF ApplyIsUnderWay, Applying
  <2>13. CASE PerformOperation
    <3>1. /\ pc = "writing" /\ pc' = "applying" /\ done < Len(plan)
          /\ UNCHANGED <<manifest, plan, edited, exit>> /\ exit = "" /\ PlanIsAPlan
      BY <2>13 DEF PerformOperation, ApplyIsUnderWay, Applying, Types
    <3>2. PlanIsAPlan'
      BY <3>1 DEF PlanIsAPlan
    <3>3. tree' = P!Effect(plan[done + 1], tree) /\ done' = done + 1
      BY <2>13 DEF PerformOperation
    <3>4. edited = 0 => HalfMade'
      <4> SUFFICES ASSUME edited = 0 PROVE HalfMade'
        OBVIOUS
      <4>1. HalfMade
        BY <3>1 DEF ApplyIsUnderWay
      <4>2. P!TargetReady(plan[done + 1], tree)
        BY <3>1, <4>1, TargetsAreReady
      <4> QED BY <3>1, <3>3, <4>1, <4>2, OperationIsMade
    <3> QED BY <3>1, <3>2, <3>4 DEF ApplyIsUnderWay, Applying
  <2>14. CASE FailOperation
    <3>1. pc = "writing" /\ pc' = "reported" /\ exit' = "conflict" /\ UNCHANGED <<manifest, plan>>
          /\ PlanIsAPlan
      BY <2>14 DEF FailOperation, Report, ApplyIsUnderWay, Applying
    <3>2. PlanIsAPlan'
      BY <3>1 DEF PlanIsAPlan
    <3> QED BY <3>1, <3>2 DEF ApplyIsUnderWay, Applying
  <2>5. CASE Commit
    <3>1. /\ pc = "applying" /\ done = Len(plan) /\ UNCHANGED <<tree, manifest, plan, edited>>
          /\ exit = "" /\ PlanIsAPlan /\ pc' = "reported" /\ exit' = "committed"
      BY <2>5 DEF Commit, Report, ApplyIsUnderWay, Applying
    <3>2. PlanIsAPlan'
      BY <3>1 DEF PlanIsAPlan
    <3>3. edited = 0 => Whole(manifest)
      BY <3>1, AllIsMade DEF ApplyIsUnderWay
    <3>4. (edited = 0 => manifest \in Manifests /\ Whole(manifest))'
      BY <3>1, <3>3 DEF Whole, PlanIsAPlan
    <3> QED BY <3>1, <3>2, <3>4 DEF ApplyIsUnderWay, Applying
  <2>6. ASSUME NEW mode \in Modes, StartVerify(mode) PROVE ApplyIsUnderWay'
    BY <2>6 DEF StartVerify, Idle, ApplyIsUnderWay, Applying
  <2>7. CASE CopyDirectory \/ CopyFile \/ Inject \/ RunStage
    <3>1. pc \in Verifying /\ pc' \in Verifying /\ UNCHANGED <<plan, exit>>
      BY <2>7 DEF CopyDirectory, CopyFile, Inject, RunStage, Failed, Verifying
    <3> QED BY <3>1 DEF ApplyIsUnderWay, Applying, Verifying
  <2>8. CASE RemoveTemp
    <3>1. /\ pc = "cleaning" /\ UNCHANGED plan
          /\ \/ pc' = "reported" /\ exit' \in {"configuration", "internal"}
             \/ pc' = "concluding" /\ exit' = exit
      BY <2>8 DEF RemoveTemp, Report, Types, Checks
    <3> QED BY <3>1 DEF ApplyIsUnderWay, Applying
  <2>9. CASE Conclude
    <3>1. /\ pc = "concluding" /\ UNCHANGED plan /\ pc' = "reported"
          /\ exit' \in {"internal", "tool_unavailable", "success", "validation_failure"}
      BY <2>9 DEF Conclude, Report, ExitCode
    <3> QED BY <3>1 DEF ApplyIsUnderWay, Applying
  <2>10. CASE Return \/ Crash
    <3>1. pc' = "idle" /\ plan' = <<>> /\ exit' = ""
      BY <2>10 DEF Return, Crash, Clear
    <3> QED BY <3>1 DEF ApplyIsUnderWay, Applying
  <2>11. CASE Edit
    <3>1. /\ pc # "reported" /\ UNCHANGED <<pc, manifest, plan, exit>>
          /\ pc # "idle" => edited' # 0
      BY <2>11 DEF Edit, Types
    <3>2. PlanIsAPlan' = PlanIsAPlan
      BY <3>1 DEF PlanIsAPlan
    <3> QED BY <3>1, <3>2 DEF ApplyIsUnderWay, Applying
  <2>12. CASE UNCHANGED vars
    <3>1. UNCHANGED <<PlanIsAPlan, CheckOk, HalfMade>> /\ UNCHANGED <<tree, pc, manifest, plan, exit, edited>>
      BY <2>12 DEF vars, PlanIsAPlan, CheckOk, HalfMade
    <3>2. Whole(manifest)' = Whole(manifest)
      BY <3>1 DEF Whole
    <3> QED BY <3>1, <3>2 DEF ApplyIsUnderWay
  <2> QED BY <2>1, <2>2, <2>3, <2>4, <2>5, <2>6, <2>7, <2>8, <2>9, <2>10, <2>11, <2>12, <2>13,
             <2>14 DEF Next
<1> QED BY <1>1, <1>2, TypesHold, PTL DEF Spec

(* An apply starts on a project that is a template's to fill, finds every  *)
(* operation possible, and leaves the whole project it planned, for every  *)
(* manifest of either template, every project and every bound.             *)
THEOREM ApplyIsWholeHolds == Spec => []ApplyIsWhole
<1>1. Types /\ VerdictIsEarned /\ ApplyIsUnderWay => TypeOK
  <2> SUFFICES ASSUME Types, VerdictIsEarned, ApplyIsUnderWay PROVE TypeOK
    OBVIOUS
  <2>1. plan \in Seq(PlannedOperation) /\ \A i \in DOMAIN plan : plan[i] \in PlannedOperation
    BY DEF Types
  <2>2. \A i \in DOMAIN plan : plan[i] \in P!PatchOperation
    BY <2>1 DEF PlannedOperation
  <2>3. P!NoOverlap(plan)
    <3> SUFFICES ASSUME NEW i \in DOMAIN plan, NEW j \in DOMAIN plan, i # j
                 PROVE  P!Touched(plan[i]) \cap P!Touched(plan[j]) = {}
      BY DEF P!NoOverlap
    <3>1. plan # <<>>
      OBVIOUS
    <3>2. PICK t \in P!Tree : manifest \in Manifests /\ IsPlanFor(plan, t, manifest)
      BY <3>1 DEF ApplyIsUnderWay, PlanIsAPlan
    <3>3. plan[i].path # plan[j].path
      BY <3>2 DEF IsPlanFor
    <3>4. plan[i].to = plan[i].path /\ plan[j].to = plan[j].path
      BY <2>1, <3>2, PlannedPaths
    <3> QED BY <3>3, <3>4 DEF P!Touched
  <2>4. P!ContentOk(plan)
    <3> SUFFICES ASSUME NEW i \in DOMAIN plan, plan[i].kind = "create"
                 PROVE  plan[i].content # NoHash /\ plan[i].desired \in {NoHash, plan[i].content}
      BY <2>1 DEF P!ContentOk, P!WritesContent, PlannedOperation
    <3>1. plan[i].content \in Contents /\ plan[i].desired = plan[i].content
      BY <2>1 DEF PlannedOperation
    <3> QED BY <3>1, ContentAssumption
  <2>5. ToSet(runs) \subseteq EngineRun /\ late \subseteq ProjectPath
    BY EngineAssumption DEF Types, ToSet
  <2>6. temp => pc \in {"copying", "running", "cleaning", "concluding", "reported"}
    BY DEF VerdictIsEarned, Types, Phases
  <2> QED BY <2>2, <2>3, <2>4, <2>5, <2>6 DEF TypeOK, Types, ApplyIsUnderWay
<1>2. Types /\ ApplyIsUnderWay => ParentsComeFirst
  <2> SUFFICES ASSUME Types, ApplyIsUnderWay, edited = 0
               PROVE  /\ /\ pc = "planned" /\ Files(tree) \subseteq Skeleton
                         /\ \A f \in ToSet(GFiles(manifest)) : tree[f] # Directory
                         => CheckOk
                      /\ pc \in {"applying", "writing"} /\ done < Len(plan)
                           => P!TargetReady(plan[done + 1], tree)
    BY DEF ParentsComeFirst
  <2>1. ASSUME pc = "planned", Files(tree) \subseteq Skeleton,
               \A f \in ToSet(GFiles(manifest)) : tree[f] # Directory
        PROVE  CheckOk
    BY <2>1, PlanFindsItsTargets DEF ApplyIsUnderWay, Applying
  <2>2. ASSUME pc \in {"applying", "writing"}, done < Len(plan) PROVE P!TargetReady(plan[done + 1], tree)
    BY <2>2, TargetsAreReady DEF ApplyIsUnderWay, Applying
  <2> QED BY <2>1, <2>2
<1>3. Types /\ ApplyIsUnderWay => WritesOnlyTemplates
  <2> SUFFICES ASSUME Types, ApplyIsUnderWay, pc = "applying", done = 0, edited = 0
               PROVE  Files(tree) \subseteq Skeleton
    BY DEF WritesOnlyTemplates
  <2>1. HalfMade /\ PlanIsAPlan /\ plan \in Seq(PlannedOperation)
    BY DEF ApplyIsUnderWay, Applying, Types
  <2>2. \A f \in ToSet(GFiles(manifest)) : tree[f] = Absent
    <3> TAKE f \in ToSet(GFiles(manifest))
    <3>1. PICK i \in DOMAIN plan : plan[i].path = f
      BY <2>1 DEF PlanIsAPlan, IsPlanFor
    <3>2. ~(i <= done)
      BY <2>1
    <3> QED BY <2>1, <3>1, <3>2 DEF HalfMade
  <2>3. Files(tree) \cap ToSet(GFiles(manifest)) = {}
    BY <2>2 DEF Files
  <2> QED BY <2>1, <2>3 DEF HalfMade
<1>4. ApplyIsUnderWay => CommittedIsWhole
  BY DEF ApplyIsUnderWay, CommittedIsWhole, Applied, Whole
<1>5. Types /\ ApplyIsUnderWay => NamesResolve
  <2> SUFFICES ASSUME Types, ApplyIsUnderWay, pc = "reported", exit \in {"committed", "noop"}, edited = 0,
                      NEW f \in ToSet(GFiles(manifest))
               PROVE  Names(manifest, f) \subseteq Files(tree)
    BY DEF NamesResolve
  <2>1. manifest \in Manifests /\ FilesOk(tree, manifest)
    BY DEF ApplyIsUnderWay, Whole
  <2>2. ToSet(GFiles(manifest)) \subseteq Files(tree)
    <3> SUFFICES ASSUME NEW g \in ToSet(GFiles(manifest)) PROVE g \in Files(tree)
      OBVIOUS
    <3>1. g \in ProjectPath /\ tree[g] \in Contents
      BY <2>1, EmittedIsContent, PathsAreListed DEF FilesOk
    <3> QED BY <3>1, FilesHoldContents DEF Types
  <2> QED BY <2>2, NamesAreFiles
<1> QED BY <1>1, <1>2, <1>3, <1>4, <1>5, TypesHold, VerdictIsEarnedHolds, ApplyIsUnderWayHolds,
           PTL DEF ApplyIsWhole
================================================================================
