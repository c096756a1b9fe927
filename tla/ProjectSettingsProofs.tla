----------------------- MODULE ProjectSettingsProofs ------------------------
(***************************************************************************)
(* Theorems about ProjectSettings, for any files, saves and requests.      *)
(***************************************************************************)
EXTENDS SettingsEditProofs

-----------------------------------------------------------------------------
(* The edits the adapters make of a request.                               *)

(* The keys of a set, in order, each once.                                 *)
LEMMA SortedIs ==
  ASSUME NEW S \in SUBSET Nat, IsFiniteSet(S)
  PROVE  /\ Sorted(S) \in Seq(Nat) /\ ToSet(Sorted(S)) = S
         /\ \A i, j \in 1..Len(Sorted(S)) : Sorted(S)[i] = Sorted(S)[j] => i = j
<1>1. PICK q : q = SetToSeq(S)
  OBVIOUS
<1>2. /\ q \in Seq(S) /\ \A i, j \in 1..Len(q) : q[i] = q[j] => i = j
      /\ \A x \in S : \E i \in 1..Len(q) : q[i] = x
  <2>1. q \in Seq(S)
    BY <1>1, SetToSeqIs
  <2>2. \A i, j \in 1..Len(q) : q[i] = q[j] => i = j
    BY <1>1, SetToSeqIs
  <2>3. \A x \in S : \E i \in 1..Len(q) : q[i] = x
    BY <1>1, SetToSeqIs
  <2> QED BY <2>1, <2>2, <2>3
<1>3. Len(q) \in Nat /\ \A i \in 1..Len(q) : q[i] \in S /\ q[i] \in Nat
  <2>1. q \in Seq(S)
    BY <1>2
  <2>2. Len(q) \in Nat /\ \A i \in 1..Len(q) : q[i] \in S
    BY <2>1
  <2> QED BY <2>2
<1>4. q \in Seq(Nat) /\ q \in [1..Len(q) -> Int]
  <2>1. q = [i \in 1..Len(q) |-> q[i]]
    BY <1>2
  <2>2. q \in Seq(Nat)
    BY <1>3, <2>1
  <2>3. \A i \in 1..Len(q) : q[i] \in Int
    BY <1>3
  <2> QED BY <2>1, <2>2, <2>3
<1>5. PICK p : /\ InOrder(p, Len(q), Len(q), q)
               /\ \A m \in 1..Len(q) : \E i \in 1..Len(q) : p[i] = m
               /\ ByRank(q, q) = [i \in 1..Len(q) |-> q[p[i]]]
  BY <1>4, ByRankIs
<1>6. p \in [1..Len(q) -> 1..Len(q)] /\ \A i, j \in 1..Len(q) : p[i] = p[j] => i = j
  BY <1>5 DEF InOrder
<1>7. PICK t : t = Sorted(S)
  OBVIOUS
<1>8. t = [i \in 1..Len(q) |-> q[p[i]]]
  BY <1>1, <1>5, <1>7 DEF Sorted
<1>9. t \in Seq(Nat) /\ Len(t) = Len(q)
  <2>1. \A i \in 1..Len(q) : q[p[i]] \in Nat
    BY <1>3, <1>6
  <2> QED BY <1>3, <1>8, <2>1
<1>10. ToSet(t) = S
  <2>1. ToSet(t) = {t[i] : i \in 1..Len(q)}
    BY <1>8 DEF ToSet
  <2>2. \A i \in 1..Len(q) : t[i] \in S
    BY <1>3, <1>6, <1>8
  <2>3. ASSUME NEW x \in S PROVE \E i \in 1..Len(q) : t[i] = x
    <3>1. PICK m \in 1..Len(q) : q[m] = x
      BY <1>2
    <3>2. PICK i \in 1..Len(q) : p[i] = m
      BY <1>5
    <3>3. t[i] = x
      BY <1>8, <3>1, <3>2
    <3> QED BY <3>3
  <2> QED BY <2>1, <2>2, <2>3
<1>11. \A i, j \in 1..Len(t) : t[i] = t[j] => i = j
  <2>1. ASSUME NEW i \in 1..Len(q), NEW j \in 1..Len(q), t[i] = t[j] PROVE i = j
    <3>1. q[p[i]] = q[p[j]] /\ p[i] \in 1..Len(q) /\ p[j] \in 1..Len(q)
      BY <1>6, <1>8, <2>1
    <3>2. p[i] = p[j]
      BY <1>2, <3>1
    <3> QED BY <1>6, <3>2
  <2> QED BY <1>9, <2>1
<1> QED BY <1>7, <1>9, <1>10, <1>11

(* Those of s not cleared, each once.                                      *)
LEMMA OnceIs ==
  ASSUME NEW s \in Seq(Nat), NEW cleared
  PROVE  /\ Once(s, cleared) \in Seq(Nat) /\ ToSet(Once(s, cleared)) = ToSet(s) \ cleared
         /\ \A i, j \in 1..Len(Once(s, cleared)) : Once(s, cleared)[i] = Once(s, cleared)[j] => i = j
<1>1. PICK at : at = {i \in DOMAIN s : s[i] \notin cleared /\ \A j \in 1..(i - 1) : s[j] # s[i]}
  OBVIOUS
<1>2. PICK o : o = Where(s, at)
  OBVIOUS
<1>3. o = Once(s, cleared)
  BY <1>1, <1>2 DEF Once
<1>4. o \in Seq(Nat) /\ Len(o) \in Nat /\ DOMAIN s = 1..Len(s) /\ DOMAIN o = 1..Len(o)
  <2>1. o \in Seq(Nat)
    BY <1>2, WhereIsTyped
  <2> QED BY <2>1
<1>5. PICK m : /\ m \in [1..Len(o) -> 1..Len(s)]
               /\ \A i \in 1..Len(o) : m[i] \in at /\ o[i] = s[m[i]]
               /\ \A i, j \in 1..Len(o) : i < j => m[i] < m[j]
               /\ \A n \in 1..Len(s) : n \in at => \E i \in 1..Len(o) : m[i] = n
  BY <1>2, WhereKeeps
<1>6. ASSUME NEW i \in 1..Len(o), NEW j \in 1..Len(o), o[i] = o[j], i < j PROVE FALSE
  <2>1. m[i] < m[j] /\ m[i] \in 1..Len(s) /\ m[j] \in 1..Len(s)
    BY <1>5, <1>6
  <2>2. m[i] \in 1..(m[j] - 1)
    BY <2>1
  <2>3. m[j] \in at
    BY <1>5
  <2>4. s[m[i]] # s[m[j]]
    BY <1>1, <2>2, <2>3
  <2> QED BY <1>5, <1>6, <2>4
<1>7. \A i, j \in 1..Len(o) : o[i] = o[j] => i = j
  <2> SUFFICES ASSUME NEW i \in 1..Len(o), NEW j \in 1..Len(o), o[i] = o[j] PROVE i = j
    OBVIOUS
  <2>1. ~(i < j) /\ ~(j < i)
    BY <1>6
  <2> QED BY <2>1, <1>4
<1>8. ASSUME NEW x, x \in ToSet(o) PROVE x \in ToSet(s) /\ x \notin cleared
  <2>1. PICK i \in 1..Len(o) : o[i] = x
    BY <1>4, <1>8 DEF ToSet
  <2>2. m[i] \in at /\ x = s[m[i]]
    BY <1>5, <2>1
  <2> QED BY <1>1, <2>2 DEF ToSet
<1>9. ASSUME NEW x, x \in ToSet(s), x \notin cleared PROVE x \in ToSet(o)
  <2>1. PICK U : U = {n \in DOMAIN s : s[n] = x}
    OBVIOUS
  <2>2. U \in SUBSET Nat /\ U # {}
    BY <1>4, <1>9, <2>1 DEF ToSet
  <2>3. PICK n \in U : \A k \in U : n <= k
    BY <2>2, LeastIsThere
  <2>4. n \in at
    <3>1. ASSUME NEW j \in 1..(n - 1), s[j] = s[n] PROVE FALSE
      <4>1. n \in 1..Len(s) /\ Len(s) \in Nat
        BY <1>4, <2>1
      <4>2. j \in 1..Len(s) /\ j < n
        BY <4>1
      <4>3. j \in U
        BY <1>4, <2>1, <3>1, <4>2
      <4> QED BY <2>3, <4>1, <4>2, <4>3
    <3> QED BY <1>1, <1>9, <2>1, <2>3, <3>1
  <2>5. PICK i \in 1..Len(o) : m[i] = n
    BY <1>4, <1>5, <2>1, <2>3, <2>4
  <2>6. o[i] = x
    BY <1>5, <2>1, <2>3, <2>5
  <2> QED BY <1>4, <2>6 DEF ToSet
<1>10. ToSet(o) = ToSet(s) \ cleared
  BY <1>8, <1>9
<1> QED BY <1>3, <1>4, <1>7, <1>10

(* What is removed: the cleared keys and those of `remove`, each once.     *)
LEMMA RemovalsAre ==
  ASSUME NEW r, r.remove \in Seq(Nat), NEW existing \in SUBSET Nat, IsFiniteSet(existing)
  PROVE  /\ Removals(r, existing) \in Seq(Nat)
         /\ ToSet(Removals(r, existing)) = (IF r.clear THEN existing ELSE {}) \cup ToSet(r.remove)
         /\ \A i, j \in 1..Len(Removals(r, existing)) :
              Removals(r, existing)[i] = Removals(r, existing)[j] => i = j
<1>1. PICK C : C = IF r.clear THEN existing ELSE {}
  OBVIOUS
<1>2. C \in SUBSET Nat /\ IsFiniteSet(C)
  <2>1. IsFiniteSet({})
    BY FS_EmptySet
  <2> QED BY <1>1, <2>1
<1>3. PICK a : a = Sorted(C)
  OBVIOUS
<1>4. PICK b : b = Once(r.remove, C)
  OBVIOUS
<1>5. PICK c : c = Removals(r, existing)
  OBVIOUS
<1>6. c = a \o b
  BY <1>1, <1>3, <1>4, <1>5 DEF Removals
<1>7. /\ a \in Seq(Nat) /\ ToSet(a) = C /\ \A i, j \in 1..Len(a) : a[i] = a[j] => i = j
  BY <1>2, <1>3, SortedIs
<1>8. /\ b \in Seq(Nat) /\ ToSet(b) = ToSet(r.remove) \ C /\ \A i, j \in 1..Len(b) : b[i] = b[j] => i = j
  BY <1>4, OnceIs
<1>9. Len(a) \in Nat /\ Len(b) \in Nat /\ DOMAIN a = 1..Len(a) /\ DOMAIN b = 1..Len(b)
  BY <1>7, <1>8
<1>10. /\ c \in Seq(Nat) /\ Len(c) = Len(a) + Len(b)
       /\ \A i \in 1..(Len(a) + Len(b)) : c[i] = IF i <= Len(a) THEN a[i] ELSE b[i - Len(a)]
  BY <1>6, <1>7, <1>8, ConcatProperties
<1>11. ASSUME NEW i \in 1..Len(c)
       PROVE  \/ i <= Len(a) /\ i \in 1..Len(a) /\ c[i] = a[i] /\ a[i] \in C
              \/ ~(i <= Len(a)) /\ i - Len(a) \in 1..Len(b) /\ c[i] = b[i - Len(a)] /\ b[i - Len(a)] \notin C
                 /\ b[i - Len(a)] \in ToSet(r.remove)
  <2>0. i \in 1..(Len(a) + Len(b))
    BY <1>10
  <2>1. CASE i <= Len(a)
    <3>1. i \in 1..Len(a)
      BY <1>9, <2>0, <2>1
    <3>2. a[i] \in ToSet(a)
      BY <1>9, <3>1 DEF ToSet
    <3> QED BY <1>7, <1>10, <2>0, <2>1, <3>1, <3>2
  <2>2. CASE ~(i <= Len(a))
    <3>1. i - Len(a) \in 1..Len(b)
      BY <1>9, <2>0, <2>2
    <3>2. b[i - Len(a)] \in ToSet(b)
      BY <1>9, <3>1 DEF ToSet
    <3>3. c[i] = b[i - Len(a)]
      BY <1>10, <2>0, <2>2
    <3> QED BY <1>8, <2>2, <3>1, <3>2, <3>3
  <2> QED BY <2>1, <2>2
<1>12. \A i, j \in 1..Len(c) : c[i] = c[j] => i = j
  <2> SUFFICES ASSUME NEW i \in 1..Len(c), NEW j \in 1..Len(c), c[i] = c[j] PROVE i = j
    OBVIOUS
  <2>1. CASE i <= Len(a) /\ j <= Len(a)
    BY <1>7, <1>11, <2>1
  <2>2. CASE ~(i <= Len(a)) /\ ~(j <= Len(a))
    <3>1. i - Len(a) = j - Len(a)
      BY <1>8, <1>11, <2>2
    <3>2. i \in Int /\ j \in Int
      OBVIOUS
    <3> QED BY <1>9, <3>1, <3>2
  <2>3. CASE i <= Len(a) /\ ~(j <= Len(a))
    BY <1>11, <2>3
  <2>4. CASE ~(i <= Len(a)) /\ j <= Len(a)
    BY <1>11, <2>4
  <2> QED BY <2>1, <2>2, <2>3, <2>4
<1>13. ToSet(c) = C \cup ToSet(r.remove)
  <2>1. DOMAIN c = 1..Len(c)
    BY <1>10
  <2>2. ASSUME NEW x \in ToSet(c) PROVE x \in C \cup ToSet(r.remove)
    <3>1. PICK i \in 1..Len(c) : c[i] = x
      BY <2>1 DEF ToSet
    <3> QED BY <1>11, <3>1
  <2>3. ASSUME NEW x \in C \cup ToSet(r.remove) PROVE x \in ToSet(c)
    <3>1. CASE x \in C
      <4>1. PICK i \in 1..Len(a) : a[i] = x
        BY <1>7, <1>9, <3>1 DEF ToSet
      <4>2. i \in 1..(Len(a) + Len(b)) /\ i <= Len(a)
        BY <1>9
      <4>3. c[i] = x /\ i \in 1..Len(c)
        BY <1>10, <4>1, <4>2
      <4> QED BY <2>1, <4>3 DEF ToSet
    <3>2. CASE x \in ToSet(r.remove) \ C
      <4>1. PICK i \in 1..Len(b) : b[i] = x
        BY <1>8, <1>9, <3>2 DEF ToSet
      <4>2. PICK j : j = Len(a) + i
        OBVIOUS
      <4>3. j \in 1..(Len(a) + Len(b)) /\ ~(j <= Len(a)) /\ j - Len(a) = i
        BY <1>9, <4>2
      <4>4. c[j] = x /\ j \in 1..Len(c)
        BY <1>10, <4>1, <4>3
      <4> QED BY <2>1, <4>4 DEF ToSet
    <3> QED BY <2>3, <3>1, <3>2
  <2> QED BY <2>2, <2>3
<1> QED BY <1>1, <1>5, <1>10, <1>12, <1>13

(* A section as the adapters see it.                                       *)
View(v) ==
  /\ IsFiniteSet(DOMAIN v) /\ DOMAIN v \subseteq Nat /\ \A k \in DOMAIN v : v[k] \in Values
\* The keys a request is about.
AskedOf(r, v) ==
  Added(r) \cup ToSet(r.remove) \cup {r.flags[i].key : i \in DOMAIN r.flags}
    \cup (IF r.clear THEN DOMAIN v ELSE {})
\* An edit the editor can carry out.
Proper(edit, r, K) ==
  /\ Sensible(edit, K) /\ RemoveKeys(edit) \cap ReplaceKeys(edit) = {}
  /\ ~RemovesTwice(r) => Distinct(edit)
  /\ ~AddsBracketInString(r) => Fitting(edit)

\* A value a request adds.
Addable(value, r) ==
  /\ Written(value) /\ ~value.star
  /\ ~AddsBracketInString(r) => Writable(value)
  /\ r.section # "input" => value.body = <<>> /\ value.text # ""

(* What a request adds may be written.                                    *)
LEMMA AddsAre ==
  ASSUME NEW r, RequestType(r)
  PROVE  /\ r.add \in Seq(Insertions)
         /\ \A i \in DOMAIN r.add : r.add[i].key \in Added(r) /\ Addable(r.add[i].value, r)
<1>1. r.add \in Seq(Insertions)
  BY DEF RequestType, Insertions
<1>2. ASSUME NEW i \in DOMAIN r.add PROVE r.add[i].key \in Added(r) /\ Addable(r.add[i].value, r)
  <2>1. r.add[i] \in Insertions
    BY <1>1
  <2>2. PICK value : value = r.add[i].value
    OBVIOUS
  <2>3. value \in Values
    BY <2>1, <2>2 DEF Insertions
  <2>4. /\ ~value.star
        /\ IF r.section = "input" THEN value.body = <<>> \/ ValidLiteral(value.body)
           ELSE value.body = <<>> /\ value.text # ""
        /\ \A j \in DOMAIN value.body : value.body[j].ended
    BY <2>2 DEF RequestType
  <2>5. Written(value)
    BY <2>3, <2>4 DEF Written
  <2>6. ASSUME ~AddsBracketInString(r) PROVE Writable(value)
    <3>1. \A j \in DOMAIN value.body : value.body[j].kind \notin {"string"}
      BY <2>2, <2>6 DEF AddsBracketInString, AddsLine
    <3>2. value.body # <<>> => ValidLiteral(value.body)
      BY <2>4
    <3> QED BY <2>5, <3>1, <3>2 DEF Writable
  <2>7. r.add[i].key \in Added(r)
    BY DEF Added
  <2> QED BY <2>2, <2>4, <2>5, <2>6, <2>7 DEF Addable
<1> QED BY <1>1, <1>2

(* The value a request adds for a key may be written.                     *)
LEMMA AddedValueIs ==
  ASSUME NEW r, RequestType(r), NEW k \in Added(r)
  PROVE  Addable(AddedValue(r, k), r)
<1>1. \E i \in DOMAIN r.add : r.add[i].key = k
  BY DEF Added
<1>2. (CHOOSE i \in DOMAIN r.add : r.add[i].key = k) \in DOMAIN r.add
  BY <1>1
<1> QED BY <1>2, AddsAre DEF AddedValue

(* So may those of some keys.                                             *)
LEMMA AddsOfAre ==
  ASSUME NEW r, RequestType(r), NEW keys
  PROVE  /\ AddsOf(r, keys) \in Seq(Insertions)
         /\ \A i \in DOMAIN AddsOf(r, keys) : /\ AddsOf(r, keys)[i].key \in Added(r) \cap keys
                                              /\ Addable(AddsOf(r, keys)[i].value, r)
<1>1. PICK at : at = {i \in DOMAIN r.add : r.add[i].key \in keys}
  OBVIOUS
<1>2. PICK o : o = AddsOf(r, keys)
  OBVIOUS
<1>3. o = Where(r.add, at)
  BY <1>1, <1>2 DEF AddsOf
<1>4. r.add \in Seq(Insertions)
  BY AddsAre
<1>5. o \in Seq(Insertions)
  BY <1>3, <1>4, WhereIsTyped
<1>6. PICK m : /\ m \in [1..Len(o) -> 1..Len(r.add)]
               /\ \A i \in 1..Len(o) : m[i] \in at /\ o[i] = r.add[m[i]]
  BY <1>3, <1>4, WhereKeeps
<1>7. ASSUME NEW i \in DOMAIN o PROVE o[i].key \in Added(r) \cap keys /\ Addable(o[i].value, r)
  <2>1. i \in 1..Len(o)
    BY <1>5
  <2>2. m[i] \in at /\ o[i] = r.add[m[i]]
    BY <1>6, <2>1
  <2>3. m[i] \in DOMAIN r.add /\ r.add[m[i]].key \in keys
    BY <1>1, <2>2
  <2> QED BY <2>2, <2>3, AddsAre
<1> QED BY <1>2, <1>5, <1>7

(* The fields of an edit.                                                 *)
LEMMA EditFields ==
  ASSUME NEW a, NEW b, NEW c
  PROVE  /\ ~Edit(a, b, c).refused /\ Edit(a, b, c).replace = a
         /\ Edit(a, b, c).remove = b /\ Edit(a, b, c).insert = c
  BY DEF Edit

(* The parts of a proper edit, one by one.                                 *)
LEMMA ProperIs ==
  ASSUME NEW r, NEW v, View(v), NEW a, NEW b, NEW c, NEW edit, edit = Edit(a, b, c),
         b \in Seq(Nat), DOMAIN a \subseteq DOMAIN v, c \in Seq(Insertions),
         \A k \in DOMAIN a : Written(a[k]) /\ (~AddsBracketInString(r) => Writable(a[k])),
         \A i \in DOMAIN c : Written(c[i].value) /\ (~AddsBracketInString(r) => Writable(c[i].value)),
         DOMAIN a \subseteq AskedOf(r, v), ToSet(b) \subseteq AskedOf(r, v),
         \A i \in DOMAIN c : c[i].key \in AskedOf(r, v),
         ~RemovesTwice(r) => \A i, j \in 1..Len(b) : b[i] = b[j] => i = j,
         ToSet(b) \cap DOMAIN a = {}
  PROVE  Proper(edit, r, AskedOf(r, v))
<1>1. edit.replace = a /\ edit.remove = b /\ edit.insert = c
  BY EditFields
<1>2. IsFiniteSet(DOMAIN a) /\ DOMAIN a \subseteq Nat
  <2>1. IsFiniteSet(DOMAIN v) /\ DOMAIN v \subseteq Nat
    BY DEF View
  <2> QED BY <2>1, FS_Subset
<1>3. /\ RemoveKeys(edit) = ToSet(b) /\ ReplaceKeys(edit) = DOMAIN a
      /\ InsertKeys(edit) = {c[i].key : i \in DOMAIN c}
  BY <1>1 DEF RemoveKeys, ReplaceKeys, InsertKeys
<1>4. Sensible(edit, AskedOf(r, v))
  <2>1. RemoveKeys(edit) \cup ReplaceKeys(edit) \cup InsertKeys(edit) \subseteq AskedOf(r, v)
    BY <1>3
  <2>2. \A k \in DOMAIN edit.replace : Written(edit.replace[k])
    BY <1>1
  <2>3. \A i \in DOMAIN edit.insert : Written(edit.insert[i].value)
    BY <1>1
  <2>4. edit.remove \in Seq(Nat) /\ edit.insert \in Seq(Insertions)
        /\ IsFiniteSet(DOMAIN edit.replace) /\ DOMAIN edit.replace \subseteq Nat
    BY <1>1, <1>2
  <2> QED BY <2>1, <2>2, <2>3, <2>4 DEF Sensible
<1>5. ASSUME ~RemovesTwice(r) PROVE Distinct(edit)
  <2>1. \A i, j \in 1..Len(b) : b[i] = b[j] => i = j
    BY <1>5
  <2>2. DOMAIN b = 1..Len(b)
    OBVIOUS
  <2>3. \A i, j \in DOMAIN edit.remove : edit.remove[i] = edit.remove[j] => i = j
    BY <1>1, <2>1, <2>2
  <2> QED BY <1>3, <2>3 DEF Distinct
<1>6. ASSUME ~AddsBracketInString(r) PROVE Fitting(edit)
  <2>1. \A k \in DOMAIN edit.replace : Writable(edit.replace[k])
    BY <1>1, <1>6
  <2>2. \A i \in DOMAIN edit.insert : Writable(edit.insert[i].value)
    BY <1>1, <1>6
  <2> QED BY <2>1, <2>2 DEF Fitting
<1> QED BY <1>3, <1>4, <1>5, <1>6 DEF Proper

(* A quoted path may be written.                                          *)
LEMMA QuotedIs ==
  ASSUME NEW value \in Values, NEW star \in BOOLEAN
  PROVE  Writable(Quoted(star, Path(value))) /\ Written(Quoted(star, Path(value)))
<1>1. value.text \in Texts
  BY DEF Values
<1>2. Path(value) \in Texts
  BY <1>1, TextsAssumption DEF Path
<1>3. PICK q : q = Quoted(star, Path(value))
  OBVIOUS
<1>4. q = [star |-> star, text |-> Path(value), body |-> <<>>]
  BY <1>3 DEF Quoted
<1>5. <<>> \in Seq(Line)
  OBVIOUS
<1>6. q \in Values
  BY <1>2, <1>4, <1>5 DEF Values
<1>7. q.body = <<>>
  BY <1>4
<1>8. Written(q)
  BY <1>6, <1>7 DEF Written
<1>9. Writable(q)
  BY <1>7, <1>8 DEF Writable
<1> QED BY <1>3, <1>8, <1>9

(* The fields of a request.                                               *)
LEMMA RequestParts ==
  ASSUME NEW r, RequestType(r)
  PROVE  /\ r.remove \in Seq(Nat) /\ DOMAIN r.remove = 1..Len(r.remove)
         /\ r.clear \in BOOLEAN /\ r.section \in Sections /\ r.section \in Texts /\ r.section # ""
         /\ Added(r) \subseteq Nat
<1>1. r.remove \in Seq(Nat) /\ r.clear \in BOOLEAN /\ r.section \in Sections
  BY DEF RequestType
<1>2. r.section \in Texts /\ r.section # ""
  BY <1>1, SettingsAssumption DEF Sections, Application
<1>3. Added(r) \subseteq Nat
  <2>1. ASSUME NEW i \in DOMAIN r.add PROVE r.add[i].key \in Nat
    <3>1. r.add[i] \in Insertions
      BY AddsAre
    <3> QED BY <3>1 DEF Insertions
  <2> QED BY <2>1 DEF Added
<1>4. DOMAIN r.remove = 1..Len(r.remove)
  <2>1. r.remove \in Seq(Nat)
    BY <1>1
  <2> QED BY <2>1
<1> QED BY <1>1, <1>2, <1>3, <1>4

(* The edit of the autoload adapter is proper.                            *)
LEMMA AutoloadIsProper ==
  ASSUME NEW r, RequestType(r), r.section = "autoload", NEW v, View(v), ~AutoloadEdit(r, v).refused
  PROVE  Proper(AutoloadEdit(r, v), r, AskedOf(r, v))
<1> DEFINE flagged(k, star) == \E i \in DOMAIN r.flags : r.flags[i] = [key |-> k, star |-> star]
           changed == {k \in (DOMAIN v) \ Added(r) : flagged(k, ~v[k].star)}
           a == [k \in changed |-> Quoted(~v[k].star, Path(v[k]))]
           c == [i \in DOMAIN r.add |-> [r.add[i] EXCEPT !.value.star = ~flagged(r.add[i].key, FALSE)]]
           refuses == \/ ~(ToSet(r.remove) \subseteq DOMAIN v)
                      \/ Added(r) \cap DOMAIN v # {}
                      \/ \E i \in DOMAIN r.flags :
                           r.flags[i].key \notin ((DOMAIN v) \ ToSet(r.remove)) \cup Added(r)
<1>1. AutoloadEdit(r, v) = IF refuses THEN Refusal ELSE Edit(a, r.remove, c)
  BY DEF AutoloadEdit
<1>2. Refusal.refused
  BY DEF Refusal
<1>3. ~refuses /\ AutoloadEdit(r, v) = Edit(a, r.remove, c)
  <2> HIDE DEF refuses, a, c
  <2> QED BY <1>1, <1>2
<1>4. changed \subseteq DOMAIN v /\ DOMAIN a = changed
  OBVIOUS
<1>5. ASSUME NEW k \in changed
      PROVE  k \in AskedOf(r, v) /\ k \notin ToSet(r.remove) /\ Written(a[k]) /\ Writable(a[k])
  <2>1. PICK i \in DOMAIN r.flags : r.flags[i] = [key |-> k, star |-> ~v[k].star]
    OBVIOUS
  <2>2. r.flags[i].key = k
    BY <2>1
  <2>3. k \notin ToSet(r.remove)
    BY <1>3, <2>2
  <2>4. k \in AskedOf(r, v)
    BY <2>2 DEF AskedOf
  <2>5. v[k] \in Values
    BY DEF View
  <2>6. PICK star : star = ~v[k].star
    OBVIOUS
  <2>7. star \in BOOLEAN
    BY <2>6
  <2>8. Written(Quoted(star, Path(v[k]))) /\ Writable(Quoted(star, Path(v[k])))
    BY <2>5, <2>7, QuotedIs
  <2> QED BY <2>3, <2>4, <2>6, <2>8
<1>6. r.add \in Seq(Insertions) /\ DOMAIN c = DOMAIN r.add /\ DOMAIN r.add = 1..Len(r.add)
  <2>1. r.add \in Seq(Insertions)
    BY AddsAre
  <2> QED BY <2>1
<1>7. ASSUME NEW i \in DOMAIN r.add
      PROVE  /\ c[i] \in Insertions /\ c[i].key \in AskedOf(r, v)
             /\ Written(c[i].value) /\ Writable(c[i].value)
  <2>1. PICK x : x = r.add[i]
    OBVIOUS
  <2>2. x \in Insertions /\ x.key \in Added(r) /\ Addable(x.value, r)
    BY <1>6, <2>1, AddsAre
  <2>3. PICK val : val = x.value
    OBVIOUS
  <2>4. val \in Values /\ val.body = <<>>
    BY <2>2, <2>3 DEF Addable, Insertions
  <2>5. PICK star : star = ~flagged(x.key, FALSE)
    OBVIOUS
  <2>6. star \in BOOLEAN
    BY <2>5
  <2>7. x = [key |-> x.key, value |-> val] /\ val = [star |-> val.star, text |-> val.text, body |-> val.body]
        /\ val.text \in Texts /\ val.body \in Seq(Line) /\ x.key \in Nat
    BY <2>2, <2>3, <2>4 DEF Insertions, Values
  <2>8. c[i] = [x EXCEPT !.value.star = star]
    BY <2>1, <2>5
  <2>9. [x EXCEPT !.value.star = star] = [key |-> x.key, value |-> [val EXCEPT !.star = star]]
    BY <2>3, <2>7
  <2>10. [val EXCEPT !.star = star] = [star |-> star, text |-> val.text, body |-> val.body]
    BY <2>7
  <2>11. PICK w : w = [star |-> star, text |-> val.text, body |-> val.body]
    OBVIOUS
  <2>12. w \in Values /\ w.body = <<>>
    BY <2>4, <2>6, <2>7, <2>11 DEF Values
  <2>13. c[i] = [key |-> x.key, value |-> w]
    BY <2>8, <2>9, <2>10, <2>11
  <2>14. Written(w) /\ Writable(w)
    BY <2>12 DEF Written, Writable
  <2>15. c[i].key = x.key /\ c[i].value = w
    BY <2>13
  <2>16. c[i] \in Insertions
    BY <2>7, <2>12, <2>13 DEF Insertions
  <2>17. x.key \in AskedOf(r, v)
    BY <2>2 DEF AskedOf
  <2> HIDE DEF c
  <2> QED BY <2>14, <2>15, <2>16, <2>17
<1>8. c \in Seq(Insertions)
  <2>1. Len(r.add) \in Nat
    BY <1>6
  <2>2. \A i \in 1..Len(r.add) : c[i] \in Insertions
    BY <1>6, <1>7
  <2>3. c = [i \in 1..Len(r.add) |-> c[i]]
    BY <1>6
  <2> HIDE DEF c
  <2> QED BY <2>1, <2>2, <2>3, SMTT(30)
<1>9. ~RemovesTwice(r) => \A i, j \in 1..Len(r.remove) : r.remove[i] = r.remove[j] => i = j
  BY RequestParts DEF RemovesTwice
<1>10. ToSet(r.remove) \cap DOMAIN a = {}
  BY <1>4, <1>5
<1>11. ToSet(r.remove) \subseteq AskedOf(r, v)
  BY DEF AskedOf
<1>12. DOMAIN a \subseteq AskedOf(r, v) /\ DOMAIN a \subseteq DOMAIN v
  BY <1>4, <1>5
<1>13. \A k \in DOMAIN a : Written(a[k]) /\ (~AddsBracketInString(r) => Writable(a[k]))
  BY <1>4, <1>5
<1>14. \A i \in DOMAIN c : Written(c[i].value) /\ (~AddsBracketInString(r) => Writable(c[i].value))
  BY <1>6, <1>7
<1>15. \A i \in DOMAIN c : c[i].key \in AskedOf(r, v)
  BY <1>6, <1>7
<1>16. r.remove \in Seq(Nat)
  BY RequestParts
<1> HIDE DEF a, c, refuses, changed
<1> QED BY <1>3, <1>8, <1>9, <1>10, <1>11, <1>12, <1>13, <1>14, <1>15, <1>16, ProperIs

(* The empty function replaces nothing.                                   *)
LEMMA NoReplace == DOMAIN (<<>>) = {}
  OBVIOUS

(* The edit of the input map adapter is proper.                           *)
LEMMA InputIsProper ==
  ASSUME NEW r, RequestType(r), r.section = "input", NEW v, View(v), ~InputEdit(r, v).refused
  PROVE  Proper(InputEdit(r, v), r, AskedOf(r, v))
<1>1. PICK b : b = Removals(r, DOMAIN v)
  OBVIOUS
<1>2. InputEdit(r, v) = Edit(<<>>, b, r.add)
  BY <1>1 DEF InputEdit, Refusal
<1>3. /\ b \in Seq(Nat) /\ ToSet(b) = (IF r.clear THEN DOMAIN v ELSE {}) \cup ToSet(r.remove)
      /\ \A i, j \in 1..Len(b) : b[i] = b[j] => i = j
  <2>1. r.remove \in Seq(Nat) /\ DOMAIN v \in SUBSET Nat /\ IsFiniteSet(DOMAIN v)
    BY RequestParts DEF View
  <2>2. b \in Seq(Nat)
    BY <1>1, <2>1, RemovalsAre
  <2>3. ToSet(b) = (IF r.clear THEN DOMAIN v ELSE {}) \cup ToSet(r.remove)
    BY <1>1, <2>1, RemovalsAre
  <2>4. \A i, j \in 1..Len(b) : b[i] = b[j] => i = j
    BY <1>1, <2>1, RemovalsAre
  <2> QED BY <2>2, <2>3, <2>4
<1>4. r.add \in Seq(Insertions)
  BY AddsAre
<1>5. \A i \in DOMAIN r.add : Written(r.add[i].value) /\ (~AddsBracketInString(r) => Writable(r.add[i].value))
  BY AddsAre DEF Addable
<1>6. ToSet(b) \subseteq AskedOf(r, v)
  BY <1>3 DEF AskedOf
<1>7. \A i \in DOMAIN r.add : r.add[i].key \in AskedOf(r, v)
  BY AddsAre DEF AskedOf
<1>8. PICK a : a = <<>>
  OBVIOUS
<1>9. DOMAIN a = {}
  BY <1>8, NoReplace
<1>10. \A k \in DOMAIN a : Written(a[k]) /\ (~AddsBracketInString(r) => Writable(a[k]))
  BY <1>9
<1> QED BY <1>2, <1>3, <1>4, <1>5, <1>6, <1>7, <1>8, <1>9, <1>10, ProperIs

(* The edit of the layer name and renderer adapters is proper.            *)
LEMMA SetRemoveClearIsProper ==
  ASSUME NEW r, RequestType(r), NEW v, View(v), ~SetRemoveClear(r, v).refused
  PROVE  Proper(SetRemoveClear(r, v), r, AskedOf(r, v))
<1>1. PICK existing : existing = {k \in DOMAIN v : v[k].text # "" \/ v[k].body # <<>>}
  OBVIOUS
<1>2. PICK b : b = Removals(r, existing)
  OBVIOUS
<1>3. PICK kept : kept = existing \ ToSet(b)
  OBVIOUS
<1>4. PICK a : a = [k \in Added(r) \cap kept |-> AddedValue(r, k)]
  OBVIOUS
<1>5. PICK c : c = AddsOf(r, Nat \ kept)
  OBVIOUS
<1>6. SetRemoveClear(r, v) = Edit(a, b, c)
  BY <1>1, <1>2, <1>3, <1>4, <1>5 DEF SetRemoveClear, Refusal
<1>7. existing \in SUBSET Nat /\ IsFiniteSet(existing) /\ existing \subseteq DOMAIN v
  <2>1. IsFiniteSet(DOMAIN v) /\ DOMAIN v \subseteq Nat
    BY DEF View
  <2>2. existing \subseteq DOMAIN v
    BY <1>1
  <2> QED BY <2>1, <2>2, FS_Subset
<1>8. /\ b \in Seq(Nat) /\ ToSet(b) = (IF r.clear THEN existing ELSE {}) \cup ToSet(r.remove)
      /\ \A i, j \in 1..Len(b) : b[i] = b[j] => i = j
  <2>1. r.remove \in Seq(Nat)
    BY RequestParts
  <2>2. b \in Seq(Nat)
    BY <1>2, <1>7, <2>1, RemovalsAre
  <2>3. ToSet(b) = (IF r.clear THEN existing ELSE {}) \cup ToSet(r.remove)
    BY <1>2, <1>7, <2>1, RemovalsAre
  <2>4. \A i, j \in 1..Len(b) : b[i] = b[j] => i = j
    BY <1>2, <1>7, <2>1, RemovalsAre
  <2> QED BY <2>2, <2>3, <2>4
<1>9. c \in Seq(Insertions) /\ \A i \in DOMAIN c : c[i].key \in Added(r) /\ Addable(c[i].value, r)
  BY <1>5, AddsOfAre
<1>10. \A i \in DOMAIN c : Written(c[i].value) /\ (~AddsBracketInString(r) => Writable(c[i].value))
  BY <1>9 DEF Addable
<1>11. DOMAIN a = Added(r) \cap kept /\ \A k \in DOMAIN a : a[k] = AddedValue(r, k)
  BY <1>4
<1>12. \A k \in DOMAIN a : Written(a[k]) /\ (~AddsBracketInString(r) => Writable(a[k]))
  BY <1>11, AddedValueIs DEF Addable
<1>13. ToSet(b) \subseteq AskedOf(r, v)
  BY <1>7, <1>8 DEF AskedOf
<1>14. DOMAIN a \subseteq AskedOf(r, v) /\ DOMAIN a \subseteq DOMAIN v /\ ToSet(b) \cap DOMAIN a = {}
  BY <1>3, <1>7, <1>11 DEF AskedOf
<1>15. \A i \in DOMAIN c : c[i].key \in AskedOf(r, v)
  BY <1>9 DEF AskedOf
<1> QED BY <1>6, <1>8, <1>9, <1>10, <1>12, <1>13, <1>14, <1>15, ProperIs

(* The edit of the application adapter is proper.                         *)
LEMMA ApplicationIsProper ==
  ASSUME NEW r, RequestType(r), NEW v, View(v), ~ApplicationEdit(r, v).refused
  PROVE  Proper(ApplicationEdit(r, v), r, AskedOf(r, v))
<1>1. PICK changed : changed = {k \in Added(r) : k \notin DOMAIN v \/ v[k] # AddedValue(r, k)}
  OBVIOUS
<1>2. PICK b : b = Once(r.remove, {})
  OBVIOUS
<1>3. PICK a : a = [k \in changed \cap DOMAIN v |-> AddedValue(r, k)]
  OBVIOUS
<1>4. PICK c : c = AddsOf(r, changed \ DOMAIN v)
  OBVIOUS
<1>5. ApplicationEdit(r, v) = Edit(a, b, c) /\ ToSet(r.remove) \cap Added(r) = {}
  BY <1>1, <1>2, <1>3, <1>4 DEF ApplicationEdit, Refusal
<1>6. /\ b \in Seq(Nat) /\ ToSet(b) = ToSet(r.remove)
      /\ \A i, j \in 1..Len(b) : b[i] = b[j] => i = j
  <2>1. r.remove \in Seq(Nat)
    BY RequestParts
  <2>2. b \in Seq(Nat)
    BY <1>2, <2>1, OnceIs
  <2>3. ToSet(b) = ToSet(r.remove) \ {}
    BY <1>2, <2>1, OnceIs
  <2>4. \A i, j \in 1..Len(b) : b[i] = b[j] => i = j
    BY <1>2, <2>1, OnceIs
  <2> QED BY <2>2, <2>3, <2>4
<1>7. c \in Seq(Insertions) /\ \A i \in DOMAIN c : c[i].key \in Added(r) /\ Addable(c[i].value, r)
  BY <1>4, AddsOfAre
<1>8. \A i \in DOMAIN c : Written(c[i].value) /\ (~AddsBracketInString(r) => Writable(c[i].value))
  BY <1>7 DEF Addable
<1>9. DOMAIN a = changed \cap DOMAIN v /\ DOMAIN a \subseteq Added(r) /\ \A k \in DOMAIN a : a[k] = AddedValue(r, k)
  BY <1>1, <1>3
<1>10. \A k \in DOMAIN a : Written(a[k]) /\ (~AddsBracketInString(r) => Writable(a[k]))
  BY <1>9, AddedValueIs DEF Addable
<1>11. ToSet(b) \subseteq AskedOf(r, v)
  BY <1>6 DEF AskedOf
<1>12. DOMAIN a \subseteq AskedOf(r, v) /\ DOMAIN a \subseteq DOMAIN v /\ ToSet(b) \cap DOMAIN a = {}
  BY <1>5, <1>6, <1>9 DEF AskedOf
<1>13. \A i \in DOMAIN c : c[i].key \in AskedOf(r, v)
  BY <1>7 DEF AskedOf
<1> QED BY <1>5, <1>6, <1>7, <1>8, <1>10, <1>11, <1>12, <1>13, ProperIs

(* Whatever the adapter, the edit it makes of a request names only keys of *)
(* the request, and the editor can carry it out.                           *)
LEMMA EditIsProper ==
  ASSUME NEW r, RequestType(r), NEW v, View(v), ~EditFor(r, v).refused
  PROVE  Proper(EditFor(r, v), r, AskedOf(r, v))
<1>1. r.section \in {"autoload", "input", "layer_names", "rendering", Application}
  BY RequestParts DEF Sections
<1>2. CASE r.section = "autoload"
  <2>1. EditFor(r, v) = AutoloadEdit(r, v)
    BY <1>2 DEF EditFor, Application
  <2> QED BY <1>2, <2>1, AutoloadIsProper
<1>3. CASE r.section = "input"
  <2>1. EditFor(r, v) = InputEdit(r, v)
    BY <1>3 DEF EditFor, Application
  <2> QED BY <1>3, <2>1, InputIsProper
<1>4. CASE r.section = "layer_names"
  <2>1. EditFor(r, v) = SetRemoveClear(r, v)
    BY <1>4 DEF EditFor, Application, LayerNamesEdit
  <2> QED BY <2>1, SetRemoveClearIsProper
<1>5. CASE r.section = "rendering"
  <2>1. EditFor(r, v) = SetRemoveClear(r, v)
    BY <1>5 DEF EditFor, Application, RendererEdit
  <2> QED BY <2>1, SetRemoveClearIsProper
<1>6. CASE r.section = Application
  <2>1. EditFor(r, v) = ApplicationEdit(r, v)
    BY <1>6 DEF EditFor, Application
  <2> QED BY <2>1, ApplicationIsProper
<1> QED BY <1>1, <1>2, <1>3, <1>4, <1>5, <1>6

-----------------------------------------------------------------------------
(* What the editor leaves is a text.                                       *)

(* Lines of which only the last may lack its ending.                       *)
Loose(s) == s \in Seq(Line) /\ \A i \in 1..(Len(s) - 1) : s[i].ended

(* A swap by whole lines before the last line leaves text.                *)
LEMMA LooseSwap ==
  ASSUME NEW f, NEW g, NEW p \in Nat, NEW e \in Nat, NEW W, Loose(f), Whole(W), g \in Seq(Line),
         p <= e, e <= Len(f), Swap(g, f, p, e, W), p < Len(f) \/ W = <<>>
  PROVE  Loose(g)
<1>0. f \in Seq(Line) /\ W \in Seq(Line)
  BY DEF Whole, Loose
<1>n. Len(f) \in Nat /\ Len(W) \in Nat /\ Len(g) \in Nat
  BY <1>0
<1>1. /\ Len(g) = p + Len(W) + (Len(f) - e) /\ \A i \in 1..p : g[i] = f[i]
      /\ \A i \in 1..Len(W) : g[p + i] = W[i]
      /\ \A i \in 1..(Len(f) - e) : g[p + Len(W) + i] = f[e + i]
  BY DEF Swap
<1>e. p < Len(f) \/ (Len(W) = 0 /\ e = Len(f) /\ Len(g) = p)
  <2>1. W = <<>> => Len(W) = 0
    BY EmptySeq
  <2>2. CASE p < Len(f)
    BY <2>2
  <2>3. CASE ~(p < Len(f))
    <3>1. Len(W) = 0
      BY <2>1, <2>3
    <3>2. p = Len(f) /\ e = Len(f)
      BY <1>n, <2>3
    <3> QED BY <1>n, <1>1, <3>1, <3>2
  <2> QED BY <2>2, <2>3
<1>2. ASSUME NEW i \in 1..(Len(g) - 1) PROVE g[i].ended
  <2>0. i \in Int /\ 1 <= i /\ i < Len(g)
    BY <1>n
  <2>1. CASE i <= p
    <3>1. i < Len(f)
      BY <1>n, <1>e, <2>0, <2>1
    <3>2. i \in 1..(Len(f) - 1) /\ i \in 1..p
      BY <1>n, <2>0, <2>1, <3>1
    <3> QED BY <1>1, <3>2 DEF Loose
  <2>2. CASE p < i /\ i <= p + Len(W)
    <3>1. PICK j : j = i - p
      OBVIOUS
    <3>2. j \in 1..Len(W) /\ p + j = i
      BY <1>n, <2>0, <2>2, <3>1
    <3>3. g[p + j] = W[j]
      BY <1>1, <3>2
    <3> QED BY <3>2, <3>3 DEF Whole
  <2>3. CASE p + Len(W) < i
    <3>1. PICK w : w = Len(W)
      OBVIOUS
    <3>2. PICK j : j = i - (p + w)
      OBVIOUS
    <3>a. w \in Nat /\ Len(g) = p + w + (Len(f) - e) /\ p + w < i
      BY <1>n, <1>1, <2>3, <3>1
    <3>b. j \in Int /\ 1 <= j /\ j < Len(f) - e /\ p + w + j = i
      BY <1>n, <2>0, <3>2, <3>a
    <3>3. j \in 1..(Len(f) - e) /\ e + j \in 1..(Len(f) - 1)
      BY <1>n, <3>b
    <3>4. g[p + w + j] = f[e + j]
      BY <1>1, <3>1, <3>3
    <3> QED BY <3>b, <3>3, <3>4 DEF Loose
  <2> QED BY <1>n, <2>0, <2>1, <2>2, <2>3
<1> QED BY <1>2 DEF Loose

(* A cut where the lines before it are still there.                        *)
LEMMA LooseCut ==
  ASSUME NEW s, Loose(s), NEW slice \in Slice, slice.start >= 1, slice.start - 1 <= Len(s),
         slice.start <= slice.end, Whole(slice.with),
         slice.with # <<>> => slice.start <= Len(s)
  PROVE  Loose(Splice(s, slice)) /\ Len(Splice(s, slice)) >= slice.start - 1
<1>1. PICK p : p = slice.start - 1
  OBVIOUS
<1>2. PICK e : e = IF slice.end <= Len(s) THEN slice.end ELSE Len(s)
  OBVIOUS
<1>3. PICK W : W = slice.with
  OBVIOUS
<1>4. PICK g : g = Splice(s, slice)
  OBVIOUS
<1>5. slice.start \in Nat /\ slice.end \in Nat /\ W \in Seq(Line) /\ s \in Seq(Line)
  BY <1>3 DEF Slice, Loose
<1>6. Len(s) \in Nat /\ Len(W) \in Nat
  BY <1>5
<1>7. p \in Nat /\ e \in Nat /\ p <= e /\ e <= Len(s)
  BY <1>1, <1>2, <1>5, <1>6
<1>8. SubSeq(s, slice.end + 1, Len(s)) = SubSeq(s, e + 1, Len(s))
  <2>1. CASE slice.end <= Len(s)
    BY <1>2, <2>1
  <2>2. CASE ~(slice.end <= Len(s))
    <3>1. SubSeq(s, slice.end + 1, Len(s)) = <<>>
      BY <1>5, <1>6, <2>2, SubSeqEmpty
    <3>2. SubSeq(s, e + 1, Len(s)) = <<>>
      BY <1>2, <1>5, <1>6, <2>2, SubSeqEmpty
    <3> QED BY <3>1, <3>2
  <2> QED BY <2>1, <2>2
<1>9. g = SubSeq(s, 1, p) \o W \o SubSeq(s, e + 1, Len(s))
  BY <1>1, <1>3, <1>4, <1>8 DEF Splice
<1>10. g \in Seq(Line) /\ Swap(g, s, p, e, W)
  BY <1>5, <1>7, <1>9, SwapIs
<1>11. p < Len(s) \/ W = <<>>
  <2>1. W # <<>> => slice.start <= Len(s)
    BY <1>3
  <2> QED BY <2>1, <1>1, <1>5, <1>6
<1>12. Loose(g)
  BY <1>3, <1>7, <1>10, <1>11, LooseSwap
<1>13. Len(g) >= p
  <2>1. Len(g) = p + Len(W) + (Len(s) - e)
    BY <1>10 DEF Swap
  <2> QED BY <2>1, <1>6, <1>7
<1> QED BY <1>1, <1>4, <1>12, <1>13

(* An entry of a named section is not the first line.                      *)
LEMMA EntriesLower ==
  ASSUME NEW f \in Seq(Line), NEW X, X # NoSection, NEW n \in Entries(f, X)
  PROVE  n \in 1..Len(f) /\ n >= 2 /\ EndOf(f, n) \in n..Len(f)
<1>1. n \in 1..Len(f) /\ Index(f)[n - 1].section = X /\ EndOf(f, n) \in n..Len(f)
  <2>1. n \in 1..Len(f)
    BY EntryIs
  <2>2. Index(f)[n - 1].section = X
    BY EntryIs
  <2>3. EndOf(f, n) \in n..Len(f)
    BY EntryIs
  <2> QED BY <2>1, <2>2, <2>3
<1>2. Index(f)[0].section = NoSection
  <2>1. Walk(Index(f), f)
    BY IndexIs
  <2> QED BY <2>1 DEF Walk, Origin
<1>3. n # 1
  BY <1>1, <1>2
<1> QED BY <1>1, <1>3

(* What the slices leave, however often they cut, is text.                 *)
LEMMA CutsKeepText ==
  ASSUME NEW f, IsText(f), NEW X, X # NoSection, NEW edit, NEW K, Sensible(edit, K),
         RemoveKeys(edit) \cap ReplaceKeys(edit) = {},
         RemoveKeys(edit) \cup ReplaceKeys(edit) \subseteq KeysOf(f, X), NEW R,
         R = FromBelow(Slices(f, X, edit))
  PROVE  R \in Seq(Slice) /\ Loose(Spliced(f, R)[Len(R)]) /\ Len(Spliced(f, R)[Len(R)]) >= 1
<1>0. f \in Seq(Line) /\ Loose(f) /\ Len(f) \in Nat /\ Len(f) >= 1
  <2>1. f \in Seq(Line) /\ f # <<>> /\ Loose(f)
    BY DEF IsText, Loose
  <2>2. Len(f) \in Nat /\ Len(f) # 0
    BY <2>1, EmptySeq
  <2> QED BY <2>1, <2>2
<1>1. /\ R \in Seq(Slice)
      /\ \A i \in 1..Len(R) : \E n : SliceOf(R[i], f, X, edit, n)
      /\ \A i, j \in 1..Len(R) : i < j => R[j].start <= R[i].start
      /\ ReplacedOnce(R)
  BY <1>0, FromBelowIs
<1>2. Len(R) \in Nat /\ \A i \in 1..Len(R) : R[i] \in Slice
  BY <1>1
<1>3. ASSUME NEW i \in 1..Len(R)
      PROVE  /\ R[i].start \in Nat /\ R[i].start >= 2 /\ R[i].start <= Len(f) /\ R[i].end \in Nat
             /\ R[i].start <= R[i].end /\ Whole(R[i].with)
  <2>1. PICK n : SliceOf(R[i], f, X, edit, n)
    BY <1>1
  <2>2. n \in Entries(f, X) /\ R[i].start = n /\ R[i].end = EndOf(f, n)
    BY <2>1 DEF SliceOf
  <2>3. n \in 1..Len(f) /\ n >= 2 /\ EndOf(f, n) \in n..Len(f)
    BY <1>0, <2>2, EntriesLower
  <2>4. PICK k : k = f[n].key
    OBVIOUS
  <2>5. R[i].with = <<>> \/ (R[i].with = Emit(k, edit.replace[k]) /\ k \in ReplaceKeys(edit))
    BY <2>1, <2>4 DEF SliceOf
  <2>6. CASE R[i].with = <<>>
    <3>1. Whole(<<>>)
      BY DEF Whole
    <3> QED BY <1>0, <2>2, <2>3, <2>6, <3>1
  <2>7. CASE R[i].with = Emit(k, edit.replace[k]) /\ k \in ReplaceKeys(edit)
    <3>1. k \in Nat
      BY <2>7, WithIsTyped
    <3>2. Written(edit.replace[k])
      BY <2>7 DEF Sensible, ReplaceKeys
    <3>3. Whole(R[i].with)
      BY <2>7, <3>1, <3>2, EmitIsWhole
    <3> QED BY <1>0, <2>2, <2>3, <3>3
  <2> QED BY <2>5, <2>6, <2>7
<1>4. PICK h : h = Spliced(f, R)
  OBVIOUS
<1>5. h[0] = f /\ \A n \in 1..Len(R) : h[n] = Splice(h[n - 1], R[n])
  BY <1>2, <1>4, SplicedIs
<1> DEFINE D == {n \in 0..Len(R) : /\ Loose(h[n]) /\ Len(h[n]) >= 1
                                   /\ n > 0 => Len(h[n]) >= R[n].start - 1}
<1>6. 0 \in D
  BY <1>0, <1>2, <1>5
<1>7. ASSUME NEW n \in 0..Len(R), n < Len(R), n \in D PROVE n + 1 \in D
  <2>1. PICK m : m = n + 1
    OBVIOUS
  <2>2. m \in 1..Len(R) /\ m - 1 = n /\ m \in 0..Len(R) /\ n \in Nat
    BY <1>2, <1>7, <2>1
  <2>3. PICK s : s = h[n]
    OBVIOUS
  <2>4. Loose(s) /\ Len(s) \in Nat /\ s \in Seq(Line)
    BY <1>7, <2>3 DEF Loose
  <2>5. PICK a : a = R[m].start
    OBVIOUS
  <2>6. a \in Nat /\ a >= 2 /\ a <= Len(f) /\ R[m].end \in Nat /\ a <= R[m].end /\ Whole(R[m].with)
    BY <1>3, <2>2, <2>5
  <2>7. a - 1 <= Len(s) /\ (R[m].with # <<>> => a <= Len(s))
    <3>1. CASE n = 0
      <4>1. s = f
        BY <1>5, <2>3, <3>1
      <4> QED BY <1>0, <2>6, <4>1
    <3>2. CASE n > 0
      <4>1. n \in 1..Len(R) /\ n < m
        BY <2>1, <2>2, <3>2
      <4>2. PICK b : b = R[n].start
        OBVIOUS
      <4>3. a <= b /\ b \in Nat /\ Len(s) >= b - 1
        BY <1>1, <1>3, <1>7, <2>2, <2>3, <2>5, <3>2, <4>1, <4>2
      <4>4. R[m].with # <<>> => a # b
        <5>1. m # n
          BY <2>1, <2>2
        <5> QED BY <1>1, <2>2, <2>5, <4>1, <4>2, <5>1 DEF ReplacedOnce
      <4> QED BY <2>4, <2>6, <4>3, <4>4
    <3> QED BY <2>2, <3>1, <3>2
  <2>8. R[m] \in Slice /\ R[m].start >= 1
    BY <1>2, <2>2, <2>5, <2>6
  <2>9. Loose(Splice(s, R[m])) /\ Len(Splice(s, R[m])) >= R[m].start - 1
    BY <2>4, <2>5, <2>6, <2>7, <2>8, LooseCut
  <2>10. h[m] = Splice(s, R[m])
    BY <1>5, <2>2, <2>3
  <2>11. Loose(h[m]) /\ Len(h[m]) \in Nat /\ Len(h[m]) >= a - 1
    BY <2>5, <2>9, <2>10 DEF Loose
  <2>12. Len(h[m]) >= 1
    BY <2>6, <2>11
  <2> QED BY <2>1, <2>2, <2>5, <2>11, <2>12
<1>8. \A n \in 0..Len(R) : n \in D
  <2> HIDE DEF D
  <2> QED BY <1>2, <1>6, <1>7, UpTo
<1>9. Len(R) \in D
  BY <1>2, <1>8
<1> QED BY <1>1, <1>4, <1>9

(* Two lines glued are a line, ended as the second was.                   *)
LEMMA GlueIs ==
  ASSUME NEW l \in Line, NEW next \in Line
  PROVE  Glue(l, next) \in Line /\ Glue(l, next).ended = next.ended
<1>1. "" \in Texts /\ "glued" \in Texts
  BY TextsAssumption
<1>2. PICK u : u = next.ended
  OBVIOUS
<1>3. u \in BOOLEAN
  BY <1>2, LineFields
<1>4. l = [kind |-> l.kind, section |-> l.section, key |-> l.key, star |-> l.star,
           text |-> l.text, ended |-> l.ended]
  BY DEF Line
<1>f. /\ l.kind \in LineKind /\ l.section \in Texts /\ l.key \in Nat /\ l.star \in BOOLEAN /\ l.text \in Texts
  BY LineFields
<1>w. PICK w : w = Glue(l, next)
  OBVIOUS
<1>5. CASE l.kind \in {"comment", "bracket"}
  <2>1. w = [l EXCEPT !.ended = u]
    BY <1>w, <1>2, <1>5 DEF Glue
  <2>2. w = [kind |-> l.kind, section |-> l.section, key |-> l.key, star |-> l.star,
                         text |-> l.text, ended |-> u]
    BY <1>4, <2>1
  <2>3. w \in Line
    BY <1>1, <1>3, <1>f, <2>2 DEF Line
  <2>4. w.ended = u
    BY <2>2
  <2> QED BY <1>w, <1>2, <2>3, <2>4
<1>6. CASE l.kind = "header"
  <2>0. "header" \notin {"comment", "bracket"}
    OBVIOUS
  <2>1. w = [l EXCEPT !.kind = "entry", !.section = NoSection, !.text = "glued", !.ended = u]
    BY <1>w, <1>2, <1>6, <2>0 DEF Glue
  <2>2. w = [kind |-> "entry", section |-> NoSection, key |-> l.key, star |-> l.star,
                         text |-> "glued", ended |-> u]
    BY <1>4, <2>1
  <2>3. "entry" \in LineKind /\ NoSection \in Texts
    BY <1>1 DEF LineKind, NoSection
  <2>4. w \in Line
    BY <1>1, <1>3, <1>f, <2>2, <2>3 DEF Line
  <2>5. w.ended = u
    BY <2>2
  <2> QED BY <1>w, <1>2, <2>4, <2>5
<1>7. CASE l.kind \notin {"comment", "bracket", "header"}
  <2>1. w = [l EXCEPT !.text = "glued", !.ended = u]
    BY <1>w, <1>2, <1>7 DEF Glue
  <2>2. w = [kind |-> l.kind, section |-> l.section, key |-> l.key, star |-> l.star,
                         text |-> "glued", ended |-> u]
    BY <1>4, <2>1
  <2>3. w \in Line
    BY <1>1, <1>3, <1>f, <2>2 DEF Line
  <2>4. w.ended = u
    BY <2>2
  <2> QED BY <1>w, <1>2, <2>3, <2>4
<1> QED BY <1>5, <1>6, <1>7

(* One line without its ending, at most, is glued to the next.             *)
LEMMA JoinedIsText ==
  ASSUME NEW s, s \in Seq(Line), Len(s) >= 1, NEW m,
         \A i \in 1..(Len(s) - 1) : i = m \/ s[i].ended
  PROVE  IsText(Joined(s))
<1>1. PICK loose : loose = {i \in 1..(Len(s) - 1) : ~s[i].ended}
  OBVIOUS
<1>2. Len(s) \in Nat /\ s # <<>>
  <2>1. s = <<>> => Len(s) = 0
    BY EmptySeq
  <2> QED BY <2>1
<1>3. CASE loose = {}
  <2>1. Joined(s) = s
    BY <1>1, <1>3 DEF Joined
  <2>2. \A i \in 1..(Len(s) - 1) : s[i].ended
    BY <1>1, <1>3
  <2> QED BY <1>2, <2>1, <2>2 DEF IsText
<1>4. CASE loose # {}
  <2>1. PICK i : i = CHOOSE j \in loose : TRUE
    OBVIOUS
  <2>2. i \in loose
    BY <1>4, <2>1
  <2>3. i = m /\ i \in 1..(Len(s) - 1)
    BY <1>1, <2>2
  <2>4. i \in Nat /\ i >= 1 /\ i < Len(s) /\ i \in 1..Len(s) /\ i + 1 \in 1..Len(s) /\ i - 1 \in Nat
        /\ i + 1 \in Nat /\ i + 1 <= Len(s) /\ i - 1 <= i + 1
    BY <1>2, <2>3
  <2>5. s[i] \in Line /\ s[i + 1] \in Line
    BY <2>4
  <2>6. PICK l : l = Glue(s[i], s[i + 1])
    OBVIOUS
  <2>7. l \in Line /\ l.ended = s[i + 1].ended
    BY <2>5, <2>6, GlueIs
  <2>8. PICK W : W = <<l>>
    OBVIOUS
  <2>9. W \in Seq(Line) /\ Len(W) = 1 /\ W[1] = l
    BY <2>7, <2>8
  <2>10. PICK g : g = Joined(s)
    OBVIOUS
  <2>11. g = SubSeq(s, 1, i - 1) \o W \o SubSeq(s, (i + 1) + 1, Len(s))
    <3>1. (i + 1) + 1 = i + 2
      BY <2>4
    <3> QED BY <1>1, <1>4, <2>1, <2>6, <2>8, <2>10, <3>1 DEF Joined
  <2>12. PICK p : p = i - 1
    OBVIOUS
  <2>13. PICK e : e = i + 1
    OBVIOUS
  <2>14. p \in Nat /\ e \in Nat /\ p <= e /\ e <= Len(s) /\ p + 1 = i /\ e = p + 2
    BY <2>4, <2>12, <2>13
  <2>15. g \in Seq(Line) /\ Swap(g, s, p, e, W)
    BY <2>9, <2>11, <2>12, <2>13, <2>14, SwapIs
  <2>16. /\ Len(g) = p + 1 + (Len(s) - e) /\ \A j \in 1..p : g[j] = s[j]
         /\ g[p + 1] = l /\ \A j \in 1..(Len(s) - e) : g[p + 1 + j] = s[e + j]
    <3>1. /\ Len(g) = p + Len(W) + (Len(s) - e) /\ \A j \in 1..p : g[j] = s[j]
          /\ \A j \in 1..Len(W) : g[p + j] = W[j]
          /\ \A j \in 1..(Len(s) - e) : g[p + Len(W) + j] = s[e + j]
      BY <2>15 DEF Swap
    <3>2. 1 \in 1..Len(W)
      BY <2>9
    <3> QED BY <2>9, <3>1, <3>2
  <2>17. Len(g) \in Nat /\ Len(g) = Len(s) - 1 /\ Len(g) >= 1 /\ g # <<>>
    <3>1. Len(g) = Len(s) - 1 /\ Len(g) >= 1
      BY <1>2, <2>4, <2>14, <2>16
    <3>2. g = <<>> => Len(g) = 0
      BY EmptySeq
    <3> QED BY <1>2, <3>1, <3>2
  <2>18. ASSUME NEW j \in 1..(Len(g) - 1) PROVE g[j].ended
    <3>0. j \in Int /\ 1 <= j /\ j < Len(s) - 1
      BY <1>2, <2>17
    <3>1. CASE j <= p
      <4>1. j \in 1..p /\ j \in 1..(Len(s) - 1) /\ j # m
        BY <1>2, <2>3, <2>14, <3>0, <3>1
      <4>2. s[j].ended
        BY <4>1
      <4> QED BY <2>16, <4>1, <4>2
    <3>2. CASE j = p + 1
      <4>1. g[j] = l
        BY <2>16, <3>2
      <4>2. i + 1 \in 1..(Len(s) - 1) /\ i + 1 # m
        BY <1>2, <2>3, <2>4, <2>14, <3>0, <3>2
      <4>3. s[i + 1].ended
        BY <4>2
      <4> QED BY <2>7, <4>1, <4>3
    <3>3. CASE j > p + 1
      <4>1. PICK k : k = j - (p + 1)
        OBVIOUS
      <4>2. k \in 1..(Len(s) - e) /\ p + 1 + k = j /\ e + k \in 1..(Len(s) - 1) /\ e + k # m
        BY <1>2, <2>3, <2>14, <3>0, <3>3, <4>1
      <4>3. g[p + 1 + k] = s[e + k]
        BY <2>16, <4>2
      <4>4. s[e + k].ended
        BY <4>2
      <4> QED BY <4>2, <4>3, <4>4
    <3> QED BY <2>14, <3>0, <3>1, <3>2, <3>3
  <2> QED BY <2>10, <2>15, <2>17, <2>18 DEF IsText
<1> QED BY <1>3, <1>4

(* Whole lines inserted anywhere leave a text, once the last line is      *)
(* glued.                                                                 *)
LEMMA InsertKeepsText ==
  ASSUME NEW s, Loose(s), Len(s) >= 1, NEW at \in 0..Len(s), NEW W, Whole(W)
  PROVE  IsText(Joined(InsertLines(s, at, W)))
<1>1. PICK g : g = InsertLines(s, at, W)
  OBVIOUS
<1>2. s \in Seq(Line) /\ W \in Seq(Line) /\ Len(s) \in Nat /\ Len(W) \in Nat /\ at \in Nat /\ at <= Len(s)
  <2>1. s \in Seq(Line) /\ W \in Seq(Line)
    BY DEF Loose, Whole
  <2> QED BY <2>1
<1>3. g \in Seq(Line) /\ Swap(g, s, at, at, W)
  BY <1>1, <1>2, InsertIs
<1>4. /\ Len(g) = at + Len(W) + (Len(s) - at) /\ \A i \in 1..at : g[i] = s[i]
      /\ \A i \in 1..Len(W) : g[at + i] = W[i]
      /\ \A i \in 1..(Len(s) - at) : g[at + Len(W) + i] = s[at + i]
  BY <1>3 DEF Swap
<1>5. PICK w : w = Len(W)
  OBVIOUS
<1>6. Len(g) = Len(s) + w /\ Len(g) \in Nat /\ w \in Nat /\ Len(g) >= 1
  BY <1>2, <1>4, <1>5
<1>7. ASSUME NEW i \in 1..(Len(g) - 1), i # Len(s) PROVE g[i].ended
  <2>0. i \in Int /\ 1 <= i /\ i < Len(s) + w
    BY <1>2, <1>6
  <2>1. CASE i <= at
    <3>1. i \in 1..at /\ i \in 1..(Len(s) - 1)
      BY <1>2, <1>7, <2>0, <2>1
    <3> QED BY <1>4, <3>1 DEF Loose
  <2>2. CASE at < i /\ i <= at + w
    <3>1. PICK j : j = i - at
      OBVIOUS
    <3>2. j \in 1..w /\ at + j = i
      BY <1>2, <1>6, <2>0, <2>2, <3>1
    <3>3. g[at + j] = W[j]
      BY <1>4, <1>5, <3>2
    <3> QED BY <1>5, <3>2, <3>3 DEF Whole
  <2>3. CASE at + w < i
    <3>1. PICK j : j = i - (at + w)
      OBVIOUS
    <3>2. j \in 1..(Len(s) - at) /\ at + w + j = i /\ at + j \in 1..(Len(s) - 1)
      BY <1>2, <1>6, <2>0, <2>3, <3>1
    <3>3. g[at + w + j] = s[at + j]
      BY <1>4, <1>5, <3>2
    <3> QED BY <3>2, <3>3 DEF Loose
  <2> QED BY <1>2, <1>6, <2>0, <2>1, <2>2, <2>3
<1>8. \A i \in 1..(Len(g) - 1) : i = Len(s) \/ g[i].ended
  BY <1>7
<1> QED BY <1>1, <1>3, <1>6, <1>8, JoinedIsText

(* The line to insert after is a line of the file.                        *)
LEMMA LastKeptIsThere ==
  ASSUME NEW f \in Seq(Line), NEW X, NEW edit, Targets(f, X) # {}
  PROVE  LastKept(f, X, edit) \in 1..Len(f)
<1> DEFINE stays == {m \in Entries(f, X) : f[m].key \notin RemoveKeys(edit)}
           ends == {EndOf(f, n) : n \in stays} \cup Targets(f, X)
<1>0. Len(f) \in Nat /\ DOMAIN f = 1..Len(f)
  OBVIOUS
<1>1. ASSUME NEW e \in ends PROVE e \in 1..Len(f)
  <2>1. CASE e \in Targets(f, X)
    BY <1>0, <2>1 DEF Targets
  <2>2. CASE e \in {EndOf(f, n) : n \in stays}
    <3>1. PICK n \in Entries(f, X) : e = EndOf(f, n)
      BY <2>2
    <3>2. n \in 1..Len(f) /\ e \in n..Len(f)
      <4>1. n \in 1..Len(f)
        BY EntryIs
      <4>2. EndOf(f, n) \in n..Len(f)
        BY EntryIs
      <4> QED BY <3>1, <4>1, <4>2
    <3> QED BY <1>0, <3>2
  <2> QED BY <2>1, <2>2
<1>2. ends \in SUBSET (0..Len(f)) /\ ends # {}
  <2>1. \A e \in ends : e \in 0..Len(f)
    <3> SUFFICES ASSUME NEW e \in ends PROVE e \in 0..Len(f)
      OBVIOUS
    <3>1. e \in 1..Len(f)
      BY <1>1
    <3> HIDE DEF ends
    <3> QED BY <1>0, <3>1
  <2> QED BY <2>1
<1>3. \E e \in ends : \A g \in ends : g <= e
  <2> HIDE DEF ends
  <2> QED BY <1>0, <1>2, DownTo
<1>4. LastKept(f, X, edit) \in ends
  <2>1. LastKept(f, X, edit) = CHOOSE e \in ends : \A g \in ends : g <= e
    BY DEF LastKept
  <2> HIDE DEF ends
  <2> QED BY <1>3, <2>1
<1> QED BY <1>1, <1>4

(* The editor leaves a text, whatever it is told.                          *)
LEMMA EditKeepsText ==
  ASSUME NEW f, IsText(f), NEW X, X # NoSection, NEW edit, NEW K, Sensible(edit, K),
         RemoveKeys(edit) \cap ReplaceKeys(edit) = {},
         RemoveKeys(edit) \cup ReplaceKeys(edit) \subseteq KeysOf(f, X), Targets(f, X) # {}
  PROVE  IsText(EditSection(f, X, edit))
<1>0. f \in Seq(Line)
  BY DEF IsText
<1>1. PICK R : R = FromBelow(Slices(f, X, edit))
  OBVIOUS
<1>2. PICK s : s = Spliced(f, R)[Len(R)]
  OBVIOUS
<1>3. R \in Seq(Slice) /\ Loose(s) /\ Len(s) >= 1
  BY <1>1, <1>2, CutsKeepText
<1>4. PICK last : last = LastKept(f, X, edit)
  OBVIOUS
<1>5. last \in 1..Len(f) /\ last \in Int
  BY <1>0, <1>4, LastKeptIsThere
<1>6. Shift(R, last) \in Int
  <2>1. PICK h : h \in [0..Len(R) -> Int] /\ Shift(R, last) = h[Len(R)]
    BY <1>3, <1>5, ShiftIs
  <2>2. Len(R) \in 0..Len(R)
    <3>1. Len(R) \in Nat
      BY <1>3
    <3> QED BY <3>1
  <2> QED BY <2>1, <2>2
<1>7. PICK q : q = last + Shift(R, last)
  OBVIOUS
<1>8. PICK at : at = Position(q, Len(s))
  OBVIOUS
<1>9. at \in 0..Len(s)
  <2>1. q \in Int /\ Len(s) \in Nat
    <3>1. q \in Int
      BY <1>5, <1>6, <1>7
    <3>2. s \in Seq(Line)
      BY <1>3 DEF Loose
    <3> QED BY <3>1, <3>2
  <2> QED BY <1>8, <2>1, PositionInside
<1>10. PICK W : W = EmitSorted(edit.insert)
  OBVIOUS
<1>11. Whole(W)
  BY <1>10, EmitSortedIsWhole
<1>12. EditSection(f, X, edit) = Joined(IF edit.insert = <<>> THEN s ELSE InsertLines(s, at, W))
  BY <1>1, <1>2, <1>4, <1>7, <1>8, <1>10 DEF EditSection
<1>13. CASE edit.insert = <<>>
  <2>1. s \in Seq(Line) /\ \A i \in 1..(Len(s) - 1) : i = 0 \/ s[i].ended
    BY <1>3 DEF Loose
  <2>2. IsText(Joined(s))
    BY <1>3, <2>1, JoinedIsText
  <2> QED BY <1>12, <1>13, <2>2
<1>14. CASE edit.insert # <<>>
  <2>1. IsText(Joined(InsertLines(s, at, W)))
    BY <1>3, <1>9, <1>11, InsertKeepsText
  <2> QED BY <1>12, <1>14, <2>1
<1> QED BY <1>13, <1>14

(* Whole lines are a text.                                                *)
LEMMA TextOfWhole == ASSUME NEW f, Whole(f), Len(f) > 0 PROVE IsText(f)
<1>1. f \in Seq(Line) /\ Len(f) \in Nat
  BY DEF Whole
<1>2. f # <<>>
  <2>1. f = <<>> => Len(f) = 0
    BY EmptySeq
  <2> QED BY <2>1
<1>3. \A i \in 1..(Len(f) - 1) : i \in 1..Len(f)
  BY <1>1
<1> QED BY <1>1, <1>2, <1>3 DEF IsText, Whole

(* What the editor accepts, it carries out on entries that are there.      *)
LEMMA AcceptedIs ==
  ASSUME NEW f, NEW X, NEW edit, ~EditorRefuses(f, X, edit), Targets(f, X) # {}
  PROVE  /\ ~Unterminated(f, X)
         /\ RemoveKeys(edit) \cup ReplaceKeys(edit) \subseteq KeysOf(f, X)
         /\ InsertKeys(edit) \cap KeysOf(f, X) \subseteq RemoveKeys(edit)
         /\ \A m, n \in Targets(f, X) : m = n
         /\ \A m, n \in Entries(f, X) : f[m].key = f[n].key => m = n
  BY DEF EditorRefuses

(* What the editor makes of a text, by the edit of any adapter, is a      *)
(* text.                                                                  *)
LEMMA ApplyKeepsText ==
  ASSUME NEW f, IsText(f), NEW r, RequestType(r), NEW v, View(v), NEW edit, edit = EditFor(r, v),
         ~edit.refused, ~EditorRefuses(f, r.section, edit)
  PROVE  IsText(ApplySectionEdits(f, r.section, edit))
<1>1. PICK X : X = r.section
  OBVIOUS
<1>2. X \in Texts /\ X # NoSection
  BY <1>1, RequestParts DEF NoSection
<1>3. PICK K : K = AskedOf(r, v)
  OBVIOUS
<1>4. Sensible(edit, K) /\ RemoveKeys(edit) \cap ReplaceKeys(edit) = {}
  BY <1>3, EditIsProper DEF Proper
<1>5. CASE Targets(f, X) # {}
  <2>1. RemoveKeys(edit) \cup ReplaceKeys(edit) \subseteq KeysOf(f, X)
    BY <1>1, <1>5, AcceptedIs
  <2>2. IsText(EditSection(f, X, edit))
    BY <1>2, <1>4, <1>5, <2>1, EditKeepsText
  <2>3. ApplySectionEdits(f, X, edit) = EditSection(f, X, edit)
    BY <1>5 DEF ApplySectionEdits
  <2> QED BY <1>1, <2>2, <2>3
<1>6. CASE Targets(f, X) = {} /\ edit.insert = <<>>
  BY <1>1, <1>6 DEF ApplySectionEdits
<1>7. CASE Targets(f, X) = {} /\ edit.insert # <<>>
  <2>1. PICK g : g = AppendSection(f, X, edit)
    OBVIOUS
  <2>2. Whole(g) /\ Len(g) > Len(f)
    BY <1>2, <1>4, <2>1, AppendIs
  <2>3. Len(f) \in Nat /\ Len(g) \in Nat
    BY <2>2 DEF IsText, Whole
  <2>4. IsText(g)
    BY <2>2, <2>3, TextOfWhole
  <2>5. ApplySectionEdits(f, X, edit) = g
    BY <1>7, <2>1 DEF ApplySectionEdits
  <2> QED BY <1>1, <2>4, <2>5
<1> QED BY <1>5, <1>6, <1>7

-----------------------------------------------------------------------------
(* What the scanner reads.                                                 *)

(* Where the scanner may be, and what it may have read: of each key of a   *)
(* section one value.                                                      *)
Setting == [section : Texts, key : Nat, value : Values]
Readings ==
  {data \in SUBSET Setting :
     /\ IsFiniteSet(data)
     /\ \A d, e \in data : d.section = e.section /\ d.key = e.key => d = e}
Scanner == [section : Texts, key : Nat, depth : Int, data : Readings, value : Values]
Outset ==
  [section |-> NoSection, key |-> NoKey, depth |-> 0, data |-> {}, value |-> Value(Plain("blank"))]

(* A line's value is a value.                                             *)
LEMMA ValueIsTyped == ASSUME NEW line \in Line PROVE Value(line) \in Values
<1>1. line.star \in BOOLEAN /\ line.text \in Texts
  BY LineFields
<1>2. <<>> \in Seq(Line)
  OBVIOUS
<1> QED BY <1>1, <1>2 DEF Value, Values

(* Where the scanner begins.                                              *)
LEMMA OutsetIsTyped == Outset \in Scanner
<1>1. {} \in Readings
  BY FS_EmptySet DEF Readings
<1>2. NoSection \in Texts /\ NoKey \in Nat
  BY TextsAssumption DEF NoSection, NoKey
<1>3. Plain("blank") \in Line
  BY <1>2, TextsAssumption DEF Plain, Line, LineKind
<1>4. Value(Plain("blank")) \in Values
  BY <1>3, ValueIsTyped
<1> QED BY <1>1, <1>2, <1>4 DEF Outset, Scanner

(* Put replaces the value of one key of one section.                      *)
LEMMA PutIs ==
  ASSUME NEW data \in Readings, NEW X \in Texts, NEW k \in Nat, NEW value \in Values
  PROVE  /\ Put(data, X, k, value) \in Readings
         /\ \A d : d \in Put(data, X, k, value) <=>
                     \/ d \in data /\ (d.section # X \/ d.key # k)
                     \/ d = [section |-> X, key |-> k, value |-> value]
<1>1. PICK n : n = [section |-> X, key |-> k, value |-> value]
  OBVIOUS
<1>2. n \in Setting /\ n.section = X /\ n.key = k
  BY <1>1 DEF Setting
<1>3. PICK kept : kept = {d \in data : d.section # X \/ d.key # k}
  OBVIOUS
<1>4. Put(data, X, k, value) = kept \cup {n}
  BY <1>1, <1>3 DEF Put
<1>5. data \in SUBSET Setting /\ IsFiniteSet(data)
      /\ \A d, e \in data : d.section = e.section /\ d.key = e.key => d = e
  BY DEF Readings
<1>6. IsFiniteSet(kept \cup {n})
  <2>1. IsFiniteSet(kept)
    BY <1>3, <1>5, FS_Subset
  <2>2. IsFiniteSet({n})
    BY FS_Singleton
  <2> QED BY <2>1, <2>2, FS_Union
<1>7. \A d, e \in kept \cup {n} : d.section = e.section /\ d.key = e.key => d = e
  BY <1>2, <1>3, <1>5
<1>8. kept \cup {n} \in SUBSET Setting
  BY <1>2, <1>3, <1>5
<1>9. kept \cup {n} \in Readings
  BY <1>6, <1>7, <1>8 DEF Readings
<1>10. \A d : d \in kept \cup {n} <=> \/ d \in data /\ (d.section # X \/ d.key # k)
                                      \/ d = n
  BY <1>3
<1> QED BY <1>1, <1>4, <1>9, <1>10

\* The value the scanner is in, with one line more.
Longer(value, line) == [value EXCEPT !.body = Append(@, [line EXCEPT !.ended = TRUE])]

(* A value with one line more is a value.                                 *)
LEMMA LongerIsTyped ==
  ASSUME NEW value \in Values, NEW line \in Line
  PROVE  /\ Longer(value, line) \in Values /\ Longer(value, line).star = value.star
         /\ Longer(value, line).text = value.text
         /\ Longer(value, line).body = Append(value.body, [line EXCEPT !.ended = TRUE])
<1>1. PICK l : l = [line EXCEPT !.ended = TRUE]
  OBVIOUS
<1>2. line = [kind |-> line.kind, section |-> line.section, key |-> line.key, star |-> line.star,
              text |-> line.text, ended |-> line.ended]
  BY DEF Line
<1>3. l = [kind |-> line.kind, section |-> line.section, key |-> line.key, star |-> line.star,
           text |-> line.text, ended |-> TRUE]
  BY <1>1, <1>2
<1>4. l \in Line
  BY <1>3, LineFields DEF Line
<1>5. value = [star |-> value.star, text |-> value.text, body |-> value.body]
      /\ value.star \in BOOLEAN /\ value.text \in Texts /\ value.body \in Seq(Line)
  BY DEF Values
<1>6. PICK b : b = Append(value.body, l)
  OBVIOUS
<1>7. b \in Seq(Line)
  BY <1>4, <1>5, <1>6
<1>8. PICK w : w = Longer(value, line)
  OBVIOUS
<1>9. w = [star |-> value.star, text |-> value.text, body |-> b]
  BY <1>1, <1>5, <1>6, <1>8 DEF Longer
<1>10. w \in Values
  BY <1>5, <1>7, <1>9 DEF Values
<1>11. w.star = value.star /\ w.text = value.text /\ w.body = b
  BY <1>9
<1> QED BY <1>1, <1>6, <1>8, <1>10, <1>11

(* One line of the scanner.                                                *)
LEMMA ScannerMoves ==
  ASSUME NEW s \in Scanner, NEW line \in Line
  PROVE  /\ ScanLine(s, line) \in Scanner
         /\ Skipped(line) => ScanLine(s, line) = s
         /\ line.kind = "header"
              => /\ ScanLine(s, line).section = line.section /\ ScanLine(s, line).depth = 0
                 /\ ScanLine(s, line).data = s.data
         /\ s.depth = 0 /\ Assigns(line)
              => /\ ScanLine(s, line).section = s.section /\ ScanLine(s, line).key = line.key
                 /\ ScanLine(s, line).depth = Delta(line) /\ ScanLine(s, line).value = Value(line)
                 /\ ScanLine(s, line).data = Put(s.data, s.section, line.key, Value(line))
         /\ s.depth # 0 /\ ~Skipped(line) /\ line.kind # "header"
              => /\ ScanLine(s, line).section = s.section /\ ScanLine(s, line).key = s.key
                 /\ ScanLine(s, line).depth = s.depth + Delta(line)
                 /\ ScanLine(s, line).value = Longer(s.value, line)
                 /\ ScanLine(s, line).data = Put(s.data, s.section, s.key, Longer(s.value, line))
         /\ s.depth = 0 /\ line.kind \in {"string", "close"} => ScanLine(s, line) = s
<1>0. Delta(line) \in Int /\ Value(line) \in Values /\ line.section \in Texts /\ line.key \in Nat
      /\ line.kind \in LineKind
  <2>1. Delta(line) \in Int
    BY DeltaIsTyped
  <2> QED BY <2>1, ValueIsTyped, LineFields
<1>1. s = [section |-> s.section, key |-> s.key, depth |-> s.depth, data |-> s.data, value |-> s.value]
      /\ s.section \in Texts /\ s.key \in Nat /\ s.depth \in Int /\ s.data \in Readings /\ s.value \in Values
  BY DEF Scanner
<1>2. PICK t : t = ScanLine(s, line)
  OBVIOUS
<1>3. CASE Skipped(line)
  <2>1. t = s
    <3>1. line.kind # "header" /\ ~Assigns(line)
      BY <1>3 DEF Skipped, Assigns
    <3> QED BY <1>2, <1>3, <3>1 DEF ScanLine
  <2>2. line.kind \notin {"header", "string", "close"} /\ ~Assigns(line)
    BY <1>3 DEF Skipped, Assigns
  <2> QED BY <1>2, <1>3, <2>1, <2>2
<1>4. CASE line.kind = "header"
  <2>0. ~Skipped(line) /\ ~Assigns(line) /\ line.kind \notin {"string", "close"}
    BY <1>4 DEF Skipped, Assigns
  <2>1. t = [s EXCEPT !.section = line.section, !.depth = 0]
    BY <1>2, <1>4, <2>0 DEF ScanLine
  <2>2. t = [section |-> line.section, key |-> s.key, depth |-> 0, data |-> s.data, value |-> s.value]
    BY <1>1, <2>1
  <2>3. t \in Scanner
    BY <1>0, <1>1, <2>2 DEF Scanner
  <2>4. t.section = line.section /\ t.depth = 0 /\ t.data = s.data
    BY <2>2
  <2> QED BY <1>2, <1>4, <2>0, <2>3, <2>4
<1>5. CASE s.depth = 0 /\ Assigns(line)
  <2>0. ~Skipped(line) /\ line.kind # "header" /\ line.kind \notin {"string", "close"}
    BY <1>5 DEF Skipped, Assigns
  <2>a. PICK d : d = Put(s.data, s.section, line.key, Value(line))
    OBVIOUS
  <2>b. d \in Readings
    BY <1>0, <1>1, <2>a, PutIs
  <2>1. t = [s EXCEPT !.key = line.key, !.value = Value(line), !.depth = Delta(line), !.data = d]
    BY <1>2, <1>5, <2>0, <2>a DEF ScanLine
  <2>2. t = [section |-> s.section, key |-> line.key, depth |-> Delta(line), data |-> d, value |-> Value(line)]
    BY <1>1, <2>1
  <2>3. t \in Scanner
    BY <1>0, <1>1, <2>b, <2>2 DEF Scanner
  <2>4. t.section = s.section /\ t.key = line.key /\ t.depth = Delta(line) /\ t.value = Value(line) /\ t.data = d
    BY <2>2
  <2> QED BY <1>2, <1>5, <2>0, <2>a, <2>3, <2>4
<1>6. CASE s.depth # 0 /\ ~Skipped(line) /\ line.kind # "header"
  <2>w. PICK w : w = Longer(s.value, line)
    OBVIOUS
  <2>x. w \in Values
    BY <1>1, <2>w, LongerIsTyped
  <2>a. PICK d : d = Put(s.data, s.section, s.key, w)
    OBVIOUS
  <2>b. d \in Readings
    BY <1>1, <2>a, <2>x, PutIs
  <2>1. t = [s EXCEPT !.value = w, !.depth = s.depth + Delta(line), !.data = d]
    BY <1>2, <1>6, <2>a, <2>w DEF ScanLine, Longer
  <2>2. t = [section |-> s.section, key |-> s.key, depth |-> s.depth + Delta(line), data |-> d, value |-> w]
    BY <1>1, <2>1
  <2>c. s.depth + Delta(line) \in Int
    BY <1>0, <1>1
  <2>3. t \in Scanner
    BY <1>1, <2>b, <2>c, <2>x, <2>2 DEF Scanner
  <2>4. t.section = s.section /\ t.key = s.key /\ t.depth = s.depth + Delta(line) /\ t.value = w /\ t.data = d
    BY <2>2
  <2> QED BY <1>2, <1>6, <2>a, <2>w, <2>3, <2>4
<1>7. CASE s.depth = 0 /\ line.kind \in {"string", "close"}
  <2>0. ~Skipped(line) /\ line.kind # "header" /\ ~Assigns(line)
    BY <1>7 DEF Skipped, Assigns
  <2>1. t = s
    BY <1>2, <1>7, <2>0 DEF ScanLine
  <2> QED BY <1>2, <1>7, <2>0, <2>1
<1>8. \/ Skipped(line) \/ line.kind = "header" \/ (s.depth = 0 /\ Assigns(line))
      \/ (s.depth # 0 /\ ~Skipped(line) /\ line.kind # "header")
      \/ (s.depth = 0 /\ line.kind \in {"string", "close"})
  BY <1>0 DEF LineKind, Skipped, Assigns
<1> QED BY <1>3, <1>4, <1>5, <1>6, <1>7, <1>8
(* The scanner's way through a text.                                       *)
Scans(f, lines) ==
  /\ f \in [0..Len(lines) -> Scanner] /\ f[0] = Outset
  /\ \A n \in 1..Len(lines) : f[n] = ScanLine(f[n - 1], lines[n])

(* Scanned is the scanner's way through the text.                         *)
LEMMA ScanIs == ASSUME NEW lines \in Seq(Line) PROVE Scans(Scanned(lines), lines)
<1> DEFINE step == [n \in 1..Len(lines) |-> [c \in Scanner |-> ScanLine(c, lines[n])]]
           Right(f) == f = [n \in 0..Len(lines) |-> IF n = 0 THEN Outset ELSE ScanLine(f[n - 1], lines[n])]
           F == CHOOSE f : Right(f)
<1>0. Len(lines) \in Nat /\ \A n \in 1..Len(lines) : lines[n] \in Line
  OBVIOUS
<1>1. step \in [1..Len(lines) -> [Scanner -> Scanner]]
  <2>1. ASSUME NEW n \in 1..Len(lines), NEW c \in Scanner PROVE ScanLine(c, lines[n]) \in Scanner
    BY <1>0, ScannerMoves
  <2> QED BY <2>1
<1>2. Outset \in Scanner
  BY OutsetIsTyped
<1>3. PICK g : Table(g, Len(lines), Scanner, Outset, step)
  <2> HIDE DEF step
  <2> QED BY <1>0, <1>1, <1>2, TableIsThere
<1>4. g \in [0..Len(lines) -> Scanner] /\ g[0] = Outset /\ \A n \in 1..Len(lines) : g[n] = step[n][g[n - 1]]
  <2> HIDE DEF step
  <2> QED BY <1>3 DEF Table
<1>5. \A n \in 1..Len(lines) : g[n] = ScanLine(g[n - 1], lines[n])
  <2> SUFFICES ASSUME NEW n \in 1..Len(lines) PROVE g[n] = ScanLine(g[n - 1], lines[n])
    OBVIOUS
  <2>1. n - 1 \in 0..Len(lines)
    BY <1>0
  <2> QED BY <2>1, <1>4
<1>6. Right(g)
  <2>1. \A n \in 0..Len(lines) : g[n] = IF n = 0 THEN Outset ELSE ScanLine(g[n - 1], lines[n])
    <3> SUFFICES ASSUME NEW n \in 0..Len(lines)
                 PROVE  g[n] = IF n = 0 THEN Outset ELSE ScanLine(g[n - 1], lines[n])
      OBVIOUS
    <3>1. n = 0 \/ n \in 1..Len(lines)
      BY <1>0
    <3> HIDE DEF step
    <3> QED BY <3>1, <1>4, <1>5
  <2>2. g = [n \in 0..Len(lines) |-> g[n]]
    BY <1>4
  <2> QED BY <2>1, <2>2
<1>7. Right(F)
  BY <1>6
<1>8. Scanned(lines) = F
  BY DEF Scanned, Outset
<1> HIDE DEF F
<1>9. F[0] = Outset /\ \A n \in 1..Len(lines) : F[n] = ScanLine(F[n - 1], lines[n])
  BY <1>7, <1>0
<1>10. DOMAIN F = 0..Len(lines) /\ F = [n \in DOMAIN F |-> F[n]]
  BY <1>7
<1> HIDE DEF Right
<1> DEFINE D == {n \in 0..Len(lines) : F[n] \in Scanner}
<1>12. 0 \in D
  BY <1>0, <1>2, <1>9
<1>13. ASSUME NEW n \in 0..Len(lines), n < Len(lines), n \in D PROVE n + 1 \in D
  <2>1. n + 1 \in 1..Len(lines) /\ (n + 1) - 1 = n
    BY <1>13, <1>0
  <2>2. F[n + 1] = ScanLine(F[n], lines[n + 1])
    BY <2>1, <1>9
  <2>3. F[n] \in Scanner /\ lines[n + 1] \in Line
    BY <1>13, <2>1, <1>0
  <2>4. F[n + 1] \in Scanner
    BY <2>2, <2>3, ScannerMoves
  <2> QED BY <2>1, <2>4
<1>14. \A n \in 0..Len(lines) : n \in D
  <2> HIDE DEF D
  <2> QED BY <1>0, <1>12, <1>13, UpTo
<1>15. F \in [0..Len(lines) -> Scanner]
  BY <1>10, <1>14
<1> QED BY <1>8, <1>9, <1>15 DEF Scans

(* What is read of a text has one value for each key of a section.        *)
LEMMA ScanIsTyped == ASSUME NEW lines \in Seq(Line) PROVE Scan(lines) \in Readings
<1>1. Scans(Scanned(lines), lines) /\ Len(lines) \in 0..Len(lines)
  <2>1. Len(lines) \in Nat
    OBVIOUS
  <2> QED BY <2>1, ScanIs
<1>2. Scanned(lines)[Len(lines)] \in Scanner
  BY <1>1 DEF Scans
<1> QED BY <1>2 DEF Scan, Scanner

(* What a section is read as.                                              *)
LEMMA SectionIs ==
  ASSUME NEW data \in Readings, NEW X
  PROVE  /\ View(SectionOf(data, X))
         /\ \A k : k \in DOMAIN SectionOf(data, X) <=> \E d \in data : d.section = X /\ d.key = k
         /\ \A d \in data : d.section = X => SectionOf(data, X)[d.key] = d.value
<1>1. PICK here : here = {d \in data : d.section = X}
  OBVIOUS
<1>2. PICK v : v = SectionOf(data, X)
  OBVIOUS
<1>3. v = [k \in {d.key : d \in here} |-> (CHOOSE d \in here : d.key = k).value]
  BY <1>1, <1>2 DEF SectionOf
<1>4. data \in SUBSET Setting /\ IsFiniteSet(data)
      /\ \A d, e \in data : d.section = e.section /\ d.key = e.key => d = e
  BY DEF Readings
<1>5. DOMAIN v = {d.key : d \in here}
  BY <1>3
<1>6. IsFiniteSet(DOMAIN v)
  <2>1. IsFiniteSet(here)
    BY <1>1, <1>4, FS_Subset
  <2>2. PICK g : g = [d \in here |-> d.key]
    OBVIOUS
  <2>3. g \in Surjection(here, DOMAIN v)
    <3>1. g \in [here -> DOMAIN v]
      BY <1>5, <2>2
    <3>2. \A k \in DOMAIN v : \E d \in here : g[d] = k
      BY <1>5, <2>2
    <3> QED BY <3>1, <3>2 DEF Surjection
  <2> QED BY <2>1, <2>3, FS_Surjection
<1>7. ASSUME NEW d \in here PROVE v[d.key] = d.value
  <2>1. \E e \in here : e.key = d.key
    OBVIOUS
  <2>2. PICK e : e = CHOOSE x \in here : x.key = d.key
    OBVIOUS
  <2>3. e \in here /\ e.key = d.key
    BY <2>1, <2>2
  <2>4. e = d
    BY <1>1, <1>4, <2>3
  <2>5. d.key \in {x.key : x \in here}
    OBVIOUS
  <2> QED BY <1>3, <2>2, <2>4, <2>5
<1>8. DOMAIN v \subseteq Nat /\ \A k \in DOMAIN v : v[k] \in Values
  <2>1. ASSUME NEW k \in DOMAIN v PROVE k \in Nat /\ v[k] \in Values
    <3>1. PICK d \in here : d.key = k
      BY <1>5
    <3>2. d \in Setting
      BY <1>1, <1>4
    <3>3. d.key \in Nat /\ d.value \in Values
      BY <3>2 DEF Setting
    <3> QED BY <1>7, <3>1, <3>3
  <2> QED BY <2>1
<1>9. View(v)
  BY <1>6, <1>8 DEF View
<1>10. \A k : k \in DOMAIN v <=> \E d \in data : d.section = X /\ d.key = k
  BY <1>1, <1>5
<1>11. \A d \in data : d.section = X => v[d.key] = d.value
  BY <1>1, <1>7
<1> QED BY <1>2, <1>9, <1>10, <1>11

-----------------------------------------------------------------------------
(* The two parsers, line by line, and what they read of a swap of lines.   *)

(* A file both parsers read in step: inside a value there is no line that  *)
(* only one of them counts.                                                *)
InStep(f) ==
  /\ f \in Seq(Line)
  /\ \A n \in 1..Len(f) : Index(f)[n - 1].depth # 0 => f[n].kind \notin {"header", "bracket"}

\* The two parsers are at the same place.
Together(s, c) == s.section = c.section /\ s.depth = c.depth /\ (c.depth # 0 => s.key = c.key)

(* They go on together over a line both of them count.                     *)
LEMMA GoTogether ==
  ASSUME NEW s \in Scanner, NEW c \in Cursor, NEW line \in Line, Together(s, c),
         c.depth # 0 => line.kind \notin {"header", "bracket"}
  PROVE  Together(ScanLine(s, line), IndexLine(c, line))
<1>0. PICK t, d : t = ScanLine(s, line) /\ d = IndexLine(c, line)
  OBVIOUS
<1>1. s.section = c.section /\ s.depth = c.depth /\ (c.depth # 0 => s.key = c.key)
  BY DEF Together
<1>2. line.kind \in LineKind
  BY LineFields
<1>3. c.depth \in Int
  BY DEF Cursor
<1>4. CASE c.depth # 0 /\ Skipped(line)
  <2>1. Delta(line) = 0
    BY <1>4 DEF Delta, Skipped
  <2>2. t = s
    BY <1>0, <1>4, ScannerMoves
  <2>3. d.section = c.section /\ d.key = c.key /\ d.depth = c.depth + Delta(line)
    BY <1>0, <1>4, CursorMoves
  <2>4. d.depth = c.depth
    BY <2>1, <2>3, <1>3
  <2> QED BY <1>0, <1>1, <2>2, <2>3, <2>4 DEF Together
<1>5. CASE c.depth # 0 /\ ~Skipped(line)
  <2>1. t.section = s.section /\ t.key = s.key /\ t.depth = s.depth + Delta(line)
    BY <1>0, <1>1, <1>5, ScannerMoves
  <2>2. d.section = c.section /\ d.key = c.key /\ d.depth = c.depth + Delta(line)
    BY <1>0, <1>5, CursorMoves
  <2> QED BY <1>0, <1>1, <1>5, <2>1, <2>2 DEF Together
<1>6. CASE c.depth = 0 /\ line.kind = "header"
  <2>1. t.section = line.section /\ t.depth = 0
    BY <1>0, <1>6, ScannerMoves
  <2>2. d.section = line.section /\ d.depth = 0
    BY <1>0, <1>6, CursorMoves
  <2> QED BY <1>0, <2>1, <2>2 DEF Together
<1>7. CASE c.depth = 0 /\ Assigns(line)
  <2>1. t.section = s.section /\ t.key = line.key /\ t.depth = Delta(line)
    BY <1>0, <1>1, <1>7, ScannerMoves
  <2>2. d.section = c.section /\ d.key = line.key /\ d.depth = Delta(line)
    BY <1>0, <1>7, CursorMoves
  <2> QED BY <1>0, <1>1, <2>1, <2>2 DEF Together
<1>8. CASE c.depth = 0 /\ line.kind # "header" /\ ~Assigns(line)
  <2>1. Skipped(line) \/ line.kind \in {"string", "close"}
    BY <1>2, <1>8 DEF LineKind, Skipped, Assigns
  <2>2. t = s
    BY <1>0, <1>1, <1>8, <2>1, ScannerMoves
  <2>3. d = c
    BY <1>0, <1>8, CursorMoves
  <2> QED BY <1>0, <1>1, <2>2, <2>3 DEF Together
<1> QED BY <1>4, <1>5, <1>6, <1>7, <1>8

(* They part at a line of a value that only one of them counts.            *)
LEMMA PartThere ==
  ASSUME NEW s \in Scanner, NEW c \in Cursor, NEW line \in Line, Together(s, c),
         c.depth # 0, line.kind \in {"header", "bracket"}
  PROVE  ScanLine(s, line).depth # IndexLine(c, line).depth
<1>1. s.depth = c.depth /\ c.depth \in Int
  BY DEF Together, Cursor
<1>2. IndexLine(c, line).depth = c.depth + Delta(line)
  BY CursorMoves
<1>3. CASE line.kind = "header"
  <2>1. Delta(line) = 0
    BY <1>3 DEF Delta
  <2>2. ScanLine(s, line).depth = 0
    BY <1>3, ScannerMoves
  <2> QED BY <1>1, <1>2, <2>1, <2>2
<1>4. CASE line.kind = "bracket"
  <2>1. Delta(line) = 1
    BY <1>4 DEF Delta
  <2>2. ScanLine(s, line) = s
    <3>1. Skipped(line)
      BY <1>4 DEF Skipped
    <3> QED BY <3>1, ScannerMoves
  <2> QED BY <1>1, <1>2, <2>1, <2>2
<1> QED BY <1>3, <1>4

(* What the parsers are at line n of a file.                               *)
LEMMA BothAt ==
  ASSUME NEW f \in Seq(Line), NEW n \in 0..Len(f)
  PROVE  /\ Scanned(f)[n] \in Scanner /\ Index(f)[n] \in Cursor
         /\ n < Len(f) => /\ f[n + 1] \in Line
                          /\ Scanned(f)[n + 1] = ScanLine(Scanned(f)[n], f[n + 1])
                          /\ Index(f)[n + 1] = IndexLine(Index(f)[n], f[n + 1])
         /\ n = 0 => Scanned(f)[n] = Outset /\ Index(f)[n] = Origin
<1>1. Scans(Scanned(f), f) /\ Walk(Index(f), f)
  BY ScanIs, IndexIs
<1>2. Scanned(f) \in [0..Len(f) -> Scanner] /\ Index(f) \in [0..Len(f) -> Cursor]
      /\ Scanned(f)[0] = Outset /\ Index(f)[0] = Origin
  BY <1>1 DEF Scans, Walk
<1>3. ASSUME n < Len(f)
      PROVE  /\ f[n + 1] \in Line
             /\ Scanned(f)[n + 1] = ScanLine(Scanned(f)[n], f[n + 1])
             /\ Index(f)[n + 1] = IndexLine(Index(f)[n], f[n + 1])
  <2>1. Len(f) \in Nat
    OBVIOUS
  <2>2. n + 1 \in 1..Len(f) /\ (n + 1) - 1 = n
    BY <1>3, <2>1
  <2>3. PICK m \in 1..Len(f) : m = n + 1 /\ m - 1 = n
    BY <2>2
  <2>4. f[m] \in Line
    OBVIOUS
  <2>5. Scanned(f)[m] = ScanLine(Scanned(f)[m - 1], f[m])
    BY <1>1 DEF Scans
  <2>6. Index(f)[m] = IndexLine(Index(f)[m - 1], f[m])
    BY <1>1 DEF Walk
  <2> QED BY <2>3, <2>4, <2>5, <2>6
<1> QED BY <1>2, <1>3

(* The files the parsers read in step are those with no such line, and     *)
(* there they are at one place at every line.                              *)
LEMMA AgreeIs ==
  ASSUME NEW f \in Seq(Line)
  PROVE  /\ ParsersAgree(f) => InStep(f)
         /\ InStep(f) => /\ \A n \in 0..Len(f) : Together(Scanned(f)[n], Index(f)[n])
                         /\ ParsersAgree(f)
<1> DEFINE D == {n \in 0..Len(f) : Together(Scanned(f)[n], Index(f)[n])}
<1>0. Len(f) \in Nat
  OBVIOUS
<1>1. 0 \in D
  <2>1. 0 \in 0..Len(f)
    BY <1>0
  <2>2. Scanned(f)[0] = Outset /\ Index(f)[0] = Origin
    BY <2>1, BothAt
  <2>3. Together(Outset, Origin)
    BY DEF Together, Outset, Origin
  <2> QED BY <2>1, <2>2, <2>3
<1>2. ASSUME NEW n \in 0..Len(f), n < Len(f), n \in D,
             Index(f)[n].depth # 0 => f[n + 1].kind \notin {"header", "bracket"}
      PROVE  n + 1 \in D
  <2>1. n + 1 \in 0..Len(f)
    BY <1>0, <1>2
  <2>2. /\ Scanned(f)[n] \in Scanner /\ Index(f)[n] \in Cursor /\ f[n + 1] \in Line
        /\ Scanned(f)[n + 1] = ScanLine(Scanned(f)[n], f[n + 1])
        /\ Index(f)[n + 1] = IndexLine(Index(f)[n], f[n + 1])
    BY <1>2, BothAt
  <2>3. Together(Scanned(f)[n], Index(f)[n])
    BY <1>2
  <2>4. Together(Scanned(f)[n + 1], Index(f)[n + 1])
    BY <1>2, <2>2, <2>3, GoTogether
  <2> QED BY <2>1, <2>4
<1>3. ASSUME ParsersAgree(f), NEW n \in 0..Len(f), n < Len(f), n \in D
      PROVE  Index(f)[n].depth # 0 => f[n + 1].kind \notin {"header", "bracket"}
  <2>1. n + 1 \in 0..Len(f)
    BY <1>0, <1>3
  <2>2. /\ Scanned(f)[n] \in Scanner /\ Index(f)[n] \in Cursor /\ f[n + 1] \in Line
        /\ Scanned(f)[n + 1] = ScanLine(Scanned(f)[n], f[n + 1])
        /\ Index(f)[n + 1] = IndexLine(Index(f)[n], f[n + 1])
    BY <1>3, BothAt
  <2>3. Together(Scanned(f)[n], Index(f)[n])
    BY <1>3
  <2>4. Scanned(f)[n + 1].depth = Index(f)[n + 1].depth
    BY <1>3, <2>1 DEF ParsersAgree
  <2> QED BY <2>2, <2>3, <2>4, PartThere
<1>4. ASSUME ParsersAgree(f) PROVE InStep(f)
  <2>1. ASSUME NEW n \in 0..Len(f), n < Len(f) /\ n \in D PROVE n + 1 \in D
    <3>1. Index(f)[n].depth # 0 => f[n + 1].kind \notin {"header", "bracket"}
      BY <1>3, <1>4, <2>1
    <3> HIDE DEF D
    <3> QED BY <1>2, <2>1, <3>1
  <2>2. \A n \in 0..Len(f) : n \in D
    <3> HIDE DEF D
    <3> QED BY <1>0, <1>1, <2>1, UpTo
  <2>3. ASSUME NEW n \in 1..Len(f)
        PROVE  Index(f)[n - 1].depth # 0 => f[n].kind \notin {"header", "bracket"}
    <3>1. PICK m \in 0..Len(f) : m = n - 1 /\ m + 1 = n /\ m < Len(f)
      <4>1. n - 1 \in 0..Len(f) /\ (n - 1) + 1 = n /\ n - 1 < Len(f)
        BY <1>0
      <4> QED BY <4>1
    <3>2. m \in D
      BY <2>2
    <3> HIDE DEF D
    <3>3. Index(f)[m].depth # 0 => f[m + 1].kind \notin {"header", "bracket"}
      BY <1>3, <1>4, <3>1, <3>2
    <3> QED BY <3>1, <3>3
  <2> QED BY <2>3 DEF InStep
<1>5. ASSUME InStep(f)
      PROVE  (\A n \in 0..Len(f) : Together(Scanned(f)[n], Index(f)[n])) /\ ParsersAgree(f)
  <2>1. ASSUME NEW n \in 0..Len(f), n < Len(f) /\ n \in D PROVE n + 1 \in D
    <3>1. PICK m \in 1..Len(f) : m = n + 1 /\ m - 1 = n
      <4>1. n + 1 \in 1..Len(f) /\ (n + 1) - 1 = n
        BY <1>0, <2>1
      <4> QED BY <4>1
    <3>2. Index(f)[m - 1].depth # 0 => f[m].kind \notin {"header", "bracket"}
      BY <1>5 DEF InStep
    <3>3. Index(f)[n].depth # 0 => f[n + 1].kind \notin {"header", "bracket"}
      BY <3>1, <3>2
    <3> HIDE DEF D
    <3> QED BY <1>2, <2>1, <3>3
  <2>2. \A n \in 0..Len(f) : n \in D
    <3> HIDE DEF D
    <3> QED BY <1>0, <1>1, <2>1, UpTo
  <2>3. \A n \in 0..Len(f) : Together(Scanned(f)[n], Index(f)[n])
    BY <2>2
  <2>4. ParsersAgree(f)
    BY <2>3 DEF Together, ParsersAgree
  <2> QED BY <2>3, <2>4
<1> QED BY <1>4, <1>5

\* Something has been read of key k of section X.
Knows(data, X, k) == \E d \in data : d.section = X /\ d.key = k

\* The value the scanner is in is the last it has read of its key.
Keeps(s) ==
  s.depth # 0 => [section |-> s.section, key |-> s.key, value |-> s.value] \in s.data

(* The fields of where the scanner is.                                     *)
LEMMA ScannerFields ==
  ASSUME NEW s \in Scanner
  PROVE  s.section \in Texts /\ s.key \in Nat /\ s.depth \in Int /\ s.data \in Readings /\ s.value \in Values
BY DEF Scanner

(* How a line is read: not at all, as the header of a section, as the      *)
(* first line of an entry, or as one more line of a value.                 *)
LEMMA ReadingOf ==
  ASSUME NEW s \in Scanner, NEW line \in Line, NEW t, t = ScanLine(s, line)
  PROVE  \/ t = s
         \/ line.kind = "header" /\ t.section = line.section /\ t.depth = 0 /\ t.data = s.data
         \/ /\ s.depth = 0 /\ Assigns(line)
            /\ t.section = s.section /\ t.key = line.key /\ t.value = Value(line) /\ t.depth = Delta(line)
            /\ t.data = Put(s.data, s.section, line.key, Value(line))
         \/ /\ s.depth # 0 /\ ~Skipped(line) /\ line.kind # "header"
            /\ t.section = s.section /\ t.key = s.key /\ t.value = Longer(s.value, line)
            /\ t.depth = s.depth + Delta(line)
            /\ t.data = Put(s.data, s.section, s.key, Longer(s.value, line))
<1>1. line.kind \in LineKind
  BY LineFields
<1>2. CASE Skipped(line)
  BY <1>2, ScannerMoves
<1>3. CASE line.kind = "header"
  BY <1>3, ScannerMoves
<1>4. CASE s.depth = 0 /\ Assigns(line)
  BY <1>4, ScannerMoves
<1>5. CASE s.depth # 0 /\ ~Skipped(line) /\ line.kind # "header"
  BY <1>5, ScannerMoves
<1>6. CASE s.depth = 0 /\ line.kind \in {"string", "close"}
  BY <1>6, ScannerMoves
<1> QED BY <1>1, <1>2, <1>3, <1>4, <1>5, <1>6 DEF LineKind, Skipped, Assigns

(* Put, by its parts.                                                      *)
LEMMA PutHas ==
  ASSUME NEW data \in Readings, NEW X \in Texts, NEW k \in Nat, NEW value \in Values
  PROVE  /\ [section |-> X, key |-> k, value |-> value] \in Put(data, X, k, value)
         /\ \A d : d.section # X \/ d.key # k => (d \in Put(data, X, k, value) <=> d \in data)
         /\ \A d \in Put(data, X, k, value) : d.section = X /\ d.key = k => d.value = value
<1>1. PICK n : n = [section |-> X, key |-> k, value |-> value]
  OBVIOUS
<1>2. PICK P : P = Put(data, X, k, value)
  OBVIOUS
<1>3. \A d : d \in P <=> \/ d \in data /\ (d.section # X \/ d.key # k)
                         \/ d = n
  BY <1>1, <1>2, PutIs
<1>4. n.section = X /\ n.key = k /\ n.value = value
  BY <1>1
<1>5. n \in P
  BY <1>3
<1>6. \A d : d.section # X \/ d.key # k => (d \in P <=> d \in data)
  BY <1>3, <1>4
<1>7. \A d \in P : d.section = X /\ d.key = k => d.value = value
  BY <1>3, <1>4
<1> QED BY <1>1, <1>2, <1>5, <1>6, <1>7

(* The keys Put leaves.                                                    *)
LEMMA PutKnows ==
  ASSUME NEW data \in Readings, NEW X \in Texts, NEW k \in Nat, NEW value \in Values, NEW Y, NEW j
  PROVE  Knows(Put(data, X, k, value), Y, j) <=> Knows(data, Y, j) \/ (Y = X /\ j = k)
<1>1. PICK n : n = [section |-> X, key |-> k, value |-> value]
  OBVIOUS
<1>2. PICK P : P = Put(data, X, k, value)
  OBVIOUS
<1>3. \A d : d \in P <=> \/ d \in data /\ (d.section # X \/ d.key # k)
                         \/ d = n
  BY <1>1, <1>2, PutIs
<1>4. n.section = X /\ n.key = k /\ n \in P
  BY <1>1, <1>3
<1>5. ASSUME Knows(P, Y, j) PROVE Knows(data, Y, j) \/ (Y = X /\ j = k)
  BY <1>5, <1>3, <1>4 DEF Knows
<1>6. ASSUME Y = X /\ j = k PROVE Knows(P, Y, j)
  BY <1>6, <1>4 DEF Knows
<1>7. ASSUME Knows(data, Y, j), ~(Y = X /\ j = k) PROVE Knows(P, Y, j)
  BY <1>7, <1>3 DEF Knows
<1> QED BY <1>2, <1>5, <1>6, <1>7

(* The value the scanner is in stays the last of its key, and no line      *)
(* makes it forget a key.                                                  *)
LEMMA KeepsOn ==
  ASSUME NEW s \in Scanner, NEW line \in Line, Keeps(s)
  PROVE  /\ Keeps(ScanLine(s, line))
         /\ \A X, k : Knows(ScanLine(s, line).data, X, k)
                        <=> \/ Knows(s.data, X, k)
                            \/ s.depth = 0 /\ Assigns(line) /\ s.section = X /\ line.key = k
<1>0. PICK t : t = ScanLine(s, line)
  OBVIOUS
<1>1. s.section \in Texts /\ s.key \in Nat /\ s.depth \in Int /\ s.data \in Readings /\ s.value \in Values
  BY ScannerFields
<1>2. line.key \in Nat /\ Value(line) \in Values
  BY LineFields, ValueIsTyped
<1> SUFFICES /\ Keeps(t)
             /\ \A X, k : Knows(t.data, X, k)
                            <=> \/ Knows(s.data, X, k)
                                \/ s.depth = 0 /\ Assigns(line) /\ s.section = X /\ line.key = k
  BY <1>0
<1>3. CASE s.depth = 0 /\ Assigns(line)
  <2>1. t.section = s.section /\ t.key = line.key /\ t.value = Value(line)
        /\ t.data = Put(s.data, s.section, line.key, Value(line))
    BY <1>0, <1>3, ScannerMoves
  <2>2. [section |-> s.section, key |-> line.key, value |-> Value(line)] \in t.data
    BY <1>1, <1>2, <2>1, PutHas
  <2>3. \A X, k : Knows(t.data, X, k) <=> Knows(s.data, X, k) \/ (X = s.section /\ k = line.key)
    <3>1. \A X, k : Knows(Put(s.data, s.section, line.key, Value(line)), X, k)
                      <=> Knows(s.data, X, k) \/ (X = s.section /\ k = line.key)
      BY <1>1, <1>2, PutKnows
    <3> QED BY <2>1, <3>1
  <2> QED BY <1>3, <2>1, <2>2, <2>3 DEF Keeps
<1>4. CASE ~(s.depth = 0 /\ Assigns(line)) /\ t = s
  BY <1>4
<1>5. CASE line.kind = "header"
  <2>1. ~Assigns(line)
    BY <1>5 DEF Assigns
  <2>2. t.depth = 0 /\ t.data = s.data
    BY <1>0, <1>5, ScannerMoves
  <2> QED BY <2>1, <2>2 DEF Keeps
<1>6. CASE s.depth # 0 /\ ~Skipped(line) /\ line.kind # "header"
  <2>1. t.section = s.section /\ t.key = s.key /\ t.value = Longer(s.value, line)
        /\ t.data = Put(s.data, s.section, s.key, Longer(s.value, line))
    BY <1>0, <1>6, ScannerMoves
  <2>2. Longer(s.value, line) \in Values
    BY <1>1, LongerIsTyped
  <2>3. [section |-> s.section, key |-> s.key, value |-> Longer(s.value, line)] \in t.data
    BY <1>1, <2>1, <2>2, PutHas
  <2>4. \A X, k : Knows(t.data, X, k) <=> Knows(s.data, X, k) \/ (X = s.section /\ k = s.key)
    <3>1. \A X, k : Knows(Put(s.data, s.section, s.key, Longer(s.value, line)), X, k)
                      <=> Knows(s.data, X, k) \/ (X = s.section /\ k = s.key)
      BY <1>1, <2>2, PutKnows
    <3> QED BY <2>1, <3>1
  <2>5. Knows(s.data, s.section, s.key)
    <3>1. PICK d : d = [section |-> s.section, key |-> s.key, value |-> s.value]
      OBVIOUS
    <3>2. d \in s.data /\ d.section = s.section /\ d.key = s.key
      BY <1>6, <3>1 DEF Keeps
    <3> QED BY <3>2 DEF Knows
  <2> QED BY <1>6, <2>1, <2>3, <2>4, <2>5 DEF Keeps
<1> QED BY <1>0, <1>3, <1>4, <1>5, <1>6, ReadingOf

\* Line n is read as the first of an entry of key k of section X.
Reads(f, n, X, k) ==
  /\ Scanned(f)[n - 1].depth = 0 /\ Scanned(f)[n - 1].section = X
  /\ Assigns(f[n]) /\ f[n].key = k

(* The keys that are read are those of the lines read as entries.          *)
LEMMA KeysScanned ==
  ASSUME NEW f \in Seq(Line)
  PROVE  \A n \in 0..Len(f) :
           /\ Keeps(Scanned(f)[n])
           /\ \A X, k : Knows(Scanned(f)[n].data, X, k) <=> \E m \in 1..n : Reads(f, m, X, k)
<1> DEFINE Good(n) == /\ Keeps(Scanned(f)[n])
                      /\ \A X, k : Knows(Scanned(f)[n].data, X, k) <=> \E m \in 1..n : Reads(f, m, X, k)
           D == {n \in 0..Len(f) : Good(n)}
<1>0. Len(f) \in Nat
  OBVIOUS
<1>1. 0 \in D
  <2>1. 0 \in 0..Len(f)
    BY <1>0
  <2>2. Scanned(f)[0] = Outset
    BY <2>1, BothAt
  <2>3. Keeps(Outset) /\ \A X, k : ~Knows(Outset.data, X, k)
    BY DEF Keeps, Outset, Knows
  <2>4. ~\E m \in 1..0 : TRUE
    OBVIOUS
  <2> QED BY <2>1, <2>2, <2>3, <2>4
<1>2. ASSUME NEW n \in 0..Len(f), n < Len(f) /\ n \in D PROVE n + 1 \in D
  <2>1. PICK m \in 1..Len(f) : m = n + 1 /\ m - 1 = n
    <3>1. n + 1 \in 1..Len(f) /\ (n + 1) - 1 = n
      BY <1>0, <1>2
    <3> QED BY <3>1
  <2>2. m \in 0..Len(f)
    BY <2>1
  <2>3. PICK s, t : s = Scanned(f)[n] /\ t = Scanned(f)[m]
    OBVIOUS
  <2>4. s \in Scanner /\ f[m] \in Line /\ t = ScanLine(s, f[m])
    BY <1>2, <2>1, <2>3, BothAt
  <2>5. Keeps(s) /\ \A X, k : Knows(s.data, X, k) <=> \E j \in 1..n : Reads(f, j, X, k)
    BY <1>2, <2>3
  <2>6. Keeps(t)
        /\ \A X, k : Knows(t.data, X, k)
                       <=> \/ Knows(s.data, X, k)
                           \/ s.depth = 0 /\ Assigns(f[m]) /\ s.section = X /\ f[m].key = k
    BY <2>4, <2>5, KeepsOn
  <2>7. \A X, k : Reads(f, m, X, k)
                    <=> s.depth = 0 /\ Assigns(f[m]) /\ s.section = X /\ f[m].key = k
    BY <2>1, <2>3 DEF Reads
  <2>8. \A j : j \in 1..m <=> j \in 1..n \/ j = m
    BY <2>1
  <2>9. ASSUME NEW X, NEW k
        PROVE  Knows(t.data, X, k) <=> \E j \in 1..m : Reads(f, j, X, k)
    BY <2>5, <2>6, <2>7, <2>8
  <2>10. Good(m)
    BY <2>3, <2>6, <2>9
  <2> QED BY <2>1, <2>2, <2>10
<1>3. \A n \in 0..Len(f) : n \in D
  <2> HIDE DEF D
  <2> QED BY <1>0, <1>1, <1>2, UpTo
<1> QED BY <1>3

(* In step, they are those of the entries the editor sees.                 *)
LEMMA KeysRead ==
  ASSUME NEW f, InStep(f), NEW X, NEW k
  PROVE  Knows(Scan(f), X, k) <=> k \in KeysOf(f, X)
<1>0. f \in Seq(Line)
  BY DEF InStep
<1>1. Len(f) \in Nat /\ Len(f) \in 0..Len(f) /\ DOMAIN f = 1..Len(f)
  <2>1. Len(f) \in Nat /\ DOMAIN f = 1..Len(f)
    BY <1>0
  <2> QED BY <2>1
<1>2. Knows(Scan(f), X, k) <=> \E m \in 1..Len(f) : Reads(f, m, X, k)
  BY <1>0, <1>1, KeysScanned DEF Scan
<1>3. ASSUME NEW m \in 1..Len(f)
      PROVE  Reads(f, m, X, k) <=> m \in Entries(f, X) /\ f[m].key = k
  <2>1. PICK n \in 0..Len(f) : n = m - 1 /\ n + 1 = m /\ n < Len(f)
    <3>1. m - 1 \in 0..Len(f) /\ (m - 1) + 1 = m /\ m - 1 < Len(f)
      BY <1>1
    <3> QED BY <3>1
  <2>2. Together(Scanned(f)[n], Index(f)[n])
    BY <1>0, AgreeIs
  <2>3. Index(f)[n] \in Cursor /\ f[m] \in Line /\ Index(f)[m] = IndexLine(Index(f)[n], f[m])
    BY <1>0, <2>1, BothAt
  <2>4. Index(f)[n].depth = 0 /\ Assigns(f[m]) => Index(f)[m].section = Index(f)[n].section
    BY <2>3, CursorMoves
  <2>5. m \in Entries(f, X) <=> Index(f)[n].depth = 0 /\ Assigns(f[m]) /\ Index(f)[m].section = X
    BY <1>1, <2>1 DEF Entries
  <2> QED BY <2>1, <2>2, <2>4, <2>5 DEF Reads, Together
<1>4. k \in KeysOf(f, X) <=> \E m \in Entries(f, X) : f[m].key = k
  BY DEF KeysOf
<1>5. Entries(f, X) \subseteq 1..Len(f)
  BY <1>1 DEF Entries
<1> QED BY <1>2, <1>3, <1>4, <1>5

(* Lines that both parsers count inside a value.                           *)
Readable(W) == \A i \in 1..Len(W) : W[i].kind \notin {"header", "bracket"}

(* Where each line of g comes from.                                        *)
LEMMA SwapPlaces ==
  ASSUME NEW f, NEW g, NEW p, NEW e, NEW W, NEW X, NEW K, CleanSwap(g, f, p, e, W, X, K),
         NEW n \in 1..Len(g)
  PROVE  \/ n \in 1..p /\ n \in 1..Len(f) /\ g[n] = f[n] /\ Alike(Index(f)[n - 1], Index(g)[n - 1])
         \/ \E i \in 1..Len(W) : n = p + i /\ g[n] = W[i]
         \/ \E m \in 1..Len(f) : /\ m > e /\ n = p + Len(W) + (m - e) /\ g[n] = f[m]
                                 /\ Alike(Index(f)[m - 1], Index(g)[n - 1])
<1>0. /\ p \in Nat /\ e \in Nat /\ p <= e /\ e <= Len(f)
      /\ f \in Seq(Line) /\ g \in Seq(Line) /\ W \in Seq(Line)
  BY DEF CleanSwap, Fits
<1>1. /\ Len(g) = p + Len(W) + (Len(f) - e) /\ \A i \in 1..p : g[i] = f[i]
      /\ \A i \in 1..Len(W) : g[p + i] = W[i]
      /\ \A i \in 1..(Len(f) - e) : g[p + Len(W) + i] = f[e + i]
  BY DEF CleanSwap, Swap
<1>2. PICK w, lf : w = Len(W) /\ lf = Len(f) /\ w \in Nat /\ lf \in Nat
  <2>1. Len(W) \in Nat /\ Len(f) \in Nat
    BY <1>0
  <2> QED BY <2>1
<1>3. CASE n <= p
  <2>1. n \in 1..p /\ n \in 1..Len(f) /\ n - 1 \in 0..p
    BY <1>0, <1>2, <1>3
  <2>2. g[n] = f[n]
    BY <1>1, <2>1
  <2>3. Alike(Index(f)[n - 1], Index(g)[n - 1])
    BY <2>1, SwapWalks
  <2> QED BY <2>1, <2>2, <2>3
<1>4. CASE n > p /\ n <= p + w
  <2>1. PICK i \in 1..w : n = p + i
    <3>1. n - p \in 1..w /\ n = p + (n - p)
      BY <1>0, <1>2, <1>4
    <3> QED BY <3>1
  <2>2. g[n] = W[i]
    BY <1>1, <1>2, <2>1
  <2> QED BY <1>2, <2>1, <2>2
<1>5. CASE n > p + w
  <2>1. n <= p + w + (lf - e)
    BY <1>1, <1>2
  <2>2. PICK m \in 1..lf : m > e /\ n = p + w + (m - e) /\ m - e \in 1..(lf - e)
                           /\ (m - 1) - e \in 0..(lf - e) /\ n - 1 = p + w + ((m - 1) - e)
                           /\ e + (m - e) = m /\ e + ((m - 1) - e) = m - 1
    <3>1. PICK m : m = n - p - w + e
      OBVIOUS
    <3>2. m \in 1..lf /\ m > e /\ n = p + w + (m - e) /\ m - e \in 1..(lf - e)
      BY <1>0, <1>2, <1>5, <2>1, <3>1
    <3>3. (m - 1) - e \in 0..(lf - e) /\ n - 1 = p + w + ((m - 1) - e)
          /\ e + (m - e) = m /\ e + ((m - 1) - e) = m - 1
      BY <1>0, <1>2, <3>2
    <3> QED BY <3>2, <3>3
  <2>3. g[n] = f[m]
    <3>1. g[p + w + (m - e)] = f[e + (m - e)]
      BY <1>1, <1>2, <2>2
    <3> QED BY <2>2, <3>1
  <2>4. Alike(Index(f)[m - 1], Index(g)[n - 1])
    <3>1. Alike(Index(f)[e + ((m - 1) - e)], Index(g)[p + w + ((m - 1) - e)])
      BY <1>2, <2>2, SwapWalks
    <3> QED BY <2>2, <3>1
  <2> QED BY <1>2, <2>2, <2>3, <2>4
<1> QED BY <1>0, <1>2, <1>3, <1>4, <1>5

(* A file read in step is so after a clean swap for lines both parsers     *)
(* count, and its values still close.                                      *)
LEMMA SwapInStep ==
  ASSUME NEW f, NEW g, NEW p, NEW e, NEW W, NEW X, NEW K, CleanSwap(g, f, p, e, W, X, K),
         InStep(f), Readable(W)
  PROVE  InStep(g) /\ (Balanced(f) => Balanced(g))
<1>0. /\ p \in Nat /\ e \in Nat /\ p <= e /\ e <= Len(f)
      /\ f \in Seq(Line) /\ g \in Seq(Line) /\ W \in Seq(Line)
  BY DEF CleanSwap, Fits
<1>1. ASSUME NEW n \in 1..Len(g), Index(g)[n - 1].depth # 0
      PROVE  g[n].kind \notin {"header", "bracket"}
  <2>1. CASE n \in 1..p /\ n \in 1..Len(f) /\ g[n] = f[n] /\ Alike(Index(f)[n - 1], Index(g)[n - 1])
    BY <1>1, <2>1 DEF InStep, Alike
  <2>2. CASE \E i \in 1..Len(W) : n = p + i /\ g[n] = W[i]
    BY <2>2 DEF Readable
  <2>3. CASE \E m \in 1..Len(f) : /\ m > e /\ n = p + Len(W) + (m - e) /\ g[n] = f[m]
                                  /\ Alike(Index(f)[m - 1], Index(g)[n - 1])
    <3>1. PICK m \in 1..Len(f) : g[n] = f[m] /\ Alike(Index(f)[m - 1], Index(g)[n - 1])
      BY <2>3
    <3> QED BY <1>1, <3>1 DEF InStep, Alike
  <2> QED BY <2>1, <2>2, <2>3, SwapPlaces
<1>2. ASSUME Balanced(f) PROVE Balanced(g)
  <2>1. PICK i : i = Len(f) - e
    OBVIOUS
  <2>2. Len(f) \in Nat /\ Len(W) \in Nat
    BY <1>0
  <2>3. i \in 0..(Len(f) - e) /\ e + i = Len(f)
    BY <1>0, <2>1, <2>2
  <2>4. Len(g) = p + Len(W) + i
    BY <2>1 DEF CleanSwap, Swap
  <2>5. Alike(Index(f)[e + i], Index(g)[p + Len(W) + i])
    BY <2>3, SwapWalks
  <2>6. Alike(Index(f)[Len(f)], Index(g)[Len(g)])
    BY <2>3, <2>4, <2>5
  <2> QED BY <1>2, <2>6 DEF Balanced, Alike
<1> QED BY <1>0, <1>1, <1>2 DEF InStep

-----------------------------------------------------------------------------
(* What has been read, but for some keys of a section.                     *)
Without(data, X, K) == {d \in data : d.section # X \/ d.key \notin K}

(* What Put changes of it.                                                 *)
LEMMA PutWithout ==
  ASSUME NEW a \in Readings, NEW b \in Readings, NEW X, NEW K, NEW Y \in Texts, NEW k \in Nat,
         NEW value \in Values
  PROVE  /\ Y = X /\ k \in K => Without(Put(a, Y, k, value), X, K) = Without(a, X, K)
         /\ Without(a, X, K) = Without(b, X, K)
              => Without(Put(a, Y, k, value), X, K) = Without(Put(b, Y, k, value), X, K)
<1>0. PICK n : n = [section |-> Y, key |-> k, value |-> value]
  OBVIOUS
<1>1. n.section = Y /\ n.key = k
  BY <1>0
<1>2. \A d : d \in Put(a, Y, k, value) <=> (d \in a /\ (d.section # Y \/ d.key # k)) \/ d = n
  BY <1>0, PutIs
<1>3. \A d : d \in Put(b, Y, k, value) <=> (d \in b /\ (d.section # Y \/ d.key # k)) \/ d = n
  BY <1>0, PutIs
<1>4. ASSUME Y = X /\ k \in K PROVE Without(Put(a, Y, k, value), X, K) = Without(a, X, K)
  <2>1. \A d : d \in Put(a, Y, k, value) /\ (d.section # X \/ d.key \notin K)
                 <=> d \in a /\ (d.section # X \/ d.key \notin K)
    BY <1>1, <1>2, <1>4
  <2> QED BY <2>1 DEF Without
<1>5. ASSUME Without(a, X, K) = Without(b, X, K)
      PROVE  Without(Put(a, Y, k, value), X, K) = Without(Put(b, Y, k, value), X, K)
  <2>1. \A d : d \in a /\ (d.section # X \/ d.key \notin K) <=> d \in b /\ (d.section # X \/ d.key \notin K)
    BY <1>5 DEF Without
  <2>2. \A d : d \in Put(a, Y, k, value) /\ (d.section # X \/ d.key \notin K)
                 <=> d \in Put(b, Y, k, value) /\ (d.section # X \/ d.key \notin K)
    BY <1>2, <1>3, <2>1
  <2> QED BY <2>2 DEF Without
<1> QED BY <1>4, <1>5

(* Two places the scanner goes on from alike, but for what it has read of  *)
(* some keys of a section.                                                 *)
Same(s, t, X, K) ==
  /\ s.section = t.section /\ s.depth = t.depth
  /\ s.depth # 0 => s.key = t.key /\ s.value = t.value
  /\ Without(s.data, X, K) = Without(t.data, X, K)

(* They stay so over a line.                                               *)
LEMMA StaysSame ==
  ASSUME NEW s \in Scanner, NEW t \in Scanner, NEW line \in Line, NEW X, NEW K, Same(s, t, X, K)
  PROVE  Same(ScanLine(s, line), ScanLine(t, line), X, K)
<1>0. PICK u, v : u = ScanLine(s, line) /\ v = ScanLine(t, line)
  OBVIOUS
<1>1. /\ s.section = t.section /\ s.depth = t.depth
      /\ s.depth # 0 => s.key = t.key /\ s.value = t.value
      /\ Without(s.data, X, K) = Without(t.data, X, K)
  BY DEF Same
<1>2. line.kind \in LineKind /\ line.key \in Nat /\ Value(line) \in Values
  BY LineFields, ValueIsTyped
<1>3. /\ s.section \in Texts /\ s.key \in Nat /\ s.data \in Readings /\ s.value \in Values
      /\ t.section \in Texts /\ t.key \in Nat /\ t.data \in Readings /\ t.value \in Values
  BY ScannerFields
<1>4. CASE Skipped(line)
  <2>1. u = s /\ v = t
    BY <1>0, <1>4, ScannerMoves
  <2> QED BY <1>0, <2>1
<1>5. CASE line.kind = "header"
  <2>1. u.section = line.section /\ u.depth = 0 /\ u.data = s.data
    BY <1>0, <1>5, ScannerMoves
  <2>2. v.section = line.section /\ v.depth = 0 /\ v.data = t.data
    BY <1>0, <1>5, ScannerMoves
  <2> QED BY <1>0, <1>1, <2>1, <2>2 DEF Same
<1>6. CASE s.depth = 0 /\ Assigns(line)
  <2>1. u.section = s.section /\ u.key = line.key /\ u.depth = Delta(line) /\ u.value = Value(line)
        /\ u.data = Put(s.data, s.section, line.key, Value(line))
    BY <1>0, <1>6, ScannerMoves
  <2>2. v.section = t.section /\ v.key = line.key /\ v.depth = Delta(line) /\ v.value = Value(line)
        /\ v.data = Put(t.data, t.section, line.key, Value(line))
    BY <1>0, <1>1, <1>6, ScannerMoves
  <2>3. Without(Put(s.data, s.section, line.key, Value(line)), X, K)
          = Without(Put(t.data, s.section, line.key, Value(line)), X, K)
    BY <1>1, <1>2, <1>3, PutWithout
  <2>4. Without(u.data, X, K) = Without(v.data, X, K)
    BY <1>1, <2>1, <2>2, <2>3
  <2> QED BY <1>0, <1>1, <2>1, <2>2, <2>4 DEF Same
<1>7. CASE s.depth # 0 /\ ~Skipped(line) /\ line.kind # "header"
  <2>0. PICK w : w = Longer(s.value, line)
    OBVIOUS
  <2>1. u.section = s.section /\ u.key = s.key /\ u.depth = s.depth + Delta(line) /\ u.value = w
        /\ u.data = Put(s.data, s.section, s.key, w)
    BY <1>0, <1>7, <2>0, ScannerMoves
  <2>2. t.depth # 0 /\ t.value = s.value /\ t.key = s.key
    BY <1>1, <1>7
  <2>3. v.section = t.section /\ v.key = t.key /\ v.depth = t.depth + Delta(line) /\ v.value = w
        /\ v.data = Put(t.data, t.section, t.key, w)
    BY <1>0, <1>7, <2>0, <2>2, ScannerMoves
  <2>4. w \in Values
    BY <1>3, <2>0, LongerIsTyped
  <2>5. Without(Put(s.data, s.section, s.key, w), X, K) = Without(Put(t.data, s.section, s.key, w), X, K)
    BY <1>1, <1>3, <2>4, PutWithout
  <2>6. Without(u.data, X, K) = Without(v.data, X, K)
    BY <1>1, <2>1, <2>2, <2>3, <2>5
  <2> QED BY <1>0, <1>1, <2>1, <2>2, <2>3, <2>6 DEF Same
<1>8. CASE s.depth = 0 /\ line.kind \in {"string", "close"}
  <2>1. u = s
    BY <1>0, <1>8, ScannerMoves
  <2>2. v = t
    BY <1>0, <1>1, <1>8, ScannerMoves
  <2> QED BY <1>0, <2>1, <2>2
<1> QED BY <1>2, <1>4, <1>5, <1>6, <1>7, <1>8 DEF LineKind, Skipped, Assigns

(* Over the same lines the scanner reads the same.                         *)
LEMMA RunsSame ==
  ASSUME NEW f \in Seq(Line), NEW g \in Seq(Line), NEW X, NEW K, NEW a \in Nat, NEW b \in Nat, NEW m \in Nat,
         a + m <= Len(f), b + m <= Len(g), \A i \in 1..m : f[a + i] = g[b + i],
         Same(Scanned(f)[a], Scanned(g)[b], X, K)
  PROVE  \A i \in 0..m : Same(Scanned(f)[a + i], Scanned(g)[b + i], X, K)
<1> DEFINE D == {i \in 0..m : Same(Scanned(f)[a + i], Scanned(g)[b + i], X, K)}
<1>0. Len(f) \in Nat /\ Len(g) \in Nat
  OBVIOUS
<1>1. 0 \in D
  <2>1. a + 0 = a /\ b + 0 = b
    OBVIOUS
  <2> QED BY <2>1
<1>2. ASSUME NEW i \in 0..m, i < m, i \in D PROVE i + 1 \in D
  <2>1. PICK x, y : x = a + i /\ y = b + i
    OBVIOUS
  <2>2. /\ i + 1 \in 1..m /\ i + 1 \in 0..m /\ a + (i + 1) = x + 1 /\ b + (i + 1) = y + 1
        /\ x \in 0..Len(f) /\ x < Len(f) /\ y \in 0..Len(g) /\ y < Len(g)
    BY <1>0, <1>2, <2>1
  <2>3. Scanned(f)[x] \in Scanner /\ f[x + 1] \in Line
        /\ Scanned(f)[x + 1] = ScanLine(Scanned(f)[x], f[x + 1])
    BY <2>2, BothAt
  <2>4. Scanned(g)[y] \in Scanner /\ Scanned(g)[y + 1] = ScanLine(Scanned(g)[y], g[y + 1])
    BY <2>2, BothAt
  <2>5. f[x + 1] = g[y + 1]
    <3>1. f[a + (i + 1)] = g[b + (i + 1)]
      BY <2>2
    <3> QED BY <2>2, <3>1
  <2>6. Same(Scanned(f)[x], Scanned(g)[y], X, K)
    BY <1>2, <2>1
  <2>7. Same(Scanned(f)[x + 1], Scanned(g)[y + 1], X, K)
    BY <2>3, <2>4, <2>5, <2>6, StaysSame
  <2> QED BY <2>2, <2>7
<1> HIDE DEF D
<1>3. \A i \in 0..m : i \in D
  BY <1>1, <1>2, UpTo
<1> QED BY <1>3 DEF D

(* A line of an entry of one of these keys is read as such.                *)
LEMMA ReadsTouched ==
  ASSUME NEW f, InStep(f), NEW X, NEW K, NEW n \in 0..Len(f), n < Len(f), n + 1 \in Touched(f, X, K)
  PROVE  Without(Scanned(f)[n + 1].data, X, K) = Without(Scanned(f)[n].data, X, K)
<1>0. f \in Seq(Line)
  BY DEF InStep
<1>1. PICK s, t, c, d, line : s = Scanned(f)[n] /\ t = Scanned(f)[n + 1] /\ c = Index(f)[n] /\ d = Index(f)[n + 1]
                        /\ line = f[n + 1]
  OBVIOUS
<1>2. s \in Scanner /\ c \in Cursor /\ line \in Line /\ t = ScanLine(s, line) /\ d = IndexLine(c, line)
  BY <1>0, <1>1, BothAt
<1>3. Together(s, c)
  BY <1>0, <1>1, AgreeIs
<1>4. (n + 1) - 1 = n /\ n + 1 \in 1..Len(f)
  <2>1. Len(f) \in Nat
    BY <1>0
  <2> QED BY <2>1
<1>5. d.section = X /\ d.key \in K /\ (c.depth # 0 \/ Assigns(line))
  BY <1>1, <1>4 DEF Touched
<1>6. c.depth # 0 => line.kind \notin {"header", "bracket"}
  <2>1. PICK m \in 1..Len(f) : m = n + 1 /\ m - 1 = n
    BY <1>4
  <2>2. Index(f)[m - 1].depth # 0 => f[m].kind \notin {"header", "bracket"}
    BY DEF InStep
  <2> QED BY <1>1, <2>1, <2>2
<1>7. line.key \in Nat /\ Value(line) \in Values
  BY <1>2, LineFields, ValueIsTyped
<1>8. s.section \in Texts /\ s.key \in Nat /\ s.data \in Readings /\ s.value \in Values
  BY <1>2, ScannerFields
<1>9. CASE c.depth = 0
  <2>1. Assigns(line) /\ s.depth = 0
    BY <1>3, <1>5, <1>9 DEF Together
  <2>2. d.section = c.section /\ d.key = line.key
    BY <1>2, <1>9, <2>1, CursorMoves
  <2>3. t.data = Put(s.data, s.section, line.key, Value(line))
    BY <1>2, <2>1, ScannerMoves
  <2>4. s.section = X /\ line.key \in K
    BY <1>3, <1>5, <2>2 DEF Together
  <2>5. Without(Put(s.data, s.section, line.key, Value(line)), X, K) = Without(s.data, X, K)
    BY <1>7, <1>8, <2>4, PutWithout
  <2> QED BY <1>1, <2>3, <2>5
<1>10. CASE c.depth # 0
  <2>1. s.depth # 0 /\ s.section = c.section /\ s.key = c.key
    BY <1>3, <1>10 DEF Together
  <2>2. d.section = c.section /\ d.key = c.key
    BY <1>2, <1>10, CursorMoves
  <2>3. CASE Skipped(line)
    <3>1. t = s
      BY <1>2, <2>3, ScannerMoves
    <3> QED BY <1>1, <3>1
  <2>4. CASE ~Skipped(line)
    <3>1. PICK w : w = Longer(s.value, line)
      OBVIOUS
    <3>2. t.data = Put(s.data, s.section, s.key, w)
      BY <1>2, <1>6, <1>10, <2>1, <2>4, <3>1, ScannerMoves
    <3>3. w \in Values
      BY <1>2, <1>8, <3>1, LongerIsTyped
    <3>4. s.section = X /\ s.key \in K
      BY <1>5, <2>1, <2>2
    <3>5. Without(Put(s.data, s.section, s.key, w), X, K) = Without(s.data, X, K)
      BY <1>8, <3>3, <3>4, PutWithout
    <3> QED BY <1>1, <3>2, <3>5
  <2> QED BY <2>3, <2>4
<1> QED BY <1>9, <1>10

(* So are all lines of such entries.                                       *)
LEMMA ReadsAllTouched ==
  ASSUME NEW f, InStep(f), NEW X, NEW K, NEW a \in Nat, NEW c \in Nat, a <= c, c <= Len(f),
         \A j \in (a + 1)..c : j \in Touched(f, X, K)
  PROVE  Without(Scanned(f)[c].data, X, K) = Without(Scanned(f)[a].data, X, K)
<1>0. f \in Seq(Line) /\ Len(f) \in Nat
  BY DEF InStep
<1>1. PICK m : m = c - a
  OBVIOUS
<1>2. m \in Nat /\ a + m = c
  BY <1>1
<1> DEFINE D == {i \in 0..m : Without(Scanned(f)[a + i].data, X, K) = Without(Scanned(f)[a].data, X, K)}
<1>3. 0 \in D
  <2>1. a + 0 = a
    OBVIOUS
  <2> QED BY <1>2, <2>1
<1>4. ASSUME NEW i \in 0..m, i < m, i \in D PROVE i + 1 \in D
  <2>1. PICK x : x = a + i
    OBVIOUS
  <2>2. x \in 0..Len(f) /\ x < Len(f) /\ x + 1 \in (a + 1)..c /\ a + (i + 1) = x + 1 /\ i + 1 \in 0..m
    BY <1>0, <1>2, <1>4, <2>1
  <2>3. Without(Scanned(f)[x + 1].data, X, K) = Without(Scanned(f)[x].data, X, K)
    BY <2>2, ReadsTouched
  <2>4. Without(Scanned(f)[x].data, X, K) = Without(Scanned(f)[a].data, X, K)
    BY <1>4, <2>1
  <2> QED BY <2>2, <2>3, <2>4
<1> HIDE DEF D
<1>5. \A i \in 0..m : i \in D
  BY <1>2, <1>3, <1>4, UpTo
<1>6. m \in D
  BY <1>2, <1>5
<1> QED BY <1>2, <1>6 DEF D

(* A clean swap of entries of some keys leaves what is read of the others. *)
LEMMA SwapReadsRest ==
  ASSUME NEW f, NEW g, NEW p, NEW e, NEW W, NEW X, NEW K, CleanSwap(g, f, p, e, W, X, K),
         InStep(f), Readable(W)
  PROVE  Without(Scan(g), X, K) = Without(Scan(f), X, K)
<1>0. /\ f \in Seq(Line) /\ g \in Seq(Line) /\ p \in Nat /\ e \in Nat /\ p <= e /\ e <= Len(f)
      /\ Fits(W, K) /\ W \in Seq(Line) /\ Len(f) \in Nat /\ Len(g) \in Nat /\ Len(W) \in Nat
      /\ \A j \in (p + 1)..e : j \in Touched(f, X, K)
      /\ Index(f)[e].depth = 0 /\ Index(f)[e].section = X
  BY DEF CleanSwap, Fits
<1>1. /\ Len(g) = p + Len(W) + (Len(f) - e) /\ \A i \in 1..p : g[i] = f[i]
      /\ \A i \in 1..(Len(f) - e) : g[p + Len(W) + i] = f[e + i]
  BY DEF CleanSwap, Swap
<1>2. InStep(g)
  BY SwapInStep
<1>3. Same(Scanned(f)[p], Scanned(g)[p], X, K)
  <2>1. PICK z : z = 0
    OBVIOUS
  <2>2. z \in Nat /\ z \in 0..Len(f) /\ z \in 0..Len(g) /\ z + p <= Len(f) /\ z + p <= Len(g) /\ z + p = p
        /\ p \in 0..p
    BY <1>0, <1>1, <2>1
  <2>3. Scanned(f)[z] = Outset /\ Scanned(g)[z] = Outset
    BY <1>0, <2>1, <2>2, BothAt
  <2>4. Same(Scanned(f)[z], Scanned(g)[z], X, K)
    BY <2>3 DEF Same
  <2>5. \A i \in 1..p : f[z + i] = g[z + i]
    BY <1>1, <2>1
  <2>6. \A i \in 0..p : Same(Scanned(f)[z + i], Scanned(g)[z + i], X, K)
    BY <1>0, <2>2, <2>4, <2>5, RunsSame
  <2>7. Same(Scanned(f)[z + p], Scanned(g)[z + p], X, K)
    BY <2>2, <2>6
  <2> QED BY <2>2, <2>7
<1>4. PICK q : q = p + Len(W)
  OBVIOUS
<1>5. q \in Nat /\ p <= q /\ q <= Len(g) /\ p \in 0..Len(g) /\ p \in 0..Len(f) /\ e \in 0..Len(f) /\ q \in 0..Len(g)
  BY <1>0, <1>1, <1>4
<1>6. \A j \in (p + 1)..q : j \in Touched(g, X, K)
  <2> SUFFICES ASSUME NEW j \in (p + 1)..q PROVE j \in Touched(g, X, K)
    OBVIOUS
  <2>1. PICK i \in 1..Len(W) : j = p + i
    <3>1. j - p \in 1..Len(W) /\ j = p + (j - p)
      BY <1>0, <1>4
    <3> QED BY <3>1
  <2>2. Standing(W, g, p) /\ Index(g)[p].section = X
    BY SwapWalks
  <2>3. /\ Index(g)[p + i].section = X /\ Index(g)[p + i].key \in K
        /\ Index(g)[(p + i) - 1].depth # 0 \/ Assigns(g[p + i])
    BY <1>0, <2>2 DEF Fits
  <2>4. j \in DOMAIN g
    BY <1>0, <1>5
  <2> QED BY <2>1, <2>3, <2>4 DEF Touched
<1>7. Without(Scanned(f)[e].data, X, K) = Without(Scanned(f)[p].data, X, K)
  BY <1>0, ReadsAllTouched
<1>8. Without(Scanned(g)[q].data, X, K) = Without(Scanned(g)[p].data, X, K)
  BY <1>2, <1>5, <1>6, ReadsAllTouched
<1>9. Same(Scanned(f)[e], Scanned(g)[q], X, K)
  <2>1. Together(Scanned(f)[e], Index(f)[e]) /\ Together(Scanned(g)[q], Index(g)[q])
    BY <1>0, <1>2, <1>5, AgreeIs
  <2>2. Index(g)[q].section = X /\ Index(g)[q].depth = 0
    BY <1>4, SwapWalks
  <2>3. Without(Scanned(f)[p].data, X, K) = Without(Scanned(g)[p].data, X, K)
    BY <1>3 DEF Same
  <2> QED BY <1>0, <1>7, <1>8, <2>1, <2>2, <2>3 DEF Same, Together
<1>10. PICK m : m = Len(f) - e
  OBVIOUS
<1>11. m \in Nat /\ e + m = Len(f) /\ q + m = Len(g) /\ m \in 0..m /\ e + m <= Len(f) /\ q + m <= Len(g)
  BY <1>0, <1>1, <1>4, <1>10
<1>12. \A i \in 1..m : f[e + i] = g[q + i]
  BY <1>1, <1>4, <1>10
<1>13. \A i \in 0..m : Same(Scanned(f)[e + i], Scanned(g)[q + i], X, K)
  BY <1>0, <1>5, <1>9, <1>11, <1>12, RunsSame
<1>14. Same(Scanned(f)[e + m], Scanned(g)[q + m], X, K)
  BY <1>11, <1>13
<1> QED BY <1>11, <1>14 DEF Same, Scan

\* What is read of key k of section X.
Of(X, k, value) == [section |-> X, key |-> k, value |-> value]

(* Over a block, wherever it stands.                                       *)
Runs(W, f, p, k) ==
  \A i \in 1..Len(W) : /\ Index(f)[p + i].section = Index(f)[p].section
                       /\ Index(f)[p + i].key = k
                       /\ Index(f)[p + i].depth = 0 <=> i = Len(W)

(* A block that stands in a file runs there.                               *)
LEMMA StandingRuns ==
  ASSUME NEW W, NEW k, IsBlock(W, k), NEW f \in Seq(Line), NEW p \in Nat, Standing(W, f, p)
  PROVE  Runs(W, f, p, k)
<1>1. p + Len(W) <= Len(f) /\ (\A i \in 1..Len(W) : f[p + i] = W[i]) /\ Index(f)[p].depth = 0
  BY DEF Standing
<1>2. \A i \in 1..Len(W) : /\ Index(f)[p + i].section = Index(f)[p].section
                           /\ Index(f)[p + i].key = k
                           /\ Index(f)[p + i].depth = 0 <=> i = Len(W)
  BY <1>1, BlockRuns
<1> QED BY <1>2 DEF Runs

(* What a value means that is emitted where the parsers are in no value.   *)
LEMMA ValueRead ==
  ASSUME NEW g, InStep(g), NEW p \in Nat, NEW X, NEW k \in Nat, NEW value, Writable(value),
         Readable(value.body), NEW W, W = Emit(k, value), Standing(W, g, p), Index(g)[p].section = X
  PROVE  Of(X, k, Read(value)) \in Scanned(g)[p + Len(W)].data
<1>0. g \in Seq(Line) /\ Len(g) \in Nat
  BY DEF InStep
<1>1. value \in Values /\ value.body \in Seq(Line) /\ \A j \in DOMAIN value.body : value.body[j].ended
  BY DEF Writable, Written, Values
<1>2. PICK body : body = value.body
  OBVIOUS
<1>3. body \in Seq(Line) /\ Len(body) \in Nat /\ DOMAIN body = 1..Len(body)
      /\ \A j \in 1..Len(body) : body[j] \in Line /\ body[j].ended
  <2>1. body \in Seq(Line)
    BY <1>1, <1>2
  <2>2. Len(body) \in Nat /\ DOMAIN body = 1..Len(body) /\ \A j \in 1..Len(body) : body[j] \in Line
    BY <2>1
  <2> QED BY <1>1, <1>2, <2>1, <2>2
<1>4. /\ W \in Seq(Line) /\ Len(W) = 1 + Len(body) /\ W[1].key = k /\ Assigns(W[1])
      /\ W[1].star = value.star /\ W[1].text = value.text
      /\ \A i \in 1..Len(body) : W[i + 1] = body[i]
  BY <1>1, <1>2, EmitLines
<1>5. IsBlock(W, k)
  BY EmitIsBlock
<1>6. p + Len(W) <= Len(g) /\ (\A i \in 1..Len(W) : g[p + i] = W[i]) /\ Index(g)[p].depth = 0
  BY DEF Standing
<1>7. \A i \in 1..Len(W) : /\ Index(g)[p + i].section = X /\ Index(g)[p + i].key = k
                           /\ Index(g)[p + i].depth = 0 <=> i = Len(W)
  <2>1. Runs(W, g, p, k)
    BY <1>0, <1>5, StandingRuns
  <2> SUFFICES ASSUME NEW i \in 1..Len(W)
               PROVE  /\ Index(g)[p + i].section = X /\ Index(g)[p + i].key = k
                      /\ Index(g)[p + i].depth = 0 <=> i = Len(W)
    OBVIOUS
  <2>2. Index(g)[p + i].section = Index(g)[p].section
    BY <2>1 DEF Runs
  <2>3. Index(g)[p + i].key = k
    BY <2>1 DEF Runs
  <2>4. Index(g)[p + i].depth = 0 <=> i = Len(W)
    BY <2>1 DEF Runs
  <2> QED BY <2>2, <2>3, <2>4
<1>8. \A n \in 0..Len(g) : Together(Scanned(g)[n], Index(g)[n])
  BY <1>0, AgreeIs
<1>9. PICK at : at = {i \in DOMAIN body : ~Skipped(body[i])}
  OBVIOUS
<1>10. PICK F : /\ Sifts(F, body, at) /\ Where(body, at) = F[Len(body)]
                /\ \A n \in 0..Len(body) : F[n] \in Seq(Line)
  BY <1>3, WhereIs
<1>11. /\ F[0] = <<>>
       /\ \A n \in 1..Len(body) : F[n] = IF n \in at THEN Append(F[n - 1], body[n]) ELSE F[n - 1]
  <2>1. F = [n \in 0..Len(body) |->
               IF n = 0 THEN <<>> ELSE IF n \in at THEN Append(F[n - 1], body[n]) ELSE F[n - 1]]
    BY <1>10 DEF Sifts
  <2>2. 0 \in 0..Len(body)
    BY <1>3
  <2>3. F[0] = <<>>
    BY <2>1, <2>2, Zenon
  <2>4. ASSUME NEW n \in 1..Len(body)
        PROVE  F[n] = IF n \in at THEN Append(F[n - 1], body[n]) ELSE F[n - 1]
    <3>1. n \in 0..Len(body) /\ n # 0
      OBVIOUS
    <3> QED BY <2>1, <3>1, Zenon
  <2> QED BY <2>3, <2>4
<1>12. PICK star, text : star = value.star /\ text = value.text
  OBVIOUS
\* What the scanner has read of the value after i lines of its body.
<1> DEFINE So(i) == [star |-> star, text |-> text, body |-> F[i]]
           Good(i, s) == s.value = So(i) /\ s.section = X /\ s.key = k /\ Of(X, k, So(i)) \in s.data
           D == {i \in 0..Len(body) : Good(i, Scanned(g)[p + 1 + i])}
<1>13. star \in BOOLEAN /\ text \in Texts
  BY <1>1, <1>12 DEF Values
<1>14. \A i \in 0..Len(body) : So(i) \in Values
  BY <1>10, <1>13 DEF Values
<1>15. 0 \in D
  <2>1. PICK s, t, line : s = Scanned(g)[p] /\ t = Scanned(g)[p + 1] /\ line = g[p + 1]
    OBVIOUS
  <2>2. p \in 0..Len(g) /\ p < Len(g) /\ 1 \in 1..Len(W) /\ p + 1 + 0 = p + 1
    BY <1>0, <1>3, <1>4, <1>6
  <2>3. s \in Scanner /\ line \in Line /\ t = ScanLine(s, line)
    BY <1>0, <2>1, <2>2, BothAt
  <2>4. line = W[1]
    BY <1>6, <2>1, <2>2
  <2>5. s.depth = 0 /\ s.section = X
    BY <1>6, <1>8, <2>1, <2>2 DEF Together
  <2>6. PICK v : v = Value(line)
    OBVIOUS
  <2>7. v = So(0)
    BY <1>4, <1>11, <1>12, <2>4, <2>6, Zenon DEF Value
  <2>8. t.section = s.section /\ t.key = line.key /\ t.value = v
        /\ t.data = Put(s.data, s.section, line.key, v)
    BY <1>4, <2>3, <2>4, <2>5, <2>6, ScannerMoves
  <2>9. s.section \in Texts /\ s.data \in Readings /\ v \in Values
    BY <2>3, <2>6, ScannerFields, ValueIsTyped
  <2>10. t.section = X /\ t.key = k
    BY <1>4, <2>4, <2>5, <2>8
  <2>11. [section |-> X, key |-> k, value |-> v] \in t.data
    <3>1. [section |-> s.section, key |-> k, value |-> v] \in Put(s.data, s.section, k, v)
      BY <2>9, PutHas
    <3> QED BY <1>4, <2>4, <2>5, <2>8, <3>1
  <2>12. Good(0, t)
    <3> HIDE DEF So
    <3> QED BY <2>7, <2>8, <2>10, <2>11 DEF Of
  <2>13. 0 \in 0..Len(body)
    BY <1>3
  <2> HIDE DEF Good
  <2> QED BY <2>1, <2>2, <2>12, <2>13
<1>16. ASSUME NEW i \in 0..Len(body), i < Len(body), i \in D PROVE i + 1 \in D
  <2>1. PICK x, j : x = p + 1 + i /\ j = i + 1
    OBVIOUS
  <2>2. j \in 1..Len(body) /\ j \in 0..Len(body) /\ j - 1 = i
    BY <1>3, <1>16, <2>1
  <2>3. x \in 0..Len(g) /\ x < Len(g) /\ x + 1 = p + 1 + j /\ x = p + j /\ x + 1 = p + (j + 1)
        /\ j \in 1..Len(W) /\ j # Len(W) /\ j + 1 \in 1..Len(W)
    <3>1. PICK lb, lw, lg : lb = Len(body) /\ lw = Len(W) /\ lg = Len(g)
      OBVIOUS
    <3>2. lb \in Nat /\ lw = 1 + lb /\ lg \in Nat /\ p + lw <= lg /\ j \in 1..lb /\ i \in Nat
      BY <1>0, <1>3, <1>4, <1>6, <2>2, <3>1
    <3>3. x \in 0..lg /\ x < lg /\ x + 1 = p + 1 + j /\ x = p + j /\ x + 1 = p + (j + 1)
      BY <2>1, <3>2
    <3>4. j \in 1..lw /\ j # lw /\ j + 1 \in 1..lw
      BY <3>2
    <3> QED BY <3>1, <3>3, <3>4
  <2>4. PICK s, t, line : s = Scanned(g)[x] /\ t = Scanned(g)[x + 1] /\ line = g[x + 1]
    OBVIOUS
  <2>5. s \in Scanner /\ line \in Line /\ t = ScanLine(s, line)
    BY <1>0, <2>3, <2>4, BothAt
  <2>6. line = body[j]
    <3>1. g[p + (j + 1)] = W[j + 1]
      BY <1>6, <2>3
    <3>2. W[j + 1] = body[j]
      BY <1>4, <2>2
    <3> QED BY <2>3, <2>4, <3>1, <3>2
  <2>7. s.depth # 0
    <3>1. Index(g)[p + j].depth # 0
      BY <1>7, <2>3
    <3>2. Together(s, Index(g)[x])
      BY <1>8, <2>3, <2>4
    <3> QED BY <2>3, <3>1, <3>2 DEF Together
  <2>8. Good(i, s)
    BY <1>16, <2>1, <2>4
  <2>9. line.kind # "header" /\ line.ended = TRUE
    <3>1. line.kind # "header"
      BY <1>2, <2>2, <2>6 DEF Readable
    <3>2. line.ended /\ line.ended \in BOOLEAN
      BY <1>3, <2>2, <2>5, <2>6, LineFields
    <3> QED BY <3>1, <3>2
  <2>10. j \in at <=> ~Skipped(line)
    BY <1>3, <1>9, <2>2, <2>6
  <2>11. Good(j, t)
    <3>1. CASE Skipped(line)
      <4>1. t = s
        BY <2>5, <3>1, ScannerMoves
      <4>2. F[j] = F[j - 1]
        BY <1>11, <2>2, <2>10, <3>1
      <4>3. So(j) = So(i)
        BY <2>2, <4>2
      <4> HIDE DEF So
      <4> QED BY <2>8, <4>1, <4>3
    <3>2. CASE ~Skipped(line)
      <4>1. PICK w : w = Longer(s.value, line)
        OBVIOUS
      <4>2. t.section = s.section /\ t.key = s.key /\ t.value = w /\ t.data = Put(s.data, s.section, s.key, w)
        BY <2>5, <2>7, <2>9, <3>2, <4>1, ScannerMoves
      <4>3. s.section \in Texts /\ s.key \in Nat /\ s.data \in Readings /\ s.value \in Values
        BY <2>5, ScannerFields
      <4>4. w \in Values /\ w.star = s.value.star /\ w.text = s.value.text
            /\ w.body = Append(s.value.body, [line EXCEPT !.ended = TRUE])
        BY <2>5, <4>1, <4>3, LongerIsTyped
      <4>5. [line EXCEPT !.ended = TRUE] = line
        <5>1. line = [kind |-> line.kind, section |-> line.section, key |-> line.key, star |-> line.star,
                      text |-> line.text, ended |-> line.ended]
          BY <2>5 DEF Line
        <5> QED BY <2>9, <5>1
      <4>6. s.value.star = star /\ s.value.text = text /\ s.value.body = F[i]
        BY <2>8
      <4>7. F[j] = Append(F[i], line)
        BY <1>11, <2>2, <2>6, <2>10, <3>2
      <4>8. w.star = star /\ w.text = text /\ w.body = F[j]
        BY <4>4, <4>5, <4>6, <4>7
      <4>9. w = So(j)
        <5>1. w = [star |-> w.star, text |-> w.text, body |-> w.body]
          BY <4>4 DEF Values
        <5> QED BY <4>8, <5>1
      <4>10. [section |-> s.section, key |-> s.key, value |-> w] \in Put(s.data, s.section, s.key, w)
        BY <4>3, <4>4, PutHas
      <4>11. s.section = X /\ s.key = k
        BY <2>8
      <4> HIDE DEF So
      <4> QED BY <4>2, <4>9, <4>10, <4>11 DEF Of
    <3> QED BY <3>1, <3>2
  <2> HIDE DEF Good
  <2> QED BY <2>1, <2>2, <2>3, <2>4, <2>11
<1>17. \A i \in 0..Len(body) : i \in D
  <2> HIDE DEF D
  <2> QED BY <1>3, <1>15, <1>16, UpTo
<1>18. Len(body) \in 0..Len(body) /\ p + 1 + Len(body) = p + Len(W)
  BY <1>3, <1>4
<1>19. Good(Len(body), Scanned(g)[p + Len(W)])
  BY <1>17, <1>18
<1>20. Read(value) = So(Len(body))
  <2>1. Read(value) = [value EXCEPT !.body = Where(value.body, {i \in DOMAIN value.body : ~Skipped(value.body[i])})]
    BY DEF Read
  <2>2. Where(value.body, {i \in DOMAIN value.body : ~Skipped(value.body[i])}) = F[Len(body)]
    BY <1>2, <1>9, <1>10
  <2>3. value = [star |-> star, text |-> text, body |-> value.body]
    BY <1>1, <1>12 DEF Values
  <2> QED BY <2>1, <2>2, <2>3
<1> QED
  <2> HIDE DEF So
  <2> QED BY <1>19, <1>20

(* What has been read of a key stays as long as no entry of it is read.    *)
LEMMA StaysRead ==
  ASSUME NEW f \in Seq(Line), NEW q \in 0..Len(f), Scanned(f)[q].depth = 0, NEW X, NEW k,
         \A m \in 1..Len(f) : m > q => ~Reads(f, m, X, k)
  PROVE  \A d : d.section = X /\ d.key = k => (d \in Scan(f) <=> d \in Scanned(f)[q].data)
<1> DEFINE Good(s) == /\ s.depth # 0 => ~(s.section = X /\ s.key = k)
                      /\ \A d : d.section = X /\ d.key = k => (d \in s.data <=> d \in Scanned(f)[q].data)
           D == {i \in 0..(Len(f) - q) : Good(Scanned(f)[q + i])}
<1>0. Len(f) \in Nat /\ q \in Nat
  OBVIOUS
<1>1. PICK m : m = Len(f) - q /\ m \in Nat /\ q + m = Len(f)
  <2>1. Len(f) - q \in Nat /\ q + (Len(f) - q) = Len(f)
    BY <1>0
  <2> QED BY <2>1
<1>2. 0 \in D
  <2>1. q + 0 = q /\ 0 \in 0..(Len(f) - q)
    BY <1>0
  <2>2. Good(Scanned(f)[q])
    OBVIOUS
  <2> HIDE DEF Good
  <2> QED BY <2>1, <2>2
<1>3. ASSUME NEW i \in 0..m, i < m, i \in D PROVE i + 1 \in D
  <2>1. PICK x : x = q + i
    OBVIOUS
  <2>2. x \in 0..Len(f) /\ x < Len(f) /\ q + (i + 1) = x + 1 /\ x + 1 > q /\ x + 1 \in 1..Len(f)
        /\ (x + 1) - 1 = x /\ i + 1 \in 0..(Len(f) - q)
    BY <1>0, <1>1, <1>3, <2>1
  <2>3. PICK s, t, line : s = Scanned(f)[x] /\ t = Scanned(f)[x + 1] /\ line = f[x + 1]
    OBVIOUS
  <2>4. s \in Scanner /\ line \in Line /\ t = ScanLine(s, line)
    BY <2>2, <2>3, BothAt
  <2>5. Good(s)
    BY <1>3, <2>1, <2>3
  <2>6. ~(s.depth = 0 /\ s.section = X /\ Assigns(line) /\ line.key = k)
    <3>1. ~Reads(f, x + 1, X, k)
      BY <2>2
    <3> QED BY <2>2, <2>3, <3>1 DEF Reads
  <2>7. s.section \in Texts /\ s.key \in Nat /\ s.data \in Readings /\ s.value \in Values
        /\ line.key \in Nat /\ Value(line) \in Values
    BY <2>4, ScannerFields, LineFields, ValueIsTyped
  <2>8. Good(t)
    <3>1. CASE t = s
      BY <2>5, <3>1
    <3>2. CASE t.depth = 0 /\ t.data = s.data
      BY <2>5, <3>2
    <3>3. CASE /\ s.depth = 0 /\ Assigns(line)
               /\ t.section = s.section /\ t.key = line.key
               /\ t.data = Put(s.data, s.section, line.key, Value(line))
      <4>1. ~(s.section = X /\ line.key = k)
        BY <2>6, <3>3
      <4>2. \A d : d.section # s.section \/ d.key # line.key => (d \in t.data <=> d \in s.data)
        <5>1. \A d : d.section # s.section \/ d.key # line.key
                       => (d \in Put(s.data, s.section, line.key, Value(line)) <=> d \in s.data)
          BY <2>7, PutHas
        <5> QED BY <3>3, <5>1
      <4>3. \A d : d.section = X /\ d.key = k => (d \in t.data <=> d \in s.data)
        BY <4>1, <4>2
      <4> QED BY <2>5, <3>3, <4>1, <4>3
    <3>4. CASE /\ s.depth # 0 /\ t.section = s.section /\ t.key = s.key
               /\ t.data = Put(s.data, s.section, s.key, Longer(s.value, line))
      <4>0. PICK w \in Values : w = Longer(s.value, line)
        <5>1. Longer(s.value, line) \in Values
          BY <2>4, <2>7, LongerIsTyped
        <5> QED BY <5>1
      <4>1. ~(s.section = X /\ s.key = k)
        BY <2>5, <3>4
      <4>2. \A d : d.section # s.section \/ d.key # s.key => (d \in t.data <=> d \in s.data)
        <5>1. \A d : d.section # s.section \/ d.key # s.key
                       => (d \in Put(s.data, s.section, s.key, w) <=> d \in s.data)
          BY <2>7, PutHas
        <5> QED BY <3>4, <4>0, <5>1
      <4>3. \A d : d.section = X /\ d.key = k => (d \in t.data <=> d \in s.data)
        BY <4>1, <4>2
      <4> QED BY <2>5, <3>4, <4>1, <4>3
    <3> HIDE DEF Good
    <3> QED BY <2>4, <3>1, <3>2, <3>3, <3>4, ReadingOf
  <2> HIDE DEF Good
  <2> QED BY <2>2, <2>3, <2>8
<1>4. \A i \in 0..m : i \in D
  <2> HIDE DEF D
  <2> QED BY <1>1, <1>2, <1>3, UpTo
<1>5. m \in D
  <2>1. m \in 0..m
    BY <1>1
  <2> HIDE DEF D
  <2> QED BY <1>4, <2>1
<1>6. Good(Scanned(f)[Len(f)])
  BY <1>1, <1>5
<1> QED BY <1>6 DEF Scan

(* Where an entry begins, told from the line before it.                    *)
LEMMA EntryAt ==
  ASSUME NEW f \in Seq(Line), NEW X, NEW n \in 1..Len(f)
  PROVE  n \in Entries(f, X) <=> /\ Index(f)[n - 1].depth = 0 /\ Index(f)[n - 1].section = X
                                 /\ Assigns(f[n])
<1>1. Len(f) \in Nat /\ DOMAIN f = 1..Len(f)
  OBVIOUS
<1>2. PICK m \in 0..Len(f) : m = n - 1 /\ m + 1 = n /\ m < Len(f)
  <2>1. n - 1 \in 0..Len(f) /\ (n - 1) + 1 = n /\ n - 1 < Len(f)
    BY <1>1
  <2> QED BY <2>1
<1>3. Index(f)[m] \in Cursor /\ f[n] \in Line /\ Index(f)[n] = IndexLine(Index(f)[m], f[n])
  BY <1>2, BothAt
<1>4. Index(f)[m].depth = 0 /\ Assigns(f[n]) => Index(f)[n].section = Index(f)[m].section
  BY <1>3, CursorMoves
<1>5. n \in Entries(f, X) <=> Index(f)[m].depth = 0 /\ Assigns(f[n]) /\ Index(f)[n].section = X
  BY <1>1, <1>2 DEF Entries
<1> QED BY <1>2, <1>4, <1>5

(* In step, the lines read as entries are the entries the editor sees.     *)
LEMMA ReadsIs ==
  ASSUME NEW f, InStep(f), NEW X, NEW k, NEW m \in 1..Len(f)
  PROVE  Reads(f, m, X, k) <=> m \in Entries(f, X) /\ f[m].key = k
<1>0. f \in Seq(Line)
  BY DEF InStep
<1>1. m - 1 \in 0..Len(f)
  <2>1. Len(f) \in Nat
    BY <1>0
  <2> QED BY <2>1
<1>2. Together(Scanned(f)[m - 1], Index(f)[m - 1])
  BY <1>0, <1>1, AgreeIs
<1>3. m \in Entries(f, X) <=> /\ Index(f)[m - 1].depth = 0 /\ Index(f)[m - 1].section = X
                              /\ Assigns(f[m])
  BY <1>0, EntryAt
<1> QED BY <1>2, <1>3 DEF Reads, Together

\* Every key of a section has one entry in it.
Single(f, X) == \A m, n \in Entries(f, X) : f[m].key = f[n].key => m = n
\* All entries of key k are among the lines p+1..e.
OnlyThere(f, X, k, p, e) == \A n \in Entries(f, X) : f[n].key = k => p < n /\ n <= e
\* What the planner writes for key k, if anything, both parsers can read.
Legible(W, k, value) ==
  \/ W = <<>>
  \/ W = Emit(k, value) /\ Writable(value) /\ Readable(value.body) /\ k \in Nat

(* Legible lines are none or a block, with no line only one parser counts. *)
LEMMA LegibleIs ==
  ASSUME NEW W, NEW k, NEW value, Legible(W, k, value)
  PROVE  /\ W = <<>> \/ (IsBlock(W, k) /\ k \in Nat)
         /\ Readable(W) /\ W \in Seq(Line)
<1>1. CASE W = <<>>
  <2>1. Readable(W)
    BY <1>1 DEF Readable
  <2> QED BY <1>1, <2>1
<1>2. CASE W = Emit(k, value) /\ Writable(value) /\ Readable(value.body) /\ k \in Nat
  <2>1. IsBlock(W, k) /\ W \in Seq(Line)
    <3>1. IsBlock(W, k)
      BY <1>2, EmitIsBlock
    <3> QED BY <3>1 DEF IsBlock
  <2>2. value \in Values
    BY <1>2 DEF Writable, Written
  <2>3. PICK w \in Nat : w = Len(value.body)
    BY <2>2 DEF Values
  <2>4. Len(W) = 1 + w /\ W[1].kind \in {"entry", "open"} /\ \A i \in 1..w : W[i + 1] = value.body[i]
    <3>1. Len(Emit(k, value)) = 1 + Len(value.body)
      BY <1>2, <2>2, EmitLines
    <3>2. Emit(k, value)[1].kind = (IF value.body = <<>> THEN "entry" ELSE "open")
      BY <1>2, <2>2, EmitLines
    <3>3. \A i \in 1..Len(value.body) : Emit(k, value)[i + 1] = value.body[i]
      BY <1>2, <2>2, EmitLines
    <3> QED BY <1>2, <2>3, <3>1, <3>2, <3>3
  <2>5. ASSUME NEW i \in 1..Len(W) PROVE W[i].kind \notin {"header", "bracket"}
    <3>1. CASE i = 1
      BY <2>4, <3>1
    <3>2. CASE i # 1
      <4>1. PICK j : j = i - 1
        OBVIOUS
      <4>2. j \in 1..w /\ j + 1 = i
        BY <2>3, <2>4, <3>2, <4>1
      <4>3. value.body[j].kind \notin {"header", "bracket"}
        BY <1>2, <2>3, <4>2 DEF Readable
      <4> QED BY <2>4, <4>2, <4>3
    <3> QED BY <3>1, <3>2
  <2> QED BY <1>2, <2>1, <2>5 DEF Readable
<1> QED BY <1>1, <1>2 DEF Legible

\* An entry of g is one of f, or the first of the lines swapped in.
CameFrom(n, g, f, p, e, W, X, k) ==
  \/ n <= p /\ n \in Entries(f, X) /\ g[n] = f[n]
  \/ n = p + 1 /\ W # <<>> /\ g[n].key = k
  \/ \E m \in Entries(f, X) : m > e /\ n = p + Len(W) + (m - e) /\ g[n] = f[m]

(* Where the entries of g come from.                                       *)
LEMMA EntryPlaces ==
  ASSUME NEW f, NEW g, NEW p, NEW e, NEW W, NEW X, NEW K, NEW k, CleanSwap(g, f, p, e, W, X, K),
         W = <<>> \/ IsBlock(W, k), NEW n \in Entries(g, X)
  PROVE  CameFrom(n, g, f, p, e, W, X, k)
<1>0. /\ p \in Nat /\ e \in Nat /\ p <= e /\ e <= Len(f)
      /\ f \in Seq(Line) /\ g \in Seq(Line) /\ W \in Seq(Line)
  BY DEF CleanSwap, Fits
<1>1. n \in 1..Len(g) /\ n \in DOMAIN g
  <2>1. DOMAIN g = 1..Len(g)
    BY <1>0
  <2> QED BY <2>1 DEF Entries
<1>2. Index(g)[n - 1].depth = 0 /\ Index(g)[n - 1].section = X /\ Assigns(g[n])
  BY <1>0, <1>1, EntryAt
<1>3. CASE n \in 1..p /\ n \in 1..Len(f) /\ g[n] = f[n] /\ Alike(Index(f)[n - 1], Index(g)[n - 1])
  <2>1. n \in Entries(f, X)
    BY <1>0, <1>2, <1>3, EntryAt DEF Alike
  <2> QED BY <1>0, <1>3, <2>1 DEF CameFrom
<1>4. CASE \E i \in 1..Len(W) : n = p + i /\ g[n] = W[i]
  <2>1. PICK i \in 1..Len(W) : n = p + i /\ g[n] = W[i]
    BY <1>4
  <2>2. Len(W) \in Nat
    BY <1>0
  <2>3. W # <<>>
    BY <2>1
  <2>4. IsBlock(W, k)
    BY <2>3
  <2>5. Runs(W, g, p, k)
    <3>1. Standing(W, g, p)
      BY SwapWalks
    <3> QED BY <1>0, <2>4, <3>1, StandingRuns
  <2>6. i = 1
    <3>1. SUFFICES ASSUME i # 1 PROVE FALSE
      OBVIOUS
    <3>2. PICK j : j = i - 1
      OBVIOUS
    <3>3. j \in 1..Len(W) /\ j # Len(W) /\ n - 1 = p + j
      BY <1>0, <2>1, <2>2, <3>1, <3>2
    <3>4. Index(g)[p + j].depth # 0
      BY <2>5, <3>3 DEF Runs
    <3> QED BY <1>2, <3>3, <3>4
  <2>7. W[1].key = k
    BY <2>4 DEF IsBlock
  <2> QED BY <2>1, <2>3, <2>6, <2>7 DEF CameFrom
<1>5. CASE \E m \in 1..Len(f) : /\ m > e /\ n = p + Len(W) + (m - e) /\ g[n] = f[m]
                                /\ Alike(Index(f)[m - 1], Index(g)[n - 1])
  <2>1. PICK m \in 1..Len(f) : /\ m > e /\ n = p + Len(W) + (m - e) /\ g[n] = f[m]
                               /\ Alike(Index(f)[m - 1], Index(g)[n - 1])
    BY <1>5
  <2>2. m \in Entries(f, X)
    BY <1>0, <1>2, <2>1, EntryAt DEF Alike
  <2> QED BY <2>1, <2>2 DEF CameFrom
<1> QED BY <1>1, <1>3, <1>4, <1>5, SwapPlaces

(* A section whose keys have one entry each keeps it so, when the entry of *)
(* a key is swapped for another of the same key or for none.               *)
LEMMA SwapSingle ==
  ASSUME NEW f, NEW g, NEW p, NEW e, NEW W, NEW X, NEW K, NEW k, CleanSwap(g, f, p, e, W, X, K),
         W = <<>> \/ IsBlock(W, k), Single(f, X), OnlyThere(f, X, k, p, e)
  PROVE  Single(g, X) /\ OnlyThere(g, X, k, p, p + 1) /\ (W = <<>> => k \notin KeysOf(g, X))
<1>0. /\ p \in Nat /\ e \in Nat /\ p <= e /\ e <= Len(f)
      /\ f \in Seq(Line) /\ g \in Seq(Line) /\ W \in Seq(Line)
  BY DEF CleanSwap, Fits
<1>1. Len(W) \in Nat /\ Entries(f, X) \subseteq Nat
  <2>1. DOMAIN f \subseteq Nat
    BY <1>0
  <2> QED BY <1>0, <2>1 DEF Entries
<1>6. \A n \in Entries(g, X) : CameFrom(n, g, f, p, e, W, X, k)
  BY EntryPlaces
<1>2. ASSUME NEW n \in Entries(g, X), g[n].key = k PROVE n = p + 1 /\ W # <<>>
  <2>1. CASE n <= p /\ n \in Entries(f, X) /\ g[n] = f[n]
    BY <1>0, <1>1, <1>2, <2>1 DEF OnlyThere
  <2>2. CASE \E m \in Entries(f, X) : m > e /\ n = p + Len(W) + (m - e) /\ g[n] = f[m]
    <3>1. PICK m \in Entries(f, X) : m > e /\ g[n] = f[m]
      BY <2>2
    <3> QED BY <1>0, <1>1, <1>2, <3>1 DEF OnlyThere
  <2> QED BY <1>6, <2>1, <2>2 DEF CameFrom
<1>3. ASSUME NEW m \in Entries(g, X), NEW n \in Entries(g, X), g[m].key = g[n].key
      PROVE  m = n
  <2>1. CASE g[n].key = k
    BY <1>2, <1>3, <2>1
  <2>2. CASE g[n].key # k
    <3>1. \/ m <= p /\ m \in Entries(f, X) /\ g[m] = f[m]
          \/ \E a \in Entries(f, X) : a > e /\ m = p + Len(W) + (a - e) /\ g[m] = f[a]
      BY <1>3, <1>6, <2>2 DEF CameFrom
    <3>2. \/ n <= p /\ n \in Entries(f, X) /\ g[n] = f[n]
          \/ \E b \in Entries(f, X) : b > e /\ n = p + Len(W) + (b - e) /\ g[n] = f[b]
      BY <1>3, <1>6, <2>2 DEF CameFrom
    <3>3. PICK a \in Entries(f, X) : g[m] = f[a] /\ ((a <= p /\ m = a) \/ (a > e /\ m = p + Len(W) + (a - e)))
      BY <3>1
    <3>4. PICK b \in Entries(f, X) : g[n] = f[b] /\ ((b <= p /\ n = b) \/ (b > e /\ n = p + Len(W) + (b - e)))
      BY <3>2
    <3>5. a = b
      BY <1>3, <3>3, <3>4 DEF Single
    <3> QED BY <1>0, <1>1, <3>3, <3>4, <3>5
  <2> QED BY <2>1, <2>2
<1>4. W = <<>> => k \notin KeysOf(g, X)
  BY <1>2 DEF KeysOf
<1>5. OnlyThere(g, X, k, p, p + 1)
  BY <1>0, <1>2 DEF OnlyThere
<1> QED BY <1>3, <1>4, <1>5 DEF Single

\* What has been read once the reading of key k of section X is given up,
\* and its value, if lines were put in for it, read instead.
Rewritten(d, data, X, k, W, value) ==
  \/ d \in data /\ (d.section # X \/ d.key # k)
  \/ W # <<>> /\ d = Of(X, k, Read(value))

(* What is read of a file after a clean swap of the entry of key k.        *)
LEMMA SwapReads ==
  ASSUME NEW f, NEW g, NEW p, NEW e, NEW W, NEW X, NEW k, NEW value, CleanSwap(g, f, p, e, W, X, {k}),
         InStep(f), Single(f, X), OnlyThere(f, X, k, p, e), Legible(W, k, value)
  PROVE  \A d : d \in Scan(g) <=> Rewritten(d, Scan(f), X, k, W, value)
<1>0. /\ p \in Nat /\ e \in Nat /\ p <= e /\ e <= Len(f)
      /\ f \in Seq(Line) /\ g \in Seq(Line) /\ W \in Seq(Line)
  BY DEF CleanSwap, Fits
<1>1. (W = <<>> \/ (IsBlock(W, k) /\ k \in Nat)) /\ Readable(W)
  BY LegibleIs
<1>2. InStep(g)
  BY <1>1, SwapInStep
<1>3. Single(g, X) /\ OnlyThere(g, X, k, p, p + 1) /\ (W = <<>> => k \notin KeysOf(g, X))
  BY <1>1, SwapSingle
<1>4. Without(Scan(g), X, {k}) = Without(Scan(f), X, {k})
  BY <1>1, SwapReadsRest
<1>5. \A d : d.section # X \/ d.key # k => (d \in Scan(g) <=> d \in Scan(f))
  BY <1>4 DEF Without
<1>6. CASE W = <<>>
  <2>1. ~Knows(Scan(g), X, k)
    BY <1>2, <1>3, <1>6, KeysRead
  <2> QED BY <1>5, <1>6, <2>1 DEF Rewritten, Knows
<1>7. CASE W # <<>>
  <2>0. W = Emit(k, value) /\ Writable(value) /\ Readable(value.body) /\ k \in Nat
    BY <1>7 DEF Legible
  <2>1. Standing(W, g, p) /\ Index(g)[p].section = X /\ Index(g)[p + Len(W)].depth = 0
    BY SwapWalks
  <2>2. PICK v : v = Of(X, k, Read(value))
    OBVIOUS
  <2>3. PICK q : q = p + Len(W)
    OBVIOUS
  <2>4. v \in Scanned(g)[q].data
    BY <1>0, <1>2, <2>0, <2>1, <2>2, <2>3, ValueRead
  <2>5. q \in 0..Len(g) /\ q >= p + 1
    <3>1. Len(W) \in Nat /\ Len(W) >= 1 /\ Len(g) \in Nat
      BY <1>0, <1>7
    <3>2. p + Len(W) <= Len(g)
      BY <2>1 DEF Standing
    <3> QED BY <1>0, <2>3, <3>1, <3>2
  <2>6. Scanned(g)[q].depth = 0
    <3>1. Together(Scanned(g)[q], Index(g)[q])
      BY <1>0, <1>2, <2>5, AgreeIs
    <3> QED BY <2>1, <2>3, <3>1 DEF Together
  <2>7. ASSUME NEW m \in 1..Len(g), m > q PROVE ~Reads(g, m, X, k)
    <3>1. m \in Entries(g, X) /\ g[m].key = k => m <= p + 1
      BY <1>3 DEF OnlyThere
    <3>2. ~(m <= p + 1)
      BY <1>0, <2>5, <2>7
    <3> QED BY <1>2, <3>1, <3>2, ReadsIs
  <2>8. v.section = X /\ v.key = k
    BY <2>2 DEF Of
  <2>9. v \in Scan(g)
    <3>1. \A d : d.section = X /\ d.key = k => (d \in Scan(g) <=> d \in Scanned(g)[q].data)
      BY <1>0, <2>5, <2>6, <2>7, StaysRead
    <3> QED BY <2>4, <2>8, <3>1
  <2>10. \A d \in Scan(g) : d.section = X /\ d.key = k => d = v
    <3>1. Scan(g) \in Readings
      BY <1>0, ScanIsTyped
    <3> QED BY <2>8, <2>9, <3>1 DEF Readings
  <2>11. \A d : Rewritten(d, Scan(f), X, k, W, value)
                  <=> (d \in Scan(f) /\ (d.section # X \/ d.key # k)) \/ d = v
    BY <1>7, <2>2 DEF Rewritten
  <2> QED BY <1>5, <2>8, <2>9, <2>10, <2>11
<1> QED BY <1>6, <1>7

-----------------------------------------------------------------------------
(* What is read of a file after the cuts of an edit.                       *)

\* The key of the n-th slice.
KeyOf(f, R, n) == f[R[n].start].key
\* What is put in for a replaced key is read by both parsers alike.
PlainReplace(edit) == \A k \in DOMAIN edit.replace : Readable(edit.replace[k].body)
PlainInsert(edit) == \A i \in DOMAIN edit.insert : Readable(edit.insert[i].value.body)

(* What a cut puts in is legible.                                          *)
LEMMA CutLegible ==
  ASSUME NEW f, NEW X, NEW edit, NEW K, Sensible(edit, K), Fitting(edit), PlainReplace(edit), NEW R,
         Cuts(R, f, X, edit), NEW n \in 1..Len(R)
  PROVE  Legible(R[n].with, KeyOf(f, R, n), edit.replace[KeyOf(f, R, n)])
<1>1. SliceOf(R[n], f, X, edit, R[n].start)
  BY DEF Cuts
<1>2. CASE R[n].with = <<>>
  BY <1>2 DEF Legible
<1>3. CASE R[n].with = Emit(KeyOf(f, R, n), edit.replace[KeyOf(f, R, n)]) /\ KeyOf(f, R, n) \in ReplaceKeys(edit)
  BY <1>3, WithIsTyped DEF Legible, Fitting, PlainReplace, ReplaceKeys
<1> QED BY <1>1, <1>2, <1>3 DEF SliceOf, KeyOf

(* One cut, and what is read after it.                                     *)
LEMMA OneCutReads ==
  ASSUME NEW f \in Seq(Line), NEW X, NEW edit, NEW K, Sensible(edit, K), Fitting(edit), PlainReplace(edit),
         NEW R, Cuts(R, f, X, edit), NEW n \in 1..Len(R), NEW cur, Left(cur, f, R, n - 1),
         InStep(cur), Single(cur, X)
  PROVE  /\ InStep(Splice(cur, R[n])) /\ Single(Splice(cur, R[n]), X)
         /\ Balanced(cur) => Balanced(Splice(cur, R[n]))
         /\ \A d : d \in Scan(Splice(cur, R[n]))
                     <=> Rewritten(d, Scan(cur), X, KeyOf(f, R, n), R[n].with, edit.replace[KeyOf(f, R, n)])
<1>1. PICK k, W, value, g, m, e :
        /\ k = KeyOf(f, R, n) /\ W = R[n].with /\ value = edit.replace[KeyOf(f, R, n)]
        /\ g = Splice(cur, R[n]) /\ m = R[n].start /\ e = R[n].end
  OBVIOUS
<1>2. CleanSwap(g, cur, m - 1, e, W, X, {k}) /\ e <= Below(f, R, n - 1)
  BY <1>1, OneCut DEF KeyOf
<1>3. Legible(W, k, value)
  BY <1>1, CutLegible
<1>4. W = <<>> \/ IsBlock(W, k)
  BY <1>3, LegibleIs
<1>5. Readable(W)
  BY <1>3, LegibleIs
<1>6. Cut(R[n], f, X, K)
  BY CutIs
<1>7. m \in 1..Len(f) /\ e \in m..Len(f) /\ m \in Entries(f, X)
  BY <1>1, <1>6 DEF Cut
<1>8. m \in 1..Len(cur) /\ cur[m] = f[m] /\ Alike(Index(f)[m - 1], Index(cur)[m - 1])
  <2>1. PICK b \in Nat : b = Below(f, R, n - 1)
    BY DEF Left
  <2>2. b <= Len(cur) /\ b <= Len(f) /\ \A i \in 1..b : cur[i] = f[i]
    BY <2>1 DEF Left
  <2>3. Len(f) \in Nat /\ Len(cur) \in Nat
    BY DEF Left
  <2>4. m \in 1..b /\ m - 1 \in 0..b /\ m \in 1..Len(cur)
    BY <1>2, <1>7, <2>1, <2>2, <2>3
  <2>5. \A i \in 0..b : Alike(Index(f)[i], Index(cur)[i])
    BY <2>1, LeftAlike
  <2> QED BY <2>2, <2>4, <2>5
<1>9. m \in Entries(cur, X) /\ cur[m].key = k
  <2>1. cur \in Seq(Line)
    BY DEF InStep
  <2>2. Index(f)[m - 1].depth = 0 /\ Index(f)[m - 1].section = X /\ Assigns(f[m])
    BY <1>7, EntryAt
  <2>4. Index(cur)[m - 1].depth = 0 /\ Index(cur)[m - 1].section = X /\ Assigns(cur[m])
    BY <1>8, <2>2 DEF Alike
  <2>3. m \in Entries(cur, X)
    BY <1>8, <2>1, <2>4, EntryAt
  <2> QED BY <1>1, <1>8, <2>3 DEF KeyOf
<1>10. OnlyThere(cur, X, k, m - 1, e)
  <2>1. m \in Int /\ e \in Int /\ m - 1 < m /\ m <= e
    BY <1>7
  <2> QED BY <1>9, <2>1 DEF Single, OnlyThere
<1>11. InStep(g) /\ (Balanced(cur) => Balanced(g))
  BY <1>2, <1>5, SwapInStep
<1>12. Single(g, X)
  BY <1>2, <1>4, <1>10, SwapSingle
<1>13. \A d : d \in Scan(g) <=> Rewritten(d, Scan(cur), X, k, W, value)
  BY <1>2, <1>3, <1>10, SwapReads
<1> QED BY <1>1, <1>11, <1>12, <1>13

\* What has been read after n cuts.
ReadAfter(d, f, X, edit, R, n) ==
  \/ d \in Scan(f) /\ (d.section # X \/ \A i \in 1..n : d.key # KeyOf(f, R, i))
  \/ \E i \in 1..n : R[i].with # <<>> /\ d = Of(X, KeyOf(f, R, i), Read(edit.replace[KeyOf(f, R, i)]))

(* The keys of the slices differ.                                          *)
LEMMA KeysDiffer ==
  ASSUME NEW f \in Seq(Line), NEW X, NEW edit, NEW R, Cuts(R, f, X, edit), Single(f, X),
         NEW i \in 1..Len(R), NEW j \in 1..Len(R), KeyOf(f, R, i) = KeyOf(f, R, j)
  PROVE  i = j
<1>1. R[i].start \in Entries(f, X) /\ R[j].start \in Entries(f, X)
  BY DEF Cuts, SliceOf
<1>2. R[i].start = R[j].start
  BY <1>1 DEF Single, KeyOf
<1>3. R[i].start \in Int /\ R[j].start \in Int
  BY SMTT(30) DEF Cuts, SliceOf, Slice
<1>4. i < j => R[j].start < R[i].start
  BY DEF Cuts
<1>5. j < i => R[i].start < R[j].start
  BY DEF Cuts
<1>6. i \in Int /\ j \in Int
  OBVIOUS
<1> QED BY <1>2, <1>3, <1>4, <1>5, <1>6

(* One cut more.                                                           *)
LEMMA ReadAfterMore ==
  ASSUME NEW f \in Seq(Line), NEW X, NEW edit, NEW R, Cuts(R, f, X, edit), Single(f, X),
         NEW n \in Nat, n < Len(R), NEW cur, \A d : d \in Scan(cur) <=> ReadAfter(d, f, X, edit, R, n), NEW d
  PROVE  Rewritten(d, Scan(cur), X, KeyOf(f, R, n + 1), R[n + 1].with, edit.replace[KeyOf(f, R, n + 1)])
           <=> ReadAfter(d, f, X, edit, R, n + 1)
<1>1. PICK k, W, v : /\ k = KeyOf(f, R, n + 1) /\ W = R[n + 1].with
                     /\ v = Of(X, KeyOf(f, R, n + 1), Read(edit.replace[KeyOf(f, R, n + 1)]))
  OBVIOUS
<1>2. \A i \in 1..n : KeyOf(f, R, i) # k
  <2> SUFFICES ASSUME NEW i \in 1..n PROVE KeyOf(f, R, i) # k
    OBVIOUS
  <2>1. Len(R) \in Nat
    BY DEF Cuts
  <2>2. i \in 1..Len(R) /\ n + 1 \in 1..Len(R) /\ i # n + 1
    BY <2>1
  <2> QED BY <1>1, <2>2, KeysDiffer
<1>3. \A i : i \in 1..(n + 1) <=> i \in 1..n \/ i = n + 1
  OBVIOUS
<1>4. Rewritten(d, Scan(cur), X, KeyOf(f, R, n + 1), R[n + 1].with, edit.replace[KeyOf(f, R, n + 1)])
        <=> (ReadAfter(d, f, X, edit, R, n) /\ (d.section # X \/ d.key # k)) \/ (W # <<>> /\ d = v)
  BY <1>1 DEF Rewritten
<1>5. ReadAfter(d, f, X, edit, R, n) /\ (d.section # X \/ d.key # k)
        <=> \/ /\ d \in Scan(f)
               /\ d.section # X \/ \A i \in 1..(n + 1) : d.key # KeyOf(f, R, i)
            \/ \E i \in 1..n : R[i].with # <<>> /\ d = Of(X, KeyOf(f, R, i), Read(edit.replace[KeyOf(f, R, i)]))
  <2>1. ASSUME NEW i \in 1..n, d = Of(X, KeyOf(f, R, i), Read(edit.replace[KeyOf(f, R, i)]))
        PROVE  d.key # k
    <3>1. d.key = KeyOf(f, R, i)
      BY <2>1 DEF Of
    <3> QED BY <1>2, <3>1
  <2>2. (d.section # X \/ \A i \in 1..n : d.key # KeyOf(f, R, i)) /\ (d.section # X \/ d.key # k)
          <=> d.section # X \/ \A i \in 1..(n + 1) : d.key # KeyOf(f, R, i)
    BY <1>1, <1>3
  <2> QED BY <2>1, <2>2 DEF ReadAfter
<1>6. (W # <<>> /\ d = v)
        <=> R[n + 1].with # <<>> /\ d = Of(X, KeyOf(f, R, n + 1), Read(edit.replace[KeyOf(f, R, n + 1)]))
  BY <1>1
<1>7. ReadAfter(d, f, X, edit, R, n + 1)
        <=> \/ /\ d \in Scan(f)
               /\ d.section # X \/ \A i \in 1..(n + 1) : d.key # KeyOf(f, R, i)
            \/ \E i \in 1..n : R[i].with # <<>> /\ d = Of(X, KeyOf(f, R, i), Read(edit.replace[KeyOf(f, R, i)]))
            \/ W # <<>> /\ d = v
  BY <1>3, <1>6 DEF ReadAfter
<1> QED BY <1>4, <1>5, <1>7

(* All cuts, one after the other.                                          *)
LEMMA AllCutsRead ==
  ASSUME NEW f, InStep(f), NEW X, Single(f, X), NEW edit, NEW K, Sensible(edit, K), Fitting(edit),
         PlainReplace(edit), NEW R, Cuts(R, f, X, edit)
  PROVE  /\ InStep(Spliced(f, R)[Len(R)]) /\ Single(Spliced(f, R)[Len(R)], X)
         /\ Balanced(f) => Balanced(Spliced(f, R)[Len(R)])
         /\ \A d : d \in Scan(Spliced(f, R)[Len(R)]) <=> ReadAfter(d, f, X, edit, R, Len(R))
<1> DEFINE Good(n) == /\ InStep(Spliced(f, R)[n]) /\ Single(Spliced(f, R)[n], X)
                      /\ Balanced(f) => Balanced(Spliced(f, R)[n])
                      /\ \A d : d \in Scan(Spliced(f, R)[n]) <=> ReadAfter(d, f, X, edit, R, n)
           D == {n \in 0..Len(R) : Good(n)}
<1>0. f \in Seq(Line)
  BY DEF InStep
<1>1. PICK l \in Nat : l = Len(R)
  BY DEF Cuts
<1>2. 0 \in D
  <2>1. Spliced(f, R)[0] = f
    BY <1>1, SplicedIs
  <2>2. \A d : d \in Scan(f) <=> ReadAfter(d, f, X, edit, R, 0)
    BY DEF ReadAfter
  <2>3. 0 \in 0..Len(R)
    BY <1>1
  <2> QED BY <2>1, <2>2, <2>3
<1>3. ASSUME NEW n \in 0..l, n < l, n \in D PROVE n + 1 \in D
  <2>1. Good(n) /\ n \in Nat
    BY <1>3
  <2>2. n + 1 \in 1..Len(R) /\ (n + 1) - 1 = n /\ n \in 0..Len(R) /\ n < Len(R) /\ n + 1 \in 0..Len(R)
    BY <1>1, <1>3
  <2>3. PICK cur : cur = Spliced(f, R)[n]
    OBVIOUS
  <2>4. Left(cur, f, R, (n + 1) - 1)
    BY <1>0, <2>2, <2>3, AllCuts
  <2>5. Spliced(f, R)[n + 1] = Splice(cur, R[n + 1])
    <3>1. Len(R) \in Nat
      BY <1>1
    <3>2. \A m \in 1..Len(R) : Spliced(f, R)[m] = Splice(Spliced(f, R)[m - 1], R[m])
      BY <3>1, SplicedIs
    <3> QED BY <2>2, <2>3, <3>2
  <2>6. InStep(cur) /\ Single(cur, X) /\ (Balanced(f) => Balanced(cur))
        /\ \A d : d \in Scan(cur) <=> ReadAfter(d, f, X, edit, R, n)
    BY <2>1, <2>3
  <2>7. InStep(Splice(cur, R[n + 1])) /\ Single(Splice(cur, R[n + 1]), X)
    BY <1>0, <2>2, <2>4, <2>6, OneCutReads
  <2>8. Balanced(cur) => Balanced(Splice(cur, R[n + 1]))
    BY <1>0, <2>2, <2>4, <2>6, OneCutReads
  <2>9. \A d : d \in Scan(Splice(cur, R[n + 1]))
                 <=> Rewritten(d, Scan(cur), X, KeyOf(f, R, n + 1), R[n + 1].with, edit.replace[KeyOf(f, R, n + 1)])
    BY <1>0, <2>2, <2>4, <2>6, OneCutReads
  <2>10. ASSUME NEW d PROVE d \in Scan(Splice(cur, R[n + 1])) <=> ReadAfter(d, f, X, edit, R, n + 1)
    <3>1. Rewritten(d, Scan(cur), X, KeyOf(f, R, n + 1), R[n + 1].with, edit.replace[KeyOf(f, R, n + 1)])
           <=> ReadAfter(d, f, X, edit, R, n + 1)
      BY <1>0, <2>1, <2>2, <2>6, ReadAfterMore
    <3> QED BY <2>9, <3>1
  <2>11. Good(n + 1)
    BY <2>5, <2>6, <2>7, <2>8, <2>10
  <2> HIDE DEF Good
  <2> QED BY <2>2, <2>11
<1>4. \A n \in 0..l : n \in D
  <2> HIDE DEF D
  <2> QED BY <1>1, <1>2, <1>3, UpTo
<1>5. Good(l)
  <2>1. l \in 0..l
    BY <1>1
  <2> HIDE DEF Good
  <2> QED BY <1>4, <2>1
<1> QED BY <1>1, <1>5

-----------------------------------------------------------------------------
(* What is read after its insertions, and after the whole edit.            *)

(* Nothing inserted is nothing changed.                                    *)
LEMMA InsertNone ==
  ASSUME NEW s \in Seq(Line), NEW at \in 0..Len(s)
  PROVE  InsertLines(s, at, <<>>) = s
<1>0. PICK W : W = <<>>
  OBVIOUS
<1>1. W \in Seq(Line) /\ Len(W) = 0
  BY <1>0
<1>2. PICK g : g = InsertLines(s, at, W)
  OBVIOUS
<1>3. g \in Seq(Line) /\ Swap(g, s, at, at, W)
  BY <1>1, <1>2, InsertIs
<1>4. Len(s) \in Nat /\ at \in Nat /\ at <= Len(s)
  OBVIOUS
<1>5. Len(g) = Len(s)
  BY <1>1, <1>3, <1>4 DEF Swap
<1>6. ASSUME NEW i \in 1..Len(g) PROVE g[i] = s[i]
  <2>1. CASE i <= at
    BY <1>3, <1>4, <1>5, <2>1 DEF Swap
  <2>2. CASE i > at
    <3>1. PICK j : j = i - at
      OBVIOUS
    <3>2. j \in 1..(Len(s) - at) /\ at + 0 + j = i /\ at + j = i
      BY <1>4, <1>5, <2>2, <3>1
    <3> QED BY <1>1, <1>3, <3>2 DEF Swap
  <2> QED BY <1>4, <2>1, <2>2
<1>7. g = s
  BY <1>3, <1>5, <1>6, SeqEqual
<1> QED BY <1>0, <1>2, <1>7

(* Lines inserted after those just inserted are inserted with them.        *)
LEMMA InsertTwice ==
  ASSUME NEW s \in Seq(Line), NEW at \in 0..Len(s), NEW A \in Seq(Line), NEW B \in Seq(Line)
  PROVE  /\ at + Len(A) \in 0..Len(InsertLines(s, at, A))
         /\ InsertLines(InsertLines(s, at, A), at + Len(A), B) = InsertLines(s, at, A \o B)
<1>1. PICK a \in Nat, b \in Nat, l \in Nat : a = Len(A) /\ b = Len(B) /\ l = Len(s)
  OBVIOUS
<1>2. at \in Nat /\ at <= l
  BY <1>1
<1>3. PICK g, h, G, C : /\ g = InsertLines(s, at, A) /\ h = InsertLines(g, at + a, B)
                        /\ C = A \o B /\ G = InsertLines(s, at, C)
  OBVIOUS
<1>4. C \in Seq(Line) /\ Len(C) = a + b /\ (\A i \in 1..a : C[i] = A[i]) /\ (\A i \in 1..b : C[a + i] = B[i])
  BY <1>1, <1>3
<1>5. g \in Seq(Line) /\ Swap(g, s, at, at, A)
  BY <1>3, InsertIs
<1>6. Len(g) = at + a + (l - at) /\ at + a \in 0..Len(g)
  <2>1. Len(g) = at + a + (l - at)
    BY <1>1, <1>5 DEF Swap
  <2> QED BY <1>1, <1>2, <2>1
<1>7. h \in Seq(Line) /\ Swap(h, g, at + a, at + a, B)
  BY <1>3, <1>5, <1>6, InsertIs
<1>8. G \in Seq(Line) /\ Swap(G, s, at, at, C)
  BY <1>3, <1>4, InsertIs
<1>9. Len(h) = at + a + b + (l - at) /\ Len(G) = at + a + b + (l - at)
  <2>1. Len(h) = (at + a) + b + (Len(g) - (at + a))
    BY <1>1, <1>7 DEF Swap
  <2>2. Len(G) = at + (a + b) + (l - at)
    BY <1>1, <1>4, <1>8 DEF Swap
  <2> QED BY <1>1, <1>2, <1>6, <2>1, <2>2
<1>10. ASSUME NEW i \in 1..Len(h) PROVE h[i] = G[i]
  <2>1. CASE i <= at
    <3>1. i \in 1..at /\ i \in 1..(at + a)
      BY <1>1, <1>2, <2>1
    <3>2. h[i] = g[i]
      BY <1>7, <3>1 DEF Swap
    <3>3. g[i] = s[i]
      BY <1>5, <3>1 DEF Swap
    <3>4. G[i] = s[i]
      BY <1>8, <3>1 DEF Swap
    <3> QED BY <3>2, <3>3, <3>4
  <2>2. CASE i > at /\ i <= at + a
    <3>1. PICK j \in 1..a : i = at + j
      <4>1. i - at \in 1..a /\ i = at + (i - at)
        BY <1>1, <1>2, <2>2
      <4> QED BY <4>1
    <3>2. i \in 1..(at + a) /\ j \in 1..(a + b)
      BY <1>1, <1>2, <2>2, <3>1
    <3>3. h[i] = g[i]
      BY <1>7, <3>2 DEF Swap
    <3>4. g[i] = A[j]
      BY <1>1, <1>5, <3>1 DEF Swap
    <3>5. G[i] = C[j]
      BY <1>4, <1>8, <3>1, <3>2 DEF Swap
    <3> QED BY <1>4, <3>1, <3>3, <3>4, <3>5
  <2>3. CASE i > at + a /\ i <= at + a + b
    <3>1. PICK j \in 1..b : i = (at + a) + j
      <4>1. i - (at + a) \in 1..b /\ i = (at + a) + (i - (at + a))
        BY <1>1, <1>2, <2>3
      <4> QED BY <4>1
    <3>2. a + j \in 1..(a + b) /\ i = at + (a + j)
      BY <1>1, <1>2, <3>1
    <3>3. h[i] = B[j]
      BY <1>1, <1>7, <3>1 DEF Swap
    <3>4. G[i] = C[a + j]
      BY <1>4, <1>8, <3>2 DEF Swap
    <3> QED BY <1>4, <3>1, <3>3, <3>4
  <2>4. CASE i > at + a + b
    <3>1. PICK j \in 1..(l - at) : i = at + a + b + j
      <4>1. i - (at + a + b) \in 1..(l - at) /\ i = at + a + b + (i - (at + a + b))
        BY <1>1, <1>2, <1>9, <2>4
      <4> QED BY <4>1
    <3>2. /\ i = (at + a) + b + j /\ i = at + (a + b) + j /\ (at + a) + j = at + a + j
          /\ j \in 1..(Len(g) - (at + a))
      BY <1>1, <1>2, <1>6, <3>1
    <3>3. h[i] = g[(at + a) + j]
      BY <1>1, <1>7, <3>2 DEF Swap
    <3>4. g[at + a + j] = s[at + j]
      BY <1>1, <1>5, <3>1 DEF Swap
    <3>5. G[i] = s[at + j]
      BY <1>1, <1>4, <1>8, <3>1, <3>2 DEF Swap
    <3> QED BY <3>2, <3>3, <3>4, <3>5
  <2> QED BY <1>1, <1>2, <2>1, <2>2, <2>3, <2>4
<1>11. h = G
  BY <1>7, <1>8, <1>9, <1>10, SeqEqual
<1> QED BY <1>1, <1>3, <1>6, <1>11

(* One entry more, of a key that is not there.                             *)
LEMMA OneInserted ==
  ASSUME NEW s, InStep(s), NEW X, Single(s, X), NEW at, Stands(s, at, X), NEW k \in Nat, k \notin KeysOf(s, X),
         NEW value, Writable(value), Readable(value.body), NEW g, g = InsertLines(s, at, Emit(k, value))
  PROVE  /\ InStep(g) /\ Single(g, X) /\ (Balanced(s) => Balanced(g))
         /\ Stands(g, at + Len(Emit(k, value)), X)
         /\ \A d : d \in Scan(g) <=> d \in Scan(s) \/ d = Of(X, k, Read(value))
<1>0. s \in Seq(Line)
  BY DEF InStep
<1>1. PICK W : W = Emit(k, value)
  OBVIOUS
<1>2. Legible(W, k, value)
  BY <1>1 DEF Legible
<1>3. W \in Seq(Line) /\ Readable(W) /\ (W = <<>> \/ IsBlock(W, k))
  BY <1>2, LegibleIs
<1>4. IsBlock(W, k)
  BY <1>1, EmitIsBlock
<1>5. CleanSwap(g, s, at, at, W, X, {k})
  <2>1. Fits(W, {k})
    BY <1>4, BlockFits
  <2> QED BY <1>0, <1>1, <2>1, InsertIsClean
<1>6. OnlyThere(s, X, k, at, at)
  BY DEF OnlyThere, KeysOf
<1>7. InStep(g) /\ (Balanced(s) => Balanced(g))
  BY <1>3, <1>5, SwapInStep
<1>8. Single(g, X)
  BY <1>3, <1>5, <1>6, SwapSingle
<1>9. \A d : d \in Scan(g) <=> Rewritten(d, Scan(s), X, k, W, value)
  BY <1>2, <1>5, <1>6, SwapReads
<1>10. \A d \in Scan(s) : d.section # X \/ d.key # k
  <2>1. ~Knows(Scan(s), X, k)
    BY KeysRead
  <2> QED BY <2>1 DEF Knows
<1>11. W # <<>>
  <2>1. Len(W) >= 1
    BY <1>4 DEF IsBlock
  <2> QED BY <2>1
<1>12. \A d : d \in Scan(g) <=> d \in Scan(s) \/ d = Of(X, k, Read(value))
  BY <1>9, <1>10, <1>11 DEF Rewritten
<1>13. Stands(g, at + Len(W), X)
  <2>1. Index(g)[at + Len(W)].section = X /\ Index(g)[at + Len(W)].depth = 0 /\ Standing(W, g, at)
    BY <1>5, SwapWalks
  <2>2. at + Len(W) <= Len(g)
    BY <2>1 DEF Standing
  <2>3. at \in Nat /\ Len(W) \in Nat
    BY <1>0, <1>3 DEF Stands
  <2>4. Len(g) \in Nat
    BY <1>7 DEF InStep
  <2>5. at + Len(W) \in 0..Len(g)
    BY <2>2, <2>3, <2>4
  <2> QED BY <2>1, <2>5 DEF Stands
<1> QED BY <1>1, <1>7, <1>8, <1>12, <1>13

\* What the first n insertions are read as.
ReadOf(d, X, ins, n) == \E i \in 1..n : d = Of(X, ins[i].key, Read(ins[i].value))
\* Lines that may be inserted in s: written, readable, of keys that differ and
\* are not there.
Insertable(ins, s, X) ==
  /\ ins \in Seq(Insertions)
  /\ \A i \in 1..Len(ins) : /\ Writable(ins[i].value) /\ Readable(ins[i].value.body)
                            /\ ins[i].key \notin KeysOf(s, X)
  /\ \A i, j \in 1..Len(ins) : ins[i].key = ins[j].key => i = j

(* All of them, in order.                                                  *)
LEMMA AllInserted ==
  ASSUME NEW s, InStep(s), NEW X, Single(s, X), NEW at, Stands(s, at, X), NEW ins, Insertable(ins, s, X),
         NEW h, h \in [0..Len(ins) -> Seq(Line)], h[0] = <<>>,
         \A n \in 1..Len(ins) : h[n] = h[n - 1] \o Emit(ins[n].key, ins[n].value),
         NEW g, g = InsertLines(s, at, h[Len(ins)])
  PROVE  /\ InStep(g) /\ Single(g, X) /\ (Balanced(s) => Balanced(g))
         /\ \A d : d \in Scan(g) <=> d \in Scan(s) \/ ReadOf(d, X, ins, Len(ins))
<1> DEFINE G(n) == InsertLines(s, at, h[n])
           Good(n) == /\ InStep(G(n)) /\ Single(G(n), X) /\ (Balanced(s) => Balanced(G(n)))
                      /\ Stands(G(n), at + Len(h[n]), X)
                      /\ \A d : d \in Scan(G(n)) <=> d \in Scan(s) \/ ReadOf(d, X, ins, n)
           D == {n \in 0..Len(ins) : Good(n)}
<1>0. s \in Seq(Line) /\ at \in 0..Len(s)
  BY DEF InStep, Stands
<1>1. PICK l \in Nat : l = Len(ins)
  BY DEF Insertable
<1>2. 0 \in D
  <2>1. G(0) = s
    BY <1>0, InsertNone
  <2>2. at + Len(h[0]) = at
    BY <1>0
  <2>3. \A d : ~ReadOf(d, X, ins, 0)
    BY DEF ReadOf
  <2>4. 0 \in 0..Len(ins)
    BY <1>1
  <2>5. Good(0)
    <3> HIDE DEF G
    <3> QED BY <2>1, <2>2, <2>3
  <2> HIDE DEF Good
  <2> QED BY <2>4, <2>5
<1>3. ASSUME NEW n \in 0..l, n < l, n \in D PROVE n + 1 \in D
  <2>1. Good(n) /\ n \in Nat
    BY <1>3
  <2>2. n + 1 \in 1..l /\ (n + 1) - 1 = n /\ n \in 0..l /\ n + 1 \in 0..l
    BY <1>3
  <2>3. PICK k, value, W : k = ins[n + 1].key /\ value = ins[n + 1].value /\ W = Emit(k, value)
    OBVIOUS
  <2>4. k \in Nat /\ Writable(value) /\ Readable(value.body)
    <3>1. n + 1 \in 1..Len(ins)
      BY <1>1, <2>2
    <3>2. ins[n + 1] \in Insertions
      BY <3>1 DEF Insertable
    <3>3. Writable(value) /\ Readable(value.body)
      BY <2>3, <3>1 DEF Insertable
    <3> QED BY <2>3, <3>2, <3>3 DEF Insertions
  <2>5. h[n + 1] = h[n] \o W /\ h[n] \in Seq(Line) /\ W \in Seq(Line)
    <3>1. h[n + 1] = h[n] \o W /\ h[n] \in Seq(Line)
      BY <1>1, <2>2, <2>3
    <3>2. W \in Seq(Line)
      <4>1. IsBlock(W, k)
        BY <2>3, <2>4, EmitIsBlock
      <4> QED BY <4>1 DEF IsBlock
    <3> QED BY <3>1, <3>2
  <2>6. PICK t, q : t = G(n) /\ q = at + Len(h[n])
    OBVIOUS
  <2>7. InStep(t) /\ Single(t, X) /\ (Balanced(s) => Balanced(t)) /\ Stands(t, q, X)
        /\ \A d : d \in Scan(t) <=> d \in Scan(s) \/ ReadOf(d, X, ins, n)
    <3> HIDE DEF G
    <3> QED BY <2>1, <2>6
  <2>8. G(n + 1) = InsertLines(t, q, W)
    <3>1. InsertLines(InsertLines(s, at, h[n]), at + Len(h[n]), W) = InsertLines(s, at, h[n] \o W)
      BY <1>0, <2>5, InsertTwice
    <3> QED BY <2>5, <2>6, <3>1
  <2>9. k \notin KeysOf(t, X)
    <3>1. ASSUME NEW d \in Scan(t), d.section = X, d.key = k PROVE FALSE
      <4>1. CASE d \in Scan(s)
        <5>1. Knows(Scan(s), X, k)
          BY <3>1, <4>1 DEF Knows
        <5>2. k \in KeysOf(s, X)
          BY <5>1, KeysRead
        <5> QED BY <1>1, <2>2, <2>3, <5>2 DEF Insertable
      <4>2. CASE ReadOf(d, X, ins, n)
        <5>1. PICK i \in 1..n : d = Of(X, ins[i].key, Read(ins[i].value))
          BY <4>2 DEF ReadOf
        <5>2. d.key = ins[i].key
          BY <5>1 DEF Of
        <5>3. i \in 1..l /\ i # n + 1
          BY <2>1, <2>2
        <5> QED BY <1>1, <2>2, <2>3, <3>1, <5>2, <5>3 DEF Insertable
      <4> QED BY <2>7, <4>1, <4>2
    <3>2. ~Knows(Scan(t), X, k)
      BY <3>1 DEF Knows
    <3> QED BY <2>7, <3>2, KeysRead
  <2>10. PICK u : u = InsertLines(t, q, W)
    OBVIOUS
  <2>11. InStep(u) /\ Single(u, X) /\ (Balanced(t) => Balanced(u)) /\ Stands(u, q + Len(W), X)
    BY <2>3, <2>4, <2>7, <2>9, <2>10, OneInserted
  <2>12. \A d : d \in Scan(u) <=> d \in Scan(t) \/ d = Of(X, k, Read(value))
    BY <2>3, <2>4, <2>7, <2>9, <2>10, OneInserted
  <2>13. q + Len(W) = at + Len(h[n + 1])
    <3>1. Len(h[n + 1]) = Len(h[n]) + Len(W) /\ Len(h[n]) \in Nat /\ Len(W) \in Nat
      BY <2>5
    <3> QED BY <1>0, <2>6, <3>1
  <2>14. \A d : ReadOf(d, X, ins, n + 1) <=> ReadOf(d, X, ins, n) \/ d = Of(X, k, Read(value))
    <3>1. \A i : i \in 1..(n + 1) <=> i \in 1..n \/ i = n + 1
      BY <2>1
    <3> QED BY <2>3, <3>1 DEF ReadOf
  <2>15. Good(n + 1)
    <3>1. G(n + 1) = u
      BY <2>8, <2>10
    <3>2. \A d : d \in Scan(u) <=> d \in Scan(s) \/ ReadOf(d, X, ins, n + 1)
      BY <2>7, <2>12, <2>14
    <3> HIDE DEF G
    <3> QED BY <2>7, <2>11, <2>13, <3>1, <3>2
  <2> HIDE DEF Good
  <2> QED BY <1>1, <2>2, <2>15
<1>4. \A n \in 0..l : n \in D
  <2> HIDE DEF D
  <2> QED BY <1>1, <1>2, <1>3, UpTo
<1>5. Good(l)
  <2>1. l \in 0..l
    BY <1>1
  <2> HIDE DEF Good
  <2> QED BY <1>4, <2>1
<1>6. G(l) = g
  BY <1>1
<1> QED
  <2> HIDE DEF G
  <2> QED BY <1>1, <1>5, <1>6

(* The insertions of an edit, in the order of their keys.                  *)
LEMMA SortedInserted ==
  ASSUME NEW s, InStep(s), NEW X, Single(s, X), NEW at, Stands(s, at, X), NEW ins, Insertable(ins, s, X),
         NEW g, g = InsertLines(s, at, EmitSorted(ins))
  PROVE  /\ InStep(g) /\ Single(g, X) /\ (Balanced(s) => Balanced(g))
         /\ \A d : d \in Scan(g) <=> d \in Scan(s) \/ ReadOf(d, X, ins, Len(ins))
<1>1. PICK sorted, p, h : Emits(ins, sorted, p, h)
  BY EmitSortedIs DEF Insertable
<1>2. Len(sorted) = Len(ins) /\ sorted \in Seq(Insertions) /\ Len(ins) \in Nat
  BY <1>1 DEF Emits, Insertable
<1>3. Insertable(sorted, s, X)
  <2>1. \A i \in 1..Len(ins) : p[i] \in 1..Len(ins) /\ sorted[i] = ins[p[i]]
    BY <1>1 DEF Emits
  <2>2. \A i, j \in 1..Len(ins) : p[i] = p[j] => i = j
    BY <1>1 DEF Emits
  <2>3. /\ \A i \in 1..Len(ins) : /\ Writable(ins[i].value) /\ Readable(ins[i].value.body)
                                 /\ ins[i].key \notin KeysOf(s, X)
        /\ \A i, j \in 1..Len(ins) : ins[i].key = ins[j].key => i = j
    BY DEF Insertable
  <2>4. \A i \in 1..Len(sorted) : /\ Writable(sorted[i].value) /\ Readable(sorted[i].value.body)
                                  /\ sorted[i].key \notin KeysOf(s, X)
    BY <1>2, <2>1, <2>3
  <2>5. ASSUME NEW i \in 1..Len(sorted), NEW j \in 1..Len(sorted), sorted[i].key = sorted[j].key PROVE i = j
    <3>1. p[i] = p[j]
      BY <1>2, <2>1, <2>3, <2>5
    <3> QED BY <1>2, <2>2, <3>1
  <2> QED BY <1>2, <2>4, <2>5 DEF Insertable
<1>4. h \in [0..Len(sorted) -> Seq(Line)] /\ h[0] = <<>> /\ EmitSorted(ins) = h[Len(sorted)]
  BY <1>1, <1>2 DEF Emits
<1>5. \A n \in 1..Len(sorted) : h[n] = h[n - 1] \o Emit(sorted[n].key, sorted[n].value)
  BY <1>1, <1>2 DEF Emits
<1>6. g = InsertLines(s, at, h[Len(sorted)])
  BY <1>4
<1>7. InStep(g) /\ Single(g, X) /\ (Balanced(s) => Balanced(g))
  BY <1>3, <1>4, <1>5, <1>6, AllInserted
<1>8. \A d : d \in Scan(g) <=> d \in Scan(s) \/ ReadOf(d, X, sorted, Len(sorted))
  BY <1>3, <1>4, <1>5, <1>6, AllInserted
<1>9. ASSUME NEW d PROVE ReadOf(d, X, sorted, Len(sorted)) <=> ReadOf(d, X, ins, Len(ins))
  <2>1. \A i \in 1..Len(ins) : p[i] \in 1..Len(ins) /\ sorted[i] = ins[p[i]]
    BY <1>1 DEF Emits
  <2>2. \A m \in 1..Len(ins) : \E i \in 1..Len(ins) : p[i] = m
    BY <1>1 DEF Emits
  <2>3. ASSUME NEW m \in 1..Len(ins), d = Of(X, ins[m].key, Read(ins[m].value))
        PROVE  ReadOf(d, X, sorted, Len(sorted))
    <3>1. PICK i \in 1..Len(ins) : p[i] = m
      BY <2>2
    <3>2. sorted[i] = ins[m]
      BY <2>1, <3>1
    <3> QED BY <1>2, <2>3, <3>2 DEF ReadOf
  <2>4. ASSUME NEW i \in 1..Len(ins), d = Of(X, sorted[i].key, Read(sorted[i].value))
        PROVE  ReadOf(d, X, ins, Len(ins))
    BY <2>1, <2>4 DEF ReadOf
  <2> QED BY <1>2, <2>3, <2>4 DEF ReadOf
<1> QED BY <1>7, <1>8, <1>9

\* What is read after the cuts of an edit, and after the edit.
CutOut(d, data, X, edit) ==
  \/ d \in data /\ (d.section # X \/ d.key \notin RemoveKeys(edit) \cup ReplaceKeys(edit))
  \/ \E k \in ReplaceKeys(edit) : d = Of(X, k, Read(edit.replace[k]))
Edited(d, data, X, edit) ==
  CutOut(d, data, X, edit) \/ ReadOf(d, X, edit.insert, Len(edit.insert))

(* The slices from below cut out what the edit says.                       *)
LEMMA CutsEdited ==
  ASSUME NEW f \in Seq(Line), NEW X, NEW edit, NEW K, Sensible(edit, K), Distinct(edit),
         RemoveKeys(edit) \cup ReplaceKeys(edit) \subseteq KeysOf(f, X), ~Unterminated(f, X),
         NEW R, R = FromBelow(Slices(f, X, edit)), NEW d
  PROVE  ReadAfter(d, f, X, edit, R, Len(R)) <=> CutOut(d, Scan(f), X, edit)
<1>1. /\ R \in Seq(Slice)
      /\ \A k \in RemoveKeys(edit) \cup ReplaceKeys(edit) : \E i \in 1..Len(R) : KeyOf(f, R, i) = k
  BY FromBelowIs DEF KeyOf
<1>2. Cuts(R, f, X, edit)
  BY CutsAre
<1>3. \A i \in 1..Len(R) : SliceOf(R[i], f, X, edit, R[i].start)
  BY <1>2 DEF Cuts
<1>4. ASSUME NEW i \in 1..Len(R)
      PROVE  \/ R[i].with = <<>> /\ KeyOf(f, R, i) \in RemoveKeys(edit)
             \/ R[i].with # <<>> /\ KeyOf(f, R, i) \in ReplaceKeys(edit)
  <2>1. CASE R[i].with = <<>> /\ KeyOf(f, R, i) \in RemoveKeys(edit)
    BY <2>1
  <2>2. CASE R[i].with = Emit(KeyOf(f, R, i), edit.replace[KeyOf(f, R, i)]) /\ KeyOf(f, R, i) \in ReplaceKeys(edit)
    <3>1. PICK k : k = KeyOf(f, R, i)
      OBVIOUS
    <3>2. k \in Nat /\ edit.replace[k] \in Values
      <4>1. k \in DOMAIN edit.replace
        BY <2>2, <3>1 DEF ReplaceKeys
      <4> QED BY <4>1 DEF Sensible, Written
    <3>3. PICK W : W = Emit(k, edit.replace[k])
      OBVIOUS
    <3>4. Len(W) = 1 + Len(edit.replace[k].body)
      BY <3>2, <3>3, EmitLines, ZenonT(60)
    <3>5. Len(edit.replace[k].body) \in Nat
      BY <3>2 DEF Values
    <3>6. W # <<>>
      BY <3>4, <3>5
    <3> QED BY <2>2, <3>1, <3>3, <3>6
  <2> QED BY <1>3, <2>1, <2>2 DEF SliceOf, KeyOf
<1>5. RemoveKeys(edit) \cap ReplaceKeys(edit) = {}
  BY DEF Distinct
<1>6. (\A i \in 1..Len(R) : d.key # KeyOf(f, R, i)) <=> d.key \notin RemoveKeys(edit) \cup ReplaceKeys(edit)
  BY <1>1, <1>4
<1>7. ASSUME NEW i \in 1..Len(R), R[i].with # <<>>,
             d = Of(X, KeyOf(f, R, i), Read(edit.replace[KeyOf(f, R, i)]))
      PROVE  \E k \in ReplaceKeys(edit) : d = Of(X, k, Read(edit.replace[k]))
  BY <1>4, <1>7
<1>8. ASSUME NEW k \in ReplaceKeys(edit), d = Of(X, k, Read(edit.replace[k]))
      PROVE  \E i \in 1..Len(R) : R[i].with # <<>> /\ d = Of(X, KeyOf(f, R, i), Read(edit.replace[KeyOf(f, R, i)]))
  <2>1. PICK i \in 1..Len(R) : KeyOf(f, R, i) = k
    BY <1>1
  <2>2. R[i].with # <<>>
    BY <1>4, <1>5, <2>1
  <2> QED BY <1>8, <2>1, <2>2
<1> QED BY <1>6, <1>7, <1>8 DEF ReadAfter, CutOut

(* What an edit makes of a file that has the section.                      *)
LEMMA SectionReads ==
  ASSUME NEW f, Whole(f), InStep(f), NEW X, NEW edit, NEW K, Sensible(edit, K), Fitting(edit), Distinct(edit),
         PlainReplace(edit), PlainInsert(edit), Targets(f, X) # {}, ~EditorRefuses(f, X, edit),
         NEW g, g = EditSection(f, X, edit)
  PROVE  /\ Whole(g) /\ InStep(g) /\ (Balanced(f) => Balanced(g))
         /\ \A d : d \in Scan(g) <=> Edited(d, Scan(f), X, edit)
<1>0. f \in Seq(Line)
  BY DEF Whole
<1>1. ~Unterminated(f, X) /\ RemoveKeys(edit) \cup ReplaceKeys(edit) \subseteq KeysOf(f, X)
  BY AcceptedIs
<1>2. Single(f, X)
  <2>1. \A m, n \in Entries(f, X) : f[m].key = f[n].key => m = n
    BY AcceptedIs
  <2> QED BY <2>1 DEF Single
<1>3. PICK R : R = FromBelow(Slices(f, X, edit))
  OBVIOUS
<1>4. Cuts(R, f, X, edit)
  BY <1>0, <1>1, <1>3, CutsAre
<1>5. PICK s : s = Spliced(f, R)[Len(R)]
  OBVIOUS
<1>6. InStep(s) /\ Single(s, X) /\ (Balanced(f) => Balanced(s))
  BY <1>2, <1>4, <1>5, AllCutsRead
<1>7. \A d : d \in Scan(s) <=> CutOut(d, Scan(f), X, edit)
  <2>1. \A d : d \in Scan(s) <=> ReadAfter(d, f, X, edit, R, Len(R))
    BY <1>2, <1>4, <1>5, AllCutsRead
  <2>2. \A d : ReadAfter(d, f, X, edit, R, Len(R)) <=> CutOut(d, Scan(f), X, edit)
    BY <1>0, <1>1, <1>3, CutsEdited
  <2> QED BY <2>1, <2>2
<1>8. PICK last : last = LastKept(f, X, edit)
  OBVIOUS
<1>9. Stands(f, last, X)
  BY <1>0, <1>1, <1>8, LastKeptIs
<1>10. PICK q : q = last + Shift(R, last)
  OBVIOUS
<1>11. Stands(s, q, X)
  BY <1>0, <1>4, <1>5, <1>9, <1>10, PositionIs
<1>12. Whole(s)
  BY <1>4, <1>5, CutsAreWhole
<1>13. q \in 0..Len(s) /\ Len(s) \in Nat /\ s \in Seq(Line)
  BY <1>11, <1>12 DEF Stands, Whole
<1>14. Position(q, Len(s)) = q
  <2>1. q \in Int
    BY <1>13
  <2> QED BY <2>1, <1>13, PositionInside
<1>15. PICK W : W = EmitSorted(edit.insert)
  OBVIOUS
<1>16. g = Joined(IF edit.insert = <<>> THEN s ELSE InsertLines(s, q, W))
  BY <1>3, <1>5, <1>8, <1>10, <1>14, <1>15 DEF EditSection
<1>17. CASE edit.insert = <<>>
  <2>1. g = s
    BY <1>12, <1>16, <1>17, JoinedOfWhole
  <2>2. \A d : ~ReadOf(d, X, edit.insert, Len(edit.insert))
    BY <1>17 DEF ReadOf
  <2> QED BY <1>6, <1>7, <1>12, <2>1, <2>2 DEF Edited
<1>18. CASE edit.insert # <<>>
  <2>1. Whole(InsertLines(s, q, W))
    <3>1. Whole(W)
      BY <1>15, EmitSortedIsWhole
    <3>2. W \in Seq(Line)
      BY <3>1 DEF Whole
    <3>3. InsertLines(s, q, W) \in Seq(Line) /\ Swap(InsertLines(s, q, W), s, q, q, W)
      BY <1>13, <3>2, InsertIs
    <3>4. q \in Nat /\ q <= q /\ q <= Len(s)
      BY <1>13
    <3> QED BY <1>12, <3>1, <3>3, <3>4, WholeSwap
  <2>2. g = InsertLines(s, q, W)
    BY <1>16, <1>18, <2>1, JoinedOfWhole
  <2>3. ASSUME NEW k \in InsertKeys(edit) PROVE k \notin KeysOf(s, X)
    <3>1. ASSUME NEW d \in Scan(s), d.section = X, d.key = k PROVE FALSE
      <4>0. CutOut(d, Scan(f), X, edit)
        BY <1>7
      <4>1. CASE d \in Scan(f) /\ d.key \notin RemoveKeys(edit) \cup ReplaceKeys(edit)
        <5>1. Knows(Scan(f), X, k)
          BY <3>1, <4>1 DEF Knows
        <5>2. k \in KeysOf(f, X)
          BY <5>1, KeysRead
        <5>3. InsertKeys(edit) \cap KeysOf(f, X) \subseteq RemoveKeys(edit)
          BY AcceptedIs
        <5> QED BY <2>3, <3>1, <4>1, <5>2, <5>3
      <4>2. CASE \E j \in ReplaceKeys(edit) : d = Of(X, j, Read(edit.replace[j]))
        <5>1. PICK j \in ReplaceKeys(edit) : d = Of(X, j, Read(edit.replace[j]))
          BY <4>2
        <5>2. d.key = j
          BY <5>1 DEF Of
        <5>3. InsertKeys(edit) \cap ReplaceKeys(edit) = {}
          BY DEF EditorRefuses
        <5> QED BY <2>3, <3>1, <5>1, <5>2, <5>3
      <4> QED BY <3>1, <4>0, <4>1, <4>2 DEF CutOut
    <3>2. ~Knows(Scan(s), X, k)
      BY <3>1 DEF Knows
    <3> QED BY <1>6, <3>2, KeysRead
  <2>4. Insertable(edit.insert, s, X)
    <3>1. edit.insert \in Seq(Insertions) /\ DOMAIN edit.insert = 1..Len(edit.insert)
      BY DEF Sensible
    <3>2. ASSUME NEW i \in 1..Len(edit.insert)
          PROVE  /\ Writable(edit.insert[i].value) /\ Readable(edit.insert[i].value.body)
                 /\ edit.insert[i].key \notin KeysOf(s, X)
      <4>1. edit.insert[i].key \in InsertKeys(edit)
        BY <3>1 DEF InsertKeys
      <4>2. Writable(edit.insert[i].value) /\ Readable(edit.insert[i].value.body)
        BY <3>1 DEF Fitting, PlainInsert
      <4> QED BY <2>3, <4>1, <4>2
    <3>3. ~InsertsTwice(edit)
      BY DEF EditorRefuses
    <3>4. \A i, j \in 1..Len(edit.insert) : edit.insert[i].key = edit.insert[j].key => i = j
      BY <3>1, <3>3 DEF InsertsTwice
    <3> QED BY <3>1, <3>2, <3>4 DEF Insertable
  <2>5. InStep(g) /\ (Balanced(s) => Balanced(g))
    BY <1>6, <1>11, <1>15, <2>2, <2>4, SortedInserted
  <2>6. \A d : d \in Scan(g) <=> d \in Scan(s) \/ ReadOf(d, X, edit.insert, Len(edit.insert))
    BY <1>6, <1>11, <1>15, <2>2, <2>4, SortedInserted
  <2>7. Whole(g)
    BY <2>1, <2>2
  <2> QED BY <1>6, <1>7, <2>5, <2>6, <2>7 DEF Edited
<1> QED BY <1>17, <1>18

(* Over the lines f begins with, both parsers go as they go over f.        *)
LEMMA PrefixRuns ==
  ASSUME NEW f \in Seq(Line), NEW g \in Seq(Line), Len(f) <= Len(g), \A i \in 1..Len(f) : g[i] = f[i]
  PROVE  \A n \in 0..Len(f) : /\ Alike(Index(f)[n], Index(g)[n])
                              /\ Scanned(g)[n].section = Scanned(f)[n].section
                              /\ Scanned(g)[n].depth = Scanned(f)[n].depth
                              /\ Scanned(g)[n].data = Scanned(f)[n].data
<1>1. PICK a \in Nat, l \in Nat : a = 0 /\ l = Len(f)
  OBVIOUS
<1>2. Len(g) \in Nat /\ 0 \in 0..Len(f) /\ 0 \in 0..Len(g)
  OBVIOUS
<1>3. Scanned(f)[0] = Outset /\ Scanned(g)[0] = Outset /\ Index(f)[0] = Origin /\ Index(g)[0] = Origin
  BY <1>2, BothAt
<1>4. a + l <= Len(f) /\ a + l <= Len(g) /\ \A i \in 1..l : f[a + i] = g[a + i]
  BY <1>1, <1>2
<1>5. Alike(Index(f)[a], Index(g)[a])
  BY <1>1, <1>3 DEF Alike
<1>6. Same(Scanned(f)[a], Scanned(g)[a], "", {})
  BY <1>1, <1>3 DEF Same
<1>7. \A i \in 0..l : Alike(Index(f)[a + i], Index(g)[a + i])
  BY <1>4, <1>5, WalksAlike
<1>8. \A i \in 0..l : Same(Scanned(f)[a + i], Scanned(g)[a + i], "", {})
  BY <1>4, <1>6, RunsSame
<1> QED
  <2> SUFFICES ASSUME NEW n \in 0..Len(f)
               PROVE  /\ Alike(Index(f)[n], Index(g)[n])
                      /\ Scanned(g)[n].section = Scanned(f)[n].section
                      /\ Scanned(g)[n].depth = Scanned(f)[n].depth
                      /\ Scanned(g)[n].data = Scanned(f)[n].data
    OBVIOUS
  <2>1. a + n = n /\ n \in 0..l
    BY <1>1
  <2>2. Alike(Index(f)[n], Index(g)[n]) /\ Same(Scanned(f)[n], Scanned(g)[n], "", {})
    BY <1>7, <1>8, <2>1
  <2>3. PICK s, t : s = Scanned(f)[n] /\ t = Scanned(g)[n]
    OBVIOUS
  <2>4. Without(s.data, "", {}) = s.data /\ Without(t.data, "", {}) = t.data
    BY DEF Without
  <2>5. s.section = t.section /\ s.depth = t.depth /\ Without(s.data, "", {}) = Without(t.data, "", {})
    BY <2>2, <2>3 DEF Same
  <2> QED BY <2>2, <2>3, <2>4, <2>5

\* A file like f, but that it ends in section X.
EndsIn(g, f, X) ==
  /\ InStep(g) /\ Balanced(g) /\ Scan(g) = Scan(f)
  /\ \A Y : Entries(g, Y) = Entries(f, Y)
  /\ Index(g)[Len(g)].section = X

(* A blank line or a header after a file that is balanced.                 *)
LEMMA OneAppended ==
  ASSUME NEW f, InStep(f), Balanced(f), NEW line \in Line, line.kind \in {"blank", "header"},
         NEW g, g = Append(f, line)
  PROVE  EndsIn(g, f, IF line.kind = "header" THEN line.section ELSE Index(f)[Len(f)].section)
<1>0. f \in Seq(Line) /\ g \in Seq(Line)
  BY DEF InStep
<1>1. PICK l \in Nat : l = Len(f)
  BY <1>0
<1>2. Len(g) = l + 1 /\ g[l + 1] = line /\ \A i \in 1..l : g[i] = f[i]
  BY <1>0, <1>1
<1>3. l \in 0..l /\ l \in 0..Len(g) /\ l < Len(g) /\ (l + 1) - 1 = l /\ l + 1 \in 1..Len(g)
  BY <1>2
<1>4. \A n \in 0..l : /\ Alike(Index(f)[n], Index(g)[n])
                      /\ Scanned(g)[n].section = Scanned(f)[n].section
                      /\ Scanned(g)[n].depth = Scanned(f)[n].depth
                      /\ Scanned(g)[n].data = Scanned(f)[n].data
  <2>1. Len(f) <= Len(g)
    BY <1>1, <1>2
  <2> QED BY <1>0, <1>1, <1>2, <2>1, PrefixRuns
<1>5. PICK s, t, c, d : s = Scanned(g)[l] /\ t = Scanned(g)[l + 1] /\ c = Index(g)[l] /\ d = Index(g)[l + 1]
  OBVIOUS
<1>6. s \in Scanner /\ c \in Cursor /\ t = ScanLine(s, line) /\ d = IndexLine(c, line)
  BY <1>0, <1>2, <1>3, <1>5, BothAt
<1>7. c.depth = 0 /\ c.section = Index(f)[Len(f)].section
  BY <1>1, <1>3, <1>4, <1>5 DEF Alike, Balanced
<1>8. ~Assigns(line) /\ (line.kind = "blank" => Skipped(line))
  BY DEF Assigns, Skipped
<1>9. d.depth = 0 /\ d.section = (IF line.kind = "header" THEN line.section ELSE Index(f)[Len(f)].section)
  BY <1>6, <1>7, <1>8, CursorMoves
<1>10. t.data = s.data
  BY <1>6, <1>8, ScannerMoves
<1>11. Scan(g) = Scan(f)
  BY <1>1, <1>2, <1>3, <1>4, <1>5, <1>10 DEF Scan
<1>12. InStep(g)
  <2>1. ASSUME NEW n \in 1..Len(g), Index(g)[n - 1].depth # 0 PROVE g[n].kind \notin {"header", "bracket"}
    <3>1. n # l + 1
      BY <1>3, <1>5, <1>7, <2>1
    <3>2. n \in 1..l /\ n - 1 \in 0..l
      BY <1>2, <3>1
    <3>3. Index(f)[n - 1].depth # 0 /\ g[n] = f[n]
      BY <1>2, <1>4, <2>1, <3>2 DEF Alike
    <3> QED BY <1>1, <3>2, <3>3 DEF InStep
  <2> QED BY <1>0, <2>1 DEF InStep
<1>13. ASSUME NEW Y PROVE Entries(g, Y) = Entries(f, Y)
  <2>0. \A n \in 1..Len(g) : n \in Entries(g, Y) <=> /\ Index(g)[n - 1].depth = 0
                                                     /\ Index(g)[n - 1].section = Y /\ Assigns(g[n])
    <3>1. PICK h \in Seq(Line) : h = g
      BY <1>0
    <3>2. \A n \in 1..Len(h) : n \in Entries(h, Y) <=> /\ Index(h)[n - 1].depth = 0
                                                       /\ Index(h)[n - 1].section = Y /\ Assigns(h[n])
      BY EntryAt
    <3> QED BY <3>1, <3>2
  <2>1. ASSUME NEW n \in Entries(g, Y) PROVE n \in Entries(f, Y)
    <3>1. n \in 1..Len(g)
      <4>1. DOMAIN g = 1..Len(g)
        BY <1>0
      <4> QED BY <4>1 DEF Entries
    <3>2. Index(g)[n - 1].depth = 0 /\ Index(g)[n - 1].section = Y /\ Assigns(g[n])
      BY <2>0, <2>1, <3>1
    <3>3. n \in 1..l /\ n - 1 \in 0..l
      <4>1. n # l + 1
        BY <1>2, <1>8, <3>2
      <4> QED BY <1>2, <3>1, <4>1
    <3>4. Index(f)[n - 1].depth = 0 /\ Index(f)[n - 1].section = Y /\ Assigns(f[n])
      BY <1>2, <1>4, <3>2, <3>3 DEF Alike
    <3> QED BY <1>0, <1>1, <3>3, <3>4, EntryAt
  <2>2. ASSUME NEW n \in Entries(f, Y) PROVE n \in Entries(g, Y)
    <3>1. n \in 1..l
      <4>1. DOMAIN f = 1..Len(f)
        BY <1>0
      <4> QED BY <1>1, <4>1 DEF Entries
    <3>2. Index(f)[n - 1].depth = 0 /\ Index(f)[n - 1].section = Y /\ Assigns(f[n])
      BY <1>0, <1>1, <2>2, <3>1, EntryAt
    <3>3. n \in 1..Len(g) /\ n - 1 \in 0..l
      BY <1>2, <3>1
    <3>4. Index(g)[n - 1].depth = 0 /\ Index(g)[n - 1].section = Y /\ Assigns(g[n])
      BY <1>2, <1>4, <3>1, <3>2, <3>3 DEF Alike
    <3> QED BY <1>0, <3>3, <3>4, EntryAt
  <2> QED BY <2>1, <2>2
<1>14. Balanced(g) /\ Index(g)[Len(g)].section = (IF line.kind = "header" THEN line.section ELSE Index(f)[Len(f)].section)
  BY <1>2, <1>5, <1>9 DEF Balanced
<1> QED BY <1>11, <1>12, <1>13, <1>14 DEF EndsIn

(* A file without a header of the section has no line in it.               *)
LEMMA NoneWithout ==
  ASSUME NEW f \in Seq(Line), NEW X, X # NoSection, Targets(f, X) = {}
  PROVE  \A n \in 0..Len(f) : Index(f)[n].section # X
<1> DEFINE D == {n \in 0..Len(f) : Index(f)[n].section # X}
<1>1. Len(f) \in Nat /\ DOMAIN f = 1..Len(f)
  OBVIOUS
<1>2. 0 \in D
  <2>1. 0 \in 0..Len(f)
    BY <1>1
  <2>2. Index(f)[0] = Origin
    BY <2>1, BothAt
  <2> QED BY <2>1, <2>2 DEF Origin
<1>3. ASSUME NEW n \in 0..Len(f), n < Len(f), n \in D PROVE n + 1 \in D
  <2>1. n + 1 \in 1..Len(f) /\ (n + 1) - 1 = n /\ n + 1 \in 0..Len(f)
    BY <1>1, <1>3
  <2>2. PICK c, d, line : c = Index(f)[n] /\ d = Index(f)[n + 1] /\ line = f[n + 1]
    OBVIOUS
  <2>3. c \in Cursor /\ line \in Line /\ d = IndexLine(c, line)
    BY <1>3, <2>2, BothAt
  <2>4. c.section # X
    BY <1>3, <2>2
  <2>5. ~(c.depth = 0 /\ line.kind = "header" /\ line.section = X)
    BY <1>1, <2>1, <2>2 DEF Targets
  <2>6. d.section # X
    BY <2>3, <2>4, <2>5, CursorMoves
  <2> QED BY <2>1, <2>2, <2>6
<1>4. \A n \in 0..Len(f) : n \in D
  <2> HIDE DEF D
  <2> QED BY <1>1, <1>2, <1>3, UpTo
<1> QED BY <1>4

(* So it has no entry there.                                               *)
LEMMA NoEntries ==
  ASSUME NEW f \in Seq(Line), NEW X, X # NoSection, Targets(f, X) = {}
  PROVE  Entries(f, X) = {}
<1> SUFFICES ASSUME NEW n \in Entries(f, X) PROVE FALSE
  OBVIOUS
<1>1. n \in 1..Len(f) /\ Index(f)[n].section = X /\ DOMAIN f = 1..Len(f)
  BY EntryIs, EntryAt DEF Entries
<1>2. n \in 0..Len(f)
  BY <1>1
<1> QED BY <1>1, <1>2, NoneWithout

(* The blank lines and the header of an appended section.                  *)
LEMMA LinesPlain ==
  ASSUME NEW X \in Texts
  PROVE  /\ Plain("blank") \in Line /\ Plain("blank").kind = "blank"
         /\ Header(X) \in Line /\ Header(X).kind = "header" /\ Header(X).section = X
<1>1. "" \in Texts
  BY TextsAssumption
<1>2. Plain("blank") \in Line /\ Plain("blank").kind = "blank"
  BY <1>1 DEF Plain, Line, LineKind, NoSection, NoKey
<1>3. PICK l : l = Plain("header")
  OBVIOUS
<1>4. l \in Line /\ l.kind = "header"
  BY <1>1, <1>3 DEF Plain, Line, LineKind, NoSection, NoKey
<1>5. l = [kind |-> l.kind, section |-> l.section, key |-> l.key, star |-> l.star,
           text |-> l.text, ended |-> l.ended]
  BY <1>4 DEF Line
<1>6. Header(X) = [l EXCEPT !.section = X]
  BY <1>3 DEF Header
<1>7. [l EXCEPT !.section = X] = [kind |-> l.kind, section |-> X, key |-> l.key, star |-> l.star,
                                  text |-> l.text, ended |-> l.ended]
  BY <1>5
<1>8. Header(X) \in Line /\ Header(X).kind = "header" /\ Header(X).section = X
  BY <1>4, <1>6, <1>7, LineFields DEF Line
<1> QED BY <1>2, <1>8

\* The file with the header of a section after it.
Opened(f, X) ==
  Append(Append(IF f[Len(f)].kind = "blank" THEN f ELSE Append(f, Plain("blank")), Header(X)), Plain("blank"))

(* Both parsers go on from the header in step.                             *)
LEMMA OpenedIs ==
  ASSUME NEW f, InStep(f), Balanced(f), NEW X \in Texts
  PROVE  EndsIn(Opened(f, X), f, X)
<1>1. PICK b, h : b = Plain("blank") /\ h = Header(X)
  OBVIOUS
<1>2. b \in Line /\ b.kind = "blank" /\ h \in Line /\ h.kind = "header" /\ h.section = X
  BY <1>1, LinesPlain
<1>3. PICK u : u = IF f[Len(f)].kind = "blank" THEN f ELSE Append(f, b)
  OBVIOUS
<1>4. InStep(u) /\ Balanced(u) /\ Scan(u) = Scan(f) /\ \A Y : Entries(u, Y) = Entries(f, Y)
  <2>1. CASE u = f
    BY <2>1
  <2>2. CASE u = Append(f, b)
    <3>1. EndsIn(u, f, Index(f)[Len(f)].section)
      BY <1>2, <2>2, OneAppended
    <3> QED BY <3>1 DEF EndsIn
  <2> QED BY <1>3, <2>1, <2>2
<1>5. PICK v : v = Append(u, h)
  OBVIOUS
<1>6. EndsIn(v, u, X)
  BY <1>2, <1>4, <1>5, OneAppended
<1>7. PICK w : w = Append(v, b)
  OBVIOUS
<1>8. EndsIn(w, v, X)
  <2>1. InStep(v) /\ Balanced(v) /\ Index(v)[Len(v)].section = X
    BY <1>6 DEF EndsIn
  <2>2. EndsIn(w, v, Index(v)[Len(v)].section)
    BY <1>2, <1>7, <2>1, OneAppended
  <2> QED BY <2>1, <2>2
<1>9. w = Opened(f, X)
  BY <1>1, <1>3, <1>5, <1>7 DEF Opened
<1>10. EndsIn(w, f, X)
  BY <1>4, <1>6, <1>8 DEF EndsIn
<1> QED BY <1>9, <1>10

(* A file whose lines are all ended is left as it is.                      *)
LEMMA EndOfWhole ==
  ASSUME NEW f, Whole(f), IsText(f)
  PROVE  End(f) = f
<1>0. f \in Seq(Line) /\ Len(f) \in Nat
  BY DEF Whole
<1>1. f # <<>>
  BY DEF IsText
<1>2. Len(f) \in 1..Len(f) /\ DOMAIN f = 1..Len(f)
  <2>1. Len(f) # 0
    BY <1>0, <1>1, EmptySeq
  <2> QED BY <1>0, <2>1
<1>3. f[Len(f)].ended /\ f[Len(f)] \in Line
  BY <1>0, <1>2 DEF Whole
<1>4. PICK l \in Line : l = f[Len(f)] /\ l.ended
  BY <1>3
<1>5. l = [l EXCEPT !.ended = TRUE]
  <2>1. l = [kind |-> l.kind, section |-> l.section, key |-> l.key, star |-> l.star,
             text |-> l.text, ended |-> l.ended]
    BY DEF Line
  <2>2. l.ended = TRUE
    BY <1>4, LineFields
  <2>3. [l EXCEPT !.ended = TRUE] = [kind |-> l.kind, section |-> l.section, key |-> l.key, star |-> l.star,
                                     text |-> l.text, ended |-> TRUE]
    <3>1. DOMAIN l = {"kind", "section", "key", "star", "text", "ended"}
      BY <2>1
    <3>2. PICK m : m = [l EXCEPT !.ended = TRUE]
      OBVIOUS
    <3>3. m = [x \in {"kind", "section", "key", "star", "text", "ended"} |-> IF x = "ended" THEN TRUE ELSE l[x]]
      BY <3>1, <3>2
    <3>4. m = [kind |-> l.kind, section |-> l.section, key |-> l.key, star |-> l.star,
               text |-> l.text, ended |-> TRUE]
      BY <3>3
    <3> QED BY <3>2, <3>4
  <2> QED BY <2>1, <2>2, <2>3
<1>6. f = [i \in 1..Len(f) |-> f[i]]
  BY <1>0
<1>7. End(f) = [i \in 1..Len(f) |-> IF i = Len(f) THEN [l EXCEPT !.ended = TRUE] ELSE f[i]]
  BY <1>2, <1>4 DEF End
<1> QED BY <1>4, <1>5, <1>6, <1>7

(* What an edit makes of a file that lacks the section.                    *)
LEMMA AppendReads ==
  ASSUME NEW f, Whole(f), IsText(f), InStep(f), Balanced(f), NEW X \in Texts, X # NoSection, NEW edit, NEW K,
         Sensible(edit, K), Fitting(edit), PlainReplace(edit), PlainInsert(edit),
         Targets(f, X) = {}, ~EditorRefuses(f, X, edit), NEW g, g = AppendSection(f, X, edit)
  PROVE  /\ Whole(g) /\ InStep(g) /\ Balanced(g)
         /\ \A d : d \in Scan(g) <=> Edited(d, Scan(f), X, edit)
<1>0. f \in Seq(Line) /\ Len(f) \in Nat
  BY DEF Whole
<1>1. Whole(g)
  BY AppendIs
<1>2. PICK o : o = Opened(f, X)
  OBVIOUS
<1>3. EndsIn(o, f, X)
  BY <1>2, OpenedIs
<1>4. InStep(o) /\ Balanced(o) /\ Scan(o) = Scan(f) /\ Entries(o, X) = {} /\ Index(o)[Len(o)].section = X
  <2>1. Entries(f, X) = {}
    BY <1>0, NoEntries
  <2> QED BY <1>3, <2>1 DEF EndsIn
<1>5. o \in Seq(Line) /\ Len(o) \in Nat
  BY <1>4 DEF InStep
<1>6. Stands(o, Len(o), X)
  <2>1. Len(o) \in 0..Len(o)
    BY <1>5
  <2> QED BY <1>4, <2>1 DEF Stands, Balanced
<1>7. Single(o, X) /\ KeysOf(o, X) = {}
  BY <1>4 DEF Single, KeysOf
<1>8. Insertable(edit.insert, o, X)
  <2>1. edit.insert \in Seq(Insertions) /\ DOMAIN edit.insert = 1..Len(edit.insert)
    BY DEF Sensible
  <2>2. \A i \in 1..Len(edit.insert) : Writable(edit.insert[i].value) /\ Readable(edit.insert[i].value.body)
    BY <2>1 DEF Fitting, PlainInsert
  <2>3. ~InsertsTwice(edit)
    BY DEF EditorRefuses
  <2>4. \A i, j \in 1..Len(edit.insert) : edit.insert[i].key = edit.insert[j].key => i = j
    BY <2>1, <2>3 DEF InsertsTwice
  <2> QED BY <1>7, <2>1, <2>2, <2>4 DEF Insertable
<1>9. PICK c : c = EmitSorted(edit.insert)
  OBVIOUS
<1>10. c \in Seq(Line)
  BY <1>9, EmitSortedIsWhole DEF Whole
<1>11. g = InsertLines(o, Len(o), c)
  <2>1. End(f) = f
    BY EndOfWhole
  <2>2. PICK b, h : b = Plain("blank") /\ h = Header(X)
    OBVIOUS
  <2>3. b \in Line /\ h \in Line
    BY <2>2, LinesPlain
  <2>4. PICK u : u = IF f[Len(f)].kind = "blank" THEN f ELSE Append(f, b)
    OBVIOUS
  <2>5. u \in Seq(Line)
    BY <1>0, <2>3, <2>4
  <2>6. End(f) \o (IF f[Len(f)].kind = "blank" THEN <<>> ELSE <<b>>) = u
    <3>1. CASE f[Len(f)].kind = "blank"
      <4>1. f \o <<>> = f
        BY <1>0
      <4> QED BY <2>1, <2>4, <3>1, <4>1
    <3>2. CASE f[Len(f)].kind # "blank"
      <4>1. f \o <<b>> = Append(f, b)
        BY <1>0, <2>3
      <4> QED BY <2>1, <2>4, <3>2, <4>1
    <3> QED BY <3>1, <3>2
  <2>7. g = (u \o <<h, b>>) \o c
    BY <1>9, <2>2, <2>6 DEF AppendSection
  <2>8. u \o <<h, b>> = Append(Append(u, h), b)
    BY <2>3, <2>5
  <2>9. o = Append(Append(u, h), b)
    BY <1>2, <2>2, <2>4 DEF Opened
  <2>10. g = o \o c
    BY <2>7, <2>8, <2>9
  <2>11. InsertLines(o, Len(o), c) = o \o c
    <3>1. PICK L \in Nat : L = Len(o)
      BY <1>5
    <3>2. SubSeq(o, 1, L) = o
      BY <1>5, <3>1
    <3>3. SubSeq(o, L + 1, L) = <<>>
      BY <1>5, <3>1
    <3>4. (o \o c) \o <<>> = o \o c
      <4>1. o \o c \in Seq(Line)
        BY <1>5, <1>10
      <4> QED BY <4>1
    <3> QED BY <3>1, <3>2, <3>3, <3>4 DEF InsertLines
  <2> QED BY <2>10, <2>11
<1>12. InStep(g) /\ (Balanced(o) => Balanced(g))
  BY <1>4, <1>6, <1>7, <1>8, <1>9, <1>11, SortedInserted
<1>13. \A d : d \in Scan(g) <=> d \in Scan(o) \/ ReadOf(d, X, edit.insert, Len(edit.insert))
  BY <1>4, <1>6, <1>7, <1>8, <1>9, <1>11, SortedInserted
<1>14. \A d : CutOut(d, Scan(f), X, edit) <=> d \in Scan(f)
  <2>1. RemoveKeys(edit) \cup ReplaceKeys(edit) = {}
    BY DEF EditorRefuses
  <2> QED BY <2>1 DEF CutOut
<1> QED BY <1>1, <1>4, <1>12, <1>13, <1>14 DEF Edited

(* What the editor makes of a file both parsers read in step is read in    *)
(* step, and means what the edit says.                                     *)
LEMMA EditReads ==
  ASSUME NEW f, Whole(f), IsText(f), InStep(f), Balanced(f), NEW X \in Texts, X # NoSection, NEW edit, NEW K,
         Sensible(edit, K), Fitting(edit), Distinct(edit), PlainReplace(edit), PlainInsert(edit),
         ~EditorRefuses(f, X, edit), NEW g, g = ApplySectionEdits(f, X, edit)
  PROVE  /\ Whole(g) /\ InStep(g) /\ Balanced(g)
         /\ \A d : d \in Scan(g) <=> Edited(d, Scan(f), X, edit)
<1>1. CASE Targets(f, X) # {}
  <2>1. g = EditSection(f, X, edit)
    BY <1>1 DEF ApplySectionEdits
  <2>2. Whole(g) /\ InStep(g) /\ (Balanced(f) => Balanced(g))
    BY <1>1, <2>1, SectionReads
  <2>3. \A d : d \in Scan(g) <=> Edited(d, Scan(f), X, edit)
    BY <1>1, <2>1, SectionReads
  <2> QED BY <2>2, <2>3
<1>2. CASE Targets(f, X) = {} /\ edit.insert # <<>>
  <2>1. g = AppendSection(f, X, edit)
    BY <1>2 DEF ApplySectionEdits
  <2> QED BY <1>2, <2>1, AppendReads
<1>3. CASE Targets(f, X) = {} /\ edit.insert = <<>>
  <2>1. g = f
    BY <1>3 DEF ApplySectionEdits
  <2>2. RemoveKeys(edit) \cup ReplaceKeys(edit) = {}
    BY <1>3 DEF EditorRefuses
  <2>3. \A d : ~ReadOf(d, X, edit.insert, Len(edit.insert))
    BY <1>3 DEF ReadOf
  <2>4. \A d : Edited(d, Scan(f), X, edit) <=> d \in Scan(f)
    BY <2>2, <2>3 DEF Edited, CutOut
  <2> QED BY <2>1, <2>4
<1> QED BY <1>1, <1>2, <1>3

-----------------------------------------------------------------------------
(* The invariant of the command.                                           *)

(* How a plan came about: from a text, by the edit that the adapter made   *)
(* of the request and the section it had seen.                             *)
Made(from, to, r, v) ==
  /\ IsText(from) /\ ~EditFor(r, v).refused /\ ~EditorRefuses(from, r.section, EditFor(r, v))
  /\ to = ApplySectionEdits(from, r.section, EditFor(r, v))
\* A plan is made once, of what is seen, and nothing is applied without one.
PlanIsMade ==
  /\ plan # NoPlan => /\ pc \notin {"start", "optional", "parsed"}
                      /\ Made(plan.from, plan.to, request, seen)
  /\ pc \in {"planned", "checked"} => plan # NoPlan
\* Unless the editor saved in between, what is seen is what is edited.
SeenIsThere ==
  /\ pc = "optional" => request.section = Application
  /\ ~raced =>
            /\ pc \in {"optional", "parsed"} => seen = SectionOf(Scan(file), request.section)
            /\ plan # NoPlan => seen = SectionOf(Scan(plan.from), request.section)
\* A command that answered "no-op" had nothing to change.
NoopIsMade ==
  pc = "noop" => ~EditFor(request, seen).refused /\ NoChange(EditFor(request, seen))
IInv == TypeOK /\ View(seen) /\ PlanIsMade /\ SeenIsThere /\ NoopIsMade

(* Requests and files are what the constants are assumed to be.           *)
LEMMA RequestsAre == ASSUME NEW r \in Requests PROVE RequestType(r) /\ r.section \in DOMAIN Files
  BY SettingsAssumption

(* The files at first, and those that are saved, are texts.               *)
LEMMA FilesAre ==
  /\ \A s \in DOMAIN Files : \A f \in Files[s] : IsText(f)
  /\ \A f \in Saves : IsText(f)
<1>1. \A f \in (UNION Range(Files)) \cup Saves : IsText(f)
  BY SettingsAssumption
<1>2. ASSUME NEW s \in DOMAIN Files, NEW f \in Files[s] PROVE f \in UNION Range(Files)
  <2>1. Files[s] \in Range(Files)
    BY DEF Range
  <2> QED BY <2>1
<1> QED BY <1>1, <1>2

(* A text has a line.                                                     *)
LEMMA TextIsMore == ASSUME NEW f, IsText(f) PROVE f \in Seq(Line) /\ f # <<>>
  BY DEF IsText

(* The invariant holds at first.                                          *)
LEMMA InitIsRight == Init => IInv
<1> SUFFICES ASSUME Init PROVE IInv
  OBVIOUS
<1>1. /\ request \in Requests /\ file \in Files[request.section] /\ pc = "start" /\ seen = <<>>
      /\ plan = NoPlan /\ saves = 0 /\ raced = FALSE
  BY DEF Init
<1>2. IsText(file)
  BY <1>1, RequestsAre, FilesAre
<1>3. DOMAIN seen = {}
  BY <1>1, NoReplace
<1>4. View(seen)
  BY <1>3, FS_EmptySet DEF View
<1>5. TypeOK
  <2>1. saves \in 0..MaxSaves
    BY <1>1, SettingsAssumption
  <2>2. raced \in BOOLEAN
    BY <1>1
  <2>3. pc \in {"start", "optional", "parsed", "planned", "checked"} \cup Ends
    BY <1>1
  <2> QED BY <1>1, <1>2, <1>3, <2>1, <2>2, <2>3 DEF TypeOK
<1>6. PlanIsMade /\ SeenIsThere /\ NoopIsMade
  BY <1>1 DEF PlanIsMade, SeenIsThere, NoopIsMade
<1> QED BY <1>4, <1>5, <1>6 DEF IInv

(* The first read keeps the invariant.                                    *)
LEMMA PreflightKeeps == IInv /\ Preflight => IInv'
<1> SUFFICES ASSUME IInv, Preflight PROVE IInv'
  OBVIOUS
<1>1. TypeOK /\ PlanIsMade /\ SeenIsThere
  BY DEF IInv
<1>2. /\ pc = "start" /\ seen' = SectionOf(Scan(file), request.section)
      /\ pc' = (IF NameKey \notin DOMAIN SectionOf(Scan(file), Application) THEN "refused"
                ELSE IF request.section = Application THEN "optional" ELSE "parsed")
      /\ file' = file /\ request' = request /\ plan' = plan /\ saves' = saves /\ raced' = raced
  BY DEF Preflight
<1>3. pc' \in {"refused", "optional", "parsed"}
  BY <1>2
<1>4. plan = NoPlan
  BY <1>1, <1>2 DEF PlanIsMade
<1>5. IsText(file) /\ file \in Seq(Line)
  BY <1>1 DEF TypeOK, IsText
<1>6. View(seen')
  BY <1>2, <1>5, ScanIsTyped, SectionIs
<1>7. TypeOK'
  <2>1. DOMAIN seen' \subseteq Nat /\ \A k \in DOMAIN seen' : seen'[k] \in Values
    BY <1>6 DEF View
  <2>2. pc' \in {"start", "optional", "parsed", "planned", "checked"} \cup Ends
    BY <1>3 DEF Ends
  <2> QED BY <1>1, <1>2, <2>1, <2>2 DEF TypeOK
<1>8. View(seen)'
  BY <1>6 DEF View
<1>9. PlanIsMade'
  BY <1>2, <1>3, <1>4 DEF PlanIsMade
<1>10. SeenIsThere'
  <2>1. pc' = "optional" => request.section = Application
    BY <1>2
  <2> QED BY <1>2, <1>3, <1>4, <2>1 DEF SeenIsThere
<1>11. NoopIsMade'
  BY <1>3 DEF NoopIsMade
<1> QED BY <1>7, <1>8, <1>9, <1>10, <1>11 DEF IInv

(* The second read of the application adapter keeps it.                   *)
LEMMA ReadOptionalKeeps == IInv /\ ReadOptional => IInv'
<1> SUFFICES ASSUME IInv, ReadOptional PROVE IInv'
  OBVIOUS
<1> DEFINE again == SectionOf(Scan(file), Application)
           kept == (DOMAIN seen) \ ReadTwice
           found == DOMAIN again \cap ReadTwice
<1>1. TypeOK /\ PlanIsMade /\ SeenIsThere /\ View(seen)
  BY DEF IInv
<1>2. /\ pc = "optional" /\ pc' = "parsed"
      /\ seen' = [k \in kept \cup found |-> IF k \in found THEN again[k] ELSE seen[k]]
      /\ file' = file /\ request' = request /\ plan' = plan /\ saves' = saves /\ raced' = raced
  BY DEF ReadOptional
<1>4. plan = NoPlan
  BY <1>1, <1>2 DEF PlanIsMade
<1>5. file \in Seq(Line)
  BY <1>1 DEF TypeOK, IsText
<1>6. View(again)
  BY <1>5, ScanIsTyped, SectionIs
<1>7. View(seen')
  <2>1. /\ IsFiniteSet(DOMAIN again) /\ DOMAIN again \subseteq Nat /\ \A k \in DOMAIN again : again[k] \in Values
        /\ IsFiniteSet(DOMAIN seen) /\ DOMAIN seen \subseteq Nat /\ \A k \in DOMAIN seen : seen[k] \in Values
    BY <1>1, <1>6 DEF View
  <2> HIDE DEF again
  <2>2. DOMAIN seen' = kept \cup found
    BY <1>2
  <2>3. IsFiniteSet(kept) /\ IsFiniteSet(found)
    BY <2>1, FS_Subset
  <2>4. IsFiniteSet(kept \cup found)
    BY <2>3, FS_Union
  <2>5. \A k \in kept \cup found : k \in Nat /\ seen'[k] \in Values
    BY <1>2, <2>1
  <2> QED BY <2>2, <2>4, <2>5 DEF View
<1>8. TypeOK'
  <2>1. DOMAIN seen' \subseteq Nat /\ \A k \in DOMAIN seen' : seen'[k] \in Values
    BY <1>7 DEF View
  <2>2. pc' \in {"start", "optional", "parsed", "planned", "checked"} \cup Ends
    BY <1>2
  <2> QED BY <1>1, <1>2, <2>1, <2>2 DEF TypeOK
<1>9. View(seen)'
  BY <1>7 DEF View
<1>10. PlanIsMade'
  BY <1>2, <1>4 DEF PlanIsMade
<1>11. SeenIsThere'
  <2>1. ASSUME ~raced, request.section = Application PROVE seen' = seen
    <3>1. seen = again
      BY <1>1, <1>2, <2>1 DEF SeenIsThere
    <3> HIDE DEF again
    <3>2. kept \cup found = DOMAIN seen
      BY <3>1
    <3>3. seen' = [k \in DOMAIN seen |-> seen[k]]
      BY <1>2, <3>1, <3>2
    <3>4. seen = [k \in DOMAIN seen |-> seen[k]]
      <4>1. again = [k \in DOMAIN again |-> again[k]]
        BY DEF again, SectionOf
      <4> QED BY <3>1, <4>1
    <3> QED BY <3>3, <3>4
  <2>2. request.section = Application
    BY <1>1, <1>2 DEF SeenIsThere
  <2> QED BY <1>1, <1>2, <1>4, <2>1, <2>2 DEF SeenIsThere
<1>12. NoopIsMade'
  BY <1>2 DEF NoopIsMade
<1> QED BY <1>8, <1>9, <1>10, <1>11, <1>12 DEF IInv
(* Planning keeps it.                                                     *)
LEMMA PlanKeeps == IInv /\ Plan => IInv'
<1> SUFFICES ASSUME IInv, Plan PROVE IInv'
  OBVIOUS
<1>1. TypeOK /\ PlanIsMade /\ SeenIsThere /\ View(seen)
  BY DEF IInv
<1>2. PICK edit : edit = EditFor(request, seen)
  OBVIOUS
<1>3. pc = "parsed" /\ file' = file /\ request' = request /\ seen' = seen /\ saves' = saves /\ raced' = raced
  BY DEF Plan
<1>4. \/ pc' = "refused" /\ plan' = plan
      \/ pc' = "noop" /\ plan' = plan /\ ~edit.refused /\ NoChange(edit)
      \/ /\ pc' = "planned" /\ ~edit.refused /\ ~EditorRefuses(file, request.section, edit)
         /\ plan' = [from |-> file, to |-> ApplySectionEdits(file, request.section, edit)]
  <2>1. PICK refused : refused = (edit.refused \/ (~NoChange(edit) /\ EditorRefuses(file, request.section, edit)))
    OBVIOUS
  <2>2. IF refused THEN pc' = "refused" /\ UNCHANGED plan
        ELSE IF NoChange(edit) THEN pc' = "noop" /\ UNCHANGED plan
        ELSE /\ plan' = [from |-> file, to |-> ApplySectionEdits(file, request.section, edit)]
             /\ pc' = "planned"
    BY <1>2, <2>1 DEF Plan
  <2>3. CASE refused
    BY <2>2, <2>3
  <2>4. CASE ~refused /\ NoChange(edit)
    BY <2>1, <2>2, <2>4
  <2>5. CASE ~refused /\ ~NoChange(edit)
    BY <2>1, <2>2, <2>5
  <2> QED BY <2>3, <2>4, <2>5
<1>5. plan = NoPlan
  BY <1>1, <1>3 DEF PlanIsMade
<1>6. TypeOK'
  <2>1. pc' \in {"start", "optional", "parsed", "planned", "checked"} \cup Ends
    BY <1>4 DEF Ends
  <2> QED BY <1>1, <1>3, <2>1 DEF TypeOK
<1>7. View(seen)'
  BY <1>1, <1>3 DEF View
<1>8. NoopIsMade'
  BY <1>2, <1>3, <1>4 DEF NoopIsMade
<1>9. CASE pc' = "planned" /\ ~edit.refused /\ ~EditorRefuses(file, request.section, edit)
           /\ plan' = [from |-> file, to |-> ApplySectionEdits(file, request.section, edit)]
  <2>0. plan'.from = file /\ plan'.to = ApplySectionEdits(file, request.section, edit)
    BY <1>9
  <2>1. IsText(file)
    BY <1>1 DEF TypeOK
  <2>2. Made(plan'.from, plan'.to, request', seen')
    BY <1>2, <1>3, <1>9, <2>0, <2>1 DEF Made
  <2>3. plan' # NoPlan
    <3>1. plan'.from # <<>>
      BY <2>0, <2>1, TextIsMore
    <3> QED BY <3>1 DEF NoPlan
  <2>4. PlanIsMade'
    BY <1>9, <2>2, <2>3 DEF PlanIsMade
  <2>5. SeenIsThere'
    BY <1>1, <1>3, <1>9, <2>0 DEF SeenIsThere
  <2> QED BY <1>6, <1>7, <1>8, <2>4, <2>5 DEF IInv
<1>10. CASE pc' \in {"refused", "noop"} /\ plan' = plan
  <2>1. PlanIsMade'
    BY <1>5, <1>10 DEF PlanIsMade
  <2>2. SeenIsThere'
    BY <1>5, <1>10 DEF SeenIsThere
  <2> QED BY <1>6, <1>7, <1>8, <2>1, <2>2 DEF IInv
<1> QED BY <1>4, <1>9, <1>10

(* Showing a plan keeps it.                                               *)
LEMMA PreviewKeeps == IInv /\ Preview => IInv'
<1> SUFFICES ASSUME IInv, Preview PROVE IInv'
  OBVIOUS
<1>1. TypeOK /\ PlanIsMade /\ SeenIsThere /\ View(seen)
  BY DEF IInv
<1>2. /\ pc = "planned" /\ pc' = "previewed" /\ file' = file /\ request' = request /\ seen' = seen
      /\ plan' = plan /\ saves' = saves /\ raced' = raced
  BY DEF Preview
<1>3. TypeOK'
  BY <1>1, <1>2 DEF TypeOK, Ends
<1>4. View(seen)'
  BY <1>1, <1>2 DEF View
<1>5. PlanIsMade'
  BY <1>1, <1>2 DEF PlanIsMade
<1>6. SeenIsThere'
  BY <1>1, <1>2 DEF SeenIsThere
<1>7. NoopIsMade'
  BY <1>2 DEF NoopIsMade
<1> QED BY <1>3, <1>4, <1>5, <1>6, <1>7 DEF IInv

(* The first check of the hash keeps it.                                  *)
LEMMA CheckKeeps == IInv /\ Check => IInv'
<1> SUFFICES ASSUME IInv, Check PROVE IInv'
  OBVIOUS
<1>1. TypeOK /\ PlanIsMade /\ SeenIsThere /\ View(seen)
  BY DEF IInv
<1>2. /\ pc = "planned" /\ pc' \in {"checked", "conflict"} /\ file' = file /\ request' = request
      /\ seen' = seen /\ plan' = plan /\ saves' = saves /\ raced' = raced
  BY DEF Check
<1>3. TypeOK'
  BY <1>1, <1>2 DEF TypeOK, Ends
<1>4. View(seen)'
  BY <1>1, <1>2 DEF View
<1>5. PlanIsMade'
  BY <1>1, <1>2 DEF PlanIsMade
<1>6. SeenIsThere'
  BY <1>1, <1>2 DEF SeenIsThere
<1>7. NoopIsMade'
  BY <1>2 DEF NoopIsMade
<1> QED BY <1>3, <1>4, <1>5, <1>6, <1>7 DEF IInv

(* What is applied is what was planned, over the file it was planned for.  *)
LEMMA ApplyIs ==
  ASSUME IInv, Apply, pc' = "applied"
  PROVE  Made(file, file', request, seen)
<1>1. PlanIsMade
  BY DEF IInv
<1>2. pc = "checked" /\ file = plan.from /\ file' = plan.to
  BY DEF Apply, Expected
<1>3. Made(plan.from, plan.to, request, seen)
  BY <1>1, <1>2 DEF PlanIsMade
<1> QED BY <1>2, <1>3

(* What is planned is a text.                                             *)
LEMMA MadeIsText ==
  ASSUME NEW from, NEW to, NEW r, RequestType(r), NEW v, View(v), Made(from, to, r, v)
  PROVE  IsText(to)
<1>1. PICK edit : edit = EditFor(r, v)
  OBVIOUS
<1>2. /\ IsText(from) /\ ~edit.refused /\ ~EditorRefuses(from, r.section, edit)
      /\ to = ApplySectionEdits(from, r.section, edit)
  BY <1>1 DEF Made
<1> QED BY <1>1, <1>2, ApplyKeepsText

(* Applying keeps it.                                                     *)
LEMMA ApplyKeeps == IInv /\ Apply => IInv'
<1> SUFFICES ASSUME IInv, Apply PROVE IInv'
  OBVIOUS
<1>1. TypeOK /\ PlanIsMade /\ SeenIsThere /\ View(seen)
  BY DEF IInv
<1>2. /\ pc = "checked" /\ pc' \in {"applied", "conflict"} /\ request' = request
      /\ seen' = seen /\ plan' = plan /\ saves' = saves /\ raced' = raced
      /\ (pc' = "applied" \/ file' = file)
  BY DEF Apply
<1>3. IsText(file')
  <2>1. CASE file' = file
    BY <1>1, <2>1 DEF TypeOK
  <2>2. CASE pc' = "applied"
    <3>1. Made(file, file', request, seen)
      BY <2>2, ApplyIs
    <3>2. RequestType(request)
      BY <1>1, RequestsAre DEF TypeOK
    <3> QED BY <1>1, <3>1, <3>2, MadeIsText
  <2> QED BY <1>2, <2>1, <2>2
<1>4. TypeOK'
  BY <1>1, <1>2, <1>3 DEF TypeOK, Ends
<1>5. View(seen)'
  BY <1>1, <1>2 DEF View
<1>6. PlanIsMade'
  BY <1>1, <1>2 DEF PlanIsMade
<1>7. SeenIsThere'
  BY <1>1, <1>2 DEF SeenIsThere
<1>8. NoopIsMade'
  BY <1>2 DEF NoopIsMade
<1> QED BY <1>4, <1>5, <1>6, <1>7, <1>8 DEF IInv

(* A save by the editor keeps it.                                         *)
LEMMA SaveKeeps == IInv /\ Save => IInv'
<1> SUFFICES ASSUME IInv, Save PROVE IInv'
  OBVIOUS
<1>1. TypeOK /\ PlanIsMade /\ SeenIsThere /\ NoopIsMade /\ View(seen)
  BY DEF IInv
<1>2. /\ saves < MaxSaves /\ pc \notin Ends /\ saves' = saves + 1 /\ file' \in Saves
      /\ raced' = (raced \/ pc \in {"optional", "parsed"}) /\ request' = request /\ pc' = pc
      /\ plan' = plan /\ seen' = seen
  BY DEF Save
<1>3. TypeOK'
  <2>1. IsText(file')
    BY <1>2, FilesAre
  <2>2. saves' \in 0..MaxSaves
    BY <1>1, <1>2, SettingsAssumption DEF TypeOK
  <2>3. raced' \in BOOLEAN
    BY <1>1, <1>2 DEF TypeOK
  <2> QED BY <1>1, <1>2, <2>1, <2>2, <2>3 DEF TypeOK
<1>4. View(seen)'
  BY <1>1, <1>2 DEF View
<1>5. PlanIsMade'
  BY <1>1, <1>2 DEF PlanIsMade
<1>6. SeenIsThere'
  BY <1>1, <1>2 DEF SeenIsThere
<1>7. NoopIsMade'
  BY <1>1, <1>2 DEF NoopIsMade
<1> QED BY <1>3, <1>4, <1>5, <1>6, <1>7 DEF IInv

(* A step that changes nothing keeps it.                                  *)
LEMMA StutterKeeps == IInv /\ UNCHANGED vars => IInv'
<1> SUFFICES ASSUME IInv, UNCHANGED vars PROVE IInv'
  OBVIOUS
<1>1. TypeOK /\ PlanIsMade /\ SeenIsThere /\ NoopIsMade /\ View(seen)
  BY DEF IInv
<1>2. /\ saves' = saves /\ file' = file /\ raced' = raced /\ request' = request /\ pc' = pc
      /\ plan' = plan /\ seen' = seen
  BY DEF vars
<1>3. TypeOK'
  BY <1>1, <1>2 DEF TypeOK
<1>4. View(seen)'
  BY <1>1, <1>2 DEF View
<1>5. PlanIsMade'
  BY <1>1, <1>2 DEF PlanIsMade
<1>6. SeenIsThere'
  BY <1>1, <1>2 DEF SeenIsThere
<1>7. NoopIsMade'
  BY <1>1, <1>2 DEF NoopIsMade
<1> QED BY <1>3, <1>4, <1>5, <1>6, <1>7 DEF IInv

(* The invariant holds of every state.                                    *)
THEOREM Inductive == Spec => []IInv
<1>1. Init => IInv
  BY InitIsRight
<1>2. IInv /\ [Next]_vars => IInv'
  BY PreflightKeeps, ReadOptionalKeeps, PlanKeeps, PreviewKeeps, CheckKeeps, ApplyKeeps, SaveKeeps,
     StutterKeeps DEF Next
<1> QED BY <1>1, <1>2, PTL DEF Spec

(* Every state has its type; what the editor leaves is always a text.     *)
THEOREM TypeCorrect == Spec => []TypeOK
<1>1. IInv => TypeOK
  BY DEF IInv
<1> QED BY <1>1, Inductive, PTL

(* Carrying out a plan leaves the rest of the file, when the literals fit *)
(* and no autoload is removed twice.                                      *)
LEMMA MadeKeepsRest ==
  ASSUME NEW f, NEW g, NEW r, RequestType(r), NEW v, View(v), Made(f, g, r, v), Ended(f),
         ~RemovesTwice(r), ~AddsBracketInString(r), g # f
  PROVE  IF Targets(f, r.section) = {} THEN IsPrefix(End(f), g)
         ELSE Rest(g, r.section, AskedOf(r, v)) = Rest(f, r.section, AskedOf(r, v))
<1>1. PICK edit : edit = EditFor(r, v)
  OBVIOUS
<1>2. /\ IsText(f) /\ ~edit.refused /\ ~EditorRefuses(f, r.section, edit)
      /\ g = ApplySectionEdits(f, r.section, edit)
  BY <1>1 DEF Made
<1>3. PICK X : X = r.section
  OBVIOUS
<1>4. X \in Texts /\ X # NoSection
  BY <1>3, RequestParts DEF NoSection
<1>5. PICK K : K = AskedOf(r, v)
  OBVIOUS
<1>6. Sensible(edit, K) /\ Distinct(edit) /\ Fitting(edit)
  BY <1>1, <1>2, <1>5, EditIsProper DEF Proper
<1>7. Whole(f)
  BY <1>2, WholeOfText
<1>8. CASE Targets(f, X) # {}
  <2>1. ~Unterminated(f, X) /\ RemoveKeys(edit) \cup ReplaceKeys(edit) \subseteq KeysOf(f, X)
    BY <1>2, <1>3, <1>8, AcceptedIs
  <2>2. Rest(EditSection(f, X, edit), X, K) = Rest(f, X, K)
    BY <1>6, <1>7, <1>8, <2>1, EditKeepsRest
  <2>3. g = EditSection(f, X, edit)
    BY <1>2, <1>3, <1>8 DEF ApplySectionEdits
  <2> QED BY <1>3, <1>5, <1>8, <2>2, <2>3
<1>9. CASE Targets(f, X) = {} /\ edit.insert = <<>>
  <2>1. g = f
    BY <1>2, <1>3, <1>9 DEF ApplySectionEdits
  <2> QED BY <2>1
<1>10. CASE Targets(f, X) = {} /\ edit.insert # <<>>
  <2>1. g = AppendSection(f, X, edit)
    BY <1>2, <1>3, <1>10 DEF ApplySectionEdits
  <2>2. IsPrefix(End(f), g)
    BY <1>2, <1>4, <1>6, <2>1, AppendIs
  <2> QED BY <1>3, <1>10, <2>2
<1> QED BY <1>8, <1>9, <1>10

(* Applying a plan changes no line but the entries of the keys the        *)
(* request names.                                                         *)
THEOREM RestPreserved == Spec => RestIsPreserved
<1>1. IInv /\ [Next]_vars => [Applies /\ ~RemovesTwice(request) /\ Ended(file) => RestKept]_vars
  <2> SUFFICES ASSUME IInv, Next, Applies, ~RemovesTwice(request), Ended(file) PROVE RestKept
    BY DEF vars
  <2>1. pc = "checked" /\ pc' = "applied" /\ file' # file /\ ~AddsBracketInString(request)
    BY DEF Applies
  <2>2. Apply
    BY <2>1 DEF Next, Preflight, ReadOptional, Plan, Preview, Check, Save, Ends
  <2>3. Made(file, file', request, seen)
    BY <2>1, <2>2, ApplyIs
  <2>4. RequestType(request) /\ View(seen)
    BY RequestsAre DEF IInv, TypeOK
  <2>5. IF Targets(file, request.section) = {} THEN IsPrefix(End(file), file')
        ELSE Rest(file', request.section, AskedOf(request, seen))
               = Rest(file, request.section, AskedOf(request, seen))
    BY <2>1, <2>3, <2>4, MadeKeepsRest
  <2>6. Asked = AskedOf(request, seen)
    BY DEF Asked, AskedOf
  <2> QED BY <2>5, <2>6 DEF RestKept
<1> QED BY <1>1, Inductive, PTL DEF Spec, RestIsPreserved

-----------------------------------------------------------------------------
(* What the edit of an adapter does to what is read.                       *)

(* A value on one line is read as it is written.                           *)
LEMMA FlatRead ==
  ASSUME NEW value \in Values, value.body = <<>>
  PROVE  Read(value) = value
<1>1. PICK b : b = Where(value.body, {i \in DOMAIN value.body : ~Skipped(value.body[i])})
  OBVIOUS
<1>2. b = <<>>
  BY <1>1, WhereOfNone
<1>3. Read(value) = [value EXCEPT !.body = b]
  BY <1>1 DEF Read
<1>4. value = [star |-> value.star, text |-> value.text, body |-> b]
  BY <1>2 DEF Values
<1>5. [value EXCEPT !.body = b] = [star |-> value.star, text |-> value.text, body |-> b]
  BY <1>4
<1> QED BY <1>3, <1>4, <1>5

(* What is read has a value's type.                                        *)
LEMMA ReadIsTyped ==
  ASSUME NEW value \in Values
  PROVE  /\ Read(value) \in Values /\ Read(value).star = value.star /\ Read(value).text = value.text
<1>1. PICK b : b = Where(value.body, {i \in DOMAIN value.body : ~Skipped(value.body[i])})
  OBVIOUS
<1>2. b \in Seq(Line)
  <2>1. value.body \in Seq(Line)
    BY DEF Values
  <2> QED BY <1>1, <2>1, WhereIsTyped
<1>3. Read(value) = [value EXCEPT !.body = b]
  BY <1>1 DEF Read
<1>4. value = [star |-> value.star, text |-> value.text, body |-> value.body]
      /\ value.star \in BOOLEAN /\ value.text \in Texts
  BY DEF Values
<1>5. Read(value) = [star |-> value.star, text |-> value.text, body |-> b]
  BY <1>3, <1>4
<1> QED BY <1>2, <1>4, <1>5 DEF Values

\* No key is added twice.
AddsOnce(r) == \A i, j \in DOMAIN r.add : r.add[i].key = r.add[j].key => i = j

(* Then the value added for a key is the one of its addition.              *)
LEMMA AddedIs ==
  ASSUME NEW r, AddsOnce(r), NEW i \in DOMAIN r.add
  PROVE  r.add[i].key \in Added(r) /\ AddedValue(r, r.add[i].key) = r.add[i].value
<1>1. PICK j : j = CHOOSE m \in DOMAIN r.add : r.add[m].key = r.add[i].key
  OBVIOUS
<1>2. j \in DOMAIN r.add /\ r.add[j].key = r.add[i].key
  BY <1>1
<1>3. j = i
  BY <1>2 DEF AddsOnce
<1> QED BY <1>1, <1>3 DEF Added, AddedValue

(* What is read of some of the additions.                                  *)
LEMMA AddsOfRead ==
  ASSUME NEW r, RequestType(r), AddsOnce(r), NEW keys, NEW X, NEW d
  PROVE  ReadOf(d, X, AddsOf(r, keys), Len(AddsOf(r, keys)))
           <=> \E k \in Added(r) \cap keys : d = Of(X, k, Read(AddedValue(r, k)))
<1>1. r.add \in Seq(Insertions) /\ DOMAIN r.add = 1..Len(r.add)
  <2>1. r.add \in Seq(Insertions)
    BY AddsAre
  <2> QED BY <2>1
<1>2. PICK at : at = {i \in DOMAIN r.add : r.add[i].key \in keys}
  OBVIOUS
<1>3. PICK a : a = AddsOf(r, keys)
  OBVIOUS
<1>4. a = Where(r.add, at)
  BY <1>2, <1>3 DEF AddsOf
<1>5. PICK m : /\ m \in [1..Len(a) -> 1..Len(r.add)]
               /\ \A i \in 1..Len(a) : m[i] \in at /\ a[i] = r.add[m[i]]
               /\ \A i, j \in 1..Len(a) : i < j => m[i] < m[j]
               /\ \A n \in 1..Len(r.add) : n \in at => \E i \in 1..Len(a) : m[i] = n
  BY <1>1, <1>4, WhereKeeps
<1>6. ASSUME NEW i \in 1..Len(a), d = Of(X, a[i].key, Read(a[i].value))
      PROVE  \E k \in Added(r) \cap keys : d = Of(X, k, Read(AddedValue(r, k)))
  <2>1. PICK n \in DOMAIN r.add : n = m[i] /\ a[i] = r.add[n] /\ r.add[n].key \in keys
    BY <1>1, <1>2, <1>5
  <2>2. r.add[n].key \in Added(r) /\ AddedValue(r, r.add[n].key) = r.add[n].value
    BY AddedIs
  <2> QED BY <1>6, <2>1, <2>2
<1>7. ASSUME NEW k \in Added(r) \cap keys, d = Of(X, k, Read(AddedValue(r, k)))
      PROVE  \E i \in 1..Len(a) : d = Of(X, a[i].key, Read(a[i].value))
  <2>1. PICK n \in DOMAIN r.add : r.add[n].key = k
    BY DEF Added
  <2>2. AddedValue(r, k) = r.add[n].value
    BY <2>1, AddedIs
  <2>3. PICK i \in 1..Len(a) : m[i] = n
    BY <1>1, <1>2, <1>5, <2>1
  <2> QED BY <1>5, <1>7, <2>1, <2>2, <2>3
<1> QED BY <1>3, <1>6, <1>7 DEF ReadOf

(* What is read of all of them.                                            *)
LEMMA AddRead ==
  ASSUME NEW r, RequestType(r), AddsOnce(r), NEW X, NEW d
  PROVE  ReadOf(d, X, r.add, Len(r.add)) <=> \E k \in Added(r) : d = Of(X, k, Read(AddedValue(r, k)))
<1>1. r.add \in Seq(Insertions) /\ DOMAIN r.add = 1..Len(r.add)
  <2>1. r.add \in Seq(Insertions)
    BY AddsAre
  <2> QED BY <2>1
<1>2. ASSUME NEW i \in 1..Len(r.add), d = Of(X, r.add[i].key, Read(r.add[i].value))
      PROVE  \E k \in Added(r) : d = Of(X, k, Read(AddedValue(r, k)))
  <2>1. r.add[i].key \in Added(r) /\ AddedValue(r, r.add[i].key) = r.add[i].value
    BY <1>1, AddedIs
  <2> QED BY <1>2, <2>1
<1>3. ASSUME NEW k \in Added(r), d = Of(X, k, Read(AddedValue(r, k)))
      PROVE  \E i \in 1..Len(r.add) : d = Of(X, r.add[i].key, Read(r.add[i].value))
  <2>1. PICK n \in DOMAIN r.add : r.add[n].key = k
    BY DEF Added
  <2>2. AddedValue(r, k) = r.add[n].value
    BY <2>1, AddedIs
  <2> QED BY <1>1, <1>3, <2>1, <2>2
<1> QED BY <1>2, <1>3 DEF ReadOf

\* What an edit does to what is read of section X: the keys `gone` are given
\* up, and those of `put` read with new values.
Acts(edit, X, gone, put, new) ==
  /\ gone = RemoveKeys(edit) \cup ReplaceKeys(edit)
  /\ \A d : (\E k \in ReplaceKeys(edit) : d = Of(X, k, Read(edit.replace[k])))
              \/ ReadOf(d, X, edit.insert, Len(edit.insert))
            <=> \E k \in put : d = Of(X, k, new[k])

(* An edit that acts so, in what is read after it.                         *)
LEMMA ActsRead ==
  ASSUME NEW edit, NEW X, NEW gone, NEW put, NEW new, Acts(edit, X, gone, put, new), NEW data, NEW d
  PROVE  Edited(d, data, X, edit)
           <=> \/ d \in data /\ (d.section # X \/ d.key \notin gone)
               \/ \E k \in put : d = Of(X, k, new[k])
<1>1. gone = RemoveKeys(edit) \cup ReplaceKeys(edit)
  BY DEF Acts
<1>2. (\E k \in ReplaceKeys(edit) : d = Of(X, k, Read(edit.replace[k])))
         \/ ReadOf(d, X, edit.insert, Len(edit.insert))
       <=> \E k \in put : d = Of(X, k, new[k])
  BY DEF Acts
<1> QED BY <1>1, <1>2 DEF Edited, CutOut

\* The section w is v after that.
After(w, v, gone, put, new) ==
  /\ DOMAIN w = ((DOMAIN v) \ gone) \cup put
  /\ \A k \in put : w[k] = new[k]
  /\ \A k \in (DOMAIN v) \ gone : w[k] = v[k]

(* What a section is read as, before and after.                            *)
LEMMA SectionAfter ==
  ASSUME NEW a \in Readings, NEW b \in Readings, NEW X, NEW gone, NEW put, NEW new,
         \A d : d \in b <=> \/ d \in a /\ (d.section # X \/ d.key \notin gone)
                            \/ \E k \in put : d = Of(X, k, new[k])
  PROVE  After(SectionOf(b, X), SectionOf(a, X), gone, put, new)
<1>1. PICK v, w : v = SectionOf(a, X) /\ w = SectionOf(b, X)
  OBVIOUS
<1>2. \A k : k \in DOMAIN v <=> \E d \in a : d.section = X /\ d.key = k
  BY <1>1, SectionIs
<1>3. \A d \in a : d.section = X => v[d.key] = d.value
  BY <1>1, SectionIs
<1>4. \A k : k \in DOMAIN w <=> \E d \in b : d.section = X /\ d.key = k
  BY <1>1, SectionIs
<1>5. \A d \in b : d.section = X => w[d.key] = d.value
  BY <1>1, SectionIs
<1>6. ASSUME NEW k \in put PROVE k \in DOMAIN w /\ w[k] = new[k]
  <2>1. PICK d : d = Of(X, k, new[k])
    OBVIOUS
  <2>2. d \in b
    BY <2>1
  <2>3. d.section = X /\ d.key = k /\ d.value = new[k]
    BY <2>1 DEF Of
  <2> QED BY <1>4, <1>5, <2>2, <2>3
<1>7. ASSUME NEW k \in (DOMAIN v) \ gone PROVE k \in DOMAIN w /\ w[k] = v[k]
  <2>1. PICK d \in a : d.section = X /\ d.key = k
    BY <1>2
  <2>2. d \in b
    BY <2>1
  <2>3. v[k] = d.value /\ w[k] = d.value
    BY <1>3, <1>5, <2>1, <2>2
  <2> QED BY <1>4, <2>1, <2>2, <2>3
<1>8. ASSUME NEW k \in DOMAIN w PROVE k \in ((DOMAIN v) \ gone) \cup put
  <2>1. PICK d \in b : d.section = X /\ d.key = k
    BY <1>4
  <2>2. CASE d \in a /\ (d.section # X \/ d.key \notin gone)
    BY <1>2, <2>1, <2>2
  <2>3. CASE \E j \in put : d = Of(X, j, new[j])
    <3>1. PICK j \in put : d = Of(X, j, new[j])
      BY <2>3
    <3>2. d.key = j
      BY <3>1 DEF Of
    <3> QED BY <2>1, <3>1, <3>2
  <2> QED BY <2>1, <2>2, <2>3
<1> QED BY <1>1, <1>6, <1>7, <1>8 DEF After

\* A flag of the request for key k.
Flags(r, k, star) == \E i \in DOMAIN r.flags : r.flags[i] = [key |-> k, star |-> star]
\* The autoloads whose singleton is turned over, and what is written of them
\* and of the new ones.
Turned(r, v) == {k \in (DOMAIN v) \ Added(r) : Flags(r, k, ~v[k].star)}
Turn(value) == Quoted(~value.star, Path(value))
Launch(r, k, text) == Quoted(~Flags(r, k, FALSE), text)

(* What the autoload adapter refuses, and the edit it makes otherwise.     *)
LEMMA AutoloadEditIs ==
  ASSUME NEW r, RequestType(r), r.section = "autoload", NEW v, ~AutoloadEdit(r, v).refused,
         NEW edit, edit = AutoloadEdit(r, v)
  PROVE  /\ ToSet(r.remove) \subseteq DOMAIN v /\ Added(r) \cap DOMAIN v = {}
         /\ \A i \in DOMAIN r.flags : r.flags[i].key \in ((DOMAIN v) \ ToSet(r.remove)) \cup Added(r)
         /\ ReplaceKeys(edit) = Turned(r, v)
         /\ \A k \in Turned(r, v) : edit.replace[k] = Turn(v[k])
         /\ edit.remove = r.remove
         /\ DOMAIN edit.insert = DOMAIN r.add /\ Len(edit.insert) = Len(r.add)
         /\ \A i \in DOMAIN r.add : /\ edit.insert[i].key = r.add[i].key
                                    /\ edit.insert[i].value = Launch(r, r.add[i].key, r.add[i].value.text)
<1> DEFINE flagged(k, star) == \E i \in DOMAIN r.flags : r.flags[i] = [key |-> k, star |-> star]
           changed == {k \in (DOMAIN v) \ Added(r) : flagged(k, ~v[k].star)}
           a == [k \in changed |-> Quoted(~v[k].star, Path(v[k]))]
           c == [i \in DOMAIN r.add |-> [r.add[i] EXCEPT !.value.star = ~flagged(r.add[i].key, FALSE)]]
           refuses == \/ ~(ToSet(r.remove) \subseteq DOMAIN v)
                      \/ Added(r) \cap DOMAIN v # {}
                      \/ \E i \in DOMAIN r.flags :
                           r.flags[i].key \notin ((DOMAIN v) \ ToSet(r.remove)) \cup Added(r)
<1>1. AutoloadEdit(r, v) = IF refuses THEN Refusal ELSE Edit(a, r.remove, c)
  BY DEF AutoloadEdit
<1>2. Refusal.refused
  BY DEF Refusal
<1>3. ~refuses /\ edit = Edit(a, r.remove, c)
  <2> HIDE DEF refuses, a, c
  <2> QED BY <1>1, <1>2
<1>4. edit.replace = a /\ edit.remove = r.remove /\ edit.insert = c
  <2> HIDE DEF refuses, a, c
  <2> QED BY <1>3, EditFields
<1>5. changed = Turned(r, v)
  BY DEF Turned, Flags
<1>6. ReplaceKeys(edit) = Turned(r, v)
  BY <1>4, <1>5 DEF ReplaceKeys
<1>7. \A k \in Turned(r, v) : edit.replace[k] = Turn(v[k])
  BY <1>4, <1>5 DEF Turn
<1>8. r.add \in Seq(Insertions) /\ DOMAIN c = DOMAIN r.add /\ DOMAIN r.add = 1..Len(r.add) /\ Len(r.add) \in Nat
  <2>1. r.add \in Seq(Insertions)
    BY AddsAre
  <2>2. DOMAIN r.add = 1..Len(r.add) /\ Len(r.add) \in Nat
    BY <2>1
  <2> QED BY <2>1, <2>2
<1>9. DOMAIN edit.insert = DOMAIN r.add /\ Len(edit.insert) = Len(r.add)
  <2>1. DOMAIN edit.insert = 1..Len(r.add)
    BY <1>4, <1>8
  <2>2. Len(c) = Len(r.add)
    <3>1. c = [i \in 1..Len(r.add) |-> c[i]]
      BY <1>8
    <3> HIDE DEF c
    <3> QED BY <1>8, <3>1
  <2> QED BY <1>4, <1>8, <2>1, <2>2
<1>10. ASSUME NEW i \in DOMAIN r.add
       PROVE  /\ edit.insert[i].key = r.add[i].key
              /\ edit.insert[i].value = Launch(r, r.add[i].key, r.add[i].value.text)
  <2>1. PICK x : x = r.add[i]
    OBVIOUS
  <2>2. x \in Insertions /\ Addable(x.value, r)
    BY <1>8, <2>1, AddsAre
  <2>3. PICK val : val = x.value
    OBVIOUS
  <2>4. val \in Values /\ val.body = <<>>
    BY <2>2, <2>3 DEF Addable, Insertions
  <2>5. PICK star : star = ~flagged(x.key, FALSE)
    OBVIOUS
  <2>6. star = ~Flags(r, x.key, FALSE)
    BY <2>5 DEF Flags
  <2>7. x = [key |-> x.key, value |-> val] /\ val = [star |-> val.star, text |-> val.text, body |-> val.body]
    BY <2>2, <2>3, <2>4 DEF Insertions, Values
  <2>8. edit.insert[i] = [x EXCEPT !.value.star = star]
    <3>1. c[i] = [x EXCEPT !.value.star = star]
      BY <2>1, <2>5
    <3> HIDE DEF c
    <3> QED BY <1>4, <3>1
  <2>9. [x EXCEPT !.value.star = star] = [key |-> x.key, value |-> [val EXCEPT !.star = star]]
    BY <2>3, <2>7
  <2>10. [val EXCEPT !.star = star] = [star |-> star, text |-> val.text, body |-> val.body]
    BY <2>7
  <2>11. Launch(r, x.key, val.text) = [star |-> star, text |-> val.text, body |-> val.body]
    BY <2>4, <2>6 DEF Launch, Quoted
  <2>12. edit.insert[i] = [key |-> x.key, value |-> Launch(r, x.key, val.text)]
    BY <2>8, <2>9, <2>10, <2>11
  <2>13. edit.insert[i].key = x.key /\ edit.insert[i].value = Launch(r, x.key, val.text)
    BY <2>12
  <2> QED BY <2>1, <2>3, <2>13
<1>11. /\ ToSet(r.remove) \subseteq DOMAIN v /\ Added(r) \cap DOMAIN v = {}
       /\ \A i \in DOMAIN r.flags : r.flags[i].key \in ((DOMAIN v) \ ToSet(r.remove)) \cup Added(r)
  BY <1>3
<1> HIDE DEF a, c, refuses, changed
<1> QED BY <1>4, <1>6, <1>7, <1>9, <1>10, <1>11

(* What is written of an autoload is read as it is.                        *)
LEMMA QuotedRead ==
  ASSUME NEW star \in BOOLEAN, NEW text \in Texts
  PROVE  /\ Quoted(star, text) \in Values /\ Quoted(star, text).body = <<>>
         /\ Quoted(star, text).star = star /\ Quoted(star, text).text = text
         /\ Path(Quoted(star, text)) = text
         /\ Read(Quoted(star, text)) = Quoted(star, text)
<1>1. PICK q : q = Quoted(star, text)
  OBVIOUS
<1>2. q = [star |-> star, text |-> text, body |-> <<>>]
  BY <1>1 DEF Quoted
<1>3. <<>> \in Seq(Line)
  OBVIOUS
<1>4. q \in Values /\ q.body = <<>> /\ q.star = star /\ q.text = text
  BY <1>2, <1>3 DEF Values
<1>5. Read(q) = q
  BY <1>4, FlatRead
<1>6. Path(q) = text
  BY <1>4 DEF Path
<1> QED BY <1>1, <1>4, <1>5, <1>6

(* The path of a value is a text.                                          *)
LEMMA PathIs == ASSUME NEW value \in Values PROVE Path(value) \in Texts
<1>1. value.text \in Texts
  BY DEF Values
<1>2. "joined" \in Texts
  BY TextsAssumption
<1> QED BY <1>1, <1>2 DEF Path

\* What the autoload adapter puts in.
AutoloadNew(r, v) ==
  [k \in Turned(r, v) \cup Added(r) |->
     IF k \in Added(r) THEN Launch(r, k, AddedValue(r, k).text) ELSE Turn(v[k])]

(* What its edit does.                                                     *)
LEMMA AutoloadActs ==
  ASSUME NEW r, RequestType(r), r.section = "autoload", NEW v, View(v), ~AutoloadEdit(r, v).refused,
         AddsOnce(r), NEW X
  PROVE  Acts(AutoloadEdit(r, v), X, ToSet(r.remove) \cup Turned(r, v), Turned(r, v) \cup Added(r), AutoloadNew(r, v))
<1>1. PICK edit : edit = AutoloadEdit(r, v)
  OBVIOUS
<1>2. ReplaceKeys(edit) = Turned(r, v) /\ RemoveKeys(edit) = ToSet(r.remove)
      /\ \A k \in Turned(r, v) : edit.replace[k] = Turn(v[k])
  BY <1>1, AutoloadEditIs DEF RemoveKeys
<1>3. DOMAIN edit.insert = DOMAIN r.add /\ Len(edit.insert) = Len(r.add)
      /\ \A i \in DOMAIN r.add : /\ edit.insert[i].key = r.add[i].key
                                 /\ edit.insert[i].value = Launch(r, r.add[i].key, r.add[i].value.text)
  BY <1>1, AutoloadEditIs
<1>4. r.add \in Seq(Insertions) /\ DOMAIN r.add = 1..Len(r.add)
  <2>1. r.add \in Seq(Insertions)
    BY AddsAre
  <2> QED BY <2>1
<1>5. PICK new : new = AutoloadNew(r, v)
  OBVIOUS
<1>6. Turned(r, v) \cap Added(r) = {}
  BY DEF Turned
<1>7. ASSUME NEW k \in Turned(r, v) PROVE Read(edit.replace[k]) = new[k]
  <2>1. v[k] \in Values
    BY DEF Turned, View
  <2>2. PICK star, text : star = ~v[k].star /\ text = Path(v[k])
    OBVIOUS
  <2>3. star \in BOOLEAN /\ text \in Texts
    BY <2>1, <2>2, PathIs
  <2>4. edit.replace[k] = Quoted(star, text)
    BY <1>2, <2>2 DEF Turn
  <2>5. Read(edit.replace[k]) = Turn(v[k])
    BY <2>2, <2>3, <2>4, QuotedRead DEF Turn
  <2> QED BY <1>5, <1>6, <2>5 DEF AutoloadNew
<1>8. ASSUME NEW i \in DOMAIN r.add PROVE Read(edit.insert[i].value) = new[r.add[i].key]
  <2>1. r.add[i].value.text \in Texts
    <3>1. r.add[i] \in Insertions
      BY <1>4
    <3>2. r.add[i].value \in Values
      BY <3>1 DEF Insertions
    <3> QED BY <3>2 DEF Values
  <2>2. PICK star, text : star = ~Flags(r, r.add[i].key, FALSE) /\ text = r.add[i].value.text
    OBVIOUS
  <2>3. star \in BOOLEAN /\ text \in Texts
    BY <2>1, <2>2
  <2>4. edit.insert[i].value = Quoted(star, text)
    BY <1>3, <2>2 DEF Launch
  <2>5. Read(edit.insert[i].value) = Launch(r, r.add[i].key, r.add[i].value.text)
    BY <2>2, <2>3, <2>4, QuotedRead DEF Launch
  <2>6. r.add[i].key \in Added(r) /\ AddedValue(r, r.add[i].key) = r.add[i].value
    BY AddedIs
  <2> QED BY <1>5, <2>5, <2>6 DEF AutoloadNew
<1>9. ASSUME NEW d
      PROVE  (\E k \in ReplaceKeys(edit) : d = Of(X, k, Read(edit.replace[k])))
               \/ ReadOf(d, X, edit.insert, Len(edit.insert))
             <=> \E k \in Turned(r, v) \cup Added(r) : d = Of(X, k, new[k])
  <2>1. (\E k \in ReplaceKeys(edit) : d = Of(X, k, Read(edit.replace[k])))
          <=> \E k \in Turned(r, v) : d = Of(X, k, new[k])
    BY <1>2, <1>7
  <2>2. ReadOf(d, X, edit.insert, Len(edit.insert))
          <=> \E i \in DOMAIN r.add : d = Of(X, r.add[i].key, new[r.add[i].key])
    BY <1>3, <1>4, <1>8 DEF ReadOf
  <2>3. (\E i \in DOMAIN r.add : d = Of(X, r.add[i].key, new[r.add[i].key]))
          <=> \E k \in Added(r) : d = Of(X, k, new[k])
    BY DEF Added
  <2> QED BY <2>1, <2>2, <2>3
<1> QED BY <1>1, <1>2, <1>5, <1>9 DEF Acts

(* The values it writes are on one line.                                   *)
LEMMA AutoloadPlain ==
  ASSUME NEW r, RequestType(r), r.section = "autoload", NEW v, View(v), ~AutoloadEdit(r, v).refused
  PROVE  PlainReplace(AutoloadEdit(r, v)) /\ PlainInsert(AutoloadEdit(r, v))
<1>1. PICK edit : edit = AutoloadEdit(r, v)
  OBVIOUS
<1>2. DOMAIN edit.replace = Turned(r, v)
      /\ \A k \in Turned(r, v) : edit.replace[k] = Turn(v[k])
  BY <1>1, AutoloadEditIs DEF ReplaceKeys
<1>3. DOMAIN edit.insert = DOMAIN r.add
      /\ \A i \in DOMAIN r.add : edit.insert[i].value = Launch(r, r.add[i].key, r.add[i].value.text)
  BY <1>1, AutoloadEditIs
<1>4. \A star, text : Quoted(star, text).body = <<>>
  BY DEF Quoted
<1>5. \A b : b = <<>> => Readable(b)
  BY DEF Readable
<1>6. \A k \in DOMAIN edit.replace : Readable(edit.replace[k].body)
  BY <1>2, <1>4, <1>5 DEF Turn
<1>7. \A i \in DOMAIN edit.insert : Readable(edit.insert[i].value.body)
  <2> SUFFICES ASSUME NEW i \in DOMAIN r.add PROVE Readable(edit.insert[i].value.body)
    BY <1>3
  <2>1. PICK value : value = edit.insert[i].value
    OBVIOUS
  <2>2. value.body = <<>>
    <3>1. PICK star, text : star = ~Flags(r, r.add[i].key, FALSE) /\ text = r.add[i].value.text
      OBVIOUS
    <3>2. value = Quoted(star, text)
      BY <1>3, <2>1, <3>1 DEF Launch
    <3> QED BY <1>4, <3>2
  <2> QED BY <1>5, <2>1, <2>2
<1> QED BY <1>1, <1>6, <1>7 DEF PlainReplace, PlainInsert

\* What is read of the additions of a request.
AddedNew(r) == [k \in Added(r) |-> Read(AddedValue(r, k))]
\* The keys a request removes.
Gone(r, existing) == (IF r.clear THEN existing ELSE {}) \cup ToSet(r.remove)
\* The keys of layer names and renderer settings that are there and not empty.
Present(v) == {k \in DOMAIN v : v[k].text # "" \/ v[k].body # <<>>}
\* The application settings a request changes.
Differs(r, v) == {k \in Added(r) : k \notin DOMAIN v \/ v[k] # AddedValue(r, k)}

(* Only an input action has lines that the two parsers may read otherwise. *)
LEMMA FlatAdds ==
  ASSUME NEW r, RequestType(r), r.section # "input"
  PROVE  ~AddsUnreadable(r) /\ \A i \in DOMAIN r.add : r.add[i].value.body = <<>>
<1>1. \A i \in DOMAIN r.add : r.add[i].value.body = <<>>
  BY AddsAre DEF Addable
<1>2. ~AddsUnreadable(r)
  BY <1>1 DEF AddsUnreadable, AddsLine
<1> QED BY <1>1, <1>2

(* What may be read is written and read by both parsers alike.             *)
LEMMA ReadableAdds ==
  ASSUME NEW r, RequestType(r), ~AddsUnreadable(r)
  PROVE  ~AddsBracketInString(r) /\ \A i \in DOMAIN r.add : Readable(r.add[i].value.body)
<1>1. ~AddsBracketInString(r)
  BY DEF AddsUnreadable, AddsBracketInString, AddsLine
<1>2. ASSUME NEW i \in DOMAIN r.add PROVE Readable(r.add[i].value.body)
  <2>1. r.add[i].value.body \in Seq(Line)
    <3>1. r.add \in Seq(Insertions)
      BY AddsAre
    <3>2. r.add[i] \in Insertions
      BY <3>1
    <3>3. r.add[i].value \in Values
      BY <3>2 DEF Insertions
    <3> QED BY <3>3 DEF Values
  <2>2. DOMAIN r.add[i].value.body = 1..Len(r.add[i].value.body)
    BY <2>1
  <2> QED BY <2>2 DEF Readable, AddsUnreadable, AddsLine
<1> QED BY <1>1, <1>2

(* What the input map adapter refuses, and the edit it makes otherwise.    *)
LEMMA InputEditIs ==
  ASSUME NEW r, RequestType(r), NEW v, View(v), ~InputEdit(r, v).refused, NEW edit, edit = InputEdit(r, v)
  PROVE  /\ ToSet(r.remove) \subseteq DOMAIN v /\ Added(r) \cap DOMAIN v \subseteq Gone(r, DOMAIN v)
         /\ edit.replace = <<>> /\ ReplaceKeys(edit) = {}
         /\ RemoveKeys(edit) = Gone(r, DOMAIN v) /\ edit.insert = r.add
         /\ edit.remove = Removals(r, DOMAIN v)
<1>1. PICK b : b = Removals(r, DOMAIN v)
  OBVIOUS
<1>2. edit = Edit(<<>>, b, r.add) /\ ToSet(r.remove) \subseteq DOMAIN v /\ Added(r) \cap DOMAIN v \subseteq ToSet(b)
  BY <1>1 DEF InputEdit, Refusal
<1>3. ToSet(b) = Gone(r, DOMAIN v)
  <2>1. r.remove \in Seq(Nat) /\ DOMAIN v \in SUBSET Nat /\ IsFiniteSet(DOMAIN v)
    BY RequestParts DEF View
  <2> QED BY <1>1, <2>1, RemovalsAre DEF Gone
<1>4. PICK a : a = <<>>
  OBVIOUS
<1>5. edit.replace = a /\ edit.remove = b /\ edit.insert = r.add
  BY <1>2, <1>4, EditFields
<1>6. DOMAIN a = {}
  BY <1>4, NoReplace
<1> QED BY <1>1, <1>2, <1>3, <1>4, <1>5, <1>6 DEF ReplaceKeys, RemoveKeys

(* What its edit does.                                                     *)
LEMMA InputActs ==
  ASSUME NEW r, RequestType(r), NEW v, View(v), ~InputEdit(r, v).refused, AddsOnce(r), NEW X
  PROVE  Acts(InputEdit(r, v), X, Gone(r, DOMAIN v), Added(r), AddedNew(r))
<1>1. PICK edit : edit = InputEdit(r, v)
  OBVIOUS
<1>2. ReplaceKeys(edit) = {} /\ RemoveKeys(edit) = Gone(r, DOMAIN v) /\ edit.insert = r.add
  BY <1>1, InputEditIs
<1>3. \A d : ReadOf(d, X, r.add, Len(r.add)) <=> \E k \in Added(r) : d = Of(X, k, Read(AddedValue(r, k)))
  BY AddRead
<1>4. \A k \in Added(r) : AddedNew(r)[k] = Read(AddedValue(r, k))
  BY DEF AddedNew
<1> QED BY <1>1, <1>2, <1>3, <1>4 DEF Acts

(* The edit sets some keys to what the request gives them.                 *)
Resets(edit, keys, r) == \A k \in keys : edit.replace[k] = AddedValue(r, k)

(* What the layer name and renderer adapters refuse, and their edit.       *)
LEMMA SetRemoveClearEditIs ==
  ASSUME NEW r, RequestType(r), NEW v, View(v), ~SetRemoveClear(r, v).refused,
         NEW edit, edit = SetRemoveClear(r, v), NEW kept, kept = Present(v) \ Gone(r, Present(v))
  PROVE  /\ ToSet(r.remove) \subseteq Present(v)
         /\ ReplaceKeys(edit) = Added(r) \cap kept
         /\ Resets(edit, Added(r) \cap kept, r)
         /\ RemoveKeys(edit) = Gone(r, Present(v))
         /\ edit.insert = AddsOf(r, Nat \ kept)
<1>1. PICK existing : existing = {k \in DOMAIN v : v[k].text # "" \/ v[k].body # <<>>}
  OBVIOUS
<1>2. PICK b : b = Removals(r, existing)
  OBVIOUS
<1>3. PICK left : left = existing \ ToSet(b)
  OBVIOUS
<1>4. PICK a : a = [k \in Added(r) \cap left |-> AddedValue(r, k)]
  OBVIOUS
<1>5. PICK c : c = AddsOf(r, Nat \ left)
  OBVIOUS
<1>6. edit = Edit(a, b, c) /\ ToSet(r.remove) \subseteq existing
  BY <1>1, <1>2, <1>3, <1>4, <1>5 DEF SetRemoveClear, Refusal
<1>7. existing = Present(v)
  BY <1>1 DEF Present
<1>8. ToSet(b) = Gone(r, existing)
  <2>1. IsFiniteSet(DOMAIN v) /\ DOMAIN v \subseteq Nat
    BY DEF View
  <2>2. existing \subseteq DOMAIN v
    BY <1>1
  <2>3. existing \in SUBSET Nat /\ IsFiniteSet(existing)
    BY <2>1, <2>2, FS_Subset
  <2>4. r.remove \in Seq(Nat)
    BY RequestParts
  <2> QED BY <1>2, <2>3, <2>4, RemovalsAre DEF Gone
<1>9. left = kept
  BY <1>3, <1>7, <1>8
<1>10. edit.replace = a /\ edit.remove = b /\ edit.insert = c
  BY <1>6, EditFields
<1>11. DOMAIN a = Added(r) \cap left /\ \A k \in Added(r) \cap left : a[k] = AddedValue(r, k)
  BY <1>4
<1> QED BY <1>5, <1>6, <1>7, <1>8, <1>9, <1>10, <1>11 DEF ReplaceKeys, RemoveKeys, Resets

(* What their edit does.                                                   *)
LEMMA SetRemoveClearActs ==
  ASSUME NEW r, RequestType(r), NEW v, View(v), ~SetRemoveClear(r, v).refused, AddsOnce(r), NEW X,
         NEW kept, kept = Present(v) \ Gone(r, Present(v))
  PROVE  Acts(SetRemoveClear(r, v), X, Gone(r, Present(v)) \cup (Added(r) \cap kept), Added(r), AddedNew(r))
<1>1. PICK edit : edit = SetRemoveClear(r, v)
  OBVIOUS
<1>2. /\ ReplaceKeys(edit) = Added(r) \cap kept
      /\ Resets(edit, Added(r) \cap kept, r)
  <2>1. ReplaceKeys(edit) = Added(r) \cap kept
    BY <1>1, SetRemoveClearEditIs
  <2>2. Resets(edit, Added(r) \cap kept, r)
    BY <1>1, SetRemoveClearEditIs
  <2> QED BY <2>1, <2>2
<1>3. RemoveKeys(edit) = Gone(r, Present(v)) /\ edit.insert = AddsOf(r, Nat \ kept)
  BY <1>1, SetRemoveClearEditIs
<1>4. PICK keys : keys = Nat \ kept
  OBVIOUS
<1>5. \A d : ReadOf(d, X, AddsOf(r, keys), Len(AddsOf(r, keys)))
               <=> \E k \in Added(r) \cap keys : d = Of(X, k, Read(AddedValue(r, k)))
  BY AddsOfRead
<1>6. \A k \in Added(r) : AddedNew(r)[k] = Read(AddedValue(r, k))
  BY DEF AddedNew
<1>7. Added(r) \subseteq Nat
  BY RequestParts
<1>8. \A k : k \in Added(r) <=> k \in Added(r) \cap kept \/ k \in Added(r) \cap keys
  BY <1>4, <1>7
<1>9. ASSUME NEW d
      PROVE  (\E k \in ReplaceKeys(edit) : d = Of(X, k, Read(edit.replace[k])))
               \/ ReadOf(d, X, edit.insert, Len(edit.insert))
             <=> \E k \in Added(r) : d = Of(X, k, AddedNew(r)[k])
  <2>1. (\E k \in ReplaceKeys(edit) : d = Of(X, k, Read(edit.replace[k])))
          <=> \E k \in Added(r) \cap kept : d = Of(X, k, AddedNew(r)[k])
    BY <1>2, <1>6 DEF Resets
  <2>2. ReadOf(d, X, edit.insert, Len(edit.insert))
          <=> \E k \in Added(r) \cap keys : d = Of(X, k, AddedNew(r)[k])
    <3>1. edit.insert = AddsOf(r, keys)
      BY <1>3, <1>4
    <3>2. (\E k \in Added(r) \cap keys : d = Of(X, k, Read(AddedValue(r, k))))
            <=> \E k \in Added(r) \cap keys : d = Of(X, k, AddedNew(r)[k])
      BY <1>6
    <3> QED BY <1>5, <3>1, <3>2
  <2> QED BY <1>8, <2>1, <2>2
<1> QED BY <1>1, <1>2, <1>3, <1>9 DEF Acts

(* What the application adapter refuses, and the edit it makes otherwise.  *)
LEMMA ApplicationEditIs ==
  ASSUME NEW r, RequestType(r), NEW v, View(v), ~ApplicationEdit(r, v).refused,
         NEW edit, edit = ApplicationEdit(r, v)
  PROVE  /\ NameKey \notin ToSet(r.remove) /\ ToSet(r.remove) \subseteq DOMAIN v
         /\ ToSet(r.remove) \cap Added(r) = {}
         /\ ReplaceKeys(edit) = Differs(r, v) \cap DOMAIN v
         /\ Resets(edit, Differs(r, v) \cap DOMAIN v, r)
         /\ RemoveKeys(edit) = ToSet(r.remove) /\ edit.remove = Once(r.remove, {})
         /\ edit.insert = AddsOf(r, Differs(r, v) \ DOMAIN v)
         /\ edit.replace = [k \in Differs(r, v) \cap DOMAIN v |-> AddedValue(r, k)]
<1>1. PICK changed : changed = {k \in Added(r) : k \notin DOMAIN v \/ v[k] # AddedValue(r, k)}
  OBVIOUS
<1>2. PICK b : b = Once(r.remove, {})
  OBVIOUS
<1>3. PICK a : a = [k \in changed \cap DOMAIN v |-> AddedValue(r, k)]
  OBVIOUS
<1>4. PICK c : c = AddsOf(r, changed \ DOMAIN v)
  OBVIOUS
<1>5. edit = Edit(a, b, c) /\ NameKey \notin ToSet(r.remove) /\ ToSet(r.remove) \subseteq DOMAIN v
      /\ ToSet(r.remove) \cap Added(r) = {}
  BY <1>1, <1>2, <1>3, <1>4 DEF ApplicationEdit, Refusal
<1>6. ToSet(b) = ToSet(r.remove)
  <2>1. r.remove \in Seq(Nat)
    BY RequestParts
  <2>2. ToSet(b) = ToSet(r.remove) \ {}
    BY <1>2, <2>1, OnceIs
  <2> QED BY <2>2
<1>7. changed = Differs(r, v)
  BY <1>1 DEF Differs
<1>8. edit.replace = a /\ edit.remove = b /\ edit.insert = c
  BY <1>5, EditFields
<1>9. DOMAIN a = changed \cap DOMAIN v /\ \A k \in changed \cap DOMAIN v : a[k] = AddedValue(r, k)
  BY <1>3
<1> QED BY <1>2, <1>3, <1>4, <1>5, <1>6, <1>7, <1>8, <1>9 DEF ReplaceKeys, RemoveKeys, Resets

(* What its edit does.                                                     *)
LEMMA ApplicationActs ==
  ASSUME NEW r, RequestType(r), NEW v, View(v), ~ApplicationEdit(r, v).refused, AddsOnce(r), NEW X
  PROVE  Acts(ApplicationEdit(r, v), X, ToSet(r.remove) \cup (Differs(r, v) \cap DOMAIN v), Differs(r, v), AddedNew(r))
<1>1. PICK edit : edit = ApplicationEdit(r, v)
  OBVIOUS
<1>2. /\ ReplaceKeys(edit) = Differs(r, v) \cap DOMAIN v
      /\ Resets(edit, Differs(r, v) \cap DOMAIN v, r)
  <2>1. ReplaceKeys(edit) = Differs(r, v) \cap DOMAIN v
    BY <1>1, ApplicationEditIs
  <2>2. Resets(edit, Differs(r, v) \cap DOMAIN v, r)
    BY <1>1, ApplicationEditIs
  <2> QED BY <2>1, <2>2
<1>3. RemoveKeys(edit) = ToSet(r.remove) /\ edit.insert = AddsOf(r, Differs(r, v) \ DOMAIN v)
  BY <1>1, ApplicationEditIs
<1>4. PICK keys : keys = Differs(r, v) \ DOMAIN v
  OBVIOUS
<1>5. \A d : ReadOf(d, X, AddsOf(r, keys), Len(AddsOf(r, keys)))
               <=> \E k \in Added(r) \cap keys : d = Of(X, k, Read(AddedValue(r, k)))
  BY AddsOfRead
<1>6. Differs(r, v) \subseteq Added(r)
  BY DEF Differs
<1>7. \A k \in Differs(r, v) : AddedNew(r)[k] = Read(AddedValue(r, k))
  BY <1>6 DEF AddedNew
<1>8. ASSUME NEW d
      PROVE  (\E k \in ReplaceKeys(edit) : d = Of(X, k, Read(edit.replace[k])))
               \/ ReadOf(d, X, edit.insert, Len(edit.insert))
             <=> \E k \in Differs(r, v) : d = Of(X, k, AddedNew(r)[k])
  <2>1. (\E k \in ReplaceKeys(edit) : d = Of(X, k, Read(edit.replace[k])))
          <=> \E k \in Differs(r, v) \cap DOMAIN v : d = Of(X, k, AddedNew(r)[k])
    BY <1>2, <1>7 DEF Resets
  <2>2. ReadOf(d, X, edit.insert, Len(edit.insert))
          <=> \E k \in keys : d = Of(X, k, AddedNew(r)[k])
    <3>1. edit.insert = AddsOf(r, keys)
      BY <1>3, <1>4
    <3>2. (\E k \in Added(r) \cap keys : d = Of(X, k, Read(AddedValue(r, k))))
            <=> \E k \in keys : d = Of(X, k, AddedNew(r)[k])
      BY <1>4, <1>6, <1>7
    <3> QED BY <1>5, <3>1, <3>2
  <2> QED BY <1>4, <2>1, <2>2
<1> QED BY <1>1, <1>2, <1>3, <1>8 DEF Acts

(* Which adapter makes the edit.                                           *)
LEMMA EditForIs ==
  ASSUME NEW r, RequestType(r), NEW v
  PROVE  \/ r.section = "autoload" /\ EditFor(r, v) = AutoloadEdit(r, v)
         \/ r.section = "input" /\ EditFor(r, v) = InputEdit(r, v)
         \/ r.section \in {"layer_names", "rendering"} /\ EditFor(r, v) = SetRemoveClear(r, v)
         \/ r.section = Application /\ EditFor(r, v) = ApplicationEdit(r, v)
<1>1. r.section \in {"autoload", "input", "layer_names", "rendering", Application}
  BY RequestParts DEF Sections
<1>2. r.section = "autoload" => EditFor(r, v) = AutoloadEdit(r, v)
  BY DEF EditFor, Application
<1>3. r.section = "input" => EditFor(r, v) = InputEdit(r, v)
  BY DEF EditFor, Application
<1>4. r.section = "layer_names" => EditFor(r, v) = SetRemoveClear(r, v)
  BY DEF EditFor, Application, LayerNamesEdit
<1>5. r.section = "rendering" => EditFor(r, v) = SetRemoveClear(r, v)
  BY DEF EditFor, Application, RendererEdit
<1>6. r.section = Application => EditFor(r, v) = ApplicationEdit(r, v)
  BY DEF EditFor, Application
<1> QED BY <1>1, <1>2, <1>3, <1>4, <1>5, <1>6

(* Empty lines hold no line that the parsers read otherwise.               *)
LEMMA NoneReadable == Readable(<<>>)
  BY DEF Readable

(* Some of the additions are read by both parsers alike, if all are.       *)
LEMMA AddsOfPlain ==
  ASSUME NEW r, RequestType(r), r.section # "input", NEW keys
  PROVE  \A i \in DOMAIN AddsOf(r, keys) : Readable(AddsOf(r, keys)[i].value.body)
<1>1. \A i \in DOMAIN AddsOf(r, keys) : Addable(AddsOf(r, keys)[i].value, r)
  BY AddsOfAre
<1>2. \A i \in DOMAIN AddsOf(r, keys) : AddsOf(r, keys)[i].value.body = <<>>
  BY <1>1 DEF Addable
<1> QED BY <1>2, NoneReadable

(* So is what replaces a value.                                            *)
LEMMA ResetsPlain ==
  ASSUME NEW r, RequestType(r), r.section # "input", NEW edit, NEW keys, keys \subseteq Added(r),
         ReplaceKeys(edit) = keys, Resets(edit, keys, r)
  PROVE  PlainReplace(edit)
<1>1. ASSUME NEW k \in DOMAIN edit.replace PROVE Readable(edit.replace[k].body)
  <2>1. k \in keys /\ k \in Added(r)
    BY <1>1 DEF ReplaceKeys
  <2>2. edit.replace[k] = AddedValue(r, k)
    BY <2>1 DEF Resets
  <2>3. AddedValue(r, k).body = <<>>
    BY <2>1, AddedValueIs DEF Addable
  <2> QED BY <2>2, <2>3, NoneReadable
<1> QED BY <1>1 DEF PlainReplace

(* Whatever an adapter writes, both parsers read it alike, if they read    *)
(* the literals of the request alike.                                      *)
LEMMA EditPlain ==
  ASSUME NEW r, RequestType(r), NEW v, View(v), ~EditFor(r, v).refused, ~AddsUnreadable(r)
  PROVE  PlainReplace(EditFor(r, v)) /\ PlainInsert(EditFor(r, v))
<1>1. PICK edit : edit = EditFor(r, v)
  OBVIOUS
<1>2. CASE r.section = "autoload" /\ EditFor(r, v) = AutoloadEdit(r, v)
  BY <1>2, AutoloadPlain
<1>3. CASE r.section = "input" /\ EditFor(r, v) = InputEdit(r, v)
  <2>1. edit.insert = r.add /\ ReplaceKeys(edit) = {}
    BY <1>1, <1>3, InputEditIs
  <2>2. \A i \in DOMAIN r.add : Readable(r.add[i].value.body)
    BY ReadableAdds
  <2> QED BY <1>1, <2>1, <2>2 DEF PlainReplace, PlainInsert, ReplaceKeys
<1>4. CASE r.section \in {"layer_names", "rendering"} /\ EditFor(r, v) = SetRemoveClear(r, v)
  <2>1. r.section # "input"
    BY <1>4
  <2>2. PICK kept : kept = Present(v) \ Gone(r, Present(v))
    OBVIOUS
  <2>3. ~SetRemoveClear(r, v).refused /\ edit = SetRemoveClear(r, v)
    BY <1>1, <1>4
  <2>4. ReplaceKeys(edit) = Added(r) \cap kept
    BY <2>2, <2>3, SetRemoveClearEditIs
  <2>5. Resets(edit, Added(r) \cap kept, r)
    BY <2>2, <2>3, SetRemoveClearEditIs
  <2>6. edit.insert = AddsOf(r, Nat \ kept)
    BY <2>2, <2>3, SetRemoveClearEditIs
  <2>7. Added(r) \cap kept \subseteq Added(r)
    OBVIOUS
  <2>8. PlainReplace(edit)
    BY <2>1, <2>4, <2>5, <2>7, ResetsPlain
  <2>9. PlainInsert(edit)
    BY <2>1, <2>6, AddsOfPlain DEF PlainInsert
  <2> QED BY <1>1, <2>8, <2>9
<1>5. CASE r.section = Application /\ EditFor(r, v) = ApplicationEdit(r, v)
  <2>1. r.section # "input"
    BY <1>5 DEF Application
  <2>3. ~ApplicationEdit(r, v).refused /\ edit = ApplicationEdit(r, v)
    BY <1>1, <1>5
  <2>4. ReplaceKeys(edit) = Differs(r, v) \cap DOMAIN v
    BY <2>3, ApplicationEditIs
  <2>5. Resets(edit, Differs(r, v) \cap DOMAIN v, r)
    BY <2>3, ApplicationEditIs
  <2>6. edit.insert = AddsOf(r, Differs(r, v) \ DOMAIN v)
    BY <2>3, ApplicationEditIs
  <2>7. Differs(r, v) \cap DOMAIN v \subseteq Added(r)
    BY DEF Differs
  <2>8. PlainReplace(edit)
    BY <2>1, <2>4, <2>5, <2>7, ResetsPlain
  <2>9. PlainInsert(edit)
    BY <2>1, <2>6, AddsOfPlain DEF PlainInsert
  <2> QED BY <1>1, <2>8, <2>9
<1> QED BY <1>2, <1>3, <1>4, <1>5, EditForIs

\* What is read of a file once a section of it has been edited.
HasEffect(g, f, X, edit) == \A d : d \in Scan(g) <=> Edited(d, Scan(f), X, edit)

\* The conditions under which a plan is sound, of any file and request.
Sane(from, r) ==
  ~RemovesTwice(r) /\ Ended(from) /\ Balanced(from) /\ ParsersAgree(from)

(* What is planned, of a file both parsers read in step and a request      *)
(* whose literals they can read, is read in step and means what the edit   *)
(* says.                                                                   *)
LEMMA MadeReads ==
  ASSUME NEW from, NEW to, NEW r, RequestType(r), NEW v, View(v), Made(from, to, r, v), Sane(from, r),
         ~AddsUnreadable(r)
  PROVE  /\ Whole(to) /\ Ended(to) /\ IsText(to) /\ InStep(to) /\ Balanced(to) /\ ParsersAgree(to)
         /\ InStep(from) /\ from \in Seq(Line)
         /\ HasEffect(to, from, r.section, EditFor(r, v))
<1>1. PICK edit : edit = EditFor(r, v)
  OBVIOUS
<1>2. PICK X : X = r.section
  OBVIOUS
<1>3. /\ IsText(from) /\ ~edit.refused /\ ~EditorRefuses(from, X, edit)
      /\ to = ApplySectionEdits(from, X, edit)
  BY <1>1, <1>2 DEF Made
<1>4. from \in Seq(Line) /\ Whole(from)
  BY <1>3, WholeOfText DEF Sane, IsText
<1>5. InStep(from) /\ Balanced(from)
  BY <1>4, AgreeIs DEF Sane
<1>6. X \in Texts /\ X # NoSection
  BY <1>2, RequestParts DEF NoSection
<1>7. PICK K : K = AskedOf(r, v)
  OBVIOUS
<1>8. ~AddsBracketInString(r)
  BY ReadableAdds
<1>9. Sensible(edit, K) /\ Distinct(edit) /\ Fitting(edit)
  BY <1>1, <1>3, <1>7, <1>8, EditIsProper DEF Proper, Sane
<1>10. PlainReplace(edit) /\ PlainInsert(edit)
  BY <1>1, <1>3, EditPlain
<1>11. Whole(to) /\ InStep(to) /\ Balanced(to)
  BY <1>3, <1>4, <1>5, <1>6, <1>9, <1>10, EditReads
<1>12. HasEffect(to, from, X, edit)
  BY <1>3, <1>4, <1>5, <1>6, <1>9, <1>10, EditReads DEF HasEffect
<1>13. IsText(to)
  BY MadeIsText
<1>14. ParsersAgree(to)
  <2>1. to \in Seq(Line)
    BY <1>13 DEF IsText
  <2> QED BY <1>11, <2>1, AgreeIs
<1>15. Ended(to)
  <2>1. to \in Seq(Line) /\ to # <<>> /\ Len(to) \in Nat
    BY <1>13 DEF IsText
  <2>2. Len(to) \in 1..Len(to)
    BY <2>1, EmptySeq
  <2> QED BY <1>11, <2>2 DEF Whole, Ended
<1> QED BY <1>1, <1>2, <1>4, <1>5, <1>11, <1>12, <1>13, <1>14, <1>15

-----------------------------------------------------------------------------
(* An edit carries out the request it was made of.                         *)

(* A value whose singleton is set.                                         *)
LEMMA Restarred ==
  ASSUME NEW value \in Values, NEW b \in BOOLEAN
  PROVE  /\ [value EXCEPT !.star = b] = [star |-> b, text |-> value.text, body |-> value.body]
         /\ b = value.star => [value EXCEPT !.star = b] = value
<1>1. value = [star |-> value.star, text |-> value.text, body |-> value.body]
  BY DEF Values
<1>2. [value EXCEPT !.star = b] = [star |-> b, text |-> value.text, body |-> value.body]
  BY <1>1
<1> QED BY <1>1, <1>2

(* Flags, as a set.                                                        *)
LEMMA FlagsAre ==
  ASSUME NEW r, NEW k, NEW star
  PROVE  [key |-> k, star |-> star] \in ToSet(r.flags) <=> Flags(r, k, star)
  BY DEF ToSet, Flags

(* What the sections show.                                                 *)
LEMMA ShownIs ==
  ASSUME NEW view
  PROVE  /\ Shown("autoload", view) = [k \in DOMAIN view |-> Quoted(view[k].star, Path(view[k]))]
         /\ \A X \in {"layer_names", "rendering"} : Shown(X, view) = [k \in Present(view) |-> view[k]]
         /\ \A X \in {"input", Application} : Shown(X, view) = [k \in DOMAIN view |-> view[k]]
<1>1. Shown("autoload", view) = [k \in DOMAIN view |-> Quoted(view[k].star, Path(view[k]))]
  BY DEF Shown
<1>2. ASSUME NEW X \in {"layer_names", "rendering"}
      PROVE  Shown(X, view) = [k \in Present(view) |-> view[k]]
  BY <1>2 DEF Shown, Present
<1>3. ASSUME NEW X \in {"input", Application}
      PROVE  Shown(X, view) = [k \in DOMAIN view |-> view[k]]
  <2>1. X \notin {"layer_names", "rendering"} /\ X # "autoload"
    BY <1>3 DEF Application
  <2> QED BY <2>1 DEF Shown
<1> QED BY <1>1, <1>2, <1>3

(* What is added is read with its singleton off.                           *)
LEMMA AddedReads ==
  ASSUME NEW r, RequestType(r), NEW k \in Added(r)
  PROVE  /\ AddedValue(r, k) \in Values /\ AddedValue(r, k).star = FALSE
         /\ Read(AddedValue(r, k)) \in Values /\ Read(AddedValue(r, k)).star = FALSE
         /\ r.section # "input" => /\ AddedValue(r, k).body = <<>> /\ AddedValue(r, k).text # ""
                                   /\ Read(AddedValue(r, k)) = AddedValue(r, k)
<1>1. Addable(AddedValue(r, k), r)
  BY AddedValueIs
<1>2. AddedValue(r, k) \in Values /\ AddedValue(r, k).star \in BOOLEAN
  BY <1>1 DEF Addable, Written, Values
<1>3. AddedValue(r, k).star = FALSE
  BY <1>1, <1>2 DEF Addable
<1>4. Read(AddedValue(r, k)) \in Values /\ Read(AddedValue(r, k)).star = AddedValue(r, k).star
  BY <1>2, ReadIsTyped
<1>5. r.section # "input" => AddedValue(r, k).body = <<>> /\ AddedValue(r, k).text # ""
  BY <1>1 DEF Addable
<1> QED BY <1>2, <1>3, <1>4, <1>5, FlatRead

(* What a request asks for of a section other than the autoloads.          *)
LEMMA RequestedFlat ==
  ASSUME NEW r, RequestType(r), r.section # "autoload", NEW old, \A k \in DOMAIN old : old[k] \in Values
  PROVE  Requested(r, old) =
           [k \in ((DOMAIN old) \ Gone(r, DOMAIN old)) \cup Added(r) |->
              IF k \in Added(r) THEN Read(AddedValue(r, k)) ELSE old[k]]
<1>1. ASSUME NEW k, NEW star PROVE [key |-> k, star |-> star] \notin ToSet(r.flags)
  <2>1. r.flags = <<>>
    BY DEF RequestType
  <2>2. DOMAIN r.flags = {}
    BY <2>1, NoReplace
  <2>3. ToSet(r.flags) = {}
    BY <2>2 DEF ToSet
  <2> QED BY <2>3
<1>2. PICK gone : gone = ToSet(r.remove) \cup (IF r.clear THEN DOMAIN old ELSE {})
  OBVIOUS
<1>3. gone = Gone(r, DOMAIN old)
  BY <1>2 DEF Gone
<1>4. ASSUME NEW k \in Added(r), NEW b, b = (r.section = "autoload" /\ ~([key |-> k, star |-> FALSE] \in ToSet(r.flags)))
      PROVE  [Read(AddedValue(r, k)) EXCEPT !.star = b] = Read(AddedValue(r, k))
  <2>1. b = FALSE
    BY <1>4
  <2> QED BY <2>1, AddedReads, Restarred
<1>5. ASSUME NEW k \in DOMAIN old
      PROVE  [old[k] EXCEPT !.star = (@ \/ [key |-> k, star |-> TRUE] \in ToSet(r.flags))
                                       /\ ~([key |-> k, star |-> FALSE] \in ToSet(r.flags))] = old[k]
  <2>1. old[k].star \in BOOLEAN
    BY DEF Values
  <2>2. PICK b : b = ((old[k].star \/ [key |-> k, star |-> TRUE] \in ToSet(r.flags))
                        /\ ~([key |-> k, star |-> FALSE] \in ToSet(r.flags)))
    OBVIOUS
  <2>3. b = old[k].star
    BY <1>1, <2>1, <2>2
  <2>4. [old[k] EXCEPT !.star = b] = old[k]
    BY <2>1, <2>3, Restarred
  <2> QED BY <2>2, <2>4
<1>6. Requested(r, old) =
        [k \in ((DOMAIN old) \ gone) \cup Added(r) |->
           IF k \in Added(r)
           THEN [Read(AddedValue(r, k)) EXCEPT !.star = r.section = "autoload" /\ ~([key |-> k, star |-> FALSE] \in ToSet(r.flags))]
           ELSE [old[k] EXCEPT !.star = (@ \/ [key |-> k, star |-> TRUE] \in ToSet(r.flags))
                                          /\ ~([key |-> k, star |-> FALSE] \in ToSet(r.flags))]]
  BY <1>2 DEF Requested
<1> QED BY <1>3, <1>4, <1>5, <1>6

(* What it asks for of the autoloads.                                      *)
LEMMA RequestedAutoload ==
  ASSUME NEW r, RequestType(r), r.section = "autoload", NEW v, View(v)
  PROVE  Requested(r, Shown("autoload", v)) =
           [k \in ((DOMAIN v) \ ToSet(r.remove)) \cup Added(r) |->
              IF k \in Added(r) THEN Launch(r, k, AddedValue(r, k).text)
              ELSE Quoted((v[k].star \/ Flags(r, k, TRUE)) /\ ~Flags(r, k, FALSE), Path(v[k]))]
<1>1. PICK old : old = Shown("autoload", v)
  OBVIOUS
<1>2. old = [k \in DOMAIN v |-> Quoted(v[k].star, Path(v[k]))]
  BY <1>1, ShownIs
<1>3. r.clear = FALSE
  BY DEF RequestType
<1>4. PICK gone : gone = ToSet(r.remove) \cup (IF r.clear THEN DOMAIN old ELSE {})
  OBVIOUS
<1>5. gone = ToSet(r.remove)
  BY <1>3, <1>4
<1>6. ASSUME NEW k \in Added(r)
      PROVE  [Read(AddedValue(r, k)) EXCEPT !.star = r.section = "autoload" /\ ~([key |-> k, star |-> FALSE] \in ToSet(r.flags))]
               = Launch(r, k, AddedValue(r, k).text)
  <2>1. PICK b : b = (r.section = "autoload" /\ ~([key |-> k, star |-> FALSE] \in ToSet(r.flags)))
    OBVIOUS
  <2>2. PICK c : c = ~Flags(r, k, FALSE)
    OBVIOUS
  <2>3. b = c /\ b \in BOOLEAN
    BY <2>1, <2>2, FlagsAre
  <2>4. PICK value : value = AddedValue(r, k)
    OBVIOUS
  <2>5. value \in Values /\ value.body = <<>> /\ Read(value) = value
    BY <2>4, AddedReads
  <2>6. [value EXCEPT !.star = b] = [star |-> b, text |-> value.text, body |-> <<>>]
    BY <2>3, <2>5, Restarred
  <2>7. Launch(r, k, value.text) = [star |-> c, text |-> value.text, body |-> <<>>]
    BY <2>2 DEF Launch, Quoted
  <2> QED BY <2>1, <2>3, <2>4, <2>5, <2>6, <2>7
<1>7. ASSUME NEW k \in DOMAIN v
      PROVE  [old[k] EXCEPT !.star = (@ \/ [key |-> k, star |-> TRUE] \in ToSet(r.flags))
                                       /\ ~([key |-> k, star |-> FALSE] \in ToSet(r.flags))]
               = Quoted((v[k].star \/ Flags(r, k, TRUE)) /\ ~Flags(r, k, FALSE), Path(v[k]))
  <2>1. v[k] \in Values /\ v[k].star \in BOOLEAN
    BY DEF View, Values
  <2>2. PICK text : text = Path(v[k])
    OBVIOUS
  <2>3. PICK star : star = v[k].star
    OBVIOUS
  <2>4. text \in Texts /\ star \in BOOLEAN
    BY <2>1, <2>2, <2>3, PathIs
  <2>5. old[k] = Quoted(star, text)
    BY <1>2, <2>2, <2>3
  <2>6. Quoted(star, text) \in Values /\ old[k].star = star /\ old[k].text = text /\ old[k].body = <<>>
    BY <2>4, <2>5, QuotedRead
  <2>7. PICK b : b = ((old[k].star \/ [key |-> k, star |-> TRUE] \in ToSet(r.flags))
                        /\ ~([key |-> k, star |-> FALSE] \in ToSet(r.flags)))
    OBVIOUS
  <2>8. PICK c : c = ((v[k].star \/ Flags(r, k, TRUE)) /\ ~Flags(r, k, FALSE))
    OBVIOUS
  <2>9. b = c /\ b \in BOOLEAN
    BY <2>3, <2>6, <2>7, <2>8, FlagsAre
  <2>10. [old[k] EXCEPT !.star = b] = [star |-> b, text |-> text, body |-> <<>>]
    BY <2>5, <2>6, <2>9, Restarred
  <2>11. Quoted(c, text) = [star |-> c, text |-> text, body |-> <<>>]
    BY DEF Quoted
  <2> QED BY <2>2, <2>7, <2>8, <2>9, <2>10, <2>11
<1>8. DOMAIN old = DOMAIN v
  BY <1>2
<1>9. Requested(r, old) =
        [k \in ((DOMAIN old) \ gone) \cup Added(r) |->
           IF k \in Added(r)
           THEN [Read(AddedValue(r, k)) EXCEPT !.star = r.section = "autoload" /\ ~([key |-> k, star |-> FALSE] \in ToSet(r.flags))]
           ELSE [old[k] EXCEPT !.star = (@ \/ [key |-> k, star |-> TRUE] \in ToSet(r.flags))
                                          /\ ~([key |-> k, star |-> FALSE] \in ToSet(r.flags))]]
  BY <1>4 DEF Requested
<1> QED BY <1>1, <1>5, <1>6, <1>7, <1>8, <1>9

\* An edit carries the request out in every section that is as it says.
Carries(edit, r, v) ==
  \E gone, put, new :
    /\ Acts(edit, r.section, gone, put, new)
    /\ \A w : After(w, v, gone, put, new) =>
                Shown(r.section, w) = Requested(r, Shown(r.section, v))

(* The autoload adapter, unless the request sets a singleton both ways.    *)
LEMMA AutoloadCarries ==
  ASSUME NEW r, RequestType(r), r.section = "autoload", NEW v, View(v), ~AutoloadEdit(r, v).refused,
         AddsOnce(r), SetsBothWays(r) => Turned(r, v) = {}
  PROVE  Carries(AutoloadEdit(r, v), r, v)
<1>1. PICK put : put = Turned(r, v) \cup Added(r)
  OBVIOUS
<1>2. PICK gone : gone = ToSet(r.remove) \cup Turned(r, v)
  OBVIOUS
<1>3. PICK new : new = AutoloadNew(r, v)
  OBVIOUS
<1>4. Acts(AutoloadEdit(r, v), "autoload", gone, put, new)
  BY <1>1, <1>2, <1>3, AutoloadActs
<1>5. Turned(r, v) \subseteq (DOMAIN v) \ ToSet(r.remove) /\ Turned(r, v) \cap Added(r) = {}
  <2>1. \A i \in DOMAIN r.flags : r.flags[i].key \in ((DOMAIN v) \ ToSet(r.remove)) \cup Added(r)
    BY AutoloadEditIs
  <2>2. ASSUME NEW k \in Turned(r, v) PROVE k \in (DOMAIN v) \ ToSet(r.remove) /\ k \notin Added(r)
    <3>1. k \in DOMAIN v /\ k \notin Added(r) /\ Flags(r, k, ~v[k].star)
      BY DEF Turned
    <3>2. PICK i \in DOMAIN r.flags : r.flags[i] = [key |-> k, star |-> ~v[k].star]
      BY <3>1 DEF Flags
    <3>3. r.flags[i].key = k
      BY <3>2
    <3> QED BY <2>1, <3>1, <3>3
  <2> QED BY <2>2
<1>6. ASSUME NEW k \in DOMAIN v, k \notin Added(r)
      PROVE  /\ k \in Turned(r, v) => Turn(v[k]) = Quoted((v[k].star \/ Flags(r, k, TRUE)) /\ ~Flags(r, k, FALSE), Path(v[k]))
             /\ k \notin Turned(r, v) => v[k].star = ((v[k].star \/ Flags(r, k, TRUE)) /\ ~Flags(r, k, FALSE))
  <2>1. v[k].star \in BOOLEAN
    BY DEF View, Values
  <2>2. k \in Turned(r, v) <=> Flags(r, k, ~v[k].star)
    BY <1>6 DEF Turned
  <2>3. PICK b : b = ((v[k].star \/ Flags(r, k, TRUE)) /\ ~Flags(r, k, FALSE))
    OBVIOUS
  <2>4. Flags(r, k, TRUE) \in BOOLEAN /\ Flags(r, k, FALSE) \in BOOLEAN
    BY DEF Flags
  <2>5. Flags(r, k, TRUE) /\ Flags(r, k, FALSE) => Turned(r, v) = {}
    <3> SUFFICES ASSUME Flags(r, k, TRUE), Flags(r, k, FALSE) PROVE SetsBothWays(r)
      OBVIOUS
    <3>1. PICK i \in DOMAIN r.flags : r.flags[i] = [key |-> k, star |-> TRUE]
      BY DEF Flags
    <3>2. PICK j \in DOMAIN r.flags : r.flags[j] = [key |-> k, star |-> FALSE]
      BY DEF Flags
    <3>3. r.flags[i].key = k /\ r.flags[i].star = TRUE /\ r.flags[j].key = k /\ r.flags[j].star = FALSE
      BY <3>1, <3>2
    <3> QED BY <3>3 DEF SetsBothWays
  <2>6. k \in Turned(r, v) => b = ~v[k].star
    <3>1. CASE v[k].star = TRUE
      BY <2>1, <2>2, <2>3, <2>4, <2>5, <3>1
    <3>2. CASE v[k].star = FALSE
      BY <2>1, <2>2, <2>3, <2>4, <2>5, <3>2
    <3> QED BY <2>1, <3>1, <3>2
  <2>7. k \notin Turned(r, v) => v[k].star = b
    <3>1. CASE v[k].star = TRUE
      BY <2>1, <2>2, <2>3, <2>4, <2>5, <3>1
    <3>2. CASE v[k].star = FALSE
      BY <2>1, <2>2, <2>3, <2>4, <2>5, <3>2
    <3> QED BY <2>1, <3>1, <3>2
  <2> QED BY <2>3, <2>6, <2>7 DEF Turn
<1>7. ASSUME NEW w, After(w, v, gone, put, new)
      PROVE  Shown("autoload", w) = Requested(r, Shown("autoload", v))
  <2>1. DOMAIN w = ((DOMAIN v) \ ToSet(r.remove)) \cup Added(r)
    BY <1>1, <1>2, <1>5, <1>7 DEF After
  <2>2. ASSUME NEW k \in DOMAIN w, k \in Added(r)
        PROVE  Quoted(w[k].star, Path(w[k])) = Launch(r, k, AddedValue(r, k).text)
    <3>1. w[k] = new[k] /\ new[k] = Launch(r, k, AddedValue(r, k).text)
      BY <1>1, <1>3, <1>7, <2>2 DEF After, AutoloadNew
    <3>2. PICK text : text = AddedValue(r, k).text
      OBVIOUS
    <3>3. PICK star : star = ~Flags(r, k, FALSE)
      OBVIOUS
    <3>4. star \in BOOLEAN /\ text \in Texts
      <4>1. AddedValue(r, k) \in Values
        BY <2>2, AddedReads
      <4> QED BY <3>2, <3>3, <4>1 DEF Values, Flags
    <3>5. w[k] = Quoted(star, text)
      BY <3>1, <3>2, <3>3 DEF Launch
    <3>6. w[k].star = star /\ Path(w[k]) = text
      BY <3>4, <3>5, QuotedRead
    <3> QED BY <3>1, <3>5, <3>6
  <2>3. ASSUME NEW k \in DOMAIN w, k \notin Added(r)
        PROVE  Quoted(w[k].star, Path(w[k]))
                 = Quoted((v[k].star \/ Flags(r, k, TRUE)) /\ ~Flags(r, k, FALSE), Path(v[k]))
    <3>1. k \in DOMAIN v /\ k \notin ToSet(r.remove)
      BY <2>1, <2>3
    <3>2. CASE k \in Turned(r, v)
      <4>1. w[k] = Turn(v[k])
        <5>1. w[k] = new[k]
          BY <1>1, <1>7, <3>2 DEF After
        <5> QED BY <1>3, <2>3, <3>2, <5>1 DEF AutoloadNew
      <4>2. PICK b : b = ((v[k].star \/ Flags(r, k, TRUE)) /\ ~Flags(r, k, FALSE))
        OBVIOUS
      <4>3. PICK text : text = Path(v[k])
        OBVIOUS
      <4>4. b \in BOOLEAN /\ text \in Texts
        <5>1. v[k] \in Values
          BY <3>1 DEF View
        <5> QED BY <4>2, <4>3, <5>1, PathIs
      <4>5. w[k] = Quoted(b, text)
        BY <1>6, <2>3, <3>1, <3>2, <4>1, <4>2, <4>3
      <4>6. w[k].star = b /\ Path(w[k]) = text
        BY <4>4, <4>5, QuotedRead
      <4> QED BY <4>2, <4>3, <4>6
    <3>3. CASE k \notin Turned(r, v)
      <4>1. w[k] = v[k]
        BY <1>2, <1>7, <3>1, <3>3 DEF After
      <4>2. PICK b : b = ((v[k].star \/ Flags(r, k, TRUE)) /\ ~Flags(r, k, FALSE))
        OBVIOUS
      <4>3. v[k].star = b
        BY <1>6, <2>3, <3>1, <3>3, <4>2
      <4> QED BY <4>1, <4>2, <4>3
    <3> QED BY <3>2, <3>3
  <2>4. Shown("autoload", w) = [k \in DOMAIN w |-> Quoted(w[k].star, Path(w[k]))]
    BY ShownIs
  <2>5. Requested(r, Shown("autoload", v)) =
          [k \in DOMAIN w |->
             IF k \in Added(r) THEN Launch(r, k, AddedValue(r, k).text)
             ELSE Quoted((v[k].star \/ Flags(r, k, TRUE)) /\ ~Flags(r, k, FALSE), Path(v[k]))]
    BY <2>1, RequestedAutoload, ZenonT(60)
  <2> QED BY <2>2, <2>3, <2>4, <2>5
<1> QED BY <1>4, <1>7 DEF Carries

(* The input map adapter.                                                  *)
LEMMA InputCarries ==
  ASSUME NEW r, RequestType(r), r.section = "input", NEW v, View(v), ~InputEdit(r, v).refused, AddsOnce(r)
  PROVE  Carries(InputEdit(r, v), r, v)
<1>1. PICK gone : gone = Gone(r, DOMAIN v)
  OBVIOUS
<1>2. PICK put : put = Added(r)
  OBVIOUS
<1>3. PICK new : new = AddedNew(r)
  OBVIOUS
<1>4. Acts(InputEdit(r, v), "input", gone, put, new)
  BY <1>1, <1>2, <1>3, InputActs
<1>5. Shown("input", v) = [k \in DOMAIN v |-> v[k]]
  BY ShownIs
<1>6. ASSUME NEW w, After(w, v, gone, put, new)
      PROVE  Shown("input", w) = Requested(r, Shown("input", v))
  <2>1. DOMAIN w = ((DOMAIN v) \ gone) \cup Added(r)
    BY <1>2, <1>6 DEF After
  <2>2. \A k \in DOMAIN w : k \in Added(r) => w[k] = Read(AddedValue(r, k))
    BY <1>2, <1>3, <1>6 DEF After, AddedNew
  <2>3. \A k \in DOMAIN w : k \notin Added(r) => w[k] = v[k] /\ k \in DOMAIN v
    BY <1>6, <2>1 DEF After
  <2>4. Shown("input", w) = [k \in DOMAIN w |-> w[k]]
    BY ShownIs
  <2>5. PICK old : old = Shown("input", v)
    OBVIOUS
  <2>6. DOMAIN old = DOMAIN v /\ \A k \in DOMAIN v : old[k] = v[k] /\ old[k] \in Values
    BY <1>5, <2>5 DEF View
  <2>7. Requested(r, old) =
          [k \in ((DOMAIN old) \ Gone(r, DOMAIN old)) \cup Added(r) |->
             IF k \in Added(r) THEN Read(AddedValue(r, k)) ELSE old[k]]
    BY <2>6, RequestedFlat
  <2>8. Requested(r, old) = [k \in DOMAIN w |-> IF k \in Added(r) THEN Read(AddedValue(r, k)) ELSE old[k]]
    BY <1>1, <2>1, <2>6, <2>7
  <2> QED BY <2>2, <2>3, <2>4, <2>5, <2>6, <2>8
<1> QED BY <1>4, <1>6 DEF Carries

(* The layer name and renderer adapters.                                   *)
LEMMA SetRemoveClearCarries ==
  ASSUME NEW r, RequestType(r), r.section \in {"layer_names", "rendering"}, NEW v, View(v),
         ~SetRemoveClear(r, v).refused, AddsOnce(r)
  PROVE  Carries(SetRemoveClear(r, v), r, v)
<1>1. PICK kept : kept = Present(v) \ Gone(r, Present(v))
  OBVIOUS
<1>2. PICK gone : gone = Gone(r, Present(v)) \cup (Added(r) \cap kept)
  OBVIOUS
<1>3. PICK put : put = Added(r)
  OBVIOUS
<1>4. PICK new : new = AddedNew(r)
  OBVIOUS
<1>5. Acts(SetRemoveClear(r, v), r.section, gone, put, new)
  BY <1>1, <1>2, <1>3, <1>4, SetRemoveClearActs
<1>6. Shown(r.section, v) = [k \in Present(v) |-> v[k]]
  BY ShownIs
<1>7. ASSUME NEW w, After(w, v, gone, put, new)
      PROVE  Shown(r.section, w) = Requested(r, Shown(r.section, v))
  <2>1. DOMAIN w = ((DOMAIN v) \ gone) \cup Added(r)
    BY <1>3, <1>7 DEF After
  <2>2. ASSUME NEW k \in Added(r)
        PROVE  k \in DOMAIN w /\ w[k] = Read(AddedValue(r, k)) /\ k \in Present(w)
    <3>1. w[k] = Read(AddedValue(r, k)) /\ k \in DOMAIN w
      BY <1>3, <1>4, <1>7, <2>1 DEF After, AddedNew
    <3>2. r.section # "input"
      OBVIOUS
    <3>3. AddedValue(r, k).text # "" /\ Read(AddedValue(r, k)) = AddedValue(r, k)
      BY <3>2, AddedReads
    <3>4. w[k].text # ""
      BY <3>1, <3>3
    <3> QED BY <3>1, <3>4 DEF Present
  <2>3. ASSUME NEW k, k \notin Added(r)
        PROVE  k \in Present(w) <=> k \in kept
    <3>1. k \in DOMAIN w <=> k \in DOMAIN v /\ k \notin gone
      BY <2>1, <2>3
    <3>2. k \in DOMAIN w => w[k] = v[k]
      BY <1>7, <2>3, <3>1 DEF After
    <3>3. k \in gone <=> k \in Gone(r, Present(v))
      BY <1>2, <2>3
    <3> QED BY <1>1, <3>1, <3>2, <3>3 DEF Present
  <2>4. Present(w) = kept \cup Added(r)
    BY <2>2, <2>3
  <2>5. \A k \in Present(w) : k \notin Added(r) => k \in Present(v) /\ w[k] = v[k]
    <3> SUFFICES ASSUME NEW k \in Present(w), k \notin Added(r) PROVE k \in Present(v) /\ w[k] = v[k]
      OBVIOUS
    <3>1. k \in kept
      BY <2>3
    <3>2. k \in DOMAIN v /\ k \notin gone
      BY <1>1, <1>2, <3>1 DEF Present
    <3> QED BY <1>1, <1>7, <3>1, <3>2 DEF After
  <2>6. PICK old : old = Shown(r.section, v)
    OBVIOUS
  <2>7. DOMAIN old = Present(v) /\ \A k \in Present(v) : old[k] = v[k] /\ old[k] \in Values
    BY <1>6, <2>6 DEF View, Present
  <2>8. Requested(r, old) =
          [k \in ((DOMAIN old) \ Gone(r, DOMAIN old)) \cup Added(r) |->
             IF k \in Added(r) THEN Read(AddedValue(r, k)) ELSE old[k]]
    <3>1. r.section # "autoload"
      OBVIOUS
    <3> QED BY <2>7, <3>1, RequestedFlat
  <2>9. Requested(r, old) = [k \in Present(w) |-> IF k \in Added(r) THEN Read(AddedValue(r, k)) ELSE old[k]]
    BY <1>1, <2>4, <2>7, <2>8
  <2>10. Shown(r.section, w) = [k \in Present(w) |-> w[k]]
    BY ShownIs
  <2> QED BY <2>2, <2>5, <2>6, <2>7, <2>9, <2>10
<1> QED BY <1>5, <1>7 DEF Carries

(* The application adapter.                                                *)
LEMMA ApplicationCarries ==
  ASSUME NEW r, RequestType(r), r.section = Application, NEW v, View(v),
         ~ApplicationEdit(r, v).refused, AddsOnce(r)
  PROVE  Carries(ApplicationEdit(r, v), r, v)
<1>0. r.section \notin {"autoload", "input", "layer_names", "rendering"}
  BY DEF Application
<1>1. PICK put : put = Differs(r, v)
  OBVIOUS
<1>2. PICK gone : gone = ToSet(r.remove) \cup (Differs(r, v) \cap DOMAIN v)
  OBVIOUS
<1>3. PICK new : new = AddedNew(r)
  OBVIOUS
<1>4. Acts(ApplicationEdit(r, v), r.section, gone, put, new)
  BY <1>1, <1>2, <1>3, ApplicationActs
<1>5. Shown(r.section, v) = [k \in DOMAIN v |-> v[k]]
  BY ShownIs
<1>6. ToSet(r.remove) \cap Added(r) = {}
  BY ApplicationEditIs
<1>7. Gone(r, DOMAIN v) = ToSet(r.remove)
  BY DEF Gone, RequestType
<1>8. ASSUME NEW w, After(w, v, gone, put, new)
      PROVE  Shown(r.section, w) = Requested(r, Shown(r.section, v))
  <2>1. DOMAIN w = ((DOMAIN v) \ ToSet(r.remove)) \cup Added(r)
    <3>1. DOMAIN w = ((DOMAIN v) \ gone) \cup put
      BY <1>8 DEF After
    <3>2. Differs(r, v) \subseteq Added(r) /\ \A k \in Added(r) : k \in Differs(r, v) \/ k \in DOMAIN v
      BY DEF Differs
    <3> QED BY <1>1, <1>2, <1>6, <3>1, <3>2
  <2>2. ASSUME NEW k \in Added(r)
        PROVE  w[k] = Read(AddedValue(r, k))
    <3>1. CASE k \in Differs(r, v)
      BY <1>1, <1>3, <1>8, <3>1 DEF After, AddedNew
    <3>2. CASE k \notin Differs(r, v)
      <4>1. k \in DOMAIN v /\ v[k] = AddedValue(r, k)
        BY <3>2 DEF Differs
      <4>2. k \notin gone
        BY <1>2, <1>6, <3>2
      <4>3. w[k] = v[k]
        BY <1>8, <4>1, <4>2 DEF After
      <4>4. Read(AddedValue(r, k)) = AddedValue(r, k)
        BY <1>0, AddedReads
      <4> QED BY <4>1, <4>3, <4>4
    <3> QED BY <3>1, <3>2
  <2>3. ASSUME NEW k \in DOMAIN w, k \notin Added(r)
        PROVE  k \in DOMAIN v /\ w[k] = v[k]
    <3>1. k \in DOMAIN v /\ k \notin ToSet(r.remove)
      BY <2>1, <2>3
    <3>2. k \notin gone
      BY <1>2, <2>3, <3>1 DEF Differs
    <3> QED BY <1>8, <3>1, <3>2 DEF After
  <2>4. PICK old : old = Shown(r.section, v)
    OBVIOUS
  <2>5. DOMAIN old = DOMAIN v /\ \A k \in DOMAIN v : old[k] = v[k] /\ old[k] \in Values
    BY <1>5, <2>4 DEF View
  <2>6. Requested(r, old) =
          [k \in ((DOMAIN old) \ Gone(r, DOMAIN old)) \cup Added(r) |->
             IF k \in Added(r) THEN Read(AddedValue(r, k)) ELSE old[k]]
    BY <1>0, <2>5, RequestedFlat
  <2>7. Requested(r, old) = [k \in DOMAIN w |-> IF k \in Added(r) THEN Read(AddedValue(r, k)) ELSE old[k]]
    BY <1>7, <2>1, <2>5, <2>6
  <2>8. Shown(r.section, w) = [k \in DOMAIN w |-> w[k]]
    BY ShownIs
  <2> QED BY <2>2, <2>3, <2>4, <2>5, <2>7, <2>8
<1> QED BY <1>4, <1>8 DEF Carries

(* An edit that the editor does not refuse adds no key twice.              *)
LEMMA EditAddsOnce ==
  ASSUME NEW r, RequestType(r), NEW v, View(v), NEW edit, edit = EditFor(r, v), ~edit.refused,
         NoChange(edit) \/ ~InsertsTwice(edit)
  PROVE  AddsOnce(r)
<1>1. CASE r.section \in {"autoload", "input"}
  <2>1. DOMAIN edit.insert = DOMAIN r.add /\ \A i \in DOMAIN r.add : edit.insert[i].key = r.add[i].key
    <3>1. CASE r.section = "autoload"
      <4>1. edit = AutoloadEdit(r, v)
        BY <3>1, EditForIs DEF Application
      <4> QED BY <3>1, <4>1, AutoloadEditIs
    <3>2. CASE r.section = "input"
      <4>1. edit = InputEdit(r, v)
        BY <3>2, EditForIs DEF Application
      <4>2. edit.insert = r.add
        BY <4>1, InputEditIs
      <4> QED BY <4>2
    <3> QED BY <1>1, <3>1, <3>2
  <2>2. CASE NoChange(edit)
    <3>1. DOMAIN r.add = {}
      BY <2>1, <2>2, NoReplace DEF NoChange
    <3> QED BY <3>1 DEF AddsOnce
  <2>3. CASE ~InsertsTwice(edit)
    BY <2>1, <2>3 DEF InsertsTwice, AddsOnce
  <2> QED BY <2>2, <2>3
<1>2. CASE r.section \notin {"autoload", "input"}
  BY <1>2 DEF RequestType, AddsOnce
<1> QED BY <1>1, <1>2

(* The adapter's edit carries the request out.                             *)
LEMMA EditCarries ==
  ASSUME NEW r, RequestType(r), NEW v, View(v), ~EditFor(r, v).refused, AddsOnce(r),
         SetsBothWays(r) => NoChange(EditFor(r, v))
  PROVE  Carries(EditFor(r, v), r, v)
<1>1. CASE r.section = "autoload" /\ EditFor(r, v) = AutoloadEdit(r, v)
  <2>1. ReplaceKeys(AutoloadEdit(r, v)) = Turned(r, v)
    BY <1>1, AutoloadEditIs
  <2>2. SetsBothWays(r) => Turned(r, v) = {}
    BY <1>1, <2>1, NoReplace DEF NoChange, ReplaceKeys
  <2> QED BY <1>1, <2>2, AutoloadCarries
<1>2. CASE r.section = "input" /\ EditFor(r, v) = InputEdit(r, v)
  BY <1>2, InputCarries
<1>3. CASE r.section \in {"layer_names", "rendering"} /\ EditFor(r, v) = SetRemoveClear(r, v)
  BY <1>3, SetRemoveClearCarries
<1>4. CASE r.section = Application /\ EditFor(r, v) = ApplicationEdit(r, v)
  BY <1>4, ApplicationCarries
<1> QED BY <1>1, <1>2, <1>3, <1>4, EditForIs

(* An edit that changes nothing leaves every section as it is.             *)
LEMMA NoChangeAfter ==
  ASSUME NEW edit, NoChange(edit), NEW X, NEW gone, NEW put, NEW new, Acts(edit, X, gone, put, new), NEW v
  PROVE  After(v, v, gone, put, new)
<1>1. ReplaceKeys(edit) = {} /\ RemoveKeys(edit) = {}
  BY NoReplace DEF NoChange, ReplaceKeys, RemoveKeys, ToSet
<1>2. Len(edit.insert) = 0
  BY DEF NoChange
<1>3. \A d : ~ReadOf(d, X, edit.insert, Len(edit.insert))
  BY <1>2 DEF ReadOf
<1>4. gone = {}
  BY <1>1 DEF Acts
<1>5. \A d : ~(\E k \in put : d = Of(X, k, new[k]))
  BY <1>1, <1>3 DEF Acts
<1>6. put = {}
  BY <1>5
<1> QED BY <1>4, <1>6 DEF After

(* "No-op" is the answer only to what holds already.                       *)
LEMMA NoopMeans ==
  ASSUME NEW r, RequestType(r), NEW v, View(v), ~EditFor(r, v).refused, NoChange(EditFor(r, v))
  PROVE  Requested(r, Shown(r.section, v)) = Shown(r.section, v)
<1>1. AddsOnce(r)
  BY EditAddsOnce
<1>2. Carries(EditFor(r, v), r, v)
  BY <1>1, EditCarries
<1>3. PICK gone, put, new :
        /\ Acts(EditFor(r, v), r.section, gone, put, new)
        /\ \A w : After(w, v, gone, put, new) =>
                    Shown(r.section, w) = Requested(r, Shown(r.section, v))
  BY <1>2 DEF Carries
<1>4. After(v, v, gone, put, new)
  BY <1>3, NoChangeAfter
<1> QED BY <1>3, <1>4

(* The other sections are left as they are.                                *)
LEMMA OthersEdited ==
  ASSUME NEW f, NEW g, NEW X, NEW edit, \A d : d \in Scan(g) <=> Edited(d, Scan(f), X, edit)
  PROVE  Others(g, X) = Others(f, X)
<1>1. ASSUME NEW d PROVE Edited(d, Scan(f), X, edit) /\ d.section # X <=> d \in Scan(f) /\ d.section # X
  <2>1. \A k, value : Of(X, k, value).section = X
    BY DEF Of
  <2>2. (\E k \in ReplaceKeys(edit) : d = Of(X, k, Read(edit.replace[k]))) => d.section = X
    BY <2>1
  <2>3. ReadOf(d, X, edit.insert, Len(edit.insert)) => d.section = X
    BY <2>1 DEF ReadOf
  <2> QED BY <2>2, <2>3 DEF Edited, CutOut
<1>2. \A d : d \in Others(g, X) <=> d \in Others(f, X)
  BY <1>1 DEF Others
<1>3. Others(g, X) \subseteq Others(f, X)
  BY <1>2
<1>4. Others(f, X) \subseteq Others(g, X)
  BY <1>2
<1> QED BY <1>3, <1>4

(* What is planned is what was asked for.                                  *)
LEMMA MadeMeans ==
  ASSUME NEW from, NEW to, NEW r, RequestType(r), NEW v, View(v), Made(from, to, r, v), Sane(from, r),
         ~AddsUnreadable(r), ~SetsBothWays(r), v = SectionOf(Scan(from), r.section)
  PROVE  /\ Meaning(to, r.section) = Requested(r, Meaning(from, r.section))
         /\ Others(to, r.section) = Others(from, r.section)
<1>1. PICK edit : edit = EditFor(r, v)
  OBVIOUS
<1>2. PICK X : X = r.section
  OBVIOUS
<1>3. from \in Seq(Line) /\ to \in Seq(Line)
  BY MadeReads DEF IsText
<1>4. \A d : d \in Scan(to) <=> Edited(d, Scan(from), X, edit)
  <2>1. HasEffect(to, from, r.section, EditFor(r, v))
    BY MadeReads
  <2> QED BY <1>1, <1>2, <2>1 DEF HasEffect
<1>5. ~edit.refused /\ ~InsertsTwice(edit)
  BY <1>1 DEF Made, EditorRefuses
<1>6. AddsOnce(r)
  BY <1>1, <1>5, EditAddsOnce
<1>7. Carries(edit, r, v)
  BY <1>1, <1>5, <1>6, EditCarries
<1>8. PICK gone, put, new :
        /\ Acts(edit, X, gone, put, new)
        /\ \A w : After(w, v, gone, put, new) => Shown(X, w) = Requested(r, Shown(X, v))
  BY <1>2, <1>7 DEF Carries
<1>9. \A d : d \in Scan(to) <=> \/ d \in Scan(from) /\ (d.section # X \/ d.key \notin gone)
                                \/ \E k \in put : d = Of(X, k, new[k])
  BY <1>4, <1>8, ActsRead
<1>10. PICK w : w = SectionOf(Scan(to), X)
  OBVIOUS
<1>11. After(w, v, gone, put, new)
  <2>1. Scan(from) \in Readings /\ Scan(to) \in Readings
    BY <1>3, ScanIsTyped
  <2> QED BY <1>2, <1>9, <1>10, <2>1, SectionAfter
<1>12. Shown(X, w) = Requested(r, Shown(X, v))
  BY <1>8, <1>11
<1>13. Others(to, X) = Others(from, X)
  BY <1>4, OthersEdited
<1> QED BY <1>2, <1>10, <1>12, <1>13 DEF Meaning

(* Whether a plan or a no-op is the answer, it is the one to the request:  *)
(* _plan_from_edits and the adapters, of any file and any request.         *)
THEOREM RequestMeant == Spec => []EditMeansRequest
<1>1. IInv => PlanMeansRequest
  <2> SUFFICES ASSUME IInv, Planned, ~AddsUnreadable(request), ~SetsBothWays(request)
               PROVE  /\ Meaning(plan.to, request.section) = Requested(request, Meaning(plan.from, request.section))
                      /\ Others(plan.to, request.section) = Others(plan.from, request.section)
    BY DEF PlanMeansRequest
  <2>1. RequestType(request) /\ View(seen)
    BY RequestsAre DEF IInv, TypeOK
  <2>2. Made(plan.from, plan.to, request, seen)
    BY DEF IInv, PlanIsMade, Planned
  <2>3. seen = SectionOf(Scan(plan.from), request.section)
    BY DEF IInv, SeenIsThere, Planned
  <2>4. Sane(plan.from, request)
    BY DEF Planned, Sound, Sane
  <2> QED BY <2>1, <2>2, <2>3, <2>4, MadeMeans
<1>2. IInv => NoopIsTrue
  <2> SUFFICES ASSUME IInv, pc = "noop"
               PROVE  Requested(request, Shown(request.section, seen)) = Shown(request.section, seen)
    BY DEF NoopIsTrue
  <2>1. RequestType(request) /\ View(seen)
    BY RequestsAre DEF IInv, TypeOK
  <2>2. ~EditFor(request, seen).refused /\ NoChange(EditFor(request, seen))
    BY DEF IInv, NoopIsMade
  <2> QED BY <2>1, <2>2, NoopMeans
<1> QED BY <1>1, <1>2, Inductive, PTL DEF EditMeansRequest

(* A file both parsers read in step stays one.                             *)
LEMMA AgreementStays == IInv => ParsersStayAgreed
<1> SUFFICES ASSUME IInv, plan # NoPlan, Sound, ~AddsUnreadable(request)
             PROVE  Balanced(plan.to) /\ ParsersAgree(plan.to)
  BY DEF ParsersStayAgreed
<1>1. RequestType(request) /\ View(seen)
  BY RequestsAre DEF IInv, TypeOK
<1>2. Made(plan.from, plan.to, request, seen)
  BY DEF IInv, PlanIsMade
<1>3. Sane(plan.from, request)
  BY DEF Sound, Sane
<1> QED BY <1>1, <1>2, <1>3, MadeReads

-----------------------------------------------------------------------------
(* A request made again over its own plan changes nothing that is read.    *)

\* The edit gives up and puts in only what the section w holds already.
Repeats(edit, X, w) ==
  \E gone, put, new :
    /\ Acts(edit, X, gone, put, new)
    /\ gone \subseteq put
    /\ \A k \in put : k \in DOMAIN w /\ w[k] = new[k]

(* Such an edit changes nothing that is read.                              *)
LEMMA RepeatedReads ==
  ASSUME NEW f \in Seq(Line), NEW g \in Seq(Line), NEW X, NEW edit, HasEffect(g, f, X, edit),
         Repeats(edit, X, SectionOf(Scan(f), X))
  PROVE  Scan(g) = Scan(f)
<1>1. PICK w : w = SectionOf(Scan(f), X)
  OBVIOUS
<1>2. PICK gone, put, new :
        /\ Acts(edit, X, gone, put, new)
        /\ gone \subseteq put
        /\ \A k \in put : k \in DOMAIN w /\ w[k] = new[k]
  BY <1>1 DEF Repeats
<1>3. PICK data : data = Scan(f)
  OBVIOUS
<1>4. data \in Readings
  BY <1>3, ScanIsTyped
<1>5. \A k : k \in DOMAIN w <=> \E d \in data : d.section = X /\ d.key = k
  BY <1>1, <1>3, <1>4, SectionIs
<1>6. \A d \in data : d.section = X => w[d.key] = d.value
  BY <1>1, <1>3, <1>4, SectionIs
<1>7. \A d \in data : d \in Setting
  BY <1>4 DEF Readings
<1>8. ASSUME NEW d \in data, d.section = X
      PROVE  d = Of(X, d.key, w[d.key])
  <2>1. d = [section |-> d.section, key |-> d.key, value |-> d.value]
    BY <1>7 DEF Setting
  <2>2. d.value = w[d.key]
    BY <1>6, <1>8
  <2> QED BY <1>8, <2>1, <2>2 DEF Of
<1>9. ASSUME NEW d
      PROVE  d \in Scan(g) <=> d \in data
  <2>1. d \in Scan(g) <=> \/ d \in data /\ (d.section # X \/ d.key \notin gone)
                          \/ \E k \in put : d = Of(X, k, new[k])
    <3>1. d \in Scan(g) <=> Edited(d, data, X, edit)
      BY <1>3 DEF HasEffect
    <3> QED BY <1>2, <3>1, ActsRead
  <2>2. ASSUME NEW k \in put, d = Of(X, k, new[k]) PROVE d \in data
    <3>1. k \in DOMAIN w /\ w[k] = new[k]
      BY <1>2
    <3>2. PICK e \in data : e.section = X /\ e.key = k
      BY <1>5, <3>1
    <3>3. e = Of(X, k, w[k])
      BY <1>8, <3>2
    <3> QED BY <2>2, <3>1, <3>2, <3>3
  <2>3. ASSUME d \in data, d.section = X, d.key \in gone PROVE \E k \in put : d = Of(X, k, new[k])
    <3>1. d.key \in put
      BY <1>2, <2>3
    <3>2. w[d.key] = new[d.key]
      BY <1>2, <3>1
    <3>3. d = Of(X, d.key, new[d.key])
      BY <1>8, <2>3, <3>2
    <3> QED BY <3>1, <3>3
  <2> QED BY <2>1, <2>2, <2>3
<1>10. Scan(g) \subseteq data /\ data \subseteq Scan(g)
  BY <1>9
<1> QED BY <1>3, <1>10

(* The autoload adapter, of a section that is as the request says.         *)
LEMMA AutoloadRepeats ==
  ASSUME NEW r, RequestType(r), r.section = "autoload", NEW v, View(v), NEW w, View(w),
         Shown("autoload", w) = Requested(r, Shown("autoload", v)),
         ~AutoloadEdit(r, w).refused, AddsOnce(r), ~SetsBothWays(r)
  PROVE  Repeats(AutoloadEdit(r, w), "autoload", w)
<1>1. Shown("autoload", w) = [k \in DOMAIN w |-> Quoted(w[k].star, Path(w[k]))]
  BY ShownIs
<1>2. PICK S : S = ((DOMAIN v) \ ToSet(r.remove)) \cup Added(r)
  OBVIOUS
<1>3. Shown("autoload", w) =
        [k \in S |->
           IF k \in Added(r) THEN Launch(r, k, AddedValue(r, k).text)
           ELSE Quoted((v[k].star \/ Flags(r, k, TRUE)) /\ ~Flags(r, k, FALSE), Path(v[k]))]
  BY <1>2, RequestedAutoload
<1>4. DOMAIN w = S
  BY <1>1, <1>3
<1>5. ToSet(r.remove) \subseteq DOMAIN w /\ Added(r) \cap DOMAIN w = {}
  BY AutoloadEditIs
<1>6. Added(r) = {} /\ ToSet(r.remove) = {}
  BY <1>2, <1>4, <1>5
<1>7. ASSUME NEW k \in DOMAIN w, Flags(r, k, ~w[k].star) PROVE FALSE
  <2>1. k \in S /\ k \notin Added(r) /\ k \in DOMAIN v
    BY <1>2, <1>4, <1>6
  <2>2. v[k].star \in BOOLEAN /\ w[k].star \in BOOLEAN /\ w[k] \in Values /\ v[k] \in Values
    BY <2>1 DEF View, Values
  <2>3. PICK b : b = ((v[k].star \/ Flags(r, k, TRUE)) /\ ~Flags(r, k, FALSE))
    OBVIOUS
  <2>4. b \in BOOLEAN /\ Path(w[k]) \in Texts /\ Path(v[k]) \in Texts
    BY <2>2, <2>3, PathIs
  <2>5. Quoted(w[k].star, Path(w[k])) = Quoted(b, Path(v[k]))
    BY <1>1, <1>3, <2>1, <2>3
  <2>6. w[k].star = b
    BY <2>2, <2>4, <2>5, QuotedRead
  <2>7. ~(Flags(r, k, TRUE) /\ Flags(r, k, FALSE))
    <3> SUFFICES ASSUME Flags(r, k, TRUE), Flags(r, k, FALSE) PROVE SetsBothWays(r)
      OBVIOUS
    <3>1. PICK i \in DOMAIN r.flags : r.flags[i] = [key |-> k, star |-> TRUE]
      BY DEF Flags
    <3>2. PICK j \in DOMAIN r.flags : r.flags[j] = [key |-> k, star |-> FALSE]
      BY DEF Flags
    <3>3. r.flags[i].key = k /\ r.flags[i].star = TRUE /\ r.flags[j].key = k /\ r.flags[j].star = FALSE
      BY <3>1, <3>2
    <3> QED BY <3>3 DEF SetsBothWays
  <2>8. CASE b = TRUE
    <3>1. Flags(r, k, FALSE)
      BY <1>7, <2>6, <2>8
    <3> QED BY <2>3, <2>8, <3>1
  <2>9. CASE b = FALSE
    <3>1. Flags(r, k, TRUE)
      BY <1>7, <2>6, <2>9
    <3> QED BY <2>3, <2>7, <2>9, <3>1
  <2> QED BY <2>4, <2>8, <2>9
<1>8. Turned(r, w) = {}
  BY <1>7 DEF Turned
<1>9. Acts(AutoloadEdit(r, w), "autoload", ToSet(r.remove) \cup Turned(r, w), Turned(r, w) \cup Added(r), AutoloadNew(r, w))
  BY AutoloadActs
<1>10. ToSet(r.remove) \cup Turned(r, w) = {} /\ Turned(r, w) \cup Added(r) = {}
  BY <1>6, <1>8
<1> QED BY <1>9, <1>10 DEF Repeats

(* What the other adapters find in a section that is as the request says.  *)
LEMMA FoundAgain ==
  ASSUME NEW r, RequestType(r), r.section # "autoload", NEW v, View(v), NEW w, View(w),
         NEW V, NEW W, W \subseteq DOMAIN w, V \subseteq DOMAIN v,
         Shown(r.section, v) = [k \in V |-> v[k]], Shown(r.section, w) = [k \in W |-> w[k]],
         Shown(r.section, w) = Requested(r, Shown(r.section, v))
  PROVE  /\ W = (V \ Gone(r, V)) \cup Added(r)
         /\ \A k \in Added(r) : k \in DOMAIN w /\ w[k] = Read(AddedValue(r, k))
         /\ ToSet(r.remove) \subseteq W => Gone(r, W) \subseteq Added(r)
<1>1. PICK old : old = Shown(r.section, v)
  OBVIOUS
<1>2. DOMAIN old = V /\ \A k \in V : old[k] \in Values
  BY <1>1 DEF View
<1>3. Requested(r, old) =
        [k \in ((DOMAIN old) \ Gone(r, DOMAIN old)) \cup Added(r) |->
           IF k \in Added(r) THEN Read(AddedValue(r, k)) ELSE old[k]]
  BY <1>2, RequestedFlat
<1>4. [k \in W |-> w[k]] =
        [k \in (V \ Gone(r, V)) \cup Added(r) |-> IF k \in Added(r) THEN Read(AddedValue(r, k)) ELSE old[k]]
  BY <1>1, <1>2, <1>3
<1>5. W = (V \ Gone(r, V)) \cup Added(r)
  BY <1>4
<1>6. ASSUME NEW k \in Added(r) PROVE k \in DOMAIN w /\ w[k] = Read(AddedValue(r, k))
  <2>1. k \in W
    BY <1>5
  <2>2. [j \in W |-> w[j]][k] = w[k]
    BY <2>1
  <2>3. [j \in (V \ Gone(r, V)) \cup Added(r) |-> IF j \in Added(r) THEN Read(AddedValue(r, j)) ELSE old[j]][k]
          = Read(AddedValue(r, k))
    OBVIOUS
  <2> QED BY <1>4, <2>1, <2>2, <2>3
<1>7. ToSet(r.remove) \subseteq W => Gone(r, W) \subseteq Added(r)
  <2>1. CASE r.clear
    <3>1. Gone(r, V) = V \cup ToSet(r.remove) /\ Gone(r, W) = W \cup ToSet(r.remove)
      BY <2>1 DEF Gone
    <3> QED BY <1>5, <3>1
  <2>2. CASE ~r.clear
    <3>1. Gone(r, V) = ToSet(r.remove) /\ Gone(r, W) = ToSet(r.remove)
      BY <2>2 DEF Gone
    <3> QED BY <1>5, <3>1
  <2> QED BY <2>1, <2>2
<1> QED BY <1>5, <1>6, <1>7

(* The input map adapter, of a section that is as the request says.        *)
LEMMA InputRepeats ==
  ASSUME NEW r, RequestType(r), r.section = "input", NEW v, View(v), NEW w, View(w),
         Shown(r.section, w) = Requested(r, Shown(r.section, v)),
         ~InputEdit(r, w).refused, AddsOnce(r)
  PROVE  Repeats(InputEdit(r, w), r.section, w)
<1>1. Shown(r.section, v) = [k \in DOMAIN v |-> v[k]] /\ Shown(r.section, w) = [k \in DOMAIN w |-> w[k]]
  BY ShownIs
<1>2. PICK V, W : V = DOMAIN v /\ W = DOMAIN w
  OBVIOUS
<1>3. Shown(r.section, v) = [k \in V |-> v[k]] /\ Shown(r.section, w) = [k \in W |-> w[k]]
  BY <1>1, <1>2
<1>4. r.section # "autoload" /\ W \subseteq DOMAIN w /\ V \subseteq DOMAIN v
  BY <1>2
<1>5. /\ \A k \in Added(r) : k \in DOMAIN w /\ w[k] = Read(AddedValue(r, k))
      /\ ToSet(r.remove) \subseteq W => Gone(r, W) \subseteq Added(r)
  BY <1>3, <1>4, FoundAgain
<1>6. ToSet(r.remove) \subseteq W
  BY <1>2, InputEditIs
<1>7. Acts(InputEdit(r, w), r.section, Gone(r, W), Added(r), AddedNew(r))
  BY <1>2, InputActs
<1>8. Gone(r, W) \subseteq Added(r)
  BY <1>5, <1>6
<1>9. \A k \in Added(r) : k \in DOMAIN w /\ w[k] = AddedNew(r)[k]
  BY <1>5 DEF AddedNew
<1> QED BY <1>7, <1>8, <1>9 DEF Repeats

(* The layer name and renderer adapters.                                   *)
LEMMA SetRemoveClearRepeats ==
  ASSUME NEW r, RequestType(r), r.section \in {"layer_names", "rendering"}, NEW v, View(v), NEW w, View(w),
         Shown(r.section, w) = Requested(r, Shown(r.section, v)),
         ~SetRemoveClear(r, w).refused, AddsOnce(r)
  PROVE  Repeats(SetRemoveClear(r, w), r.section, w)
<1>1. Shown(r.section, v) = [k \in Present(v) |-> v[k]] /\ Shown(r.section, w) = [k \in Present(w) |-> w[k]]
  BY ShownIs
<1>2. PICK V, W : V = Present(v) /\ W = Present(w)
  OBVIOUS
<1>3. Shown(r.section, v) = [k \in V |-> v[k]] /\ Shown(r.section, w) = [k \in W |-> w[k]]
  BY <1>1, <1>2
<1>4. r.section # "autoload" /\ W \subseteq DOMAIN w /\ V \subseteq DOMAIN v
  BY <1>2 DEF Present
<1>5. /\ \A k \in Added(r) : k \in DOMAIN w /\ w[k] = Read(AddedValue(r, k))
      /\ ToSet(r.remove) \subseteq W => Gone(r, W) \subseteq Added(r)
  BY <1>3, <1>4, FoundAgain
<1>6. PICK kept : kept = Present(w) \ Gone(r, Present(w))
  OBVIOUS
<1>7. ToSet(r.remove) \subseteq W
  BY <1>2, <1>6, SetRemoveClearEditIs
<1>8. Acts(SetRemoveClear(r, w), r.section, Gone(r, W) \cup (Added(r) \cap kept), Added(r), AddedNew(r))
  BY <1>2, <1>6, SetRemoveClearActs
<1>9. Gone(r, W) \cup (Added(r) \cap kept) \subseteq Added(r)
  BY <1>5, <1>7
<1>10. \A k \in Added(r) : k \in DOMAIN w /\ w[k] = AddedNew(r)[k]
  BY <1>5 DEF AddedNew
<1> QED BY <1>8, <1>9, <1>10 DEF Repeats

(* The application adapter.                                                *)
LEMMA ApplicationRepeats ==
  ASSUME NEW r, RequestType(r), r.section = Application, NEW v, View(v), NEW w, View(w),
         Shown(r.section, w) = Requested(r, Shown(r.section, v)),
         ~ApplicationEdit(r, w).refused, AddsOnce(r)
  PROVE  Repeats(ApplicationEdit(r, w), r.section, w)
<1>0. r.section # "autoload" /\ r.section # "input"
  BY DEF Application
<1>1. Shown(r.section, v) = [k \in DOMAIN v |-> v[k]] /\ Shown(r.section, w) = [k \in DOMAIN w |-> w[k]]
  BY ShownIs
<1>2. PICK V, W : V = DOMAIN v /\ W = DOMAIN w
  OBVIOUS
<1>3. Shown(r.section, v) = [k \in V |-> v[k]] /\ Shown(r.section, w) = [k \in W |-> w[k]]
  BY <1>1, <1>2
<1>4. W \subseteq DOMAIN w /\ V \subseteq DOMAIN v
  BY <1>2
<1>5. /\ \A k \in Added(r) : k \in DOMAIN w /\ w[k] = Read(AddedValue(r, k))
      /\ ToSet(r.remove) \subseteq W => Gone(r, W) \subseteq Added(r)
  BY <1>0, <1>3, <1>4, FoundAgain
<1>6. ToSet(r.remove) \subseteq W /\ ToSet(r.remove) \cap Added(r) = {}
  BY <1>2, ApplicationEditIs
<1>7. ToSet(r.remove) = {}
  BY <1>5, <1>6 DEF Gone
<1>8. Differs(r, w) = {}
  <2>1. \A k \in Added(r) : w[k] = AddedValue(r, k)
    BY <1>0, <1>5, AddedReads
  <2> QED BY <1>5, <2>1 DEF Differs
<1>9. Acts(ApplicationEdit(r, w), r.section, ToSet(r.remove) \cup (Differs(r, w) \cap DOMAIN w), Differs(r, w), AddedNew(r))
  BY ApplicationActs
<1>10. ToSet(r.remove) \cup (Differs(r, w) \cap DOMAIN w) = {}
  BY <1>7, <1>8
<1> QED BY <1>8, <1>9, <1>10 DEF Repeats

(* Whatever the adapter, the edit of a request carried out repeats it.     *)
LEMMA EditRepeats ==
  ASSUME NEW r, RequestType(r), NEW v, View(v), NEW w, View(w),
         Shown(r.section, w) = Requested(r, Shown(r.section, v)),
         ~EditFor(r, w).refused, AddsOnce(r), ~SetsBothWays(r)
  PROVE  Repeats(EditFor(r, w), r.section, w)
<1>1. CASE r.section = "autoload" /\ EditFor(r, w) = AutoloadEdit(r, w)
  BY <1>1, AutoloadRepeats
<1>2. CASE r.section = "input" /\ EditFor(r, w) = InputEdit(r, w)
  BY <1>2, InputRepeats
<1>3. CASE r.section \in {"layer_names", "rendering"} /\ EditFor(r, w) = SetRemoveClear(r, w)
  BY <1>3, SetRemoveClearRepeats
<1>4. CASE r.section = Application /\ EditFor(r, w) = ApplicationEdit(r, w)
  BY <1>4, ApplicationRepeats
<1> QED BY <1>1, <1>2, <1>3, <1>4, EditForIs

(* The same request over what was planned is refused or changes nothing    *)
(* that is read.                                                           *)
LEMMA MadeTwice ==
  ASSUME NEW from, NEW to, NEW r, RequestType(r), NEW v, View(v), Made(from, to, r, v), Sane(from, r),
         ~AddsUnreadable(r), ~SetsBothWays(r), v = SectionOf(Scan(from), r.section),
         NEW w, w = SectionOf(Scan(to), r.section), NEW again, Made(to, again, r, w)
  PROVE  Scan(again) = Scan(to)
<1>1. to \in Seq(Line) /\ Sane(to, r)
  <2>1. IsText(to) /\ Ended(to) /\ Balanced(to) /\ ParsersAgree(to)
    BY MadeReads
  <2> QED BY <2>1 DEF Sane, IsText
<1>2. View(w)
  BY <1>1, ScanIsTyped, SectionIs
<1>3. Meaning(to, r.section) = Requested(r, Meaning(from, r.section))
  BY MadeMeans
<1>4. Shown(r.section, w) = Requested(r, Shown(r.section, v))
  BY <1>3 DEF Meaning
<1>5. AddsOnce(r)
  <2>1. ~EditFor(r, v).refused /\ ~InsertsTwice(EditFor(r, v))
    BY DEF Made, EditorRefuses
  <2> QED BY <2>1, EditAddsOnce
<1>6. ~EditFor(r, w).refused
  BY DEF Made
<1>7. Repeats(EditFor(r, w), r.section, w)
  BY <1>2, <1>4, <1>5, <1>6, EditRepeats
<1>8. HasEffect(again, to, r.section, EditFor(r, w))
  BY <1>1, <1>2, MadeReads
<1>9. again \in Seq(Line)
  <2>1. IsText(again)
    BY <1>2, MadeIsText
  <2> QED BY <2>1 DEF IsText
<1> QED BY <1>1, <1>7, <1>8, <1>9, RepeatedReads

(* A retry is harmless: the same request over the planned file is refused, *)
(* asks for nothing or changes no meaning, of any file and any request.    *)
THEOREM RepeatHarmless == Spec => []RepeatIsIdempotent
<1>1. IInv => RepeatIsIdempotent
  <2> SUFFICES ASSUME IInv, Planned, ~AddsUnreadable(request), ~SetsBothWays(request),
                      NEW w, w = SectionOf(Scan(plan.to), request.section),
                      NEW edit, edit = EditFor(request, w),
                      ~edit.refused, ~EditorRefuses(plan.to, request.section, edit)
               PROVE  Scan(ApplySectionEdits(plan.to, request.section, edit)) = Scan(plan.to)
    BY DEF RepeatIsIdempotent
  <2>1. RequestType(request) /\ View(seen)
    BY RequestsAre DEF IInv, TypeOK
  <2>2. Made(plan.from, plan.to, request, seen)
    BY DEF IInv, PlanIsMade, Planned
  <2>3. seen = SectionOf(Scan(plan.from), request.section)
    BY DEF IInv, SeenIsThere, Planned
  <2>4. Sane(plan.from, request)
    BY DEF Planned, Sound, Sane
  <2>5. PICK again : again = ApplySectionEdits(plan.to, request.section, edit)
    OBVIOUS
  <2>6. IsText(plan.to)
    BY <2>1, <2>2, MadeIsText
  <2>7. Made(plan.to, again, request, w)
    BY <2>5, <2>6 DEF Made
  <2>8. ~AddsUnreadable(request) /\ ~SetsBothWays(request)
    OBVIOUS
  <2>9. Scan(again) = Scan(plan.to)
    BY <2>1, <2>2, <2>3, <2>4, <2>7, <2>8, MadeTwice
  <2> QED BY <2>5, <2>9
<1> QED BY <1>1, Inductive, PTL

-----------------------------------------------------------------------------
(* The name of the project is still read, whatever is inserted.            *)

\* The scanner goes on from two places alike, but for what it has read.
Level(s, t) == s.section = t.section /\ s.depth = t.depth

(* It goes on so over a line, and a header brings it to one place from     *)
(* wherever it is.                                                         *)
LEMMA StaysLevel ==
  ASSUME NEW s \in Scanner, NEW t \in Scanner, NEW line \in Line, Level(s, t) \/ line.kind = "header"
  PROVE  Level(ScanLine(s, line), ScanLine(t, line))
<1>1. PICK u, v : u = ScanLine(s, line) /\ v = ScanLine(t, line)
  OBVIOUS
<1>2. line.kind \in LineKind
  BY LineFields
<1>3. CASE line.kind = "header"
  <2>1. u.section = line.section /\ u.depth = 0
    BY <1>1, <1>3, ScannerMoves
  <2>2. v.section = line.section /\ v.depth = 0
    BY <1>1, <1>3, ScannerMoves
  <2> QED BY <1>1, <2>1, <2>2 DEF Level
<1>4. CASE Skipped(line) /\ line.kind # "header"
  <2>1. u = s /\ v = t
    BY <1>1, <1>4, ScannerMoves
  <2> QED BY <1>1, <1>4, <2>1
<1>5. CASE s.depth = 0 /\ Assigns(line) /\ line.kind # "header"
  <2>1. t.depth = 0
    BY <1>5 DEF Level
  <2>2. u.section = s.section /\ u.depth = Delta(line)
    BY <1>1, <1>5, ScannerMoves
  <2>3. v.section = t.section /\ v.depth = Delta(line)
    BY <1>1, <1>5, <2>1, ScannerMoves
  <2> QED BY <1>1, <1>5, <2>2, <2>3 DEF Level
<1>6. CASE s.depth # 0 /\ ~Skipped(line) /\ line.kind # "header"
  <2>1. t.depth # 0
    BY <1>6 DEF Level
  <2>2. u.section = s.section /\ u.depth = s.depth + Delta(line)
    BY <1>1, <1>6, ScannerMoves
  <2>3. v.section = t.section /\ v.depth = t.depth + Delta(line)
    BY <1>1, <1>6, <2>1, ScannerMoves
  <2> QED BY <1>1, <1>6, <2>2, <2>3 DEF Level
<1>7. CASE s.depth = 0 /\ line.kind \in {"string", "close"}
  <2>1. t.depth = 0
    BY <1>7 DEF Level
  <2>2. u = s /\ v = t
    BY <1>1, <1>7, <2>1, ScannerMoves
  <2> QED BY <1>1, <1>7, <2>2
<1> QED BY <1>2, <1>3, <1>4, <1>5, <1>6, <1>7 DEF LineKind, Skipped, Assigns

(* So it does over the same lines.                                         *)
LEMMA RunsLevel ==
  ASSUME NEW f \in Seq(Line), NEW g \in Seq(Line), NEW a \in Nat, NEW b \in Nat, NEW m \in Nat,
         a + m <= Len(f), b + m <= Len(g), \A i \in 1..m : f[a + i] = g[b + i],
         Level(Scanned(f)[a], Scanned(g)[b])
  PROVE  \A i \in 0..m : Level(Scanned(f)[a + i], Scanned(g)[b + i])
<1> DEFINE D == {i \in 0..m : Level(Scanned(f)[a + i], Scanned(g)[b + i])}
<1>0. Len(f) \in Nat /\ Len(g) \in Nat
  OBVIOUS
<1>1. 0 \in D
  <2>1. a + 0 = a /\ b + 0 = b
    OBVIOUS
  <2> QED BY <2>1
<1>2. ASSUME NEW i \in 0..m, i < m, i \in D PROVE i + 1 \in D
  <2>1. PICK x, y : x = a + i /\ y = b + i
    OBVIOUS
  <2>2. /\ i + 1 \in 1..m /\ i + 1 \in 0..m /\ a + (i + 1) = x + 1 /\ b + (i + 1) = y + 1
        /\ x \in 0..Len(f) /\ x < Len(f) /\ y \in 0..Len(g) /\ y < Len(g)
    BY <1>0, <1>2, <2>1
  <2>3. Scanned(f)[x] \in Scanner /\ f[x + 1] \in Line
        /\ Scanned(f)[x + 1] = ScanLine(Scanned(f)[x], f[x + 1])
    BY <2>2, BothAt
  <2>4. Scanned(g)[y] \in Scanner /\ Scanned(g)[y + 1] = ScanLine(Scanned(g)[y], g[y + 1])
    BY <2>2, BothAt
  <2>5. f[x + 1] = g[y + 1]
    <3>1. f[a + (i + 1)] = g[b + (i + 1)]
      BY <2>2
    <3> QED BY <2>2, <3>1
  <2>6. Level(Scanned(f)[x], Scanned(g)[y])
    BY <1>2, <2>1
  <2>7. Level(Scanned(f)[x + 1], Scanned(g)[y + 1])
    BY <2>3, <2>4, <2>5, <2>6, StaysLevel
  <2> QED BY <2>2, <2>7
<1> HIDE DEF D
<1>3. \A i \in 0..m : i \in D
  BY <1>1, <1>2, UpTo
<1> QED BY <1>3 DEF D

(* Between two sections there is a header.                                 *)
LEMMA HeaderBetween ==
  ASSUME NEW f \in Seq(Line), NEW a \in Nat, NEW c \in Nat, a <= c, c <= Len(f),
         Scanned(f)[a].section # Scanned(f)[c].section
  PROVE  \E n \in (a + 1)..c : f[n].kind = "header"
<1> SUFFICES ASSUME \A n \in (a + 1)..c : f[n].kind # "header" PROVE FALSE
  OBVIOUS
<1>0. Len(f) \in Nat
  OBVIOUS
<1>1. PICK m : m = c - a
  OBVIOUS
<1>2. m \in Nat /\ a + m = c
  BY <1>1
<1> DEFINE D == {i \in 0..m : Scanned(f)[a + i].section = Scanned(f)[a].section}
<1>3. 0 \in D
  <2>1. a + 0 = a
    OBVIOUS
  <2> QED BY <1>2, <2>1
<1>4. ASSUME NEW i \in 0..m, i < m, i \in D PROVE i + 1 \in D
  <2>1. PICK x : x = a + i
    OBVIOUS
  <2>2. x \in 0..Len(f) /\ x < Len(f) /\ a + (i + 1) = x + 1 /\ x + 1 \in (a + 1)..c /\ i + 1 \in 0..m
    BY <1>0, <1>2, <1>4, <2>1
  <2>3. PICK s, t, line : s = Scanned(f)[x] /\ t = Scanned(f)[x + 1] /\ line = f[x + 1]
    OBVIOUS
  <2>4. s \in Scanner /\ line \in Line /\ t = ScanLine(s, line)
    BY <2>2, <2>3, BothAt
  <2>5. line.kind # "header"
    BY <2>2, <2>3
  <2>6. t.section = s.section
    BY <2>4, <2>5, ReadingOf
  <2>7. s.section = Scanned(f)[a].section
    BY <1>4, <2>1, <2>3
  <2> QED BY <2>2, <2>3, <2>6, <2>7
<1> HIDE DEF D
<1>5. \A i \in 0..m : i \in D
  BY <1>2, <1>3, <1>4, UpTo
<1>6. m \in 0..m
  BY <1>2
<1>7. m \in D
  BY <1>5, <1>6
<1> QED BY <1>2, <1>7 DEF D

(* The keys of other sections are still read, whatever lines are put into  *)
(* one: up to there the scanner has read them, and after them a header     *)
(* brings it back.                                                         *)
LEMMA KeysPastInsertion ==
  ASSUME NEW s \in Seq(Line), NEW at \in 0..Len(s), NEW W \in Seq(Line), NEW g, g = InsertLines(s, at, W),
         NEW Y, Scanned(s)[at].section # Y, NEW k, Knows(Scan(s), Y, k)
  PROVE  Knows(Scan(g), Y, k)
<1>0. Len(s) \in Nat /\ Len(W) \in Nat /\ at \in Nat /\ at <= Len(s)
  OBVIOUS
<1>1. g \in Seq(Line) /\ Swap(g, s, at, at, W)
  BY InsertIs
<1>2. /\ Len(g) = at + Len(W) + (Len(s) - at)
      /\ \A i \in 1..at : g[i] = s[i]
      /\ \A i \in 1..(Len(s) - at) : g[at + Len(W) + i] = s[at + i]
  BY <1>1 DEF Swap
<1>3. Len(g) \in Nat /\ Len(g) = Len(s) + Len(W)
  BY <1>0, <1>1, <1>2
<1>4. PICK m \in 1..Len(s) : Reads(s, m, Y, k)
  <2>1. Len(s) \in 0..Len(s)
    BY <1>0
  <2>2. Knows(Scanned(s)[Len(s)].data, Y, k)
    BY DEF Scan
  <2> QED BY <2>1, <2>2, KeysScanned
<1>5. PICK n : n = m - 1
  OBVIOUS
<1>6. n \in 0..Len(s) /\ n < Len(s) /\ n + 1 = m
  BY <1>0, <1>5
<1>7. Scanned(s)[n].depth = 0 /\ Scanned(s)[n].section = Y /\ Assigns(s[m]) /\ s[m].key = k
  BY <1>4, <1>5 DEF Reads
<1>8. \E l \in 1..Len(g) : Reads(g, l, Y, k)
  <2>1. CASE m <= at
    <3>1. Level(Scanned(s)[0], Scanned(g)[0])
      <4>1. 0 \in 0..Len(s) /\ 0 \in 0..Len(g)
        BY <1>0, <1>3
      <4>2. Scanned(s)[0] = Outset /\ Scanned(g)[0] = Outset
        BY <1>1, <4>1, BothAt
      <4> QED BY <4>2 DEF Level
    <3>2. 0 + at <= Len(s) /\ 0 + at <= Len(g) /\ \A i \in 1..at : s[0 + i] = g[0 + i]
      BY <1>0, <1>2, <1>3
    <3>3. \A i \in 0..at : Level(Scanned(s)[0 + i], Scanned(g)[0 + i])
      BY <1>0, <1>1, <3>1, <3>2, RunsLevel
    <3>4. n \in 0..at /\ 0 + n = n
      BY <1>0, <1>6, <2>1
    <3>5. Level(Scanned(s)[n], Scanned(g)[n])
      BY <3>3, <3>4
    <3>6. m \in 1..at /\ m \in 1..Len(g)
      BY <1>0, <1>3, <2>1
    <3>7. g[m] = s[m]
      BY <1>2, <3>6
    <3>8. Reads(g, m, Y, k)
      BY <1>5, <1>7, <3>5, <3>7 DEF Reads, Level
    <3> QED BY <3>6, <3>8
  <2>2. CASE m > at
    <3>1. at <= n /\ n \in Nat /\ n <= Len(s)
      BY <1>0, <1>6, <2>2
    <3>2. PICK h \in (at + 1)..n : s[h].kind = "header"
      BY <1>0, <1>7, <3>1, HeaderBetween
    <3>3. PICK j : j = h - 1
      OBVIOUS
    <3>4. j \in 0..Len(s) /\ j < Len(s) /\ j + 1 = h /\ h \in Nat /\ h <= n /\ at <= j
      BY <1>0, <3>1, <3>2, <3>3
    <3>5. PICK e : e = Len(W)
      OBVIOUS
    <3>6. e \in Nat
      BY <1>0, <3>5
    <3>7. \A i \in 1..(Len(s) - at) : g[at + e + i] = s[at + i]
      BY <1>2, <3>5
    <3>8. \A p \in (at + 1)..Len(s) : g[e + p] = s[p]
      <4>1. ASSUME NEW p \in (at + 1)..Len(s) PROVE g[e + p] = s[p]
        <5>1. PICK i : i = p - at
          OBVIOUS
        <5>2. i \in 1..(Len(s) - at) /\ at + e + i = e + p /\ at + i = p
          BY <1>0, <3>6, <5>1
        <5>3. g[at + e + i] = s[at + i]
          BY <3>7, <5>2
        <5> QED BY <5>2, <5>3
      <4> QED BY <4>1
    <3>9. g[e + h] = s[h]
      <4>1. h \in (at + 1)..Len(s)
        BY <1>0, <3>1, <3>4
      <4> QED BY <3>8, <4>1
    <3>10. Level(Scanned(s)[h], Scanned(g)[e + h])
      <4>1. Scanned(s)[j] \in Scanner /\ s[j + 1] \in Line
            /\ Scanned(s)[j + 1] = ScanLine(Scanned(s)[j], s[j + 1])
        BY <3>4, BothAt
      <4>2. PICK x : x = e + j
        OBVIOUS
      <4>3. x \in 0..Len(g) /\ x < Len(g) /\ x + 1 = e + h
        <5>1. PICK a, b : a = Len(s) /\ b = Len(g)
          OBVIOUS
        <5>2. a \in Nat /\ b \in Nat /\ b = a + e
          BY <1>0, <1>3, <3>5, <5>1
        <5>3. j \in Nat /\ j < a /\ j + 1 = h
          BY <3>4, <5>1, <5>2
        <5>4. x \in 0..b /\ x < b /\ x + 1 = e + h
          BY ONLY <3>6, <4>2, <5>2, <5>3
        <5> QED BY <5>1, <5>4
      <4>4. Scanned(g)[x] \in Scanner /\ Scanned(g)[x + 1] = ScanLine(Scanned(g)[x], g[x + 1])
        BY <1>1, <4>3, BothAt
      <4>5. s[j + 1] = g[x + 1] /\ s[j + 1].kind = "header"
        BY <3>2, <3>4, <3>9, <4>3
      <4>6. Level(ScanLine(Scanned(s)[j], s[j + 1]), ScanLine(Scanned(g)[x], s[j + 1]))
        BY <4>1, <4>4, <4>5, StaysLevel
      <4> QED BY <3>4, <4>1, <4>3, <4>4, <4>5, <4>6
    <3>11. PICK q : q = n - h
      OBVIOUS
    <3>12. PICK b : b = e + h
      OBVIOUS
    <3>13. /\ q \in Nat /\ h + q = n /\ b \in Nat /\ b + q = e + n
           /\ h + q <= Len(s) /\ b + q <= Len(g)
      BY <1>0, <1>3, <3>1, <3>4, <3>5, <3>6, <3>11, <3>12
    <3>14. \A i \in 1..q : s[h + i] = g[b + i]
      <4>1. ASSUME NEW i \in 1..q PROVE s[h + i] = g[b + i]
        <5>1. PICK p : p = h + i
          OBVIOUS
        <5>2. p \in (at + 1)..Len(s) /\ e + p = b + i
          BY <1>0, <3>4, <3>6, <3>11, <3>12, <3>13, <5>1
        <5>3. g[e + p] = s[p]
          BY <3>8, <5>2
        <5> QED BY <5>1, <5>2, <5>3
      <4> QED BY <4>1
    <3>15. \A i \in 0..q : Level(Scanned(s)[h + i], Scanned(g)[b + i])
      <4>1. Level(Scanned(s)[h], Scanned(g)[b])
        BY <3>10, <3>12
      <4> QED BY <1>1, <3>4, <3>13, <3>14, <4>1, RunsLevel
    <3>16. Level(Scanned(s)[n], Scanned(g)[e + n])
      <4>1. q \in 0..q
        BY <3>13
      <4>2. Level(Scanned(s)[h + q], Scanned(g)[b + q])
        BY <3>15, <4>1
      <4> QED BY <3>13, <4>2
    <3>17. PICK l : l = e + m
      OBVIOUS
    <3>18. l \in 1..Len(g) /\ l - 1 = e + n /\ m \in (at + 1)..Len(s)
      BY <1>0, <1>3, <1>6, <2>2, <3>5, <3>6, <3>17
    <3>19. g[l] = s[m]
      BY <3>8, <3>17, <3>18
    <3>20. Reads(g, l, Y, k)
      BY <1>7, <3>16, <3>18, <3>19 DEF Reads, Level
    <3> QED BY <3>18, <3>20
  <2> QED BY <1>0, <2>1, <2>2
<1>9. Len(g) \in 0..Len(g)
  BY <1>3
<1> QED BY <1>1, <1>8, <1>9, KeysScanned DEF Scan

(* The keys of the lines a file begins with are still read.                *)
LEMMA KeysPastPrefix ==
  ASSUME NEW f \in Seq(Line), NEW g \in Seq(Line), IsPrefix(f, g), NEW Y, NEW k, Knows(Scan(f), Y, k)
  PROVE  Knows(Scan(g), Y, k)
<1>0. Len(f) \in Nat /\ Len(g) \in Nat
  OBVIOUS
<1>1. Len(f) <= Len(g) /\ SubSeq(f, 1, Len(f)) = SubSeq(g, 1, Len(f))
  BY DEF IsPrefix
<1>2. \A i \in 1..Len(f) : g[i] = f[i]
  <2>1. Len(f) \in 0..Len(f) /\ Len(f) \in 0..Len(g)
    BY <1>0, <1>1
  <2>2. \A i \in 1..Len(f) : SubSeq(f, 1, Len(f))[i] = f[i]
    BY <2>1, FirstOnes
  <2>3. \A i \in 1..Len(f) : SubSeq(g, 1, Len(f))[i] = g[i]
    BY <2>1, FirstOnes
  <2> QED BY <1>1, <2>2, <2>3
<1>3. Len(f) \in 0..Len(f) /\ Len(f) \in 0..Len(g) /\ Len(g) \in 0..Len(g)
  BY <1>0, <1>1
<1>4. Scanned(g)[Len(f)].data = Scan(f)
  BY <1>1, <1>2, <1>3, PrefixRuns DEF Scan
<1>5. PICK m \in 1..Len(f) : Reads(g, m, Y, k)
  BY <1>3, <1>4, KeysScanned
<1>6. m \in 1..Len(g)
  BY <1>0, <1>1
<1> QED BY <1>3, <1>5, <1>6, KeysScanned DEF Scan

\* What is left of an edit without its insertions.
Bare(edit) == Edit(<<>>, edit.remove, <<>>)

(* It is an edit the editor carries out as it does the whole.              *)
LEMMA BareIs ==
  ASSUME NEW edit, NEW K, Sensible(edit, K), edit.replace = <<>>
  PROVE  /\ Sensible(Bare(edit), K) /\ Fitting(Bare(edit)) /\ PlainReplace(Bare(edit))
         /\ ReplaceKeys(Bare(edit)) = {} /\ RemoveKeys(Bare(edit)) = RemoveKeys(edit)
         /\ Distinct(edit) => Distinct(Bare(edit))
         /\ \A f, X : Slices(f, X, Bare(edit)) = Slices(f, X, edit) /\ LastKept(f, X, Bare(edit)) = LastKept(f, X, edit)
<1>1. PICK b : b = Bare(edit)
  OBVIOUS
<1>2. b.replace = <<>> /\ b.remove = edit.remove /\ b.insert = <<>>
  BY <1>1, EditFields DEF Bare
<1>3. DOMAIN b.replace = {} /\ DOMAIN b.insert = {} /\ <<>> \in Seq(Insertions)
  BY <1>2, NoReplace
<1>4. ReplaceKeys(b) = {} /\ ReplaceKeys(edit) = {} /\ RemoveKeys(b) = RemoveKeys(edit)
  BY <1>2, <1>3, NoReplace DEF ReplaceKeys, RemoveKeys
<1>5. InsertKeys(b) = {}
  BY <1>3 DEF InsertKeys
<1>6. IsFiniteSet(DOMAIN b.replace)
  BY <1>3, FS_EmptySet
<1>7. Sensible(b, K)
  <2>1. b.remove \in Seq(Nat) /\ RemoveKeys(b) \subseteq K
    BY <1>2, <1>4 DEF Sensible
  <2>2. b.insert \in Seq(Insertions)
    BY <1>2, <1>3
  <2> QED BY <1>3, <1>4, <1>5, <1>6, <2>1, <2>2 DEF Sensible
<1>8. Fitting(b) /\ PlainReplace(b)
  BY <1>3 DEF Fitting, PlainReplace
<1>9. Distinct(edit) => Distinct(b)
  BY <1>2, <1>4 DEF Distinct
<1>10. ASSUME NEW f, NEW X
       PROVE  Slices(f, X, b) = Slices(f, X, edit) /\ LastKept(f, X, b) = LastKept(f, X, edit)
  <2>1. Slices(f, X, b) = Slices(f, X, edit)
    BY <1>2, <1>4 DEF Slices
  <2>2. LastKept(f, X, b) = LastKept(f, X, edit)
    BY <1>4 DEF LastKept
  <2> QED BY <2>1, <2>2
<1> QED BY <1>1, <1>4, <1>7, <1>8, <1>9, <1>10

(* Whatever is inserted into a section, the keys of the others are read as *)
(* before.                                                                 *)
LEMMA KeysPastEdit ==
  ASSUME NEW f, Whole(f), IsText(f), InStep(f), NEW X \in Texts, NEW edit, NEW K, Sensible(edit, K), Distinct(edit),
         edit.replace = <<>>, ~EditorRefuses(f, X, edit), NEW g, g = ApplySectionEdits(f, X, edit),
         NEW Y, Y # X, NEW k, Knows(Scan(f), Y, k)
  PROVE  Knows(Scan(g), Y, k)
<1>0. f \in Seq(Line)
  BY DEF Whole
<1>1. CASE Targets(f, X) = {} /\ edit.insert = <<>>
  BY <1>1 DEF ApplySectionEdits
<1>2. CASE Targets(f, X) = {} /\ edit.insert # <<>>
  <2>1. g = AppendSection(f, X, edit)
    BY <1>2 DEF ApplySectionEdits
  <2>2. Whole(g) /\ IsPrefix(End(f), g)
    BY <2>1, AppendIs
  <2>3. End(f) = f
    BY EndOfWhole
  <2> QED BY <1>0, <2>2, <2>3, KeysPastPrefix DEF Whole
<1>3. CASE Targets(f, X) # {}
  <2>1. PICK b : b = Bare(edit)
    OBVIOUS
  <2>2. Sensible(b, K) /\ Fitting(b) /\ PlainReplace(b) /\ Distinct(b)
        /\ ReplaceKeys(b) = {} /\ RemoveKeys(b) = RemoveKeys(edit)
    BY <2>1, BareIs
  <2>3. Slices(f, X, b) = Slices(f, X, edit) /\ LastKept(f, X, b) = LastKept(f, X, edit)
    BY <2>1, BareIs
  <2>4. ~Unterminated(f, X) /\ RemoveKeys(edit) \cup ReplaceKeys(edit) \subseteq KeysOf(f, X)
    BY <1>3, AcceptedIs
  <2>5. RemoveKeys(b) \cup ReplaceKeys(b) \subseteq KeysOf(f, X)
    BY <2>2, <2>4
  <2>6. Single(f, X)
    <3>1. \A m, n \in Entries(f, X) : f[m].key = f[n].key => m = n
      BY <1>3, AcceptedIs
    <3> QED BY <3>1 DEF Single
  <2>7. PICK R : R = FromBelow(Slices(f, X, b))
    OBVIOUS
  <2>8. Cuts(R, f, X, b)
    BY <1>0, <2>2, <2>4, <2>5, <2>7, CutsAre
  <2>9. PICK s : s = Spliced(f, R)[Len(R)]
    OBVIOUS
  <2>10. InStep(s)
    BY <2>2, <2>6, <2>8, <2>9, AllCutsRead
  <2>11. \A d : d \in Scan(s) <=> ReadAfter(d, f, X, b, R, Len(R))
    BY <2>2, <2>6, <2>8, <2>9, AllCutsRead
  <2>12. Knows(Scan(s), Y, k)
    <3>1. PICK d \in Scan(f) : d.section = Y /\ d.key = k
      BY DEF Knows
    <3>2. ReadAfter(d, f, X, b, R, Len(R))
      BY <3>1 DEF ReadAfter
    <3> QED BY <2>11, <3>1, <3>2 DEF Knows
  <2>13. PICK last : last = LastKept(f, X, b)
    OBVIOUS
  <2>14. Stands(f, last, X)
    BY <1>0, <1>3, <2>4, <2>13, LastKeptIs
  <2>15. PICK q : q = last + Shift(R, last)
    OBVIOUS
  <2>16. Stands(s, q, X)
    BY <1>0, <2>2, <2>8, <2>9, <2>14, <2>15, PositionIs
  <2>17. Whole(s)
    BY <2>2, <2>8, <2>9, CutsAreWhole
  <2>18. q \in 0..Len(s) /\ Len(s) \in Nat /\ s \in Seq(Line)
    BY <2>16, <2>17 DEF Stands, Whole
  <2>19. Position(q, Len(s)) = q
    <3>1. q \in Int
      BY <2>18
    <3> QED BY <2>18, <3>1, PositionInside
  <2>20. PICK W : W = EmitSorted(edit.insert)
    OBVIOUS
  <2>21. g = Joined(IF edit.insert = <<>> THEN s ELSE InsertLines(s, q, W))
    <3>1. g = EditSection(f, X, edit)
      BY <1>3 DEF ApplySectionEdits
    <3>2. R = FromBelow(Slices(f, X, edit)) /\ last = LastKept(f, X, edit)
      BY <2>3, <2>7, <2>13
    <3> QED BY <2>9, <2>15, <2>19, <2>20, <3>1, <3>2 DEF EditSection
  <2>22. CASE edit.insert = <<>>
    <3>1. g = s
      BY <2>17, <2>21, <2>22, JoinedOfWhole
    <3> QED BY <2>12, <3>1
  <2>23. CASE edit.insert # <<>>
    <3>1. Whole(W)
      BY <2>20, EmitSortedIsWhole
    <3>2. W \in Seq(Line)
      BY <3>1 DEF Whole
    <3>3. InsertLines(s, q, W) \in Seq(Line) /\ Swap(InsertLines(s, q, W), s, q, q, W)
      BY <2>18, <3>2, InsertIs
    <3>4. q \in Nat /\ q <= q /\ q <= Len(s)
      BY <2>18
    <3>5. Whole(InsertLines(s, q, W))
      BY <2>17, <3>1, <3>3, <3>4, WholeSwap
    <3>6. g = InsertLines(s, q, W)
      BY <2>21, <2>23, <3>5, JoinedOfWhole
    <3>7. Together(Scanned(s)[q], Index(s)[q])
      BY <2>10, <2>18, AgreeIs
    <3>8. Scanned(s)[q].section # Y
      BY <2>16, <3>7 DEF Together, Stands
    <3> QED BY <2>12, <2>18, <3>2, <3>6, <3>8, KeysPastInsertion
  <2> QED BY <2>22, <2>23
<1> QED BY <1>1, <1>2, <1>3

(* What is in a section has been read there.                               *)
LEMMA KnownIs ==
  ASSUME NEW f \in Seq(Line), NEW X, NEW k
  PROVE  k \in DOMAIN SectionOf(Scan(f), X) <=> Knows(Scan(f), X, k)
  BY ScanIsTyped, SectionIs DEF Knows

(* No plan takes the project's name away.                                  *)
LEMMA MadeKeepsName ==
  ASSUME NEW from, NEW to, NEW r, RequestType(r), NEW v, View(v), Made(from, to, r, v), Sane(from, r),
         Knows(Scan(from), Application, NameKey)
  PROVE  Knows(Scan(to), Application, NameKey)
<1>1. PICK edit : edit = EditFor(r, v)
  OBVIOUS
<1>2. PICK X : X = r.section
  OBVIOUS
<1>3. /\ IsText(from) /\ ~edit.refused /\ ~EditorRefuses(from, X, edit)
      /\ to = ApplySectionEdits(from, X, edit)
  BY <1>1, <1>2 DEF Made
<1>4. CASE AddsUnreadable(r)
  <2>1. X = "input"
    BY <1>2, <1>4, FlatAdds
  <2>2. edit = InputEdit(r, v)
    BY <1>1, <1>2, <2>1, EditForIs DEF Application
  <2>3. edit.replace = <<>>
    BY <1>3, <2>2, InputEditIs
  <2>4. PICK K : K = AskedOf(r, v)
    OBVIOUS
  <2>5. Sensible(edit, K) /\ Distinct(edit)
    BY <1>1, <1>3, <2>4, EditIsProper DEF Proper, Sane
  <2>6. Whole(from) /\ from \in Seq(Line)
    BY <1>3, WholeOfText DEF Sane, IsText
  <2>7. InStep(from)
    BY <2>6, AgreeIs DEF Sane
  <2>8. X \in Texts /\ Application # X
    BY <1>2, <2>1, RequestParts DEF Application
  <2> QED BY <1>3, <2>3, <2>5, <2>6, <2>7, <2>8, KeysPastEdit
<1>5. CASE ~AddsUnreadable(r)
  <2>1. HasEffect(to, from, X, edit)
    BY <1>1, <1>2, <1>5, MadeReads
  <2>2. PICK d \in Scan(from) : d.section = Application /\ d.key = NameKey
    BY DEF Knows
  <2>3. CASE X # Application
    <3>1. Edited(d, Scan(from), X, edit)
      BY <2>2, <2>3 DEF Edited, CutOut
    <3> QED BY <2>1, <2>2, <3>1 DEF HasEffect, Knows
  <2>4. CASE X = Application
    <3>1. edit = ApplicationEdit(r, v)
      BY <1>1, <1>2, <2>4, EditForIs DEF Application
    <3>2. r.section \notin {"autoload", "input"}
      BY <1>2, <2>4 DEF Application
    <3>3. AddsOnce(r)
      BY <3>2 DEF RequestType, AddsOnce
    <3>4. PICK gone : gone = ToSet(r.remove) \cup (Differs(r, v) \cap DOMAIN v)
      OBVIOUS
    <3>5. Acts(edit, X, gone, Differs(r, v), AddedNew(r))
      BY <1>3, <3>1, <3>3, <3>4, ApplicationActs
    <3>6. NameKey \notin ToSet(r.remove)
      BY <1>3, <3>1, ApplicationEditIs
    <3>7. CASE NameKey \notin gone
      <4>1. Edited(d, Scan(from), X, edit)
        BY <2>2, <3>5, <3>7, ActsRead
      <4> QED BY <2>1, <2>2, <4>1 DEF HasEffect, Knows
    <3>8. CASE NameKey \in gone
      <4>1. NameKey \in Differs(r, v)
        BY <3>4, <3>6, <3>8
      <4>2. PICK e : e = Of(X, NameKey, AddedNew(r)[NameKey])
        OBVIOUS
      <4>3. e.section = X /\ e.key = NameKey
        BY <4>2 DEF Of
      <4>4. Edited(e, Scan(from), X, edit)
        BY <3>5, <4>1, <4>2, ActsRead
      <4> QED BY <2>1, <2>4, <4>3, <4>4 DEF HasEffect, Knows
    <3> QED BY <3>7, <3>8
  <2> QED BY <2>3, <2>4
<1> QED BY <1>4, <1>5

(* No command leaves a file that is no text, that the next command reads   *)
(* otherwise than the editor, or that has lost its name: whatever the      *)
(* literals it adds, and whatever the editor saves between its reads.      *)
THEOREM FileStaysReadable == Spec => []StaysReadable
<1>1. IInv => NameSurvives
  <2> SUFFICES ASSUME IInv, plan # NoPlan, Sound,
                      NameKey \in DOMAIN SectionOf(Scan(plan.from), Application)
               PROVE  NameKey \in DOMAIN SectionOf(Scan(plan.to), Application)
    BY DEF NameSurvives
  <2>1. RequestType(request) /\ View(seen)
    BY RequestsAre DEF IInv, TypeOK
  <2>2. Made(plan.from, plan.to, request, seen)
    BY DEF IInv, PlanIsMade
  <2>3. Sane(plan.from, request)
    BY DEF Sound, Sane
  <2>4. plan.from \in Seq(Line) /\ plan.to \in Seq(Line)
    <3>1. IsText(plan.from) /\ IsText(plan.to)
      BY <2>1, <2>2, MadeIsText DEF Made
    <3> QED BY <3>1 DEF IsText
  <2>5. Knows(Scan(plan.from), Application, NameKey)
    BY <2>4, KnownIs
  <2>6. Knows(Scan(plan.to), Application, NameKey)
    BY <2>1, <2>2, <2>3, <2>5, MadeKeepsName
  <2> QED BY <2>4, <2>6, KnownIs
<1>2. IInv => TypeOK
  BY DEF IInv
<1> QED BY <1>1, <1>2, AgreementStays, Inductive, PTL DEF StaysReadable
=============================================================================
