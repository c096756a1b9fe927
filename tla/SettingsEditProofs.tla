------------------------- MODULE SettingsEditProofs -------------------------
(***************************************************************************)
(* Lemmas about the line editor of project.godot, for any lines: what its  *)
(* index, its slices, its cuts and its insertions are, and that an edit    *)
(* whose values fit changes the entries of its keys and no other line.     *)
(***************************************************************************)
EXTENDS ProjectSettings, SequenceTheorems, FiniteSetTheorems, FunctionTheorems, NaturalsInduction,
        WellFoundedInduction, TLAPS

-----------------------------------------------------------------------------
(* Tables, what is kept of a sequence, and order.                          *)

(* A set of naturals that is not empty has a least element.               *)
LEMMA LeastIsThere ==
  ASSUME NEW T \in SUBSET Nat, T # {}
  PROVE  \E n \in T : \A m \in T : n <= m
<1> DEFINE Less == {ss \in Nat \X Nat : ss[1] < ss[2]}
<1>1. IsWellFoundedOn(Less, Nat)
  BY NatLessThanWellFounded DEF OpToRel
<1>2. PICK n \in T : \A m \in T : <<m, n>> \notin Less
  <2> HIDE DEF Less
  <2>1. \A R, S, U : IsWellFoundedOn(R, S) /\ U \subseteq S /\ U # {}
                       => \E x \in U : \A y \in U : ~ (<<y, x>> \in R)
    BY WFMin
  <2> QED BY <1>1, <2>1
<1>3. \A m \in T : <<m, n>> \in Nat \X Nat /\ <<m, n>>[1] = m /\ <<m, n>>[2] = n
  BY <1>2
<1>4. \A m \in T : ~(m < n)
  BY <1>2, <1>3
<1> QED BY <1>2, <1>4

(* Induction from 0 up to N, over a set.                                  *)
LEMMA UpTo ==
  ASSUME NEW N \in Nat, NEW S, 0 \in S, \A n \in 0..N : n < N /\ n \in S => n + 1 \in S
  PROVE  \A n \in 0..N : n \in S
<1> DEFINE T == {n \in 0..N : n \notin S}
<1> SUFFICES ASSUME T # {} PROVE FALSE
  OBVIOUS
<1>1. PICK n \in T : \A m \in T : n <= m
  <2>1. T \in SUBSET Nat
    OBVIOUS
  <2> HIDE DEF T
  <2> QED BY <2>1, LeastIsThere
<1>2. n \in 0..N /\ n \notin S /\ n # 0
  BY <1>1
<1>3. n - 1 \in 0..N /\ n - 1 < N /\ n - 1 \notin T
  BY <1>1, <1>2
<1>4. n - 1 \in S
  BY <1>3
<1>5. (n - 1) + 1 = n
  BY <1>2
<1> QED BY <1>2, <1>3, <1>4, <1>5

(* A set of naturals up to N that is not empty has a greatest element.    *)
LEMMA DownTo ==
  ASSUME NEW N \in Nat, NEW U \in SUBSET (0..N), U # {}
  PROVE  \E n \in U : \A m \in U : m <= n
<1> DEFINE T == {N - n : n \in U}
<1>1. T \in SUBSET Nat /\ T # {}
  <2>1. \A n \in U : N - n \in Nat
    OBVIOUS
  <2>2. PICK u \in U : TRUE
    OBVIOUS
  <2>3. N - u \in T
    OBVIOUS
  <2> QED BY <2>1, <2>3
<1>2. PICK t \in T : \A m \in T : t <= m
  <2> HIDE DEF T
  <2> QED BY <1>1, LeastIsThere
<1>3. PICK n \in U : t = N - n
  BY <1>2
<1>4. ASSUME NEW m \in U PROVE m <= n
  <2>1. N - m \in T
    OBVIOUS
  <2> QED BY <2>1, <1>2, <1>3
<1> QED BY <1>3, <1>4

\* A table filled from its first line on, by a step given for each position.
Table(f, N, S, base, step) ==
  /\ f \in [0..N -> S] /\ f[0] = base
  /\ \A n \in 1..N : f[n] = step[n][f[n - 1]]

(* A table can be filled from a step for each position, and what is       *)
(* filled has its type.                                                   *)
LEMMA TableIsThere ==
  ASSUME NEW N \in Nat, NEW S, NEW base \in S, NEW step \in [1..N -> [S -> S]]
  PROVE  \E f : Table(f, N, S, base, step)
<1> DEFINE D == {k \in 0..N : \E f : Table(f, k, S, base, step)}
<1>1. 0 \in D
  <2>1. Table([i \in 0..0 |-> base], 0, S, base, step)
    BY DEF Table
  <2> QED BY <2>1
<1>2. ASSUME NEW k \in 0..N, k < N, k \in D PROVE k + 1 \in D
  <2>1. PICK f : Table(f, k, S, base, step)
    BY <1>2
  <2> DEFINE g == [i \in 0..(k + 1) |-> IF i <= k THEN f[i] ELSE step[k + 1][f[k]]]
  <2>2. f \in [0..k -> S] /\ f[0] = base /\ \A n \in 1..k : f[n] = step[n][f[n - 1]]
    BY <2>1 DEF Table
  <2>3. step[k + 1] \in [S -> S] /\ f[k] \in S
    BY <1>2, <2>2
  <2>4. g \in [0..(k + 1) -> S]
    BY <1>2, <2>2, <2>3
  <2>5. g[0] = base
    BY <1>2, <2>2
  <2>6. ASSUME NEW n \in 1..(k + 1) PROVE g[n] = step[n][g[n - 1]]
    <3>1. n - 1 \in 0..k /\ g[n - 1] = f[n - 1]
      BY <1>2
    <3>2. CASE n <= k
      BY <3>2, <3>1, <2>2, <1>2
    <3>3. CASE n = k + 1
      BY <3>3, <3>1, <2>2, <1>2
    <3> QED BY <3>2, <3>3, <1>2
  <2>7. Table(g, k + 1, S, base, step)
    <3> HIDE DEF g
    <3> QED BY <2>4, <2>5, <2>6 DEF Table
  <2> QED BY <2>7, <1>2
<1>3. \A k \in 0..N : k \in D
  <2> HIDE DEF D
  <2> QED BY <1>1, <1>2, UpTo
<1> QED BY <1>3

(* A table filled by typed steps is typed.                                *)
LEMMA TableIsTyped ==
  ASSUME NEW N \in Nat, NEW S, NEW base \in S, NEW step \in [1..N -> [S -> S]],
         NEW f, f[0] = base, \A n \in 1..N : f[n] = step[n][f[n - 1]]
  PROVE  \A n \in 0..N : f[n] \in S
<1> DEFINE D == {n \in 0..N : f[n] \in S}
<1>1. 0 \in D
  OBVIOUS
<1>2. ASSUME NEW n \in 0..N, n < N, n \in D PROVE n + 1 \in D
  <2>1. n + 1 \in 1..N /\ (n + 1) - 1 = n
    BY <1>2
  <2>2. f[n + 1] = step[n + 1][f[n]]
    BY <2>1
  <2>3. step[n + 1] \in [S -> S] /\ f[n] \in S
    BY <2>1, <1>2
  <2> QED BY <2>1, <2>2, <2>3, <1>2
<1> HIDE DEF D
<1>3. \A n \in 0..N : n \in D
  BY <1>1, <1>2, UpTo
<1> QED BY <1>3 DEF D

\* How Where goes through a sequence.
Sifts(f, s, at) ==
  f = [n \in 0..Len(s) |->
         IF n = 0 THEN <<>> ELSE IF n \in at THEN Append(f[n - 1], s[n]) ELSE f[n - 1]]

(* Where's table can be filled.                                           *)
LEMMA SiftIsThere ==
  ASSUME NEW T, NEW s \in Seq(T), NEW at
  PROVE  \E f : Sifts(f, s, at) /\ \A n \in 0..Len(s) : f[n] \in Seq(T)
<1> DEFINE step == [n \in 1..Len(s) |-> [q \in Seq(T) |-> IF n \in at THEN Append(q, s[n]) ELSE q]]
<1>0. Len(s) \in Nat /\ \A n \in 1..Len(s) : s[n] \in T
  OBVIOUS
<1>1. step \in [1..Len(s) -> [Seq(T) -> Seq(T)]]
  <2>1. ASSUME NEW n \in 1..Len(s), NEW q \in Seq(T)
        PROVE  (IF n \in at THEN Append(q, s[n]) ELSE q) \in Seq(T)
    BY <1>0
  <2> QED BY <2>1
<1>2. <<>> \in Seq(T)
  OBVIOUS
<1>3. PICK f : Table(f, Len(s), Seq(T), <<>>, step)
  <2> HIDE DEF step
  <2> QED BY <1>0, <1>1, <1>2, TableIsThere
<1>4. f \in [0..Len(s) -> Seq(T)] /\ f[0] = <<>> /\ \A n \in 1..Len(s) : f[n] = step[n][f[n - 1]]
  <2> HIDE DEF step
  <2> QED BY <1>3 DEF Table
<1>5. ASSUME NEW n \in 0..Len(s)
      PROVE  f[n] = IF n = 0 THEN <<>> ELSE IF n \in at THEN Append(f[n - 1], s[n]) ELSE f[n - 1]
  <2>1. CASE n = 0
    BY <2>1, <1>4
  <2>2. CASE n # 0
    <3>1. n \in 1..Len(s) /\ n - 1 \in 0..Len(s)
      BY <2>2, <1>0
    <3>2. f[n] = step[n][f[n - 1]] /\ f[n - 1] \in Seq(T)
      <4> HIDE DEF step
      <4> QED BY <1>4, <3>1
    <3> QED BY <2>2, <3>1, <3>2
  <2> QED BY <2>1, <2>2
<1>6. f = [n \in 0..Len(s) |-> f[n]]
  BY <1>4
<1> HIDE DEF step
<1>7. Sifts(f, s, at)
  BY <1>5, <1>6 DEF Sifts
<1> QED BY <1>4, <1>7

(* Two tables of Where agree as far as the sequences and what is kept of  *)
(* them do.                                                               *)
LEMMA SiftsAgree ==
  ASSUME NEW T, NEW s \in Seq(T), NEW t \in Seq(T), NEW at, NEW bt, NEW f, NEW g,
         Sifts(f, s, at), Sifts(g, t, bt), NEW k \in Nat, k <= Len(s), k <= Len(t),
         \A n \in 1..k : s[n] = t[n] /\ (n \in at <=> n \in bt)
  PROVE  f[k] = g[k]
<1> DEFINE D == {n \in 0..k : f[n] = g[n]}
<1>0. Len(s) \in Nat /\ Len(t) \in Nat
  OBVIOUS
<1>1. \A n \in 0..Len(s) : f[n] = IF n = 0 THEN <<>> ELSE IF n \in at THEN Append(f[n - 1], s[n]) ELSE f[n - 1]
  BY DEF Sifts
<1>2. \A n \in 0..Len(t) : g[n] = IF n = 0 THEN <<>> ELSE IF n \in bt THEN Append(g[n - 1], t[n]) ELSE g[n - 1]
  BY DEF Sifts
<1>3. 0 \in D
  BY <1>0, <1>1, <1>2
<1>4. ASSUME NEW n \in 0..k, n < k, n \in D PROVE n + 1 \in D
  <2>1. n + 1 \in 1..k /\ n + 1 \in 0..Len(s) /\ n + 1 \in 0..Len(t) /\ (n + 1) - 1 = n /\ n + 1 # 0
    BY <1>4, <1>0
  <2>2. f[n + 1] = IF n + 1 \in at THEN Append(f[n], s[n + 1]) ELSE f[n]
    BY <2>1, <1>1
  <2>3. g[n + 1] = IF n + 1 \in bt THEN Append(g[n], t[n + 1]) ELSE g[n]
    BY <2>1, <1>2
  <2> QED BY <2>1, <2>2, <2>3, <1>4
<1> HIDE DEF D
<1>5. \A n \in 0..k : n \in D
  BY <1>3, <1>4, UpTo
<1> QED BY <1>5 DEF D

(* Where is the last entry of its table.                                  *)
LEMMA WhereIs ==
  ASSUME NEW T, NEW s \in Seq(T), NEW at
  PROVE  \E f : Sifts(f, s, at) /\ Where(s, at) = f[Len(s)] /\ \A n \in 0..Len(s) : f[n] \in Seq(T)
<1> DEFINE F == CHOOSE f : Sifts(f, s, at)
<1>1. PICK g : Sifts(g, s, at) /\ \A n \in 0..Len(s) : g[n] \in Seq(T)
  BY SiftIsThere
<1>2. Sifts(F, s, at)
  BY <1>1
<1>3. Where(s, at) = F[Len(s)]
  BY DEF Where, Sifts
<1> HIDE DEF F
<1>4. ASSUME NEW n \in 0..Len(s) PROVE F[n] \in Seq(T)
  <2>1. Len(s) \in Nat /\ n \in Nat /\ n <= Len(s)
    OBVIOUS
  <2>2. F[n] = g[n]
    BY <2>1, <1>1, <1>2, SiftsAgree
  <2> QED BY <2>2, <1>1
<1> QED BY <1>2, <1>3, <1>4

(* A sequence to which nothing is added keeps nothing; one element more is *)
(* kept at the end or not at all.                                          *)
LEMMA WhereOfNone == \A at : Where(<<>>, at) = <<>>
<1> TAKE at
<1>1. <<>> \in Seq({}) /\ Len(<<>>) = 0
  OBVIOUS
<1>2. PICK f : Sifts(f, <<>>, at) /\ Where(<<>>, at) = f[Len(<<>>)]
  BY <1>1, WhereIs
<1>3. f[0] = <<>>
  BY <1>1, <1>2 DEF Sifts
<1> QED BY <1>1, <1>2, <1>3

(* What is kept of a sequence has its type.                               *)
LEMMA WhereIsTyped ==
  ASSUME NEW T, NEW s \in Seq(T), NEW at
  PROVE  Where(s, at) \in Seq(T)
<1>1. PICK f : Sifts(f, s, at) /\ Where(s, at) = f[Len(s)] /\ \A n \in 0..Len(s) : f[n] \in Seq(T)
  BY WhereIs
<1>2. Len(s) \in 0..Len(s)
  OBVIOUS
<1> QED BY <1>1, <1>2

(* One element more is kept at the end or not at all.                     *)
LEMMA WhereOfAppend ==
  ASSUME NEW T, NEW s \in Seq(T), NEW t \in Seq(T), NEW at, Len(t) = Len(s) + 1,
         \A i \in 1..Len(s) : t[i] = s[i]
  PROVE  Where(t, at) = IF Len(t) \in at THEN Append(Where(s, at), t[Len(t)]) ELSE Where(s, at)
<1>1. PICK f : Sifts(f, s, at) /\ Where(s, at) = f[Len(s)]
  BY WhereIs
<1>2. PICK g : Sifts(g, t, at) /\ Where(t, at) = g[Len(t)]
  BY WhereIs
<1>3. Len(s) \in Nat /\ Len(t) \in Nat /\ Len(t) \in 0..Len(t) /\ Len(t) # 0 /\ Len(t) - 1 = Len(s)
  OBVIOUS
<1>4. g[Len(s)] = f[Len(s)]
  BY <1>1, <1>2, <1>3, SiftsAgree
<1>5. g[Len(t)] = IF Len(t) \in at THEN Append(g[Len(t) - 1], t[Len(t)]) ELSE g[Len(t) - 1]
  BY <1>2, <1>3 DEF Sifts
<1> QED BY <1>1, <1>2, <1>3, <1>4, <1>5

(* Of equal sequences the same positions keep the same.                   *)
LEMMA WhereAgrees ==
  ASSUME NEW T, NEW s \in Seq(T), NEW t \in Seq(T), NEW at, NEW bt, Len(s) = Len(t),
         \A n \in 1..Len(s) : s[n] = t[n] /\ (n \in at <=> n \in bt)
  PROVE  Where(s, at) = Where(t, bt)
<1>1. PICK f : Sifts(f, s, at) /\ Where(s, at) = f[Len(s)]
  BY WhereIs
<1>2. PICK g : Sifts(g, t, bt) /\ Where(t, bt) = g[Len(t)]
  BY WhereIs
<1>3. Len(s) \in Nat
  OBVIOUS
<1> QED BY <1>1, <1>2, <1>3, SiftsAgree

(* The first n elements of a sequence.                                     *)
LEMMA FirstOnes ==
  ASSUME NEW T, NEW s \in Seq(T), NEW n \in 0..Len(s)
  PROVE  /\ SubSeq(s, 1, n) \in Seq(T) /\ Len(SubSeq(s, 1, n)) = n
         /\ \A i \in 1..n : SubSeq(s, 1, n)[i] = s[i]
<1>1. Len(s) \in Nat /\ n \in Int /\ 1 \in Int /\ \A i \in 1..n : s[i] \in T
  OBVIOUS
<1>2. /\ SubSeq(s, 1, n) \in Seq(T)
      /\ Len(SubSeq(s, 1, n)) = IF 1 <= n THEN n - 1 + 1 ELSE 0
      /\ \A i \in 1..(n - 1 + 1) : SubSeq(s, 1, n)[i] = s[1 + i - 1]
  BY <1>1, SubSeqProperties
<1> QED BY <1>1, <1>2

(* What is kept of a sequence is what is at the positions, in their order. *)
LEMMA WhereKeeps ==
  ASSUME NEW T, NEW s \in Seq(T), NEW at
  PROVE  \E m : /\ m \in [1..Len(Where(s, at)) -> 1..Len(s)]
                /\ \A i \in 1..Len(Where(s, at)) : m[i] \in at /\ Where(s, at)[i] = s[m[i]]
                /\ \A i, j \in 1..Len(Where(s, at)) : i < j => m[i] < m[j]
                /\ \A n \in 1..Len(s) : n \in at => \E i \in 1..Len(Where(s, at)) : m[i] = n
<1> DEFINE W(n) == Where(SubSeq(s, 1, n), at)
           P(n, m) == /\ m \in [1..Len(W(n)) -> 1..n]
                      /\ \A i \in 1..Len(W(n)) : m[i] \in at /\ W(n)[i] = s[m[i]]
                      /\ \A i, j \in 1..Len(W(n)) : i < j => m[i] < m[j]
                      /\ \A k \in 1..n : k \in at => \E i \in 1..Len(W(n)) : m[i] = k
           D == {n \in 0..Len(s) : \E m : P(n, m)}
<1>0. Len(s) \in Nat
  OBVIOUS
<1>1. \A n \in 0..Len(s) : W(n) \in Seq(T)
  BY FirstOnes, WhereIsTyped
<1>2. 0 \in D
  <2>1. SubSeq(s, 1, 0) = <<>>
    BY SubSeqEmpty
  <2>2. W(0) = <<>>
    BY <2>1, WhereOfNone, Zenon
  <2>3. Len(W(0)) = 0
    BY <2>2, Zenon, EmptySeq
  <2>4. P(0, [i \in 1..0 |-> 0])
    <3> HIDE DEF W
    <3> QED BY <2>3
  <2>5. 0 \in 0..Len(s)
    BY <1>0
  <2> HIDE DEF P
  <2> QED BY <2>4, <2>5
<1>3. ASSUME NEW n \in 0..Len(s), n < Len(s), n \in D PROVE n + 1 \in D
  <2>1. PICK m : P(n, m)
    BY <1>3
  <2>2. n + 1 \in 0..Len(s)
    BY <1>3, <1>0
  <2>3. W(n + 1) = IF n + 1 \in at THEN Append(W(n), s[n + 1]) ELSE W(n)
    <3>1. PICK a : a = SubSeq(s, 1, n)
      OBVIOUS
    <3>2. PICK b : b = SubSeq(s, 1, n + 1)
      OBVIOUS
    <3>3. a \in Seq(T) /\ Len(a) = n /\ \A i \in 1..n : a[i] = s[i]
      BY <3>1, FirstOnes
    <3>4. b \in Seq(T) /\ Len(b) = n + 1 /\ \A i \in 1..(n + 1) : b[i] = s[i]
      BY <3>2, <2>2, FirstOnes
    <3>5. Len(b) = Len(a) + 1 /\ b[Len(b)] = s[n + 1] /\ \A i \in 1..Len(a) : b[i] = a[i]
      BY <3>3, <3>4, <2>2
    <3>6. Where(b, at) = IF Len(b) \in at THEN Append(Where(a, at), b[Len(b)]) ELSE Where(a, at)
      BY <3>3, <3>4, <3>5, WhereOfAppend, SMTT(30)
    <3> QED BY <3>1, <3>2, <3>4, <3>5, <3>6
  <2>4. W(n) \in Seq(T) /\ Len(W(n)) \in Nat /\ s[n + 1] \in T
    BY <1>1, <2>2, <1>0
  <2> HIDE DEF W
  <2>5. CASE n + 1 \notin at
    <3>1. W(n + 1) = W(n)
      BY <2>3, <2>5
    <3>2. P(n + 1, m)
      <4>1. m \in [1..Len(W(n + 1)) -> 1..(n + 1)]
        BY <2>1, <3>1
      <4>2. ASSUME NEW k \in 1..(n + 1), k \in at PROVE \E i \in 1..Len(W(n + 1)) : m[i] = k
        <5>1. k \in 1..n
          BY <2>5, <4>2
        <5> QED BY <5>1, <4>2, <2>1, <3>1
      <4> QED BY <4>1, <4>2, <2>1, <3>1
    <3> QED BY <3>2, <2>2
  <2>6. CASE n + 1 \in at
    <3> DEFINE L == Len(W(n))
               q == [i \in 1..(L + 1) |-> IF i = L + 1 THEN n + 1 ELSE m[i]]
    <3>1. /\ Len(W(n + 1)) = L + 1 /\ W(n + 1)[L + 1] = s[n + 1]
          /\ \A i \in 1..L : W(n + 1)[i] = W(n)[i]
      BY <2>3, <2>4, <2>6, AppendProperties
    <3>2. m \in [1..L -> 1..n]
      BY <2>1
    <3>3. q \in [1..(L + 1) -> 1..(n + 1)]
      BY <3>2, <2>4
    <3>4. q[L + 1] = n + 1 /\ \A i \in 1..L : q[i] = m[i] /\ q[i] \in 1..n
      BY <3>2, <2>4
    <3> HIDE DEF q
    <3>5. \A i \in 1..(L + 1) : i = L + 1 \/ i \in 1..L
      BY <2>4
    <3>6. \A i \in 1..(L + 1) : q[i] \in at /\ W(n + 1)[i] = s[q[i]]
      BY <3>1, <3>4, <3>5, <2>1, <2>6
    <3>7. ASSUME NEW i \in 1..(L + 1), NEW j \in 1..(L + 1), i < j PROVE q[i] < q[j]
      <4>1. i \in 1..L
        BY <3>7, <2>4
      <4>2. CASE j \in 1..L
        BY <4>1, <4>2, <3>4, <3>7, <2>1
      <4>3. CASE j = L + 1
        BY <4>1, <4>3, <3>4
      <4> QED BY <4>2, <4>3, <3>5
    <3>8. ASSUME NEW k \in 1..(n + 1), k \in at PROVE \E i \in 1..(L + 1) : q[i] = k
      <4>1. CASE k = n + 1
        BY <4>1, <3>4, <2>4
      <4>2. CASE k \in 1..n
        <5>1. PICK i \in 1..L : m[i] = k
          BY <4>2, <3>8, <2>1
        <5>2. i \in 1..(L + 1) /\ q[i] = k
          BY <5>1, <3>4, <2>4
        <5> QED BY <5>2
      <4> QED BY <4>1, <4>2
    <3>9. P(n + 1, q)
      <4> HIDE DEF L
      <4> QED BY <3>1, <3>3, <3>6, <3>7, <3>8
    <3> QED BY <3>9, <2>2
  <2> QED BY <2>5, <2>6
<1> HIDE DEF D
<1>4. \A n \in 0..Len(s) : n \in D
  BY <1>0, <1>2, <1>3, UpTo
<1>5. PICK m : P(Len(s), m)
  BY <1>4, <1>0 DEF D
<1>6. W(Len(s)) = Where(s, at)
  BY SubSeqFull
<1> HIDE DEF W
<1> QED BY <1>5, <1>6

(* Of some positions one has the lowest rank.                             *)
LEMMA LowestIsThere ==
  ASSUME NEW n \in Nat, NEW rank \in [1..n -> Int], NEW U \in SUBSET (1..n), U # {}
  PROVE  \E u \in U : \A v \in U : rank[u] <= rank[v]
<1> DEFINE D == {k \in 0..n : \A V \in SUBSET (1..k) : V # {} => \E u \in V : \A v \in V : rank[u] <= rank[v]}
<1>1. 0 \in D
  <2>1. ASSUME NEW V \in SUBSET (1..0), V # {} PROVE FALSE
    <3>1. PICK v \in V : TRUE
      BY <2>1
    <3>2. v \in 1..0
      BY <3>1
    <3> QED BY <3>2
  <2>2. 0 \in 0..n
    OBVIOUS
  <2> QED BY <2>1, <2>2
<1>2. ASSUME NEW k \in 0..n, k < n, k \in D PROVE k + 1 \in D
  <2>1. ASSUME NEW V \in SUBSET (1..(k + 1)), V # {} PROVE \E u \in V : \A v \in V : rank[u] <= rank[v]
    <3>1. CASE V \ {k + 1} = {}
      <4>1. \A v \in V : v = k + 1
        BY <3>1
      <4>2. rank[k + 1] \in Int
        BY <1>2
      <4>3. PICK v \in V : TRUE
        BY <2>1
      <4> QED BY <4>1, <4>2, <4>3
    <3>2. CASE V \ {k + 1} # {}
      <4>1. V \ {k + 1} \in SUBSET (1..k)
        BY <1>2
      <4>2. PICK u \in V \ {k + 1} : \A v \in V \ {k + 1} : rank[u] <= rank[v]
        BY <4>1, <3>2, <1>2
      <4>3. rank[u] \in Int /\ rank[k + 1] \in Int /\ \A v \in V : rank[v] \in Int
        BY <1>2, <2>1, <4>2
      <4>4. CASE k + 1 \notin V \/ rank[u] <= rank[k + 1]
        BY <4>4, <4>2
      <4>5. CASE k + 1 \in V /\ rank[k + 1] < rank[u]
        <5>1. ASSUME NEW v \in V PROVE rank[k + 1] <= rank[v]
          <6>1. CASE v = k + 1
            BY <6>1, <4>3
          <6>2. CASE v # k + 1
            <7>1. v \in V \ {k + 1}
              BY <6>2
            <7>2. rank[u] <= rank[v]
              BY <7>1, <4>2
            <7> QED BY <7>2, <4>3, <4>5
          <6> QED BY <6>1, <6>2
        <5>2. k + 1 \in V
          BY <4>5
        <5> QED BY <5>1, <5>2
      <4>6. rank[u] <= rank[k + 1] \/ rank[k + 1] < rank[u]
        BY <4>3
      <4>7. k + 1 \notin V \/ rank[u] <= rank[k + 1] \/ (k + 1 \in V /\ rank[k + 1] < rank[u])
        BY <4>6, Zenon
      <4> QED BY <4>7, <4>4, <4>5, Zenon
    <3> QED BY <3>1, <3>2
  <2>2. k + 1 \in 0..n
    BY <1>2
  <2> QED BY <2>1, <2>2
<1> HIDE DEF D
<1>3. \A k \in 0..n : k \in D
  BY <1>1, <1>2, UpTo
<1>4. n \in D
  BY <1>3
<1>5. \A V \in SUBSET (1..n) : V # {} => \E u \in V : \A v \in V : rank[u] <= rank[v]
  BY <1>4 DEF D
<1> QED BY <1>5

(* Fewer than n positions do not exhaust n.                               *)
LEMMA SomeAreLeft ==
  \A k \in Nat, n \in Nat : \A p \in [1..k -> 1..n] :
    k < n => \E m \in 1..n : \A i \in 1..k : p[i] # m
<1> SUFFICES ASSUME NEW k \in Nat, NEW n \in Nat, NEW p \in [1..k -> 1..n], k < n,
                    \A m \in 1..n : \E i \in 1..k : p[i] = m PROVE FALSE
  OBVIOUS
<1>1. p \in Surjection(1..k, 1..n)
  BY DEF Surjection
<1>2. ExistsSurjection(1..k, 1..n)
  BY <1>1 DEF ExistsSurjection
<1>3. Cardinality(1..n) <= k
  BY <1>2, FS_SurjCardinalityBound
<1>4. Cardinality(1..n) = n
  <2>1. 1 \in Int /\ n \in Int
    OBVIOUS
  <2>2. Cardinality(1..n) = IF 1 > n THEN 0 ELSE n - 1 + 1
    BY <2>1, FS_Interval
  <2> QED BY <2>2
<1> QED BY <1>3, <1>4

(* An injection of 1..n into itself is onto.                              *)
LEMMA OntoItself ==
  ASSUME NEW n \in Nat, NEW p \in [1..n -> 1..n], \A i, j \in 1..n : p[i] = p[j] => i = j
  PROVE  \A m \in 1..n : \E i \in 1..n : p[i] = m
<1>1. p \in Injection(1..n, 1..n)
  BY DEF Injection, IsInjective
<1>2. IsFiniteSet(1..n)
  BY FS_Interval
<1>3. p \in Surjection(1..n, 1..n)
  BY <1>1, <1>2, FS_Injection
<1> QED BY <1>3 DEF Surjection

\* The lowest first, and each once.
InOrder(p, k, n, rank) ==
  /\ p \in [1..k -> 1..n]
  /\ \A i, j \in 1..k : p[i] = p[j] => i = j
  /\ \A i, j \in 1..k : i < j => rank[p[i]] <= rank[p[j]]

(* Positions can be put in the order of their ranks.                      *)
LEMMA OrderIsThere ==
  ASSUME NEW n \in Nat, NEW rank \in [1..n -> Int]
  PROVE  \E p : InOrder(p, n, n, rank)
<1> DEFINE Low(p, k) == \A m \in 1..n : (\A i \in 1..k : p[i] # m) => \A i \in 1..k : rank[p[i]] <= rank[m]
           D == {k \in 0..n : \E p : InOrder(p, k, n, rank) /\ Low(p, k)}
<1>1. 0 \in D
  <2>1. InOrder([i \in 1..0 |-> 1], 0, n, rank) /\ Low([i \in 1..0 |-> 1], 0)
    BY DEF InOrder
  <2> QED BY <2>1
<1>2. ASSUME NEW k \in 0..n, k < n, k \in D PROVE k + 1 \in D
  <2>1. PICK p : InOrder(p, k, n, rank) /\ Low(p, k)
    BY <1>2
  <2>2. /\ p \in [1..k -> 1..n]
        /\ \A i, j \in 1..k : p[i] = p[j] => i = j
        /\ \A i, j \in 1..k : i < j => rank[p[i]] <= rank[p[j]]
    BY <2>1 DEF InOrder
  <2> DEFINE U == {m \in 1..n : \A i \in 1..k : p[i] # m}
  <2>3. U \in SUBSET (1..n) /\ U # {}
    <3>1. k \in Nat /\ k < n
      BY <1>2
    <3>2. \E m \in 1..n : \A i \in 1..k : p[i] # m
      <4>1. p \in [1..k -> 1..n]
        BY <2>2
      <4> HIDE DEF D, Low
      <4> QED BY <4>1, <3>1, SomeAreLeft, Zenon
    <3> QED BY <3>2
  <2>4. PICK u \in U : \A v \in U : rank[u] <= rank[v]
    <3> HIDE DEF U
    <3> QED BY <2>3, LowestIsThere
  <2> DEFINE q == [i \in 1..(k + 1) |-> IF i = k + 1 THEN u ELSE p[i]]
  <2>5. u \in 1..n /\ \A i \in 1..k : p[i] # u
    BY <2>4
  <2>6. q \in [1..(k + 1) -> 1..n]
    BY <2>2, <2>5
  <2>7. q[k + 1] = u /\ \A i \in 1..k : q[i] = p[i]
    OBVIOUS
  <2>8. \A i \in 1..(k + 1) : i = k + 1 \/ i \in 1..k
    OBVIOUS
  <2> HIDE DEF q
  <2>9. \A i, j \in 1..(k + 1) : q[i] = q[j] => i = j
    BY <2>2, <2>5, <2>7, <2>8
  <2>10. ASSUME NEW i \in 1..(k + 1), NEW j \in 1..(k + 1), i < j PROVE rank[q[i]] <= rank[q[j]]
    <3>1. i \in 1..k
      BY <2>10
    <3>2. CASE j \in 1..k
      BY <3>1, <3>2, <2>10, <2>2, <2>7
    <3>3. CASE j = k + 1
      BY <3>1, <3>3, <2>1, <2>5, <2>7
    <3> QED BY <3>2, <3>3, <2>8
  <2>11. Low(q, k + 1)
    <3> SUFFICES ASSUME NEW m \in 1..n, \A i \in 1..(k + 1) : q[i] # m, NEW i \in 1..(k + 1)
                 PROVE  rank[q[i]] <= rank[m]
      OBVIOUS
    <3>1. \A jj \in 1..k : p[jj] # m
      <4>1. \A jj \in 1..k : jj \in 1..(k + 1)
        OBVIOUS
      <4> QED BY <2>7, <4>1
    <3>2. m \in U
      BY <3>1
    <3> QED BY <3>1, <3>2, <2>1, <2>4, <2>7, <2>8
  <2>12. InOrder(q, k + 1, n, rank)
    BY <2>6, <2>9, <2>10 DEF InOrder
  <2>13. k + 1 \in 0..n
    BY <1>2
  <2> HIDE DEF Low
  <2> QED BY <2>11, <2>12, <2>13
<1> HIDE DEF D
<1>3. \A k \in 0..n : k \in D
  BY <1>1, <1>2, UpTo
<1>4. n \in 0..n
  OBVIOUS
<1> QED BY <1>3, <1>4 DEF D

(* ByRank is a permutation, the lowest rank first.                        *)
LEMMA ByRankIs ==
  ASSUME NEW T, NEW s \in Seq(T), NEW rank \in [1..Len(s) -> Int]
  PROVE  \E p : /\ InOrder(p, Len(s), Len(s), rank)
                /\ \A m \in 1..Len(s) : \E i \in 1..Len(s) : p[i] = m
                /\ ByRank(s, rank) = [i \in 1..Len(s) |-> s[p[i]]]
<1> DEFINE Good(p) == /\ \A i, j \in DOMAIN s : p[i] = p[j] => i = j
                      /\ \A i, j \in DOMAIN s : i < j => rank[p[i]] <= rank[p[j]]
           order == CHOOSE p \in [DOMAIN s -> DOMAIN s] : Good(p)
<1>1. DOMAIN s = 1..Len(s) /\ Len(s) \in Nat
  OBVIOUS
<1>2. \E p \in [DOMAIN s -> DOMAIN s] : Good(p)
  <2>1. PICK p : InOrder(p, Len(s), Len(s), rank)
    BY <1>1, OrderIsThere
  <2> QED BY <2>1, <1>1 DEF InOrder
<1>3. order \in [DOMAIN s -> DOMAIN s] /\ Good(order)
  <2> HIDE DEF Good
  <2> QED BY <1>2
<1>4. ByRank(s, rank) = [i \in DOMAIN s |-> s[order[i]]]
  BY DEF ByRank
<1> HIDE DEF order
<1>5. InOrder(order, Len(s), Len(s), rank)
  BY <1>1, <1>3 DEF InOrder
<1>6. \A m \in 1..Len(s) : \E i \in 1..Len(s) : order[i] = m
  <2>1. order \in [1..Len(s) -> 1..Len(s)] /\ \A i, j \in 1..Len(s) : order[i] = order[j] => i = j
    BY <1>5 DEF InOrder
  <2> QED BY <1>1, <2>1, OntoItself
<1> QED BY <1>1, <1>4, <1>5, <1>6

-----------------------------------------------------------------------------
(* The editor's index and the entries of a section.                        *)

\* Where the editor may be.
Cursor == [section : Texts, key : Nat, depth : Int]
Origin == [section |-> NoSection, key |-> NoKey, depth |-> 0]

(* A line opens or closes one bracket at most.                            *)
LEMMA DeltaIsTyped == ASSUME NEW line PROVE Delta(line) \in {-1, 0, 1}
  BY DEF Delta

(* The fields of a line.                                                  *)
LEMMA LineFields ==
  ASSUME NEW line \in Line
  PROVE  /\ line.kind \in LineKind /\ line.section \in Texts /\ line.key \in Nat
         /\ line.star \in BOOLEAN /\ line.text \in Texts /\ line.ended \in BOOLEAN
  BY DEF Line

(* One line of the editor's index.                                        *)
LEMMA CursorMoves ==
  ASSUME NEW c \in Cursor, NEW line \in Line
  PROVE  /\ IndexLine(c, line) \in Cursor
         /\ c.depth # 0 => /\ IndexLine(c, line).section = c.section
                           /\ IndexLine(c, line).key = c.key
                           /\ IndexLine(c, line).depth = c.depth + Delta(line)
         /\ c.depth = 0 /\ line.kind = "header"
              => /\ IndexLine(c, line).section = line.section
                 /\ IndexLine(c, line).key = c.key
                 /\ IndexLine(c, line).depth = 0
         /\ c.depth = 0 /\ Assigns(line)
              => /\ IndexLine(c, line).section = c.section
                 /\ IndexLine(c, line).key = line.key
                 /\ IndexLine(c, line).depth = Delta(line)
         /\ c.depth = 0 /\ line.kind # "header" /\ ~Assigns(line) => IndexLine(c, line) = c
<1>1. Delta(line) \in Int
  BY DeltaIsTyped
<1>2. c = [section |-> c.section, key |-> c.key, depth |-> c.depth]
      /\ c.section \in Texts /\ c.key \in Nat /\ c.depth \in Int
  BY DEF Cursor
<1>3. line.kind = "header" => ~Assigns(line)
  BY DEF Assigns
<1>4. CASE c.depth # 0
  <2>1. IndexLine(c, line) = [section |-> c.section, key |-> c.key, depth |-> c.depth + Delta(line)]
    BY <1>2, <1>4 DEF IndexLine
  <2> QED BY <2>1, <1>1, <1>2, <1>4 DEF Cursor
<1>5. CASE c.depth = 0 /\ line.kind = "header"
  <2>0. IndexLine(c, line) = [c EXCEPT !.section = line.section]
    BY <1>3, <1>5 DEF IndexLine
  <2>1. IndexLine(c, line) = [section |-> line.section, key |-> c.key, depth |-> c.depth]
    BY <2>0, <1>2
  <2> QED BY <2>1, <1>2, <1>3, <1>5, LineFields DEF Cursor
<1>6. CASE c.depth = 0 /\ Assigns(line)
  <2>1. IndexLine(c, line) = [section |-> c.section, key |-> line.key, depth |-> Delta(line)]
    BY <1>2, <1>3, <1>6 DEF IndexLine
  <2> QED BY <2>1, <1>1, <1>2, <1>3, <1>6, LineFields DEF Cursor
<1>7. CASE c.depth = 0 /\ line.kind # "header" /\ ~Assigns(line)
  <2>1. IndexLine(c, line) = c
    BY <1>7 DEF IndexLine
  <2> QED BY <2>1, <1>7
<1> QED BY <1>4, <1>5, <1>6, <1>7

\* The editor's way through a text.
Walk(f, lines) ==
  /\ f \in [0..Len(lines) -> Cursor] /\ f[0] = Origin
  /\ \A n \in 1..Len(lines) : f[n] = IndexLine(f[n - 1], lines[n])

(* Index is the editor's way through the text.                            *)
LEMMA IndexIs == ASSUME NEW lines \in Seq(Line) PROVE Walk(Index(lines), lines)
<1> DEFINE step == [n \in 1..Len(lines) |-> [c \in Cursor |-> IndexLine(c, lines[n])]]
           Right(f) == f = [n \in 0..Len(lines) |-> IF n = 0 THEN Origin ELSE IndexLine(f[n - 1], lines[n])]
           F == CHOOSE f : Right(f)
<1>0. Len(lines) \in Nat /\ \A n \in 1..Len(lines) : lines[n] \in Line
  OBVIOUS
<1>1. step \in [1..Len(lines) -> [Cursor -> Cursor]]
  <2>1. ASSUME NEW n \in 1..Len(lines), NEW c \in Cursor PROVE IndexLine(c, lines[n]) \in Cursor
    BY <1>0, CursorMoves
  <2> QED BY <2>1
<1>2. Origin \in Cursor
  <2>1. NoSection \in Texts
    BY TextsAssumption DEF NoSection
  <2> QED BY <2>1 DEF Origin, Cursor, NoKey
<1>3. PICK g : Table(g, Len(lines), Cursor, Origin, step)
  <2> HIDE DEF step
  <2> QED BY <1>0, <1>1, <1>2, TableIsThere
<1>4. g \in [0..Len(lines) -> Cursor] /\ g[0] = Origin /\ \A n \in 1..Len(lines) : g[n] = step[n][g[n - 1]]
  <2> HIDE DEF step
  <2> QED BY <1>3 DEF Table
<1>5. \A n \in 1..Len(lines) : g[n] = IndexLine(g[n - 1], lines[n])
  <2> SUFFICES ASSUME NEW n \in 1..Len(lines) PROVE g[n] = IndexLine(g[n - 1], lines[n])
    OBVIOUS
  <2>1. n - 1 \in 0..Len(lines)
    BY <1>0
  <2> QED BY <2>1, <1>4
<1>6. Right(g)
  <2>1. \A n \in 0..Len(lines) : g[n] = IF n = 0 THEN Origin ELSE IndexLine(g[n - 1], lines[n])
    <3> SUFFICES ASSUME NEW n \in 0..Len(lines)
                 PROVE  g[n] = IF n = 0 THEN Origin ELSE IndexLine(g[n - 1], lines[n])
      OBVIOUS
    <3>1. n = 0 \/ n \in 1..Len(lines)
      BY <1>0
    <3> HIDE DEF step
    <3> QED BY <3>1, <1>4, <1>5
  <2>2. g = [n \in 0..Len(lines) |-> g[n]]
    BY <1>4
  <2> QED BY <2>1, <2>2
<1>7. Right(F)
  BY <1>6
<1>8. Index(lines) = F
  BY DEF Index, Origin
<1> HIDE DEF F
<1>9. F[0] = Origin /\ \A n \in 1..Len(lines) : F[n] = IndexLine(F[n - 1], lines[n])
  BY <1>7, <1>0
<1>10. DOMAIN F = 0..Len(lines) /\ F = [n \in DOMAIN F |-> F[n]]
  BY <1>7
<1> HIDE DEF Right
<1>11. \A n \in 1..Len(lines) : F[n] = step[n][F[n - 1]] \/ F[n - 1] \notin Cursor
  BY <1>9
<1> DEFINE D == {n \in 0..Len(lines) : F[n] \in Cursor}
<1>12. 0 \in D
  BY <1>0, <1>2, <1>9
<1>13. ASSUME NEW n \in 0..Len(lines), n < Len(lines), n \in D PROVE n + 1 \in D
  <2>1. n + 1 \in 1..Len(lines) /\ (n + 1) - 1 = n
    BY <1>13, <1>0
  <2>2. F[n + 1] = IndexLine(F[n], lines[n + 1])
    BY <2>1, <1>9
  <2>3. F[n] \in Cursor /\ lines[n + 1] \in Line
    BY <1>13, <2>1, <1>0
  <2>4. F[n + 1] \in Cursor
    BY <2>2, <2>3, CursorMoves
  <2> QED BY <2>1, <2>4
<1>14. \A n \in 0..Len(lines) : n \in D
  <2> HIDE DEF D
  <2> QED BY <1>0, <1>12, <1>13, UpTo
<1>15. F \in [0..Len(lines) -> Cursor]
  BY <1>10, <1>14
<1> QED BY <1>8, <1>9, <1>15 DEF Walk

(* Two places the editor goes on from alike.                               *)
Alike(c, d) == c.section = d.section /\ c.depth = d.depth /\ (c.depth # 0 => c.key = d.key)

(* Two cursors that are alike stay so over a line.                        *)
LEMMA StaysAlike ==
  ASSUME NEW c \in Cursor, NEW d \in Cursor, NEW line \in Line, Alike(c, d)
  PROVE  /\ Alike(IndexLine(c, line), IndexLine(d, line))
         /\ c.depth # 0 \/ Assigns(line) => IndexLine(c, line).key = IndexLine(d, line).key
<1>0. c.section = d.section /\ c.depth = d.depth /\ (c.depth # 0 => c.key = d.key)
  BY DEF Alike
<1>1. CASE c.depth # 0
  BY <1>1, CursorMoves DEF Alike
<1>2. CASE c.depth = 0 /\ line.kind = "header"
  <2>1. ~Assigns(line)
    BY <1>2 DEF Assigns
  <2>2. /\ IndexLine(c, line).section = line.section /\ IndexLine(c, line).depth = 0
    BY <1>2, CursorMoves
  <2>3. /\ IndexLine(d, line).section = line.section /\ IndexLine(d, line).depth = 0
    BY <1>0, <1>2, CursorMoves
  <2> QED BY <1>2, <2>1, <2>2, <2>3 DEF Alike
<1>3. CASE c.depth = 0 /\ Assigns(line)
  <2>2. /\ IndexLine(c, line).section = c.section /\ IndexLine(c, line).depth = Delta(line)
        /\ IndexLine(c, line).key = line.key
    BY <1>3, CursorMoves
  <2>3. /\ IndexLine(d, line).section = d.section /\ IndexLine(d, line).depth = Delta(line)
        /\ IndexLine(d, line).key = line.key
    BY <1>0, <1>3, CursorMoves
  <2> QED BY <1>0, <2>2, <2>3 DEF Alike
<1>4. CASE c.depth = 0 /\ line.kind # "header" /\ ~Assigns(line)
  BY <1>4, CursorMoves DEF Alike
<1> QED BY <1>1, <1>2, <1>3, <1>4

(* Over the same lines the editor stays where it would have been.          *)
LEMMA WalksAlike ==
  ASSUME NEW s \in Seq(Line), NEW t \in Seq(Line), NEW a \in Nat, NEW b \in Nat, NEW m \in Nat,
         a + m <= Len(s), b + m <= Len(t), \A i \in 1..m : s[a + i] = t[b + i],
         Alike(Index(s)[a], Index(t)[b])
  PROVE  \A i \in 0..m : Alike(Index(s)[a + i], Index(t)[b + i])
<1> DEFINE D == {i \in 0..m : Alike(Index(s)[a + i], Index(t)[b + i])}
<1>0. Walk(Index(s), s) /\ Walk(Index(t), t) /\ Len(s) \in Nat /\ Len(t) \in Nat
  BY IndexIs
<1>1. 0 \in D
  <2>1. a + 0 = a /\ b + 0 = b
    OBVIOUS
  <2> QED BY <2>1
<1>2. ASSUME NEW i \in 0..m, i < m, i \in D PROVE i + 1 \in D
  <2>1. /\ i + 1 \in 1..m /\ i + 1 \in 0..m
        /\ a + (i + 1) \in 1..Len(s) /\ b + (i + 1) \in 1..Len(t)
        /\ (a + (i + 1)) - 1 = a + i /\ (b + (i + 1)) - 1 = b + i
        /\ a + i \in 0..Len(s) /\ b + i \in 0..Len(t)
    BY <1>0, <1>2
  <2>2. /\ Index(s)[a + (i + 1)] = IndexLine(Index(s)[a + i], s[a + (i + 1)])
        /\ Index(t)[b + (i + 1)] = IndexLine(Index(t)[b + i], t[b + (i + 1)])
    BY <1>0, <2>1 DEF Walk
  <2>3. Index(s)[a + i] \in Cursor /\ Index(t)[b + i] \in Cursor
    BY <1>0, <2>1 DEF Walk
  <2>4. s[a + (i + 1)] = t[b + (i + 1)] /\ s[a + (i + 1)] \in Line
    <3>1. s[a + (i + 1)] \in Line
      BY <2>1
    <3> QED BY <2>1, <3>1
  <2>5. Alike(Index(s)[a + i], Index(t)[b + i])
    BY <1>2
  <2>6. Alike(Index(s)[a + (i + 1)], Index(t)[b + (i + 1)])
    BY <2>2, <2>3, <2>4, <2>5, StaysAlike
  <2> QED BY <2>1, <2>6
<1> HIDE DEF D
<1>3. \A i \in 0..m : i \in D
  BY <1>1, <1>2, UpTo
<1> QED BY <1>3 DEF D

(* The entry that begins at line n of section X: the editor stays in it up *)
(* to its last line.                                                       *)
LEMMA EntryIs ==
  ASSUME NEW f \in Seq(Line), NEW X, NEW n \in Entries(f, X)
  PROVE  /\ n \in 1..Len(f) /\ Index(f)[n - 1].depth = 0 /\ Assigns(f[n]) /\ Index(f)[n].section = X
         /\ Index(f)[n - 1].section = X
         /\ EndOf(f, n) \in n..Len(f)
         /\ \A j \in n..(EndOf(f, n) - 1) : Index(f)[j].depth # 0
         /\ \A j \in n..EndOf(f, n) : Index(f)[j].section = X /\ Index(f)[j].key = f[n].key
         /\ Index(f)[EndOf(f, n)].depth = 0 \/ EndOf(f, n) = Len(f)
<1>0. Walk(Index(f), f) /\ Len(f) \in Nat /\ DOMAIN f = 1..Len(f)
  BY IndexIs
<1>a. Len(f) \in Int
  OBVIOUS
<1>1. n \in 1..Len(f) /\ Index(f)[n - 1].depth = 0 /\ Assigns(f[n]) /\ Index(f)[n].section = X
  BY <1>0 DEF Entries
<1>2. n - 1 \in 0..Len(f) /\ f[n] \in Line
  BY <1>0, <1>1
<1>3. Index(f)[n] = IndexLine(Index(f)[n - 1], f[n]) /\ Index(f)[n - 1] \in Cursor
  BY <1>0, <1>1, <1>2 DEF Walk
<1>4. Index(f)[n].section = Index(f)[n - 1].section /\ Index(f)[n].key = f[n].key
  BY <1>1, <1>2, <1>3, CursorMoves
<1> DEFINE E(m) == /\ Index(f)[m].depth = 0 \/ m = Len(f)
                   /\ \A j \in n..(m - 1) : Index(f)[j].depth # 0
           M == {m \in n..Len(f) : Index(f)[m].depth = 0 \/ m = Len(f)}
           e == CHOOSE m \in n..Len(f) : E(m)
<1>5. \E m \in n..Len(f) : E(m)
  <2>1. M \in SUBSET Nat /\ M # {}
    <3>1. Len(f) \in M
      BY <1>0, <1>1
    <3> QED BY <1>1, <3>1
  <2>2. PICK m \in M : \A j \in M : m <= j
    <3> HIDE DEF M
    <3> QED BY <2>1, LeastIsThere
  <2>3. m \in n..Len(f) /\ m \in Nat /\ n \in Nat
    BY <1>1, <2>2
  <2>4. ASSUME NEW j \in n..(m - 1) PROVE Index(f)[j].depth # 0
    <3>a. m <= Len(f) /\ m \in Int
      BY <2>3
    <3>b. j \in Int /\ n <= j /\ j <= m - 1
      BY <2>3
    <3>0. m <= Len(f) /\ j \in Int /\ n <= j /\ j <= m - 1 /\ Len(f) \in Int /\ m \in Int
      BY <3>a, <3>b, <1>a
    <3>1. j \in n..Len(f) /\ ~(m <= j)
      BY <3>0
    <3> QED BY <2>2, <3>1
  <2>5. E(m)
    BY <2>2, <2>4
  <2> QED BY <2>3, <2>5
<1>6. e \in n..Len(f) /\ E(e)
  <2> HIDE DEF E
  <2> QED BY <1>5
<1>7. EndOf(f, n) = e
  BY DEF EndOf
<1> HIDE DEF e
<1> DEFINE D == {i \in 0..(e - n) : Index(f)[n + i].section = X /\ Index(f)[n + i].key = f[n].key}
<1>8. e - n \in Nat
  BY <1>1, <1>6
<1>9. 0 \in D
  <2>1. n + 0 = n
    BY <1>1
  <2> QED BY <2>1, <1>1, <1>4, <1>8
<1>10. ASSUME NEW i \in 0..(e - n), i < e - n, i \in D PROVE i + 1 \in D
  <2>a. n \in Int /\ 1 <= n
    BY <1>1
  <2>b. e \in Int /\ e <= Len(f)
    BY <1>6, <2>a, <1>a
  <2>c. i \in Int /\ 0 <= i
    OBVIOUS
  <2>d. i < e - n
    BY <1>10
  <2>0. n \in Int /\ 1 <= n /\ e \in Int /\ e <= Len(f) /\ Len(f) \in Int /\ i \in Int /\ 0 <= i /\ i < e - n
    BY <1>0, <2>a, <2>b, <2>c, <2>d
  <2>1. /\ n + (i + 1) \in 1..Len(f) /\ (n + (i + 1)) - 1 = n + i /\ n + i \in n..(e - 1)
        /\ n + i \in 0..Len(f) /\ i + 1 \in 0..(e - n)
    BY <2>0
  <2>2. Index(f)[n + (i + 1)] = IndexLine(Index(f)[n + i], f[n + (i + 1)])
    BY <1>0, <2>1 DEF Walk
  <2>3. Index(f)[n + i] \in Cursor /\ f[n + (i + 1)] \in Line
    BY <1>0, <2>1 DEF Walk
  <2>4. Index(f)[n + i].depth # 0
    BY <1>6, <2>1
  <2>5. Index(f)[n + (i + 1)].section = Index(f)[n + i].section
        /\ Index(f)[n + (i + 1)].key = Index(f)[n + i].key
    BY <2>2, <2>3, <2>4, CursorMoves
  <2> QED BY <2>1, <2>5, <1>10
<1>11. \A i \in 0..(e - n) : i \in D
  <2> HIDE DEF D
  <2> QED BY <1>8, <1>9, <1>10, UpTo
<1>12. ASSUME NEW j \in n..e PROVE Index(f)[j].section = X /\ Index(f)[j].key = f[n].key
  <2>1. j - n \in 0..(e - n) /\ n + (j - n) = j
    BY <1>1, <1>6
  <2>2. j - n \in D
    BY <1>11, <2>1
  <2> QED BY <2>1, <2>2
<1> QED BY <1>1, <1>3, <1>4, <1>6, <1>7, <1>12

(* An entry of a section that is not unterminated ends where its brackets *)
(* balance.                                                               *)
LEMMA EntryCloses ==
  ASSUME NEW f \in Seq(Line), NEW X, NEW n \in Entries(f, X), ~Unterminated(f, X)
  PROVE  Index(f)[EndOf(f, n)].depth = 0
<1> SUFFICES ASSUME Index(f)[EndOf(f, n)].depth # 0 PROVE FALSE
  OBVIOUS
<1>1. EndOf(f, n) = Len(f) /\ EndOf(f, n) \in n..Len(f) /\ n \in 1..Len(f)
  BY EntryIs
<1>2. EndOf(f, n) \in n..EndOf(f, n)
  BY <1>1
<1>3. Index(f)[Len(f)].section = X
  BY <1>1, <1>2, EntryIs
<1> QED BY <1>1, <1>3 DEF Unterminated, Balanced

(* No line is inside an entry and outside every entry: a line at which the *)
(* editor is in no value is not passed by an entry that begins before it.  *)
LEMMA EntryStops ==
  ASSUME NEW f \in Seq(Line), NEW X, NEW n \in Entries(f, X), NEW m \in Nat,
         n <= m, m <= Len(f), Index(f)[m].depth = 0
  PROVE  EndOf(f, n) <= m
<1>1. /\ EndOf(f, n) \in n..Len(f) /\ n \in 1..Len(f)
      /\ \A j \in n..(EndOf(f, n) - 1) : Index(f)[j].depth # 0
  BY EntryIs
<1> SUFFICES ASSUME m < EndOf(f, n) PROVE FALSE
  BY <1>1
<1>2. m \in n..(EndOf(f, n) - 1)
  BY <1>1
<1> QED BY <1>1, <1>2

(* A block: the lines of one entry, wherever they are written.             *)
Depths(d, W) ==
  d \in [0..Len(W) -> Int] /\ d[0] = 0 /\ \A i \in 1..Len(W) : d[i] = d[i - 1] + Delta(W[i])
IsBlock(W, k) ==
  /\ W \in Seq(Line) /\ Len(W) >= 1 /\ Assigns(W[1]) /\ W[1].key = k
  /\ \E d : Depths(d, W) /\ d[Len(W)] = 0 /\ \A i \in 1..(Len(W) - 1) : d[i] # 0

(* Over a block the editor is in the entry of its key, and in no value    *)
(* after it.                                                              *)
LEMMA BlockRuns ==
  ASSUME NEW W, NEW k, IsBlock(W, k), NEW f \in Seq(Line), NEW p \in Nat, p + Len(W) <= Len(f),
         \A i \in 1..Len(W) : f[p + i] = W[i], Index(f)[p].depth = 0
  PROVE  \A i \in 1..Len(W) : /\ Index(f)[p + i].section = Index(f)[p].section
                              /\ Index(f)[p + i].key = k
                              /\ Index(f)[p + i].depth = 0 <=> i = Len(W)
<1>0. W \in Seq(Line) /\ Len(W) \in Nat /\ Len(W) >= 1 /\ Assigns(W[1]) /\ W[1].key = k
  BY DEF IsBlock
<1>1. PICK d : Depths(d, W) /\ d[Len(W)] = 0 /\ \A i \in 1..(Len(W) - 1) : d[i] # 0
  BY DEF IsBlock
<1>2. d \in [0..Len(W) -> Int] /\ d[0] = 0 /\ \A i \in 1..Len(W) : d[i] = d[i - 1] + Delta(W[i])
  BY <1>1 DEF Depths
<1>3. Walk(Index(f), f) /\ Len(f) \in Nat
  BY IndexIs
<1> DEFINE N == Len(W) - 1
           D == {i \in 0..N : /\ Index(f)[p + (i + 1)].section = Index(f)[p].section
                              /\ Index(f)[p + (i + 1)].key = k
                              /\ Index(f)[p + (i + 1)].depth = d[i + 1]}
<1>4. N \in Nat
  BY <1>0
<1>5. ASSUME NEW i \in 0..N
      PROVE  /\ i + 1 \in 1..Len(W) /\ p + (i + 1) \in 1..Len(f) /\ (p + (i + 1)) - 1 = p + i
             /\ p + i \in 0..Len(f) /\ (i + 1) - 1 = i
             /\ Index(f)[p + (i + 1)] = IndexLine(Index(f)[p + i], W[i + 1])
             /\ Index(f)[p + i] \in Cursor /\ W[i + 1] \in Line
             /\ d[i + 1] = d[i] + Delta(W[i + 1])
  <2>1. /\ i + 1 \in 1..Len(W) /\ p + (i + 1) \in 1..Len(f) /\ (p + (i + 1)) - 1 = p + i
        /\ p + i \in 0..Len(f) /\ (i + 1) - 1 = i
    <3>1. i \in Int /\ 0 <= i /\ i <= Len(W) - 1 /\ Len(W) \in Int /\ Len(f) \in Int /\ p \in Int /\ 0 <= p
      BY <1>0, <1>3
    <3>2. p + Len(W) <= Len(f)
      OBVIOUS
    <3> QED BY <3>1, <3>2
  <2>2. f[p + (i + 1)] = W[i + 1] /\ W[i + 1] \in Line
    <3>1. f[p + (i + 1)] = W[i + 1]
      BY <2>1
    <3>2. W[i + 1] \in Line
      BY <2>1, <1>0
    <3> QED BY <3>1, <3>2
  <2>3. d[i + 1] = d[i] + Delta(W[i + 1])
    BY <1>2, <2>1
  <2>4. Index(f)[p + (i + 1)] = IndexLine(Index(f)[p + i], W[i + 1]) /\ Index(f)[p + i] \in Cursor
    BY <1>3, <2>1, <2>2 DEF Walk
  <2> QED BY <2>1, <2>2, <2>3, <2>4
<1>6. 0 \in D
  <2>1. 0 \in 0..N /\ p + 0 = p /\ 0 + 1 = 1
    BY <1>4
  <2>2. /\ Index(f)[p + 1] = IndexLine(Index(f)[p], W[1]) /\ Index(f)[p] \in Cursor /\ W[1] \in Line
        /\ d[1] = d[0] + Delta(W[1])
    BY <1>5, <2>1
  <2>3. Delta(W[1]) \in Int
    BY DeltaIsTyped
  <2>4. /\ Index(f)[p + 1].section = Index(f)[p].section /\ Index(f)[p + 1].key = k
        /\ Index(f)[p + 1].depth = Delta(W[1])
    <3>1. PICK c : c = Index(f)[p]
      OBVIOUS
    <3>2. c \in Cursor /\ c.depth = 0 /\ W[1] \in Line /\ Assigns(W[1]) /\ Index(f)[p + 1] = IndexLine(c, W[1])
      BY <1>0, <2>2, <3>1
    <3>3. /\ IndexLine(c, W[1]).section = c.section /\ IndexLine(c, W[1]).key = W[1].key
          /\ IndexLine(c, W[1]).depth = Delta(W[1])
      BY <3>2, CursorMoves
    <3> QED BY <1>0, <3>1, <3>2, <3>3
  <2> QED BY <1>2, <2>1, <2>2, <2>3, <2>4
<1>7. ASSUME NEW i \in 0..N, i < N, i \in D PROVE i + 1 \in D
  <2>1. i + 1 \in 0..N /\ i + 1 \in 1..(Len(W) - 1)
    BY <1>4, <1>7
  <2>2. /\ Index(f)[p + ((i + 1) + 1)] = IndexLine(Index(f)[p + (i + 1)], W[(i + 1) + 1])
        /\ Index(f)[p + (i + 1)] \in Cursor /\ W[(i + 1) + 1] \in Line
        /\ d[(i + 1) + 1] = d[i + 1] + Delta(W[(i + 1) + 1])
    BY <1>5, <2>1
  <2>3. Index(f)[p + (i + 1)].depth = d[i + 1] /\ d[i + 1] # 0
    BY <1>1, <1>7, <2>1
  <2>4. /\ Index(f)[p + ((i + 1) + 1)].section = Index(f)[p + (i + 1)].section
        /\ Index(f)[p + ((i + 1) + 1)].key = Index(f)[p + (i + 1)].key
        /\ Index(f)[p + ((i + 1) + 1)].depth = d[(i + 1) + 1]
    <3>1. PICK c : c = Index(f)[p + (i + 1)]
      OBVIOUS
    <3>2. PICK w : w = W[(i + 1) + 1]
      OBVIOUS
    <3>3. c \in Cursor /\ c.depth # 0 /\ w \in Line /\ Index(f)[p + ((i + 1) + 1)] = IndexLine(c, w)
      BY <2>2, <2>3, <3>1, <3>2
    <3>4. /\ IndexLine(c, w).section = c.section /\ IndexLine(c, w).key = c.key
          /\ IndexLine(c, w).depth = c.depth + Delta(w)
      BY <3>3, CursorMoves
    <3> QED BY <2>2, <2>3, <3>1, <3>2, <3>3, <3>4
  <2> QED BY <2>1, <2>4, <1>7
<1> HIDE DEF D
<1>8. \A i \in 0..N : i \in D
  BY <1>4, <1>6, <1>7, UpTo
<1> SUFFICES ASSUME NEW i \in 1..Len(W)
             PROVE  /\ Index(f)[p + i].section = Index(f)[p].section
                    /\ Index(f)[p + i].key = k
                    /\ Index(f)[p + i].depth = 0 <=> i = Len(W)
  OBVIOUS
<1>9. i - 1 \in 0..N /\ (i - 1) + 1 = i
  BY <1>0
<1>10. Index(f)[p + i].section = Index(f)[p].section /\ Index(f)[p + i].key = k /\ Index(f)[p + i].depth = d[i]
  <2>1. i - 1 \in D
    BY <1>8, <1>9
  <2> QED BY <1>9, <2>1 DEF D
<1>11. i = Len(W) \/ i \in 1..(Len(W) - 1)
  BY <1>0
<1> QED BY <1>1, <1>10, <1>11

(* The values the planner writes: on one line, or a literal whose brackets *)
(* balance with its last line and not before.                              *)
Written(value) == value \in Values /\ \A j \in DOMAIN value.body : value.body[j].ended
Writable(value) ==
  /\ Written(value)
  /\ value.body # <<>> => ValidLiteral(value.body) /\ \A j \in DOMAIN value.body : value.body[j].kind # "string"

(* The lines of an emitted entry.                                         *)
LEMMA EmitLines ==
  ASSUME NEW k \in Nat, NEW value \in Values
  PROVE  /\ Emit(k, value) \in Seq(Line) /\ Len(Emit(k, value)) = 1 + Len(value.body)
         /\ Emit(k, value)[1].kind = (IF value.body = <<>> THEN "entry" ELSE "open")
         /\ Emit(k, value)[1].key = k /\ Assigns(Emit(k, value)[1]) /\ Emit(k, value)[1].ended
         /\ Emit(k, value)[1].star = value.star /\ Emit(k, value)[1].text = value.text
         /\ \A i \in 1..Len(value.body) : Emit(k, value)[i + 1] = value.body[i]
         /\ Written(value) => \A i \in 1..Len(Emit(k, value)) : Emit(k, value)[i].ended
<1> DEFINE kind == IF value.body = <<>> THEN "entry" ELSE "open"
           first == [kind |-> kind, section |-> NoSection, key |-> k, star |-> value.star,
                     text |-> value.text, ended |-> TRUE]
<1>1. value.star \in BOOLEAN /\ value.text \in Texts /\ value.body \in Seq(Line)
  BY DEF Values
<1>2. NoSection \in Texts
  BY TextsAssumption DEF NoSection
<1>3. kind \in LineKind
  BY DEF LineKind
<1> HIDE DEF kind
<1>4. first \in Line
  BY <1>1, <1>2, <1>3 DEF Line
<1>5. Emit(k, value) = <<first>> \o value.body
  BY DEF Emit, kind
<1>6. first.kind = kind /\ first.key = k /\ first.ended /\ first.star = value.star /\ first.text = value.text
  OBVIOUS
<1>7. Assigns(first)
  BY <1>6 DEF Assigns, kind
<1> HIDE DEF first
<1>8. <<first>> \in Seq(Line) /\ Len(<<first>>) = 1 /\ <<first>>[1] = first
  BY <1>4
<1>9. PICK a : a = <<first>>
  OBVIOUS
<1>10. /\ a \o value.body \in Seq(Line) /\ Len(a \o value.body) = Len(a) + Len(value.body)
       /\ \A i \in 1..(Len(a) + Len(value.body)) :
            (a \o value.body)[i] = IF i <= Len(a) THEN a[i] ELSE value.body[i - Len(a)]
  BY <1>1, <1>8, <1>9, ConcatProperties
<1>11. Len(value.body) \in Nat
  BY <1>1
<1>12. Emit(k, value) \in Seq(Line) /\ Len(Emit(k, value)) = 1 + Len(value.body) /\ Emit(k, value)[1] = first
  BY <1>5, <1>8, <1>9, <1>10, <1>11
<1>13. ASSUME NEW i \in 1..Len(value.body) PROVE Emit(k, value)[i + 1] = value.body[i]
  <2>1. i + 1 \in 1..(Len(a) + Len(value.body)) /\ ~(i + 1 <= Len(a)) /\ (i + 1) - Len(a) = i
    BY <1>8, <1>9, <1>11
  <2> QED BY <2>1, <1>5, <1>9, <1>10
<1>14. ASSUME Written(value), NEW i \in 1..Len(Emit(k, value)) PROVE Emit(k, value)[i].ended
  <2>1. CASE i = 1
    BY <2>1, <1>6, <1>12
  <2>2. CASE i # 1
    <3>1. PICK j : j = i - 1
      OBVIOUS
    <3>2. j \in 1..Len(value.body) /\ j + 1 = i
      BY <2>2, <3>1, <1>11, <1>12
    <3>3. Emit(k, value)[i] = value.body[j]
      BY <3>2, <1>13
    <3>4. j \in DOMAIN value.body
      BY <3>2, <1>1
    <3> QED BY <3>3, <3>4, <1>14 DEF Written
  <2> QED BY <2>1, <2>2
<1> QED BY <1>6, <1>7, <1>12, <1>13, <1>14 DEF kind

(* How the brackets of a literal that was validated run.                  *)
LEMMA ValidIs ==
  ASSUME NEW body \in Seq(Line), ValidLiteral(body), \A j \in DOMAIN body : body[j].kind # "string"
  PROVE  \E open : /\ open[0] = 1 /\ open[Len(body)] = 0
                   /\ \A n \in 1..Len(body) : open[n] = open[n - 1] + Delta(body[n])
                   /\ \A n \in 0..(Len(body) - 1) : open[n] > 0
                   /\ open \in [0..Len(body) -> Int]
<1> DEFINE step == [n \in 1..Len(body) |-> [c \in Int |-> c + (IF body[n].kind = "string" THEN 0 ELSE Delta(body[n]))]]
           Right(f) == f = [n \in 0..Len(body) |->
                              IF n = 0 THEN 1
                              ELSE f[n - 1] + (IF body[n].kind = "string" THEN 0 ELSE Delta(body[n]))]
           F == CHOOSE f : Right(f)
<1>0. Len(body) \in Nat /\ \A n \in 1..Len(body) : Delta(body[n]) \in Int /\ body[n].kind # "string"
  BY DeltaIsTyped
<1>1. step \in [1..Len(body) -> [Int -> Int]]
  <2>1. ASSUME NEW n \in 1..Len(body), NEW c \in Int
        PROVE c + (IF body[n].kind = "string" THEN 0 ELSE Delta(body[n])) \in Int
    BY <1>0
  <2> QED BY <2>1
<1>2. 1 \in Int
  OBVIOUS
<1>3. PICK g : Table(g, Len(body), Int, 1, step)
  <2> HIDE DEF step
  <2> QED BY <1>0, <1>1, <1>2, TableIsThere
<1>4. g \in [0..Len(body) -> Int] /\ g[0] = 1 /\ \A n \in 1..Len(body) : g[n] = step[n][g[n - 1]]
  <2> HIDE DEF step
  <2> QED BY <1>3 DEF Table
<1>5. Right(g)
  <2>1. ASSUME NEW n \in 0..Len(body)
        PROVE  g[n] = IF n = 0 THEN 1
                      ELSE g[n - 1] + (IF body[n].kind = "string" THEN 0 ELSE Delta(body[n]))
    <3>1. CASE n = 0
      BY <3>1, <1>4
    <3>2. CASE n # 0
      <4>1. n \in 1..Len(body) /\ n - 1 \in 0..Len(body)
        BY <3>2, <1>0
      <4>2. g[n] = step[n][g[n - 1]] /\ g[n - 1] \in Int
        <5> HIDE DEF step
        <5> QED BY <4>1, <1>4
      <4> QED BY <3>2, <4>1, <4>2
    <3> QED BY <3>1, <3>2
  <2>2. g = [n \in 0..Len(body) |-> g[n]]
    BY <1>4
  <2> QED BY <2>1, <2>2
<1>6. Right(F)
  BY <1>5
<1>7. F[Len(body)] = 0 /\ \A n \in 0..(Len(body) - 1) : F[n] > 0
  BY DEF ValidLiteral
<1> HIDE DEF F, step
<1>8. F[0] = 1
  BY <1>6, <1>0
<1>9. ASSUME NEW n \in 1..Len(body) PROVE F[n] = F[n - 1] + Delta(body[n])
  <2>1. n \in 0..Len(body) /\ n # 0
    BY <1>0
  <2> QED BY <2>1, <1>0, <1>6
<1>10. DOMAIN F = 0..Len(body) /\ F = [n \in DOMAIN F |-> F[n]]
  BY <1>6
<1> HIDE DEF Right
<1> DEFINE D == {n \in 0..Len(body) : F[n] \in Int}
<1>11. 0 \in D
  BY <1>0, <1>8
<1>12. ASSUME NEW n \in 0..Len(body), n < Len(body), n \in D PROVE n + 1 \in D
  <2>1. n + 1 \in 1..Len(body) /\ (n + 1) - 1 = n /\ n + 1 \in 0..Len(body)
    BY <1>12, <1>0
  <2>2. F[n + 1] = F[n] + Delta(body[n + 1]) /\ Delta(body[n + 1]) \in Int
    BY <2>1, <1>9, <1>0
  <2> QED BY <2>1, <2>2, <1>12
<1>13. \A n \in 0..Len(body) : n \in D
  <2> HIDE DEF D
  <2> QED BY <1>0, <1>11, <1>12, UpTo
<1>14. F \in [0..Len(body) -> Int]
  BY <1>10, <1>13
<1> QED BY <1>7, <1>8, <1>9, <1>14

(* What the planner may write is a block.                                 *)
LEMMA EmitIsBlock ==
  ASSUME NEW k \in Nat, NEW value, Writable(value)
  PROVE  IsBlock(Emit(k, value), k)
<1>0. value \in Values /\ value.body \in Seq(Line) /\ Len(value.body) \in Nat
  BY DEF Writable, Written, Values
<1>1. PICK W : W = Emit(k, value)
  OBVIOUS
<1>2. /\ W \in Seq(Line) /\ Len(W) = 1 + Len(value.body) /\ Assigns(W[1]) /\ W[1].key = k
      /\ W[1].kind = (IF value.body = <<>> THEN "entry" ELSE "open")
      /\ \A i \in 1..Len(value.body) : W[i + 1] = value.body[i]
  BY <1>0, <1>1, EmitLines, SMTT(30)
<1>3. CASE value.body = <<>>
  <2>1. Len(value.body) = 0 /\ Len(W) = 1 /\ Delta(W[1]) = 0
    BY <1>2, <1>3 DEF Delta
  <2> DEFINE d == [i \in 0..1 |-> 0]
  <2>2. Depths(d, W) /\ d[Len(W)] = 0 /\ \A i \in 1..(Len(W) - 1) : d[i] # 0
    BY <2>1 DEF Depths
  <2> HIDE DEF d
  <2> QED BY <1>1, <1>2, <2>1, <2>2 DEF IsBlock
<1>4. CASE value.body # <<>>
  <2>1. PICK open : /\ open[0] = 1 /\ open[Len(value.body)] = 0
                    /\ \A n \in 1..Len(value.body) : open[n] = open[n - 1] + Delta(value.body[n])
                    /\ \A n \in 0..(Len(value.body) - 1) : open[n] > 0
                    /\ open \in [0..Len(value.body) -> Int]
    BY <1>0, <1>4, ValidIs DEF Writable
  <2> DEFINE d == [i \in 0..Len(W) |-> IF i = 0 THEN 0 ELSE open[i - 1]]
  <2>2. Delta(W[1]) = 1
    BY <1>2, <1>4 DEF Delta
  <2>3. ASSUME NEW i \in 1..Len(W)
        PROVE  i \in 0..Len(W) /\ i # 0 /\ d[i] = open[i - 1] /\ i - 1 \in 0..Len(value.body)
    BY <1>0, <1>2
  <2>4. d[0] = 0
    BY <1>0, <1>2
  <2>5. d \in [0..Len(W) -> Int]
    <3>1. ASSUME NEW i \in 0..Len(W) PROVE (IF i = 0 THEN 0 ELSE open[i - 1]) \in Int
      <4>1. i = 0 \/ i - 1 \in 0..Len(value.body)
        BY <1>0, <1>2
      <4> QED BY <4>1, <2>1
    <3> QED BY <3>1
  <2> HIDE DEF d
  <2>6. ASSUME NEW i \in 1..Len(W) PROVE d[i] = d[i - 1] + Delta(W[i])
    <3>1. CASE i = 1
      <4>1. i - 1 = 0
        BY <3>1
      <4>2. d[i] = 1
        BY <4>1, <2>3, <2>1
      <4> QED BY <4>1, <4>2, <2>4, <2>2, <3>1
    <3>2. CASE i # 1
      <4>1. i - 1 \in 1..Len(W) /\ i - 1 \in 1..Len(value.body) /\ (i - 1) + 1 = i
        BY <3>2, <1>0, <1>2
      <4>2. d[i] = open[i - 1] /\ d[i - 1] = open[(i - 1) - 1]
        BY <2>3, <4>1
      <4>3. open[i - 1] = open[(i - 1) - 1] + Delta(value.body[i - 1])
        BY <2>1, <4>1
      <4>4. W[i] = value.body[i - 1]
        BY <1>2, <4>1
      <4> QED BY <4>2, <4>3, <4>4
    <3> QED BY <3>1, <3>2
  <2>7. Depths(d, W)
    BY <2>4, <2>5, <2>6 DEF Depths
  <2>8. d[Len(W)] = 0
    <3>1. Len(W) \in 1..Len(W) /\ Len(W) - 1 = Len(value.body)
      BY <1>0, <1>2
    <3> QED BY <3>1, <2>3, <2>1
  <2>9. ASSUME NEW i \in 1..(Len(W) - 1) PROVE d[i] # 0
    <3>1. i \in 1..Len(W) /\ i - 1 \in 0..(Len(value.body) - 1)
      BY <1>0, <1>2
    <3>2. d[i] = open[i - 1] /\ open[i - 1] > 0
      BY <3>1, <2>3, <2>1
    <3> QED BY <3>2
  <2>10. Len(W) >= 1
    BY <1>0, <1>2
  <2> QED BY <1>1, <1>2, <2>7, <2>8, <2>9, <2>10 DEF IsBlock
<1> QED BY <1>3, <1>4

-----------------------------------------------------------------------------
(* Swaps of lines, and what they leave as it was.                          *)

\* The elements a+1..c of s are the elements b+1..d of t.
Copies(s, a, c, t, b, d) ==
  /\ a \in Nat /\ b \in Nat /\ c \in Nat /\ d \in Nat
  /\ a <= c /\ c <= Len(s) /\ d <= Len(t) /\ c - a = d - b
  /\ \A i \in 1..(c - a) : s[a + i] = t[b + i]
Both(at, a, c, bt, b) == \A i \in 1..(c - a) : a + i \in at <=> b + i \in bt
Skips(at, a, c) == \A i \in 1..(c - a) : a + i \notin at

(* Two tables of Where that agree somewhere agree after the same          *)
(* elements.                                                              *)
LEMMA SiftsOn ==
  ASSUME NEW T, NEW s \in Seq(T), NEW t \in Seq(T), NEW at, NEW bt, NEW f, NEW g,
         Sifts(f, s, at), Sifts(g, t, bt), NEW a, NEW b, NEW c, NEW d,
         Copies(s, a, c, t, b, d), Both(at, a, c, bt, b), f[a] = g[b]
  PROVE  f[c] = g[d]
<1>m. PICK m : m = c - a
  OBVIOUS
<1>n. /\ m \in Nat /\ a + m = c /\ b + m = d /\ a + m <= Len(s) /\ b + m <= Len(t)
      /\ a \in Nat /\ b \in Nat
  BY <1>m DEF Copies
<1>o. \A i \in 1..m : s[a + i] = t[b + i] /\ (a + i \in at <=> b + i \in bt)
  BY <1>m DEF Copies, Both
<1> DEFINE D == {i \in 0..m : f[a + i] = g[b + i]}
<1>0. Len(s) \in Nat /\ Len(t) \in Nat
  OBVIOUS
<1>1. \A n \in 0..Len(s) : f[n] = IF n = 0 THEN <<>> ELSE IF n \in at THEN Append(f[n - 1], s[n]) ELSE f[n - 1]
  BY DEF Sifts
<1>2. \A n \in 0..Len(t) : g[n] = IF n = 0 THEN <<>> ELSE IF n \in bt THEN Append(g[n - 1], t[n]) ELSE g[n - 1]
  BY DEF Sifts
<1>3. 0 \in D
  <2>1. a + 0 = a /\ b + 0 = b /\ 0 \in 0..m
    BY <1>n
  <2> QED BY <2>1
<1>4. ASSUME NEW i \in 0..m, i < m, i \in D PROVE i + 1 \in D
  <2>1. /\ i + 1 \in 1..m /\ i + 1 \in 0..m
        /\ a + (i + 1) \in 0..Len(s) /\ (a + (i + 1)) - 1 = a + i /\ a + (i + 1) # 0
        /\ b + (i + 1) \in 0..Len(t) /\ (b + (i + 1)) - 1 = b + i /\ b + (i + 1) # 0
    BY <1>4, <1>0, <1>n
  <2>2. f[a + (i + 1)] = IF a + (i + 1) \in at THEN Append(f[a + i], s[a + (i + 1)]) ELSE f[a + i]
    BY <2>1, <1>1
  <2>3. g[b + (i + 1)] = IF b + (i + 1) \in bt THEN Append(g[b + i], t[b + (i + 1)]) ELSE g[b + i]
    BY <2>1, <1>2
  <2>4. s[a + (i + 1)] = t[b + (i + 1)] /\ (a + (i + 1) \in at <=> b + (i + 1) \in bt)
    BY <2>1, <1>o
  <2>5. f[a + i] = g[b + i]
    BY <1>4
  <2>6. f[a + (i + 1)] = g[b + (i + 1)]
    BY <2>2, <2>3, <2>4, <2>5, Zenon
  <2> QED BY <2>1, <2>6
<1> HIDE DEF D
<1>5. \A i \in 0..m : i \in D
  BY <1>3, <1>4, <1>n, UpTo
<1>6. m \in D
  BY <1>5, <1>n
<1> QED BY <1>6, <1>n DEF D

(* Where keeps nothing over positions that are skipped.                   *)
LEMMA SiftsStill ==
  ASSUME NEW T, NEW s \in Seq(T), NEW at, NEW f, Sifts(f, s, at), NEW a \in Nat, NEW c \in Nat,
         a <= c, c <= Len(s), Skips(at, a, c)
  PROVE  f[c] = f[a]
<1>m. PICK m : m = c - a
  OBVIOUS
<1>n. m \in Nat /\ a + m = c /\ a + m <= Len(s)
  BY <1>m
<1>o. \A i \in 1..m : a + i \notin at
  BY <1>m DEF Skips
<1> DEFINE D == {i \in 0..m : f[a + i] = f[a]}
<1>0. Len(s) \in Nat
  OBVIOUS
<1>1. \A n \in 0..Len(s) : f[n] = IF n = 0 THEN <<>> ELSE IF n \in at THEN Append(f[n - 1], s[n]) ELSE f[n - 1]
  BY DEF Sifts
<1>3. 0 \in D
  <2>1. a + 0 = a /\ 0 \in 0..m
    BY <1>n
  <2> QED BY <2>1
<1>4. ASSUME NEW i \in 0..m, i < m, i \in D PROVE i + 1 \in D
  <2>1. /\ i + 1 \in 1..m /\ i + 1 \in 0..m
        /\ a + (i + 1) \in 0..Len(s) /\ (a + (i + 1)) - 1 = a + i /\ a + (i + 1) # 0
    BY <1>4, <1>0, <1>n
  <2>2. f[a + (i + 1)] = IF a + (i + 1) \in at THEN Append(f[a + i], s[a + (i + 1)]) ELSE f[a + i]
    BY <2>1, <1>1
  <2>3. a + (i + 1) \notin at
    BY <2>1, <1>o
  <2> QED BY <2>1, <2>2, <2>3, <1>4
<1> HIDE DEF D
<1>5. \A i \in 0..m : i \in D
  BY <1>3, <1>4, <1>n, UpTo
<1>6. m \in D
  BY <1>5, <1>n
<1> QED BY <1>6, <1>n DEF D

(* g is s with the elements p+1..e taken out and W put in their place.     *)
Swap(g, s, p, e, W) ==
  /\ Len(g) = p + Len(W) + (Len(s) - e)
  /\ \A i \in 1..p : g[i] = s[i]
  /\ \A i \in 1..Len(W) : g[p + i] = W[i]
  /\ \A i \in 1..(Len(s) - e) : g[p + Len(W) + i] = s[e + i]

(* A swap by concatenation is a swap.                                     *)
LEMMA SwapIs ==
  ASSUME NEW T, NEW s \in Seq(T), NEW W \in Seq(T), NEW p \in Nat, NEW e \in Nat, p <= e, e <= Len(s)
  PROVE  /\ SubSeq(s, 1, p) \o W \o SubSeq(s, e + 1, Len(s)) \in Seq(T)
         /\ Swap(SubSeq(s, 1, p) \o W \o SubSeq(s, e + 1, Len(s)), s, p, e, W)
<1>0. Len(s) \in Nat /\ Len(W) \in Nat
  OBVIOUS
<1>1. PICK a : a = SubSeq(s, 1, p)
  OBVIOUS
<1>2. PICK b : b = SubSeq(s, e + 1, Len(s))
  OBVIOUS
<1>3. a \in Seq(T) /\ Len(a) = p /\ \A i \in 1..p : a[i] = s[i]
  <2>1. p \in 0..Len(s)
    BY <1>0
  <2> QED BY <1>1, <2>1, FirstOnes
<1>4. b \in Seq(T) /\ Len(b) = Len(s) - e /\ \A i \in 1..(Len(s) - e) : b[i] = s[e + i]
  <2>1. e + 1 \in Int /\ Len(s) \in Int /\ \A i \in (e + 1)..Len(s) : s[i] \in T
    <3>1. ASSUME NEW i \in (e + 1)..Len(s) PROVE s[i] \in T
      <4>1. i \in 1..Len(s)
        BY <1>0
      <4> QED BY <4>1
    <3> QED BY <3>1, <1>0
  <2>2. /\ b \in Seq(T)
        /\ Len(b) = IF e + 1 <= Len(s) THEN Len(s) - (e + 1) + 1 ELSE 0
        /\ \A i \in 1..(Len(s) - (e + 1) + 1) : b[i] = s[(e + 1) + i - 1]
    BY <1>2, <2>1, SubSeqProperties
  <2>3. Len(b) = Len(s) - e
    BY <2>2, <1>0
  <2>4. ASSUME NEW i \in 1..(Len(s) - e) PROVE b[i] = s[e + i]
    <3>1. i \in 1..(Len(s) - (e + 1) + 1) /\ (e + 1) + i - 1 = e + i
      BY <1>0
    <3> QED BY <3>1, <2>2
  <2> QED BY <2>2, <2>3, <2>4
<1>5. PICK c : c = a \o W
  OBVIOUS
<1>6. c \in Seq(T) /\ Len(c) = p + Len(W) /\ \A i \in 1..(p + Len(W)) : c[i] = IF i <= p THEN a[i] ELSE W[i - p]
  BY <1>3, <1>5, ConcatProperties
<1>7. PICK g : g = c \o b
  OBVIOUS
<1>8. /\ g \in Seq(T) /\ Len(g) = (p + Len(W)) + (Len(s) - e)
      /\ \A i \in 1..((p + Len(W)) + (Len(s) - e)) : g[i] = IF i <= p + Len(W) THEN c[i] ELSE b[i - (p + Len(W))]
  <2>0. c \in Seq(T) /\ b \in Seq(T)
    BY <1>4, <1>6
  <2>1. /\ g \in Seq(T) /\ Len(g) = Len(c) + Len(b)
        /\ \A i \in 1..(Len(c) + Len(b)) : g[i] = IF i <= Len(c) THEN c[i] ELSE b[i - Len(c)]
    BY <1>7, <2>0, ConcatProperties
  <2> QED BY <2>1, <1>4, <1>6
<1>9. ASSUME NEW i \in 1..p PROVE g[i] = s[i]
  <2>1. i \in 1..((p + Len(W)) + (Len(s) - e)) /\ i <= p + Len(W) /\ i \in 1..(p + Len(W)) /\ i <= p
    BY <1>0
  <2> QED BY <2>1, <1>3, <1>6, <1>8
<1>10. ASSUME NEW i \in 1..Len(W) PROVE g[p + i] = W[i]
  <2>1. /\ p + i \in 1..((p + Len(W)) + (Len(s) - e)) /\ p + i <= p + Len(W)
        /\ p + i \in 1..(p + Len(W)) /\ ~(p + i <= p) /\ (p + i) - p = i
    BY <1>0
  <2> QED BY <2>1, <1>6, <1>8
<1>11. ASSUME NEW i \in 1..(Len(s) - e) PROVE g[p + Len(W) + i] = s[e + i]
  <2>1. /\ p + Len(W) + i \in 1..((p + Len(W)) + (Len(s) - e)) /\ ~(p + Len(W) + i <= p + Len(W))
        /\ (p + Len(W) + i) - (p + Len(W)) = i
    BY <1>0
  <2> QED BY <2>1, <1>4, <1>8
<1>12. Len(g) = p + Len(W) + (Len(s) - e)
  BY <1>8, <1>0
<1>13. Swap(g, s, p, e, W)
  BY <1>9, <1>10, <1>11, <1>12 DEF Swap
<1> QED BY <1>1, <1>2, <1>5, <1>7, <1>8, <1>13

(* What is kept of s is kept of g when nothing that was swapped is kept.   *)
LEMMA WhereSwap ==
  ASSUME NEW T, NEW s \in Seq(T), NEW g \in Seq(T), NEW W \in Seq(T), NEW p \in Nat, NEW e \in Nat,
         p <= e, e <= Len(s), Swap(g, s, p, e, W), NEW at, NEW bt,
         Both(at, 0, p, bt, 0), Skips(at, p, e), Skips(bt, p, p + Len(W)),
         Both(at, e, Len(s), bt, p + Len(W))
  PROVE  Where(g, bt) = Where(s, at)
<1>0. Len(s) \in Nat /\ Len(g) \in Nat /\ Len(W) \in Nat
  OBVIOUS
<1>1. /\ Len(g) = p + Len(W) + (Len(s) - e) /\ \A i \in 1..p : g[i] = s[i]
      /\ \A i \in 1..(Len(s) - e) : g[p + Len(W) + i] = s[e + i]
  BY DEF Swap
<1>2. PICK x : Sifts(x, s, at) /\ Where(s, at) = x[Len(s)]
  BY WhereIs
<1>3. PICK y : Sifts(y, g, bt) /\ Where(g, bt) = y[Len(g)]
  BY WhereIs
<1>4. y[p] = x[p]
  <2>1. p <= Len(s) /\ p <= Len(g)
    BY <1>0, <1>1
  <2>2. \A n \in 1..p : s[n] = g[n] /\ (n \in at <=> n \in bt)
    <3>1. ASSUME NEW n \in 1..p PROVE n \in at <=> n \in bt
      <4>1. n \in 1..(p - 0) /\ 0 + n = n
        OBVIOUS
      <4> QED BY <4>1 DEF Both
    <3> QED BY <1>1, <3>1
  <2>3. x[p] = y[p]
    BY <1>2, <1>3, <2>1, <2>2, SiftsAgree
  <2> QED BY <2>3
<1>5. x[e] = x[p]
  <2> QED BY <1>2, SiftsStill
<1>6. y[p + Len(W)] = y[p]
  <2>1. p + Len(W) <= Len(g)
    BY <1>0, <1>1
  <2>2. PICK c : c = p + Len(W)
    OBVIOUS
  <2>3. c \in Nat /\ p <= c /\ c <= Len(g) /\ c - p = Len(W)
    BY <1>0, <2>1, <2>2
  <2>5. Skips(bt, p, c)
    BY <2>2
  <2>4. y[c] = y[p]
    BY <1>3, <2>3, <2>5, SiftsStill
  <2> QED BY <2>2, <2>4
<1>7. x[Len(s)] = y[Len(g)]
  <2>1. PICK m : m = Len(s) - e
    OBVIOUS
  <2>2. PICK b : b = p + Len(W)
    OBVIOUS
  <2>3. m \in Nat /\ b \in Nat /\ e + m = Len(s) /\ b + m = Len(g)
    BY <2>1, <2>2, <1>0, <1>1
  <2>4. x[e] = y[b]
    BY <1>4, <1>5, <1>6, <2>2
  <2>5. Copies(s, e, Len(s), g, b, Len(g))
    <3>1. Len(s) - e = m /\ Len(g) - b = m /\ e <= Len(s) /\ Len(g) <= Len(g)
      BY <2>1, <2>3, <1>0
    <3>2. \A i \in 1..(Len(s) - e) : s[e + i] = g[b + i]
      BY <1>1, <2>2
    <3> QED BY <1>0, <2>3, <3>1, <3>2, SMTT(30) DEF Copies
  <2>6. Both(at, e, Len(s), bt, b)
    BY <2>2
  <2>8. x[Len(s)] = y[Len(g)]
    BY <1>2, <1>3, <2>4, <2>5, <2>6, SiftsOn
  <2> QED BY <2>8
<1> QED BY <1>2, <1>3, <1>7

(* Lines that may stand wherever the editor is in no value: the editor     *)
(* stays in its section, is in an entry of a key of K at every line, and   *)
(* in no value afterwards.                                                 *)
Standing(W, f, p) ==
  p + Len(W) <= Len(f) /\ (\A i \in 1..Len(W) : f[p + i] = W[i]) /\ Index(f)[p].depth = 0
Fits(W, K) ==
  /\ W \in Seq(Line)
  /\ \A f \in Seq(Line), p \in Nat :
       Standing(W, f, p) =>
         /\ \A i \in 1..Len(W) : /\ Index(f)[p + i].section = Index(f)[p].section
                                 /\ Index(f)[p + i].key \in K
                                 /\ Index(f)[(p + i) - 1].depth # 0 \/ Assigns(f[p + i])
         /\ Index(f)[p + Len(W)].section = Index(f)[p].section
         /\ Index(f)[p + Len(W)].depth = 0

(* No lines fit anywhere.                                                 *)
LEMMA NoneFits == ASSUME NEW K PROVE Fits(<<>>, K)
<1>1. <<>> \in Seq(Line) /\ Len(<<>>) = 0
  OBVIOUS
<1>2. ASSUME NEW p \in Nat PROVE p + Len(<<>>) = p
  BY <1>1
<1> QED BY <1>1, <1>2 DEF Fits, Standing

(* A block fits where the editor is in no value.                          *)
LEMMA BlockFits ==
  ASSUME NEW W, NEW k, IsBlock(W, k), NEW K, k \in K
  PROVE  Fits(W, K)
<1>0. W \in Seq(Line) /\ Len(W) \in Nat /\ Len(W) >= 1 /\ Assigns(W[1])
  BY DEF IsBlock
<1> SUFFICES ASSUME NEW f \in Seq(Line), NEW p \in Nat, Standing(W, f, p)
             PROVE  /\ \A i \in 1..Len(W) : /\ Index(f)[p + i].section = Index(f)[p].section
                                            /\ Index(f)[p + i].key \in K
                                            /\ Index(f)[(p + i) - 1].depth # 0 \/ Assigns(f[p + i])
                    /\ Index(f)[p + Len(W)].section = Index(f)[p].section
                    /\ Index(f)[p + Len(W)].depth = 0
  BY <1>0 DEF Fits
<1>1. p + Len(W) <= Len(f) /\ (\A i \in 1..Len(W) : f[p + i] = W[i]) /\ Index(f)[p].depth = 0
  BY DEF Standing
<1>2. \A i \in 1..Len(W) : /\ Index(f)[p + i].section = Index(f)[p].section
                           /\ Index(f)[p + i].key = k
                           /\ Index(f)[p + i].depth = 0 <=> i = Len(W)
  BY <1>1, BlockRuns, SMTT(30)
<1>3. Len(W) \in 1..Len(W)
  BY <1>0
<1>4. ASSUME NEW i \in 1..Len(W) PROVE Index(f)[(p + i) - 1].depth # 0 \/ Assigns(f[p + i])
  <2>1. CASE i = 1
    BY <2>1, <1>0, <1>1
  <2>2. CASE i # 1
    <3>1. i - 1 \in 1..Len(W) /\ (p + i) - 1 = p + (i - 1) /\ i - 1 # Len(W)
      BY <2>2, <1>0
    <3>2. Index(f)[p + (i - 1)].depth # 0
      BY <3>1, <1>2
    <3> QED BY <3>1, <3>2
  <2> QED BY <2>1, <2>2
<1> QED BY <1>2, <1>3, <1>4

(* Lines that fit, one after the other, fit.                              *)
LEMMA BothFit ==
  ASSUME NEW K, NEW V, NEW W, Fits(V, K), Fits(W, K)
  PROVE  Fits(V \o W, K)
<1>0. V \in Seq(Line) /\ W \in Seq(Line) /\ Len(V) \in Nat /\ Len(W) \in Nat
  BY DEF Fits
<1>1. PICK B : B = V \o W
  OBVIOUS
<1>2. B \in Seq(Line) /\ Len(B) = Len(V) + Len(W)
      /\ \A i \in 1..(Len(V) + Len(W)) : B[i] = IF i <= Len(V) THEN V[i] ELSE W[i - Len(V)]
  BY <1>0, <1>1, ConcatProperties
<1> SUFFICES ASSUME NEW f \in Seq(Line), NEW p \in Nat, Standing(B, f, p)
             PROVE  /\ \A i \in 1..Len(B) : /\ Index(f)[p + i].section = Index(f)[p].section
                                            /\ Index(f)[p + i].key \in K
                                            /\ Index(f)[(p + i) - 1].depth # 0 \/ Assigns(f[p + i])
                    /\ Index(f)[p + Len(B)].section = Index(f)[p].section
                    /\ Index(f)[p + Len(B)].depth = 0
  BY <1>1, <1>2 DEF Fits
<1>3. p + Len(B) <= Len(f) /\ (\A i \in 1..Len(B) : f[p + i] = B[i]) /\ Index(f)[p].depth = 0
  BY DEF Standing
<1>4. Standing(V, f, p)
  <2>1. p + Len(V) <= Len(f)
    BY <1>0, <1>2, <1>3
  <2>2. ASSUME NEW i \in 1..Len(V) PROVE f[p + i] = V[i]
    <3>1. i \in 1..Len(B) /\ i \in 1..(Len(V) + Len(W)) /\ i <= Len(V)
      BY <1>0, <1>2
    <3> QED BY <3>1, <1>2, <1>3
  <2> QED BY <2>1, <2>2, <1>3 DEF Standing
<1>5. /\ \A i \in 1..Len(V) : /\ Index(f)[p + i].section = Index(f)[p].section
                              /\ Index(f)[p + i].key \in K
                              /\ Index(f)[(p + i) - 1].depth # 0 \/ Assigns(f[p + i])
      /\ Index(f)[p + Len(V)].section = Index(f)[p].section
      /\ Index(f)[p + Len(V)].depth = 0
  BY <1>4 DEF Fits
<1>6. PICK q : q = p + Len(V)
  OBVIOUS
<1>7. q \in Nat
  BY <1>0, <1>6
<1>8. Standing(W, f, q)
  <2>1. q + Len(W) <= Len(f)
    BY <1>0, <1>2, <1>3, <1>6
  <2>2. ASSUME NEW i \in 1..Len(W) PROVE f[q + i] = W[i]
    <3>1. /\ Len(V) + i \in 1..Len(B) /\ Len(V) + i \in 1..(Len(V) + Len(W)) /\ ~(Len(V) + i <= Len(V))
          /\ (Len(V) + i) - Len(V) = i /\ p + (Len(V) + i) = q + i
      BY <1>0, <1>2, <1>6
    <3> QED BY <3>1, <1>2, <1>3
  <2> QED BY <2>1, <2>2, <1>5, <1>6 DEF Standing
<1>9. /\ \A i \in 1..Len(W) : /\ Index(f)[q + i].section = Index(f)[q].section
                              /\ Index(f)[q + i].key \in K
                              /\ Index(f)[(q + i) - 1].depth # 0 \/ Assigns(f[q + i])
      /\ Index(f)[q + Len(W)].section = Index(f)[q].section
      /\ Index(f)[q + Len(W)].depth = 0
  BY <1>7, <1>8 DEF Fits
<1>10. q + Len(W) = p + Len(B)
  BY <1>0, <1>2, <1>6
<1>11. ASSUME NEW i \in 1..Len(B)
       PROVE  /\ Index(f)[p + i].section = Index(f)[p].section
              /\ Index(f)[p + i].key \in K
              /\ Index(f)[(p + i) - 1].depth # 0 \/ Assigns(f[p + i])
  <2>1. CASE i <= Len(V)
    <3>1. i \in 1..Len(V)
      BY <2>1, <1>0
    <3> QED BY <3>1, <1>5
  <2>2. CASE ~(i <= Len(V))
    <3>1. PICK j : j = i - Len(V)
      OBVIOUS
    <3>2. j \in 1..Len(W) /\ q + j = p + i
      BY <2>2, <3>1, <1>0, <1>2, <1>6
    <3> QED BY <3>2, <1>5, <1>6, <1>9
  <2> QED BY <2>1, <2>2
<1> QED BY <1>5, <1>6, <1>9, <1>10, <1>11

(* Whether a line is touched depends on where the editor is before it.    *)
LEMMA TouchedAlike ==
  ASSUME NEW f \in Seq(Line), NEW g \in Seq(Line), NEW X, NEW K, NEW i \in 1..Len(f), NEW j \in 1..Len(g),
         f[i] = g[j], Alike(Index(f)[i - 1], Index(g)[j - 1])
  PROVE  i \in Touched(f, X, K) <=> j \in Touched(g, X, K)
<1>0. Walk(Index(f), f) /\ Walk(Index(g), g) /\ Len(f) \in Nat /\ Len(g) \in Nat
      /\ DOMAIN f = 1..Len(f) /\ DOMAIN g = 1..Len(g)
  BY IndexIs
<1>1. i - 1 \in 0..Len(f) /\ j - 1 \in 0..Len(g) /\ f[i] \in Line
  BY <1>0
<1>2. PICK c : c = Index(f)[i - 1]
  OBVIOUS
<1>3. PICK d : d = Index(g)[j - 1]
  OBVIOUS
<1>4. c \in Cursor /\ d \in Cursor /\ Alike(c, d)
      /\ Index(f)[i] = IndexLine(c, f[i]) /\ Index(g)[j] = IndexLine(d, f[i])
  BY <1>0, <1>1, <1>2, <1>3 DEF Walk
<1>5. /\ Alike(IndexLine(c, f[i]), IndexLine(d, f[i]))
      /\ c.depth # 0 \/ Assigns(f[i]) => IndexLine(c, f[i]).key = IndexLine(d, f[i]).key
  BY <1>1, <1>4, StaysAlike
<1>6. Index(f)[i].section = Index(g)[j].section /\ c.depth = d.depth
      /\ (c.depth # 0 \/ Assigns(f[i]) => Index(f)[i].key = Index(g)[j].key)
  BY <1>4, <1>5 DEF Alike
<1>7. i \in Touched(f, X, K) <=> Index(f)[i].section = X /\ Index(f)[i].key \in K /\ (c.depth # 0 \/ Assigns(f[i]))
  BY <1>0, <1>2 DEF Touched
<1>8. j \in Touched(g, X, K) <=> Index(g)[j].section = X /\ Index(g)[j].key \in K /\ (d.depth # 0 \/ Assigns(f[i]))
  BY <1>0, <1>3 DEF Touched
<1> QED BY <1>6, <1>7, <1>8

(* Every line of an entry is touched with its key.                        *)
LEMMA EntryTouched ==
  ASSUME NEW f \in Seq(Line), NEW X, NEW K, NEW n \in Entries(f, X), f[n].key \in K
  PROVE  \A j \in n..EndOf(f, n) : j \in Touched(f, X, K)
<1> SUFFICES ASSUME NEW j \in n..EndOf(f, n) PROVE j \in Touched(f, X, K)
  OBVIOUS
<1>1. /\ n \in 1..Len(f) /\ EndOf(f, n) \in n..Len(f) /\ Assigns(f[n])
      /\ \A i \in n..(EndOf(f, n) - 1) : Index(f)[i].depth # 0
      /\ \A i \in n..EndOf(f, n) : Index(f)[i].section = X /\ Index(f)[i].key = f[n].key
  BY EntryIs
<1>a. Len(f) \in Nat
  OBVIOUS
<1>2. j \in DOMAIN f
  BY <1>1, <1>a
<1>3. Index(f)[j - 1].depth # 0 \/ Assigns(f[j])
  <2>1. CASE j = n
    BY <2>1, <1>1
  <2>2. CASE j # n
    <3>1. j - 1 \in n..(EndOf(f, n) - 1)
      BY <2>2, <1>1
    <3> QED BY <3>1, <1>1
  <2> QED BY <2>1, <2>2
<1>4. Index(f)[j].section = X /\ Index(f)[j].key \in K
  BY <1>1
<1> QED BY <1>2, <1>3, <1>4 DEF Touched

(* A swap, within section X, of entries of keys of K.                      *)
CleanSwap(g, f, p, e, W, X, K) ==
  /\ f \in Seq(Line) /\ g \in Seq(Line) /\ p \in Nat /\ e \in Nat /\ p <= e /\ e <= Len(f)
  /\ Swap(g, f, p, e, W) /\ Fits(W, K)
  /\ Index(f)[p].depth = 0 /\ Index(f)[p].section = X
  /\ Index(f)[e].depth = 0 /\ Index(f)[e].section = X
  /\ \A j \in (p + 1)..e : j \in Touched(f, X, K)

(* Around a clean swap the editor goes as it went before.                 *)
LEMMA SwapWalks ==
  ASSUME NEW f, NEW g, NEW p, NEW e, NEW W, NEW X, NEW K, CleanSwap(g, f, p, e, W, X, K)
  PROVE  /\ \A i \in 0..p : Alike(Index(f)[i], Index(g)[i])
         /\ \A i \in 0..(Len(f) - e) : Alike(Index(f)[e + i], Index(g)[p + Len(W) + i])
         /\ Standing(W, g, p)
         /\ Index(g)[p].section = X /\ Index(g)[p + Len(W)].section = X
         /\ Index(g)[p].depth = 0 /\ Index(g)[p + Len(W)].depth = 0
<1>0. /\ f \in Seq(Line) /\ g \in Seq(Line) /\ p \in Nat /\ e \in Nat /\ p <= e /\ e <= Len(f)
      /\ Fits(W, K) /\ W \in Seq(Line) /\ Len(f) \in Nat /\ Len(g) \in Nat /\ Len(W) \in Nat
      /\ Index(f)[p].depth = 0 /\ Index(f)[p].section = X
      /\ Index(f)[e].depth = 0 /\ Index(f)[e].section = X
  BY DEF CleanSwap, Fits
<1>1. /\ Len(g) = p + Len(W) + (Len(f) - e) /\ \A i \in 1..p : g[i] = f[i]
      /\ \A i \in 1..Len(W) : g[p + i] = W[i]
      /\ \A i \in 1..(Len(f) - e) : g[p + Len(W) + i] = f[e + i]
  BY DEF CleanSwap, Swap
<1>2. \A i \in 0..p : Alike(Index(f)[i], Index(g)[i])
  <2>1. Alike(Index(f)[0], Index(g)[0])
    <3>1. Walk(Index(f), f) /\ Walk(Index(g), g)
      BY <1>0, IndexIs
    <3>2. Index(f)[0] = Index(g)[0]
      BY <3>1 DEF Walk
    <3> QED BY <3>2 DEF Alike
  <2>2. /\ 0 \in Nat /\ 0 + p <= Len(f) /\ 0 + p <= Len(g)
    BY <1>0, <1>1
  <2>3. \A i \in 1..p : f[0 + i] = g[0 + i]
    BY <1>1
  <2>4. PICK z : z = 0
    OBVIOUS
  <2>5. \A i \in 0..p : Alike(Index(f)[z + i], Index(g)[z + i])
    <3>1. z \in Nat /\ z + p <= Len(f) /\ z + p <= Len(g) /\ Alike(Index(f)[z], Index(g)[z])
          /\ \A i \in 1..p : f[z + i] = g[z + i]
      BY <2>1, <2>2, <2>3, <2>4
    <3> QED BY <1>0, <3>1, WalksAlike
  <2> QED BY <2>4, <2>5
<1>3. Index(g)[p].section = X /\ Index(g)[p].depth = 0
  BY <1>0, <1>2 DEF Alike
<1>4. Standing(W, g, p)
  BY <1>0, <1>1, <1>3 DEF Standing
<1>5. Index(g)[p + Len(W)].section = X /\ Index(g)[p + Len(W)].depth = 0
  BY <1>0, <1>3, <1>4 DEF Fits
<1>6. \A i \in 0..(Len(f) - e) : Alike(Index(f)[e + i], Index(g)[p + Len(W) + i])
  <2>1. PICK b : b = p + Len(W)
    OBVIOUS
  <2>2. PICK m : m = Len(f) - e
    OBVIOUS
  <2>3. b \in Nat /\ m \in Nat /\ e + m <= Len(f) /\ b + m <= Len(g)
    BY <1>0, <1>1, <2>1, <2>2
  <2>4. Alike(Index(f)[e], Index(g)[b])
    BY <1>0, <1>5, <2>1 DEF Alike
  <2>5. \A i \in 1..m : f[e + i] = g[b + i]
    BY <1>1, <2>1, <2>2
  <2>6. \A i \in 0..m : Alike(Index(f)[e + i], Index(g)[b + i])
    BY <1>0, <2>3, <2>4, <2>5, WalksAlike
  <2> QED BY <2>1, <2>2, <2>6
<1> QED BY <1>2, <1>3, <1>4, <1>5, <1>6

(* It leaves the rest of the file as it was.                               *)
LEMMA SwapKeepsRest ==
  ASSUME NEW f, NEW g, NEW p, NEW e, NEW W, NEW X, NEW K, CleanSwap(g, f, p, e, W, X, K)
  PROVE  Rest(g, X, K) = Rest(f, X, K)
<1>0. /\ f \in Seq(Line) /\ g \in Seq(Line) /\ p \in Nat /\ e \in Nat /\ p <= e /\ e <= Len(f)
      /\ Fits(W, K) /\ W \in Seq(Line) /\ Len(f) \in Nat /\ Len(g) \in Nat /\ Len(W) \in Nat
      /\ Swap(g, f, p, e, W) /\ \A j \in (p + 1)..e : j \in Touched(f, X, K)
      /\ DOMAIN f = 1..Len(f) /\ DOMAIN g = 1..Len(g)
  BY DEF CleanSwap, Fits
<1>1. /\ Len(g) = p + Len(W) + (Len(f) - e) /\ \A i \in 1..p : g[i] = f[i]
      /\ \A i \in 1..Len(W) : g[p + i] = W[i]
      /\ \A i \in 1..(Len(f) - e) : g[p + Len(W) + i] = f[e + i]
  BY <1>0 DEF Swap
<1>2. /\ \A i \in 0..p : Alike(Index(f)[i], Index(g)[i])
      /\ \A i \in 0..(Len(f) - e) : Alike(Index(f)[e + i], Index(g)[p + Len(W) + i])
      /\ Standing(W, g, p) /\ Index(g)[p].section = X
  BY SwapWalks
<1>3. PICK at : at = (DOMAIN f) \ Touched(f, X, K)
  OBVIOUS
<1>4. PICK bt : bt = (DOMAIN g) \ Touched(g, X, K)
  OBVIOUS
<1>5. Both(at, 0, p, bt, 0)
  <2>1. ASSUME NEW i \in 1..(p - 0) PROVE 0 + i \in at <=> 0 + i \in bt
    <3>1. 0 + i = i /\ i \in 1..p /\ i - 1 \in 0..p /\ i \in 1..Len(f) /\ i \in 1..Len(g)
      BY <1>0, <1>1
    <3>2. f[i] = g[i] /\ Alike(Index(f)[i - 1], Index(g)[i - 1])
      BY <3>1, <1>1, <1>2
    <3>3. i \in Touched(f, X, K) <=> i \in Touched(g, X, K)
      BY <1>0, <3>1, <3>2, TouchedAlike
    <3> QED BY <1>0, <1>3, <1>4, <3>1, <3>3
  <2> QED BY <2>1 DEF Both
<1>6. Skips(at, p, e)
  <2>1. ASSUME NEW i \in 1..(e - p) PROVE p + i \notin at
    <3>1. p + i \in (p + 1)..e
      BY <1>0
    <3> QED BY <3>1, <1>0, <1>3
  <2> QED BY <2>1 DEF Skips
<1>7. Skips(bt, p, p + Len(W))
  <2>1. ASSUME NEW i \in 1..((p + Len(W)) - p) PROVE p + i \notin bt
    <3>1. i \in 1..Len(W) /\ p + i \in 1..Len(g)
      BY <1>0, <1>1
    <3>2. /\ Index(g)[p + i].section = X /\ Index(g)[p + i].key \in K
          /\ Index(g)[(p + i) - 1].depth # 0 \/ Assigns(g[p + i])
      BY <3>1, <1>0, <1>2 DEF Fits
    <3>3. p + i \in Touched(g, X, K)
      BY <1>0, <3>1, <3>2 DEF Touched
    <3> QED BY <1>4, <3>3
  <2> QED BY <2>1 DEF Skips
<1>8. Both(at, e, Len(f), bt, p + Len(W))
  <2>1. ASSUME NEW i \in 1..(Len(f) - e) PROVE e + i \in at <=> p + Len(W) + i \in bt
    <3>1. /\ e + i \in 1..Len(f) /\ p + Len(W) + i \in 1..Len(g) /\ i - 1 \in 0..(Len(f) - e)
          /\ (e + i) - 1 = e + (i - 1) /\ (p + Len(W) + i) - 1 = p + Len(W) + (i - 1)
      <4>1. PICK w : w = Len(W)
        OBVIOUS
      <4>2. /\ i \in Int /\ 1 <= i /\ i <= Len(f) - e /\ w \in Nat /\ Len(f) \in Nat /\ e \in Nat
            /\ p \in Nat /\ Len(g) = p + w + (Len(f) - e)
        BY <1>0, <1>1, <4>1
      <4> QED BY <4>1, <4>2
    <3>2. f[e + i] = g[p + Len(W) + i] /\ Alike(Index(f)[(e + i) - 1], Index(g)[(p + Len(W) + i) - 1])
      BY <3>1, <1>1, <1>2
    <3>3. PICK a : a = e + i
      OBVIOUS
    <3>4. PICK b : b = p + Len(W) + i
      OBVIOUS
    <3>5. a \in Touched(f, X, K) <=> b \in Touched(g, X, K)
      BY <1>0, <3>1, <3>2, <3>3, <3>4, TouchedAlike
    <3> QED BY <1>0, <1>3, <1>4, <3>1, <3>3, <3>4, <3>5
  <2> QED BY <2>1 DEF Both
<1>9. Where(g, bt) = Where(f, at)
  BY <1>0, <1>5, <1>6, <1>7, <1>8, WhereSwap
<1> QED BY <1>3, <1>4, <1>9 DEF Rest

-----------------------------------------------------------------------------
(* The slices of an edit, cut out one after the other.                     *)

(* SetToSeq lists each element of a finite set once.                      *)
LEMMA SetToSeqIs ==
  ASSUME NEW S, IsFiniteSet(S)
  PROVE  /\ SetToSeq(S) \in Seq(S)
         /\ \A i, j \in 1..Len(SetToSeq(S)) : SetToSeq(S)[i] = SetToSeq(S)[j] => i = j
         /\ \A x \in S : \E i \in 1..Len(SetToSeq(S)) : SetToSeq(S)[i] = x
<1> DEFINE F == CHOOSE f \in [1..Cardinality(S) -> S] : IsInjective(f)
<1>1. SetToSeq(S) = F
  BY DEF SetToSeq
<1>2. Cardinality(S) \in Nat /\ \E g : g \in Bijection(1..Cardinality(S), S)
  BY FS_CardinalityType DEF ExistsBijection
<1>3. PICK g : g \in Bijection(1..Cardinality(S), S)
  BY <1>2
<1>4. g \in [1..Cardinality(S) -> S] /\ IsInjective(g)
  BY <1>3 DEF Bijection, Injection, IsInjective
<1>5. F \in [1..Cardinality(S) -> S] /\ IsInjective(F)
  BY <1>4
<1> HIDE DEF F
<1>6. F \in Seq(S) /\ Len(F) = Cardinality(S)
  BY <1>2, <1>5
<1>7. \A i, j \in 1..Len(F) : F[i] = F[j] => i = j
  BY <1>5, <1>6 DEF IsInjective
<1>8. \A x \in S : \E i \in 1..Len(F) : F[i] = x
  <2>1. F \in Injection(1..Cardinality(S), S)
    BY <1>5 DEF Injection, IsInjective
  <2>2. 1 \in Int /\ Cardinality(S) \in Int
    BY <1>2
  <2>3. IsFiniteSet(1..Cardinality(S)) /\ Cardinality(1..Cardinality(S)) = Cardinality(S)
    <3>1. /\ IsFiniteSet(1..Cardinality(S))
          /\ Cardinality(1..Cardinality(S)) = IF 1 > Cardinality(S) THEN 0 ELSE Cardinality(S) - 1 + 1
      BY <2>2, FS_Interval
    <3> QED BY <3>1, <1>2
  <2>4. F \in Surjection(1..Cardinality(S), S)
    BY <2>1, <2>3, FS_Injection
  <2> QED BY <2>4, <1>6 DEF Surjection
<1> QED BY <1>1, <1>6, <1>7, <1>8

(* An edit whose values the planner may write, of keys in K.               *)
Insertions == [key : Nat, value : Values]
Sensible(edit, K) ==
  /\ edit.remove \in Seq(Nat)
  /\ IsFiniteSet(DOMAIN edit.replace) /\ DOMAIN edit.replace \subseteq Nat
  /\ \A k \in DOMAIN edit.replace : Written(edit.replace[k])
  /\ edit.insert \in Seq(Insertions)
  /\ \A i \in DOMAIN edit.insert : Written(edit.insert[i].value)
  /\ RemoveKeys(edit) \cup ReplaceKeys(edit) \cup InsertKeys(edit) \subseteq K
\* The editor counts the brackets of its values as the planner does.
Fitting(edit) ==
  /\ \A k \in DOMAIN edit.replace : Writable(edit.replace[k])
  /\ \A i \in DOMAIN edit.insert : Writable(edit.insert[i].value)
Distinct(edit) ==
  /\ \A i, j \in DOMAIN edit.remove : edit.remove[i] = edit.remove[j] => i = j
  /\ RemoveKeys(edit) \cap ReplaceKeys(edit) = {}

Slice == [start : Nat, end : Nat, with : Seq(Line)]
\* The slice that stands for entry n, removed or replaced.
SliceOf(s, f, X, edit, n) ==
  /\ s \in Slice /\ n \in Entries(f, X) /\ s.start = n /\ s.end = EndOf(f, n)
  /\ \/ s.with = <<>> /\ f[n].key \in RemoveKeys(edit)
     \/ s.with = Emit(f[n].key, edit.replace[f[n].key]) /\ f[n].key \in ReplaceKeys(edit)

(* What is put in for a replaced key.                                     *)
LEMMA WithIsTyped ==
  ASSUME NEW k, NEW edit, NEW K, Sensible(edit, K), k \in ReplaceKeys(edit)
  PROVE  /\ k \in Nat /\ k \in K /\ Emit(k, edit.replace[k]) \in Seq(Line)
         /\ \A i \in 1..Len(Emit(k, edit.replace[k])) : Emit(k, edit.replace[k])[i].ended
         /\ Fitting(edit) => IsBlock(Emit(k, edit.replace[k]), k)
<1>1. k \in Nat /\ k \in K /\ Written(edit.replace[k])
  BY DEF Sensible, ReplaceKeys
<1>2. edit.replace[k] \in Values
  BY <1>1 DEF Written
<1>3. Emit(k, edit.replace[k]) \in Seq(Line) /\ \A i \in 1..Len(Emit(k, edit.replace[k])) : Emit(k, edit.replace[k])[i].ended
  BY <1>1, <1>2, EmitLines
<1>4. ASSUME Fitting(edit) PROVE IsBlock(Emit(k, edit.replace[k]), k)
  <2>1. Writable(edit.replace[k])
    BY <1>4 DEF Fitting, ReplaceKeys
  <2> QED BY <1>1, <2>1, EmitIsBlock
<1> QED BY <1>1, <1>3, <1>4

\* A slice that puts lines in is the only one where it is.
ReplacedOnce(S) ==
  \A i, j \in 1..Len(S) : S[i].start = S[j].start /\ S[i].with # <<>> => i = j

(* The slices are entries of the keys of the edit, and every key has one. *)
LEMMA SlicesAre ==
  ASSUME NEW f \in Seq(Line), NEW X, NEW edit, NEW K, Sensible(edit, K),
         RemoveKeys(edit) \cup ReplaceKeys(edit) \subseteq KeysOf(f, X)
  PROVE  /\ Slices(f, X, edit) \in Seq(Slice)
         /\ \A i \in 1..Len(Slices(f, X, edit)) : \E n : SliceOf(Slices(f, X, edit)[i], f, X, edit, n)
         /\ Distinct(edit) =>
              \A i, j \in 1..Len(Slices(f, X, edit)) :
                Slices(f, X, edit)[i].start = Slices(f, X, edit)[j].start => i = j
         /\ RemoveKeys(edit) \cap ReplaceKeys(edit) = {} => ReplacedOnce(Slices(f, X, edit))
         /\ \A k \in RemoveKeys(edit) \cup ReplaceKeys(edit) :
              \E i \in 1..Len(Slices(f, X, edit)) : f[Slices(f, X, edit)[i].start].key = k
<1> DEFINE entry(key) == CHOOSE n \in Entries(f, X) : f[n].key = key
           slice(key, with) == [start |-> entry(key), end |-> EndOf(f, entry(key)), with |-> with]
           replaced == SetToSeq(ReplaceKeys(edit))
           A == [i \in DOMAIN edit.remove |-> slice(edit.remove[i], <<>>)]
           B == [i \in DOMAIN replaced |-> slice(replaced[i], Emit(replaced[i], edit.replace[replaced[i]]))]
<1>0. /\ edit.remove \in Seq(Nat) /\ IsFiniteSet(ReplaceKeys(edit))
      /\ DOMAIN edit.remove = 1..Len(edit.remove) /\ Len(edit.remove) \in Nat
  BY DEF Sensible, ReplaceKeys
<1>1. Slices(f, X, edit) = A \o B
  BY DEF Slices
<1>2. /\ replaced \in Seq(ReplaceKeys(edit)) /\ DOMAIN replaced = 1..Len(replaced) /\ Len(replaced) \in Nat
      /\ \A i, j \in 1..Len(replaced) : replaced[i] = replaced[j] => i = j
      /\ \A x \in ReplaceKeys(edit) : \E i \in 1..Len(replaced) : replaced[i] = x
      /\ \A i \in 1..Len(replaced) : replaced[i] \in ReplaceKeys(edit)
  <2> HIDE DEF replaced
  <2>1. /\ replaced \in Seq(ReplaceKeys(edit))
        /\ \A i, j \in 1..Len(replaced) : replaced[i] = replaced[j] => i = j
        /\ \A x \in ReplaceKeys(edit) : \E i \in 1..Len(replaced) : replaced[i] = x
    BY <1>0, SetToSeqIs DEF replaced
  <2> QED BY <2>1
<1>3. \A i \in 1..Len(edit.remove) : edit.remove[i] \in RemoveKeys(edit)
  BY <1>0 DEF RemoveKeys, ToSet
<1>4. ASSUME NEW k \in RemoveKeys(edit) \cup ReplaceKeys(edit)
      PROVE  entry(k) \in Entries(f, X) /\ f[entry(k)].key = k
  <2>1. k \in {f[n].key : n \in Entries(f, X)}
    BY DEF KeysOf
  <2> QED BY <2>1
<1>5. ASSUME NEW k \in RemoveKeys(edit) \cup ReplaceKeys(edit), NEW with \in Seq(Line),
             \/ with = <<>> /\ k \in RemoveKeys(edit)
             \/ with = Emit(k, edit.replace[k]) /\ k \in ReplaceKeys(edit)
      PROVE  SliceOf(slice(k, with), f, X, edit, entry(k)) /\ slice(k, with).start = entry(k)
             /\ slice(k, with) \in Slice
  <2>1. entry(k) \in Entries(f, X) /\ f[entry(k)].key = k
    BY <1>4
  <2> HIDE DEF entry
  <2>2. entry(k) \in 1..Len(f) /\ EndOf(f, entry(k)) \in entry(k)..Len(f)
    BY <2>1, EntryIs
  <2>3. entry(k) \in Nat /\ EndOf(f, entry(k)) \in Nat
    BY <2>2
  <2> QED BY <1>5, <2>1, <2>3 DEF SliceOf, Slice
<1> HIDE DEF entry, replaced
<1>6. A \in Seq(Slice) /\ Len(A) = Len(edit.remove)
      /\ \A i \in 1..Len(A) : SliceOf(A[i], f, X, edit, entry(edit.remove[i])) /\ A[i].start = entry(edit.remove[i])
                               /\ A[i].with = <<>>
  <2>1. <<>> \in Seq(Line)
    OBVIOUS
  <2>2. ASSUME NEW i \in 1..Len(edit.remove)
        PROVE  /\ SliceOf(slice(edit.remove[i], <<>>), f, X, edit, entry(edit.remove[i]))
               /\ slice(edit.remove[i], <<>>).start = entry(edit.remove[i])
               /\ slice(edit.remove[i], <<>>) \in Slice
               /\ slice(edit.remove[i], <<>>).with = <<>>
    <3>0. slice(edit.remove[i], <<>>).with = <<>>
      OBVIOUS
    <3>1. edit.remove[i] \in RemoveKeys(edit)
      BY <1>3
    <3> HIDE DEF slice
    <3> QED BY <2>1, <3>0, <3>1, <1>5
  <2>3. DOMAIN edit.remove = 1..Len(edit.remove)
    BY <1>0
  <2> HIDE DEF slice
  <2> QED BY <1>0, <2>2, <2>3
<1>7. B \in Seq(Slice) /\ Len(B) = Len(replaced)
      /\ \A i \in 1..Len(B) : SliceOf(B[i], f, X, edit, entry(replaced[i])) /\ B[i].start = entry(replaced[i])
  <2>1. ASSUME NEW i \in 1..Len(replaced)
        PROVE  /\ SliceOf(slice(replaced[i], Emit(replaced[i], edit.replace[replaced[i]])), f, X, edit, entry(replaced[i]))
               /\ slice(replaced[i], Emit(replaced[i], edit.replace[replaced[i]])).start = entry(replaced[i])
               /\ slice(replaced[i], Emit(replaced[i], edit.replace[replaced[i]])) \in Slice
    <3>1. replaced[i] \in ReplaceKeys(edit)
      BY <1>2
    <3>2. Emit(replaced[i], edit.replace[replaced[i]]) \in Seq(Line)
      BY <3>1, WithIsTyped
    <3> HIDE DEF slice
    <3> QED BY <3>1, <3>2, <1>5
  <2> HIDE DEF slice
  <2> QED BY <1>2, <2>1
<1>8. ASSUME NEW j \in RemoveKeys(edit) \cup ReplaceKeys(edit), NEW k \in RemoveKeys(edit) \cup ReplaceKeys(edit),
             entry(j) = entry(k)
      PROVE  j = k
  BY <1>4, <1>8
<1> HIDE DEF A, B
<1>9. PICK C : C = A \o B
  OBVIOUS
<1>10. /\ C \in Seq(Slice) /\ Len(C) = Len(A) + Len(B)
       /\ \A i \in 1..(Len(A) + Len(B)) : C[i] = IF i <= Len(A) THEN A[i] ELSE B[i - Len(A)]
  <2>1. A \in Seq(Slice) /\ B \in Seq(Slice)
    BY <1>6, <1>7
  <2> QED BY <2>1, <1>9, ConcatProperties
<1>11. Len(A) \in Nat /\ Len(B) \in Nat
  BY <1>6, <1>7
<1>12. \A i \in 1..Len(C) : \/ i \in 1..Len(A) /\ C[i] = A[i]
                            \/ i - Len(A) \in 1..Len(B) /\ i \notin 1..Len(A) /\ C[i] = B[i - Len(A)]
  BY <1>10, <1>11
<1>13. \A i \in 1..Len(C) : \E n : SliceOf(C[i], f, X, edit, n)
  BY <1>6, <1>7, <1>12
<1>a. ASSUME RemoveKeys(edit) \cap ReplaceKeys(edit) = {}, NEW x \in 1..Len(A), NEW y \in 1..Len(B)
      PROVE  A[x].start # B[y].start
  <2>1. edit.remove[x] \in RemoveKeys(edit) /\ replaced[y] \in ReplaceKeys(edit)
    BY <1>2, <1>3, <1>6, <1>7
  <2>2. edit.remove[x] # replaced[y]
    BY <1>a, <2>1
  <2>3. entry(edit.remove[x]) # entry(replaced[y])
    BY <2>1, <2>2, <1>8
  <2> QED BY <2>3, <1>6, <1>7
<1>b. ASSUME NEW x \in 1..Len(B), NEW y \in 1..Len(B), B[x].start = B[y].start PROVE x = y
  <2>1. entry(replaced[x]) = entry(replaced[y])
    BY <1>b, <1>7
  <2>2. replaced[x] \in ReplaceKeys(edit) /\ replaced[y] \in ReplaceKeys(edit)
    BY <1>2, <1>7
  <2>3. replaced[x] = replaced[y]
    BY <2>1, <2>2, <1>8
  <2> QED BY <2>3, <1>2, <1>7
<1>c. ASSUME RemoveKeys(edit) \cap ReplaceKeys(edit) = {} PROVE ReplacedOnce(C)
  <2>1. ASSUME NEW i \in 1..Len(C), NEW j \in 1..Len(C), C[i].start = C[j].start, C[i].with # <<>> PROVE i = j
    <3>1. PICK x : x = i - Len(A)
      OBVIOUS
    <3>2. x \in 1..Len(B) /\ C[i] = B[x]
      BY <1>6, <1>12, <2>1, <3>1
    <3>3. PICK y : y = j - Len(A)
      OBVIOUS
    <3>4. y \in 1..Len(B) /\ C[j] = B[y]
      BY <1>a, <1>c, <1>12, <2>1, <3>2, <3>3
    <3>5. x = y
      BY <1>b, <2>1, <3>2, <3>4
    <3>6. i \in Int /\ j \in Int
      OBVIOUS
    <3> QED BY <1>11, <3>1, <3>3, <3>5, <3>6
  <2> QED BY <2>1 DEF ReplacedOnce
<1>14. ASSUME Distinct(edit), NEW i \in 1..Len(C), NEW j \in 1..Len(C), C[i].start = C[j].start PROVE i = j
  <2>0. /\ \A x, y \in DOMAIN edit.remove : edit.remove[x] = edit.remove[y] => x = y
        /\ RemoveKeys(edit) \cap ReplaceKeys(edit) = {}
    BY <1>14 DEF Distinct
  <2>1. CASE i \in 1..Len(A) /\ C[i] = A[i] /\ j \in 1..Len(A) /\ C[j] = A[j]
    <3>1. entry(edit.remove[i]) = entry(edit.remove[j])
      BY <2>1, <1>6, <1>14
    <3>2. edit.remove[i] = edit.remove[j]
      BY <2>1, <3>1, <1>3, <1>6, <1>8
    <3> QED BY <2>0, <2>1, <3>2, <1>0, <1>6
  <2>2. \A x \in 1..Len(A), y \in 1..Len(B) : A[x].start # B[y].start
    BY <2>0, <1>a
  <2>3. CASE i \in 1..Len(A) /\ C[i] = A[i] /\ j - Len(A) \in 1..Len(B) /\ C[j] = B[j - Len(A)]
    BY <2>2, <2>3, <1>14
  <2>4. CASE j \in 1..Len(A) /\ C[j] = A[j] /\ i - Len(A) \in 1..Len(B) /\ C[i] = B[i - Len(A)]
    BY <2>2, <2>4, <1>14
  <2>5. CASE i - Len(A) \in 1..Len(B) /\ C[i] = B[i - Len(A)] /\ j - Len(A) \in 1..Len(B) /\ C[j] = B[j - Len(A)]
    <3>1. PICK x : x = i - Len(A)
      OBVIOUS
    <3>2. PICK y : y = j - Len(A)
      OBVIOUS
    <3>3. x \in 1..Len(B) /\ y \in 1..Len(B) /\ B[x].start = B[y].start
      BY <2>5, <3>1, <3>2, <1>14
    <3>7. x = y
      BY <3>3, <1>b
    <3> QED BY <3>1, <3>2, <3>7, <1>11, <1>14
  <2> QED BY <2>1, <2>3, <2>4, <2>5, <1>12
<1>15. ASSUME NEW k \in RemoveKeys(edit) \cup ReplaceKeys(edit)
       PROVE  \E i \in 1..Len(C) : f[C[i].start].key = k
  <2>1. CASE k \in RemoveKeys(edit)
    <3>1. PICK i \in 1..Len(A) : edit.remove[i] = k
      BY <2>1, <1>0, <1>6 DEF RemoveKeys, ToSet
    <3>2. i \in 1..Len(C) /\ C[i] = A[i]
      BY <3>1, <1>10, <1>11
    <3> QED BY <3>1, <3>2, <1>4, <1>6
  <2>2. CASE k \in ReplaceKeys(edit)
    <3>1. PICK i \in 1..Len(B) : replaced[i] = k
      BY <2>2, <1>2, <1>7
    <3>2. PICK j : j = Len(A) + i
      OBVIOUS
    <3>3. j \in 1..Len(C) /\ j - Len(A) = i /\ ~(j <= Len(A))
      BY <3>1, <3>2, <1>10, <1>11
    <3>4. C[j] = B[i]
      BY <3>3, <1>10
    <3> QED BY <3>1, <3>3, <3>4, <1>4, <1>7
  <2> QED BY <2>1, <2>2
<1>16. Slices(f, X, edit) = C
  BY <1>1, <1>9 DEF A, B
<1> QED BY <1>10, <1>13, <1>14, <1>15, <1>16, <1>c

(* The slices from below: each ends before the one before it begins.       *)
LEMMA FromBelowIs ==
  ASSUME NEW f \in Seq(Line), NEW X, NEW edit, NEW K, Sensible(edit, K),
         RemoveKeys(edit) \cup ReplaceKeys(edit) \subseteq KeysOf(f, X)
  PROVE  LET R == FromBelow(Slices(f, X, edit))
         IN /\ R \in Seq(Slice)
            /\ \A i \in 1..Len(R) : \E n : SliceOf(R[i], f, X, edit, n)
            /\ \A i, j \in 1..Len(R) : i < j => R[j].start <= R[i].start
            /\ Distinct(edit) => \A i, j \in 1..Len(R) : R[i].start = R[j].start => i = j
            /\ RemoveKeys(edit) \cap ReplaceKeys(edit) = {} => ReplacedOnce(R)
            /\ \A k \in RemoveKeys(edit) \cup ReplaceKeys(edit) :
                 \E i \in 1..Len(R) : f[R[i].start].key = k
<1>1. PICK S : S = Slices(f, X, edit)
  OBVIOUS
<1>2. /\ S \in Seq(Slice)
      /\ \A i \in 1..Len(S) : \E n : SliceOf(S[i], f, X, edit, n)
      /\ Distinct(edit) => \A i, j \in 1..Len(S) : S[i].start = S[j].start => i = j
      /\ RemoveKeys(edit) \cap ReplaceKeys(edit) = {} => ReplacedOnce(S)
      /\ \A k \in RemoveKeys(edit) \cup ReplaceKeys(edit) : \E i \in 1..Len(S) : f[S[i].start].key = k
  BY <1>1, SlicesAre
<1>3. Len(S) \in Nat /\ DOMAIN S = 1..Len(S) /\ \A i \in 1..Len(S) : S[i] \in Slice
  BY <1>2
<1>4. \A i \in 1..Len(S) : S[i].start \in Nat
  BY <1>3 DEF Slice
<1>5. PICK rank : rank = [i \in DOMAIN S |-> -S[i].start]
  OBVIOUS
<1>6. rank \in [1..Len(S) -> Int] /\ \A i \in 1..Len(S) : rank[i] = -S[i].start
  BY <1>3, <1>4, <1>5
<1>7. FromBelow(S) = ByRank(S, rank)
  BY <1>5 DEF FromBelow
<1>8. PICK p : /\ InOrder(p, Len(S), Len(S), rank)
               /\ \A m \in 1..Len(S) : \E i \in 1..Len(S) : p[i] = m
               /\ ByRank(S, rank) = [i \in 1..Len(S) |-> S[p[i]]]
  BY <1>2, <1>6, ByRankIs
<1>9. /\ p \in [1..Len(S) -> 1..Len(S)]
      /\ \A i, j \in 1..Len(S) : p[i] = p[j] => i = j
      /\ \A i, j \in 1..Len(S) : i < j => rank[p[i]] <= rank[p[j]]
  BY <1>8 DEF InOrder
<1>10. PICK R : R = [i \in 1..Len(S) |-> S[p[i]]]
  OBVIOUS
<1>11. R \in Seq(Slice) /\ Len(R) = Len(S) /\ \A i \in 1..Len(S) : R[i] = S[p[i]] /\ p[i] \in 1..Len(S)
  <2>1. \A i \in 1..Len(S) : p[i] \in 1..Len(S) /\ S[p[i]] \in Slice
    BY <1>3, <1>9
  <2>2. R \in [1..Len(S) -> Slice]
    BY <1>10, <2>1
  <2>3. R \in Seq(Slice) /\ Len(R) = Len(S)
    BY <1>3, <2>2
  <2> QED BY <1>10, <2>1, <2>3
<1>12. \A i \in 1..Len(R) : \E n : SliceOf(R[i], f, X, edit, n)
  BY <1>2, <1>11
<1>13. ASSUME NEW i \in 1..Len(R), NEW j \in 1..Len(R), i < j PROVE R[j].start <= R[i].start
  <2>1. i \in 1..Len(S) /\ j \in 1..Len(S) /\ p[i] \in 1..Len(S) /\ p[j] \in 1..Len(S)
    BY <1>11
  <2>2. rank[p[i]] <= rank[p[j]]
    BY <1>9, <1>13, <2>1
  <2>3. -S[p[i]].start <= -S[p[j]].start /\ S[p[i]].start \in Nat /\ S[p[j]].start \in Nat
    BY <1>4, <1>6, <2>1, <2>2
  <2>4. S[p[j]].start <= S[p[i]].start
    BY <2>3
  <2> QED BY <1>11, <2>1, <2>4
<1>14. ASSUME Distinct(edit), NEW i \in 1..Len(R), NEW j \in 1..Len(R), R[i].start = R[j].start PROVE i = j
  BY <1>2, <1>9, <1>11, <1>14, SMTT(30)
<1>15. ASSUME NEW k \in RemoveKeys(edit) \cup ReplaceKeys(edit) PROVE \E i \in 1..Len(R) : f[R[i].start].key = k
  <2>1. PICK m \in 1..Len(S) : f[S[m].start].key = k
    BY <1>2
  <2>2. PICK i \in 1..Len(S) : p[i] = m
    BY <1>8, <2>1
  <2> QED BY <2>1, <2>2, <1>11
<1>a. ASSUME RemoveKeys(edit) \cap ReplaceKeys(edit) = {} PROVE ReplacedOnce(R)
  <2>1. ReplacedOnce(S)
    BY <1>2, <1>a
  <2>2. ASSUME NEW i \in 1..Len(R), NEW j \in 1..Len(R), R[i].start = R[j].start, R[i].with # <<>> PROVE i = j
    <3>1. p[i] \in 1..Len(S) /\ p[j] \in 1..Len(S) /\ R[i] = S[p[i]] /\ R[j] = S[p[j]]
      BY <1>11
    <3>2. p[i] = p[j]
      BY <2>1, <2>2, <3>1 DEF ReplacedOnce
    <3> QED BY <1>9, <1>11, <3>2
  <2> QED BY <2>2 DEF ReplacedOnce
<1>16. FromBelow(Slices(f, X, edit)) = R
  BY <1>1, <1>7, <1>8, <1>10
<1> QED BY <1>11, <1>12, <1>13, <1>14, <1>15, <1>16, <1>a

(* Entries of a section do not overlap.                                    *)
LEMMA EntriesApart ==
  ASSUME NEW f \in Seq(Line), NEW X, NEW m \in Entries(f, X), NEW n \in Entries(f, X), m < n
  PROVE  EndOf(f, m) < n
<1>1. m \in 1..Len(f) /\ n \in 1..Len(f) /\ Index(f)[n - 1].depth = 0 /\ EndOf(f, m) \in m..Len(f)
  BY EntryIs
<1>2. Len(f) \in Nat
  OBVIOUS
<1>3. PICK q : q = n - 1
  OBVIOUS
<1>4. q \in Nat /\ m <= q /\ q <= Len(f) /\ Index(f)[q].depth = 0
  BY <1>1, <1>2, <1>3
<1>5. EndOf(f, m) <= q
  BY <1>4, EntryStops
<1> QED BY <1>1, <1>3, <1>5

(* Spliced cuts one slice after the other.                                *)
LEMMA SplicedIs ==
  ASSUME NEW f, NEW R, Len(R) \in Nat
  PROVE  /\ DOMAIN Spliced(f, R) = 0..Len(R)
         /\ Spliced(f, R)[0] = f
         /\ \A n \in 1..Len(R) : Spliced(f, R)[n] = Splice(Spliced(f, R)[n - 1], R[n])
<1> DEFINE Right(h, N) == h = [n \in 0..N |-> IF n = 0 THEN f ELSE Splice(h[n - 1], R[n])]
           F == CHOOSE h : Right(h, Len(R))
           D == {N \in 0..Len(R) : \E h : Right(h, N)}
<1>1. 0 \in D
  <2> DEFINE h == [n \in 0..0 |-> f]
  <2>1. \A n \in 0..0 : h[n] = IF n = 0 THEN f ELSE Splice(h[n - 1], R[n])
    OBVIOUS
  <2>2. h = [n \in 0..0 |-> h[n]]
    OBVIOUS
  <2> HIDE DEF h
  <2>3. Right(h, 0)
    BY <2>1, <2>2
  <2>4. 0 \in 0..Len(R)
    OBVIOUS
  <2> QED BY <2>3, <2>4
<1>2. ASSUME NEW N \in 0..Len(R), N < Len(R), N \in D PROVE N + 1 \in D
  <2>1. PICK h : Right(h, N)
    BY <1>2
  <2>2. \A n \in 0..N : h[n] = IF n = 0 THEN f ELSE Splice(h[n - 1], R[n])
    BY <2>1
  <2> DEFINE k == [n \in 0..(N + 1) |-> IF n <= N THEN h[n] ELSE Splice(h[N], R[N + 1])]
  <2>3. \A n \in 0..N : k[n] = h[n]
    BY <1>2
  <2>4. k[N + 1] = Splice(h[N], R[N + 1])
    BY <1>2
  <2>5. k = [n \in 0..(N + 1) |-> k[n]]
    OBVIOUS
  <2> HIDE DEF k, Right
  <2>6. ASSUME NEW n \in 0..(N + 1) PROVE k[n] = IF n = 0 THEN f ELSE Splice(k[n - 1], R[n])
    <3>1. CASE n = N + 1
      <4>1. n - 1 = N /\ n # 0 /\ N \in 0..N
        BY <3>1, <1>2
      <4> QED BY <4>1, <3>1, <2>3, <2>4
    <3>2. CASE n # N + 1
      <4>1. n \in 0..N
        BY <3>2, <1>2
      <4>2. n # 0 => n - 1 \in 0..N
        BY <4>1
      <4> QED BY <4>1, <4>2, <2>2, <2>3
    <3> QED BY <3>1, <3>2
  <2>7. Right(k, N + 1)
    BY <2>5, <2>6 DEF Right
  <2>8. N + 1 \in 0..Len(R)
    BY <1>2
  <2> QED BY <2>7, <2>8
<1>3. \A N \in 0..Len(R) : N \in D
  <2> HIDE DEF D
  <2> QED BY <1>1, <1>2, UpTo
<1>4. \E h : Right(h, Len(R))
  BY <1>3
<1>5. Right(F, Len(R))
  <2> HIDE DEF Right
  <2> QED BY <1>4
<1>6. Spliced(f, R) = F
  BY DEF Spliced
<1> HIDE DEF F
<1>7. F[0] = f /\ \A n \in 1..Len(R) : F[n] = Splice(F[n - 1], R[n])
  BY <1>5
<1>8. DOMAIN F = 0..Len(R)
  BY <1>5
<1> QED BY <1>6, <1>7, <1>8

(* Shift sums up the slices before a line.                                *)
LEMMA ShiftIs ==
  ASSUME NEW R \in Seq(Slice), NEW last \in Int
  PROVE  \E h : /\ h \in [0..Len(R) -> Int] /\ h[0] = 0 /\ Shift(R, last) = h[Len(R)]
                /\ \A n \in 1..Len(R) :
                     h[n] = IF R[n].start <= last
                            THEN h[n - 1] + Len(R[n].with) - (R[n].end - R[n].start + 1)
                            ELSE h[n - 1]
<1> DEFINE by(n) == Len(R[n].with) - (R[n].end - R[n].start + 1)
           step == [n \in 1..Len(R) |-> [c \in Int |-> IF R[n].start <= last THEN c + by(n) ELSE c]]
           Right(h) == h = [n \in 0..Len(R) |->
                              IF n = 0 THEN 0
                              ELSE IF R[n].start <= last
                                   THEN h[n - 1] + Len(R[n].with) - (R[n].end - R[n].start + 1)
                                   ELSE h[n - 1]]
           F == CHOOSE h : Right(h)
<1>1. Len(R) \in Nat
  OBVIOUS
<1>2. \A n \in 1..Len(R) : /\ R[n].start \in Nat /\ R[n].end \in Nat /\ Len(R[n].with) \in Nat
                           /\ by(n) \in Int
  <2> SUFFICES ASSUME NEW n \in 1..Len(R)
               PROVE  R[n].start \in Nat /\ R[n].end \in Nat /\ Len(R[n].with) \in Nat /\ by(n) \in Int
    OBVIOUS
  <2>1. R[n] \in Slice
    OBVIOUS
  <2>2. R[n].start \in Nat /\ R[n].end \in Nat /\ R[n].with \in Seq(Line)
    BY <2>1 DEF Slice
  <2>3. Len(R[n].with) \in Nat
    BY <2>2
  <2> QED BY <2>2, <2>3
<1>3. step \in [1..Len(R) -> [Int -> Int]]
  <2>1. ASSUME NEW n \in 1..Len(R), NEW c \in Int PROVE (IF R[n].start <= last THEN c + by(n) ELSE c) \in Int
    <3>1. by(n) \in Int
      BY <1>2
    <3> HIDE DEF by
    <3> QED BY <3>1
  <2> HIDE DEF by
  <2> QED BY <2>1
<1>4. PICK g : Table(g, Len(R), Int, 0, step)
  <2>1. 0 \in Int
    OBVIOUS
  <2> HIDE DEF step
  <2> QED BY <2>1, <1>1, <1>3, TableIsThere
<1>5. g \in [0..Len(R) -> Int] /\ g[0] = 0 /\ \A n \in 1..Len(R) : g[n] = step[n][g[n - 1]]
  <2> HIDE DEF step
  <2> QED BY <1>4 DEF Table
<1>6. ASSUME NEW n \in 1..Len(R), NEW c \in Int
      PROVE  step[n][c] = IF R[n].start <= last
                          THEN c + Len(R[n].with) - (R[n].end - R[n].start + 1) ELSE c
  <2>1. step[n][c] = IF R[n].start <= last THEN c + by(n) ELSE c
    BY <1>6
  <2>2. R[n].start \in Nat /\ R[n].end \in Nat /\ Len(R[n].with) \in Nat
    BY <1>2
  <2>3. c + by(n) = c + Len(R[n].with) - (R[n].end - R[n].start + 1)
    <3> HIDE DEF step
    <3> QED BY <2>2
  <2> HIDE DEF step, by
  <2> QED BY <2>1, <2>3
<1> HIDE DEF step
<1>7. ASSUME NEW n \in 1..Len(R)
      PROVE  g[n] = IF R[n].start <= last
                    THEN g[n - 1] + Len(R[n].with) - (R[n].end - R[n].start + 1)
                    ELSE g[n - 1]
  <2>1. n - 1 \in 0..Len(R)
    BY <1>1
  <2>2. g[n] = step[n][g[n - 1]] /\ g[n - 1] \in Int
    BY <1>5, <2>1
  <2> QED BY <2>2, <1>6
<1>8. Right(g)
  <2>1. ASSUME NEW n \in 0..Len(R)
        PROVE  g[n] = IF n = 0 THEN 0
                      ELSE IF R[n].start <= last
                           THEN g[n - 1] + Len(R[n].with) - (R[n].end - R[n].start + 1)
                           ELSE g[n - 1]
    <3>1. n = 0 \/ n \in 1..Len(R)
      BY <1>1
    <3> QED BY <3>1, <1>5, <1>7
  <2>2. g = [n \in 0..Len(R) |-> g[n]]
    BY <1>5
  <2> QED BY <2>1, <2>2
<1>9. Right(F)
  <2> HIDE DEF Right
  <2> QED BY <1>8
<1>10. Shift(R, last) = F[Len(R)]
  BY DEF Shift
<1> HIDE DEF F
<1>11. F[0] = 0 /\ \A n \in 1..Len(R) :
                     F[n] = IF R[n].start <= last
                            THEN F[n - 1] + Len(R[n].with) - (R[n].end - R[n].start + 1)
                            ELSE F[n - 1]
  BY <1>1, <1>9, SMTT(30)
<1>12. DOMAIN F = 0..Len(R) /\ F = [n \in DOMAIN F |-> F[n]]
  BY <1>9
<1> HIDE DEF Right
<1> DEFINE D == {n \in 0..Len(R) : F[n] \in Int}
<1>13. 0 \in D
  BY <1>1, <1>11
<1>14. ASSUME NEW n \in 0..Len(R), n < Len(R), n \in D PROVE n + 1 \in D
  <2>1. n + 1 \in 1..Len(R) /\ (n + 1) - 1 = n /\ n + 1 \in 0..Len(R)
    BY <1>1, <1>14
  <2>2. F[n + 1] = IF R[n + 1].start <= last
                   THEN F[n] + Len(R[n + 1].with) - (R[n + 1].end - R[n + 1].start + 1)
                   ELSE F[n]
    BY <2>1, <1>11
  <2>3. R[n + 1].start \in Nat /\ R[n + 1].end \in Nat /\ Len(R[n + 1].with) \in Nat /\ F[n] \in Int
    BY <2>1, <1>2, <1>14
  <2> QED BY <2>1, <2>2, <2>3, SMTT(30)
<1>15. \A n \in 0..Len(R) : n \in D
  <2> HIDE DEF D
  <2> QED BY <1>1, <1>13, <1>14, UpTo
<1>16. F \in [0..Len(R) -> Int]
  BY <1>12, <1>15
<1> QED BY <1>10, <1>11, <1>16

(* The lines of the insertions, by key.                                    *)
Emits(ins, sorted, p, h) ==
  /\ sorted \in Seq(Insertions) /\ Len(sorted) = Len(ins)
  /\ p \in [1..Len(ins) -> 1..Len(ins)]
  /\ \A i, j \in 1..Len(ins) : p[i] = p[j] => i = j
  /\ \A m \in 1..Len(ins) : \E i \in 1..Len(ins) : p[i] = m
  /\ \A i \in 1..Len(ins) : sorted[i] = ins[p[i]]
  /\ h \in [0..Len(ins) -> Seq(Line)] /\ h[0] = <<>> /\ EmitSorted(ins) = h[Len(ins)]
  /\ \A n \in 1..Len(ins) : h[n] = h[n - 1] \o Emit(sorted[n].key, sorted[n].value)

(* EmitSorted emits the insertions one after the other, in some order.    *)
LEMMA EmitSortedIs ==
  ASSUME NEW ins \in Seq(Insertions)
  PROVE  \E sorted, p, h : Emits(ins, sorted, p, h)
<1>1. /\ Len(ins) \in Nat /\ DOMAIN ins = 1..Len(ins) /\ \A i \in 1..Len(ins) : ins[i] \in Insertions
  OBVIOUS
<1>2. \A i \in 1..Len(ins) : ins[i].key \in Nat /\ ins[i].value \in Values
  BY <1>1 DEF Insertions
<1>3. PICK rank : rank = [i \in DOMAIN ins |-> ins[i].key]
  OBVIOUS
<1>4. rank \in [1..Len(ins) -> Int]
  BY <1>1, <1>2, <1>3
<1>5. PICK p : /\ InOrder(p, Len(ins), Len(ins), rank)
               /\ \A m \in 1..Len(ins) : \E i \in 1..Len(ins) : p[i] = m
               /\ ByRank(ins, rank) = [i \in 1..Len(ins) |-> ins[p[i]]]
  BY <1>4, ByRankIs
<1>6. /\ p \in [1..Len(ins) -> 1..Len(ins)]
      /\ \A i, j \in 1..Len(ins) : p[i] = p[j] => i = j
  BY <1>5 DEF InOrder
<1>7. PICK sorted : sorted = [i \in 1..Len(ins) |-> ins[p[i]]]
  OBVIOUS
<1>8. sorted \in Seq(Insertions) /\ Len(sorted) = Len(ins) /\ \A i \in 1..Len(ins) : sorted[i] = ins[p[i]]
  <2>1. \A i \in 1..Len(ins) : p[i] \in 1..Len(ins) /\ ins[p[i]] \in Insertions
    BY <1>1, <1>6
  <2>2. sorted \in [1..Len(ins) -> Insertions]
    BY <1>7, <2>1
  <2>3. sorted \in Seq(Insertions) /\ Len(sorted) = Len(ins)
    BY <1>1, <2>2
  <2> QED BY <1>7, <2>1, <2>3
<1>9. \A n \in 1..Len(ins) : Emit(sorted[n].key, sorted[n].value) \in Seq(Line)
  <2> SUFFICES ASSUME NEW n \in 1..Len(ins) PROVE Emit(sorted[n].key, sorted[n].value) \in Seq(Line)
    OBVIOUS
  <2>1. sorted[n].key \in Nat /\ sorted[n].value \in Values
    BY <1>2, <1>6, <1>8
  <2> QED BY <2>1, EmitLines
<1> DEFINE step == [n \in 1..Len(ins) |-> [c \in Seq(Line) |-> c \o Emit(sorted[n].key, sorted[n].value)]]
           Right(f, t) == f = [n \in 0..Len(t) |-> IF n = 0 THEN <<>> ELSE f[n - 1] \o Emit(t[n].key, t[n].value)]
           F == CHOOSE f : Right(f, sorted)
<1>10. step \in [1..Len(ins) -> [Seq(Line) -> Seq(Line)]]
  <2>1. ASSUME NEW n \in 1..Len(ins), NEW c \in Seq(Line)
        PROVE  c \o Emit(sorted[n].key, sorted[n].value) \in Seq(Line)
    BY <1>9, ConcatProperties
  <2> QED BY <2>1
<1>11. PICK g : Table(g, Len(ins), Seq(Line), <<>>, step)
  <2>1. <<>> \in Seq(Line)
    OBVIOUS
  <2> HIDE DEF step
  <2> QED BY <2>1, <1>1, <1>10, TableIsThere
<1>12. g \in [0..Len(ins) -> Seq(Line)] /\ g[0] = <<>> /\ \A n \in 1..Len(ins) : g[n] = step[n][g[n - 1]]
  <2> HIDE DEF step
  <2> QED BY <1>11 DEF Table
<1>13. ASSUME NEW n \in 1..Len(ins) PROVE g[n] = g[n - 1] \o Emit(sorted[n].key, sorted[n].value)
  <2>1. n - 1 \in 0..Len(ins)
    BY <1>1
  <2>2. g[n] = step[n][g[n - 1]] /\ g[n - 1] \in Seq(Line)
    BY <1>12, <2>1
  <2> QED BY <2>2
<1> HIDE DEF step
<1>14. Right(g, sorted)
  <2>1. ASSUME NEW n \in 0..Len(ins)
        PROVE  g[n] = IF n = 0 THEN <<>> ELSE g[n - 1] \o Emit(sorted[n].key, sorted[n].value)
    <3>1. n = 0 \/ n \in 1..Len(ins)
      BY <1>1
    <3> QED BY <3>1, <1>12, <1>13
  <2>2. g = [n \in 0..Len(sorted) |-> g[n]]
    BY <1>8, <1>12
  <2> QED BY <2>1, <2>2, <1>8
<1>15. Right(F, sorted)
  <2> HIDE DEF Right
  <2> QED BY <1>14
<1>16. EmitSorted(ins) = F[Len(sorted)]
  <2>1. ByRank(ins, [i \in DOMAIN ins |-> ins[i].key]) = sorted
    BY <1>3, <1>5, <1>7
  <2> DEFINE G(t) == CHOOSE f : Right(f, t)
  <2>2. EmitSorted(ins) = G(ByRank(ins, [i \in DOMAIN ins |-> ins[i].key]))[Len(ByRank(ins, [i \in DOMAIN ins |-> ins[i].key]))]
    BY DEF EmitSorted
  <2> HIDE DEF Right
  <2> QED BY <2>1, <2>2
<1> HIDE DEF F
<1>17. F[0] = <<>> /\ \A n \in 1..Len(ins) : F[n] = F[n - 1] \o Emit(sorted[n].key, sorted[n].value)
  BY <1>1, <1>8, <1>15
<1>18. DOMAIN F = 0..Len(ins) /\ F = [n \in DOMAIN F |-> F[n]]
  BY <1>8, <1>15
<1> HIDE DEF Right
<1> DEFINE D == {n \in 0..Len(ins) : F[n] \in Seq(Line)}
<1>19. 0 \in D
  <2>1. <<>> \in Seq(Line) /\ 0 \in 0..Len(ins)
    BY <1>1
  <2> QED BY <2>1, <1>17
<1>20. ASSUME NEW n \in 0..Len(ins), n < Len(ins), n \in D PROVE n + 1 \in D
  <2>1. n + 1 \in 1..Len(ins) /\ (n + 1) - 1 = n /\ n + 1 \in 0..Len(ins)
    BY <1>1, <1>20
  <2>2. F[n + 1] = F[n] \o Emit(sorted[n + 1].key, sorted[n + 1].value)
    BY <2>1, <1>17
  <2>3. F[n] \in Seq(Line) /\ Emit(sorted[n + 1].key, sorted[n + 1].value) \in Seq(Line)
    BY <2>1, <1>9, <1>20
  <2> QED BY <2>1, <2>2, <2>3, ConcatProperties
<1>21. \A n \in 0..Len(ins) : n \in D
  <2> HIDE DEF D
  <2> QED BY <1>1, <1>19, <1>20, UpTo
<1>22. F \in [0..Len(ins) -> Seq(Line)]
  BY <1>18, <1>21
<1>23. EmitSorted(ins) = F[Len(ins)]
  BY <1>8, <1>16
<1>24. \A m \in 1..Len(ins) : \E i \in 1..Len(ins) : p[i] = m
  BY <1>5
<1>25. Emits(ins, sorted, p, F)
  BY <1>6, <1>8, <1>17, <1>22, <1>23, <1>24 DEF Emits
<1> QED BY <1>25

(* The lines of the insertions fit where the editor is in no value.       *)
LEMMA EmitSortedFits ==
  ASSUME NEW edit, NEW K, Sensible(edit, K), Fitting(edit)
  PROVE  Fits(EmitSorted(edit.insert), K)
<1>1. PICK ins : ins = edit.insert
  OBVIOUS
<1>2. /\ ins \in Seq(Insertions) /\ Len(ins) \in Nat
      /\ \A i \in 1..Len(ins) : ins[i].key \in Nat /\ ins[i].key \in K /\ Writable(ins[i].value)
  <2>1. ins \in Seq(Insertions) /\ \A i \in DOMAIN ins : Writable(ins[i].value)
    BY <1>1 DEF Sensible, Fitting
  <2>2. DOMAIN ins = 1..Len(ins) /\ Len(ins) \in Nat /\ \A i \in 1..Len(ins) : ins[i] \in Insertions
    BY <2>1
  <2>3. \A i \in DOMAIN ins : ins[i].key \in K
    BY <1>1 DEF Sensible, InsertKeys
  <2> QED BY <2>1, <2>2, <2>3 DEF Insertions
<1>a. PICK sorted, p, h : Emits(ins, sorted, p, h)
  BY <1>2, EmitSortedIs
<1>3.      /\ p \in [1..Len(ins) -> 1..Len(ins)]
           /\ \A i \in 1..Len(ins) : sorted[i] = ins[p[i]]
           /\ h \in [0..Len(ins) -> Seq(Line)] /\ h[0] = <<>> /\ EmitSorted(ins) = h[Len(ins)]
           /\ \A n \in 1..Len(ins) : h[n] = h[n - 1] \o Emit(sorted[n].key, sorted[n].value)
  BY <1>a DEF Emits
<1> DEFINE D == {n \in 0..Len(ins) : Fits(h[n], K)}
<1>4. 0 \in D
  BY <1>2, <1>3, NoneFits
<1>5. ASSUME NEW n \in 0..Len(ins), n < Len(ins), n \in D PROVE n + 1 \in D
  <2>1. n + 1 \in 1..Len(ins) /\ (n + 1) - 1 = n /\ n + 1 \in 0..Len(ins)
    BY <1>2, <1>5
  <2>2. sorted[n + 1].key \in Nat /\ sorted[n + 1].key \in K /\ Writable(sorted[n + 1].value)
    BY <1>2, <1>3, <2>1
  <2>3. Fits(Emit(sorted[n + 1].key, sorted[n + 1].value), K)
    BY <2>2, EmitIsBlock, BlockFits
  <2>4. h[n + 1] = h[n] \o Emit(sorted[n + 1].key, sorted[n + 1].value)
    BY <1>3, <2>1
  <2>5. Fits(h[n + 1], K)
    BY <1>5, <2>3, <2>4, BothFit
  <2> QED BY <2>1, <2>5
<1>6. \A n \in 0..Len(ins) : n \in D
  <2> HIDE DEF D
  <2> QED BY <1>2, <1>4, <1>5, UpTo
<1>7. Len(ins) \in D
  BY <1>2, <1>6
<1> QED BY <1>1, <1>3, <1>7

\* How many lines of f the first n slices have left alone, at its beginning.
Below(f, R, n) == IF n = 0 THEN Len(f) ELSE R[n].start - 1
\* The slices can be cut out of f one after the other.
Cuts(R, f, X, edit) ==
  /\ R \in Seq(Slice)
  /\ \A i \in 1..Len(R) : /\ SliceOf(R[i], f, X, edit, R[i].start)
                          /\ Index(f)[EndOf(f, R[i].start)].depth = 0
  /\ \A i, j \in 1..Len(R) : i < j => R[j].start < R[i].start

(* The slices from below can be cut out one after the other.              *)
LEMMA CutsAre ==
  ASSUME NEW f \in Seq(Line), NEW X, NEW edit, NEW K, Sensible(edit, K), Distinct(edit),
         RemoveKeys(edit) \cup ReplaceKeys(edit) \subseteq KeysOf(f, X), ~Unterminated(f, X)
  PROVE  Cuts(FromBelow(Slices(f, X, edit)), f, X, edit)
<1>1. PICK R : R = FromBelow(Slices(f, X, edit))
  OBVIOUS
<1>2. /\ R \in Seq(Slice)
      /\ \A i \in 1..Len(R) : \E n : SliceOf(R[i], f, X, edit, n)
      /\ \A i, j \in 1..Len(R) : i < j => R[j].start <= R[i].start
      /\ \A i, j \in 1..Len(R) : R[i].start = R[j].start => i = j
  BY <1>1, FromBelowIs
<1>3. ASSUME NEW i \in 1..Len(R)
      PROVE  SliceOf(R[i], f, X, edit, R[i].start) /\ Index(f)[EndOf(f, R[i].start)].depth = 0
  <2>1. PICK n : SliceOf(R[i], f, X, edit, n)
    BY <1>2
  <2>2. R[i].start = n /\ n \in Entries(f, X)
    BY <2>1 DEF SliceOf
  <2>3. Index(f)[EndOf(f, n)].depth = 0
    BY <2>2, EntryCloses
  <2> QED BY <2>1, <2>2, <2>3
<1>4. ASSUME NEW i \in 1..Len(R), NEW j \in 1..Len(R), i < j PROVE R[j].start < R[i].start
  <2>1. Len(R) \in Nat /\ R[i] \in Slice /\ R[j] \in Slice
    BY <1>2
  <2>2. R[i].start \in Nat /\ R[j].start \in Nat
    BY <2>1 DEF Slice
  <2>3. R[j].start <= R[i].start /\ R[j].start # R[i].start
    BY <1>2, <1>4
  <2> QED BY <2>2, <2>3
<1>5. Cuts(R, f, X, edit)
  BY <1>2, <1>3, <1>4 DEF Cuts
<1> QED BY <1>1, <1>5

\* What a slice cuts out, and what it puts in.
Cut(s, f, X, K) ==
  /\ s.start \in 1..Len(f) /\ s.end \in s.start..Len(f) /\ s.end = EndOf(f, s.start)
  /\ s.with \in Seq(Line) /\ s.start \in Entries(f, X)
  /\ Index(f)[s.start - 1].depth = 0 /\ Index(f)[s.start - 1].section = X
  /\ Index(f)[s.end].depth = 0 /\ Index(f)[s.end].section = X
  /\ Fits(s.with, {f[s.start].key}) /\ f[s.start].key \in K
  /\ \A j \in s.start..s.end : j \in Touched(f, X, {f[s.start].key})

(* What the slices cut, and that they do not overlap.                     *)
LEMMA CutIs ==
  ASSUME NEW f \in Seq(Line), NEW X, NEW edit, NEW K, Sensible(edit, K), Fitting(edit), NEW R,
         Cuts(R, f, X, edit)
  PROVE  \A i \in 1..Len(R) : Cut(R[i], f, X, K) /\ (i > 1 => R[i].end < R[i - 1].start)
<1> SUFFICES ASSUME NEW i \in 1..Len(R)
             PROVE  Cut(R[i], f, X, K) /\ (i > 1 => R[i].end < R[i - 1].start)
  OBVIOUS
<1>1. SliceOf(R[i], f, X, edit, R[i].start) /\ Index(f)[EndOf(f, R[i].start)].depth = 0
  BY DEF Cuts
<1>2. PICK n : n = R[i].start
  OBVIOUS
<1>3. PICK k : k = f[n].key
  OBVIOUS
<1>4. /\ R[i] \in Slice /\ n \in Entries(f, X) /\ R[i].end = EndOf(f, n)
      /\ \/ R[i].with = <<>> /\ k \in RemoveKeys(edit)
         \/ R[i].with = Emit(k, edit.replace[k]) /\ k \in ReplaceKeys(edit)
  BY <1>1, <1>2, <1>3 DEF SliceOf
<1>5. /\ n \in 1..Len(f) /\ Index(f)[n - 1].depth = 0 /\ Index(f)[n - 1].section = X
      /\ EndOf(f, n) \in n..Len(f)
      /\ \A j \in n..EndOf(f, n) : Index(f)[j].section = X
  BY <1>4, EntryIs
<1>6. EndOf(f, n) \in n..EndOf(f, n)
  BY <1>5
<1>7. Index(f)[R[i].end].depth = 0 /\ Index(f)[R[i].end].section = X
  BY <1>1, <1>2, <1>4, <1>5, <1>6
<1>8. k \in K
  BY <1>4 DEF Sensible
<1>9. Fits(R[i].with, {k})
  <2>1. CASE R[i].with = <<>>
    BY <2>1, NoneFits
  <2>2. CASE R[i].with = Emit(k, edit.replace[k]) /\ k \in ReplaceKeys(edit)
    <3>1. IsBlock(Emit(k, edit.replace[k]), k)
      BY <2>2, WithIsTyped
    <3>2. k \in {k}
      OBVIOUS
    <3> QED BY <2>2, <3>1, <3>2, BlockFits
  <2> QED BY <1>4, <2>1, <2>2
<1>10. \A j \in n..EndOf(f, n) : j \in Touched(f, X, {k})
  <2>1. f[n].key \in {k}
    BY <1>3
  <2> QED BY <1>4, <2>1, EntryTouched
<1>11. R[i].with \in Seq(Line)
  BY <1>4 DEF Slice
<1>12. i > 1 => R[i].end < R[i - 1].start
  <2> SUFFICES ASSUME i > 1 PROVE R[i].end < R[i - 1].start
    OBVIOUS
  <2>1. PICK j : j = i - 1
    OBVIOUS
  <2>0. R \in Seq(Slice)
    BY DEF Cuts
  <2>a. Len(R) \in Nat
    BY <2>0
  <2>2. j \in 1..Len(R) /\ j < i
    BY <2>1, <2>a
  <2>3. R[i].start < R[j].start
    BY <2>2 DEF Cuts
  <2>4. SliceOf(R[j], f, X, edit, R[j].start)
    BY <2>2 DEF Cuts
  <2>5. R[j].start \in Entries(f, X)
    BY <2>4 DEF SliceOf
  <2>6. EndOf(f, n) < R[j].start
    BY <1>2, <1>4, <2>3, <2>5, EntriesApart
  <2> QED BY <1>4, <2>1, <2>6
<1> QED BY <1>2, <1>3, <1>4, <1>5, <1>7, <1>8, <1>9, <1>10, <1>11, <1>12 DEF Cut

\* What n slices have left of f: its first lines, and a file nonetheless.
Left(cur, f, R, n) ==
  /\ cur \in Seq(Line) /\ Below(f, R, n) \in Nat
  /\ Below(f, R, n) <= Len(cur) /\ Below(f, R, n) <= Len(f)
  /\ \A i \in 1..Below(f, R, n) : cur[i] = f[i]

(* Where lines are left alone the editor goes as it went before.          *)
LEMMA LeftAlike ==
  ASSUME NEW f \in Seq(Line), NEW cur, NEW R, NEW n, Left(cur, f, R, n)
  PROVE  \A i \in 0..Below(f, R, n) : Alike(Index(f)[i], Index(cur)[i])
<1>1. PICK m : m = Below(f, R, n)
  OBVIOUS
<1>2. /\ cur \in Seq(Line) /\ m \in Nat /\ m <= Len(cur) /\ m <= Len(f) /\ \A i \in 1..m : cur[i] = f[i]
  BY <1>1 DEF Left
<1>3. PICK z : z = 0
  OBVIOUS
<1>4. Alike(Index(f)[z], Index(cur)[z])
  <2>1. Walk(Index(f), f) /\ Walk(Index(cur), cur)
    BY <1>2, IndexIs
  <2>2. Index(f)[0] = Index(cur)[0]
    BY <2>1 DEF Walk
  <2> QED BY <1>3, <2>2 DEF Alike
<1>5. z \in Nat /\ z + m <= Len(f) /\ z + m <= Len(cur) /\ \A i \in 1..m : f[z + i] = cur[z + i]
  BY <1>2, <1>3
<1>6. \A i \in 0..m : Alike(Index(f)[z + i], Index(cur)[z + i])
  BY <1>2, <1>4, <1>5, WalksAlike
<1> QED BY <1>1, <1>3, <1>6

(* One slice more.                                                         *)
LEMMA OneCut ==
  ASSUME NEW f \in Seq(Line), NEW X, NEW edit, NEW K, Sensible(edit, K), Fitting(edit), NEW R,
         Cuts(R, f, X, edit),
         NEW n \in 1..Len(R), NEW cur, Left(cur, f, R, n - 1)
  PROVE  /\ Left(Splice(cur, R[n]), f, R, n)
         /\ CleanSwap(Splice(cur, R[n]), cur, R[n].start - 1, R[n].end, R[n].with, X, {f[R[n].start].key})
         /\ R[n].end <= Below(f, R, n - 1)
<1>1. PICK s : s = R[n].start
  OBVIOUS
<1>2. PICK e : e = R[n].end
  OBVIOUS
<1>3. PICK W : W = R[n].with
  OBVIOUS
<1>4. PICK k : k = f[s].key
  OBVIOUS
<1>5. PICK p : p = s - 1
  OBVIOUS
<1>6. PICK b : b = Below(f, R, n - 1)
  OBVIOUS
<1>7. /\ s \in 1..Len(f) /\ e \in s..Len(f) /\ W \in Seq(Line)
      /\ Index(f)[p].depth = 0 /\ Index(f)[p].section = X
      /\ Index(f)[e].depth = 0 /\ Index(f)[e].section = X
      /\ Fits(W, {k}) /\ \A j \in s..e : j \in Touched(f, X, {k})
      /\ n > 1 => e < R[n - 1].start
  <2>1. Cut(R[n], f, X, K) /\ (n > 1 => R[n].end < R[n - 1].start)
    BY CutIs
  <2> QED BY <1>1, <1>2, <1>3, <1>4, <1>5, <2>1 DEF Cut
<1>8. /\ cur \in Seq(Line) /\ b \in Nat /\ b <= Len(cur) /\ b <= Len(f) /\ \A i \in 1..b : cur[i] = f[i]
  BY <1>6 DEF Left
<1>9. e <= b
  <2>1. CASE n = 1
    <3>1. b = Len(f)
      BY <1>6, <2>1 DEF Below
    <3> QED BY <1>7, <3>1
  <2>2. CASE n # 1
    <3>0. n \in Int /\ 1 <= n
      OBVIOUS
    <3>1. n > 1 /\ n - 1 # 0
      BY <2>2, <3>0
    <3>2. b = R[n - 1].start - 1
      BY <1>6, <3>1 DEF Below
    <3>3. PICK r : r = R[n - 1].start
      OBVIOUS
    <3>4. r \in Nat
      <4>1. R \in Seq(Slice)
        BY DEF Cuts
      <4>2. Len(R) \in Nat
        BY <4>1
      <4>3. n - 1 \in 1..Len(R)
        BY <3>0, <3>1, <4>2
      <4>4. R[n - 1] \in Slice
        BY <4>1, <4>3
      <4> QED BY <3>3, <4>4 DEF Slice
    <3> QED BY <1>7, <3>1, <3>2, <3>3, <3>4
  <2> QED BY <2>1, <2>2
<1>10. /\ p \in Nat /\ e \in Nat /\ p <= e /\ e <= Len(cur) /\ p <= b /\ s \in Nat /\ p + 1 = s
  <2>1. Len(cur) \in Nat /\ Len(f) \in Nat
    BY <1>8
  <2> QED BY <1>5, <1>7, <1>8, <1>9, <2>1
<1>11. PICK g : g = Splice(cur, R[n])
  OBVIOUS
<1>12. g \in Seq(Line) /\ Swap(g, cur, p, e, W)
  <2>1. g = SubSeq(cur, 1, p) \o W \o SubSeq(cur, e + 1, Len(cur))
    BY <1>1, <1>2, <1>3, <1>5, <1>11 DEF Splice
  <2> QED BY <1>7, <1>8, <1>10, <2>1, SwapIs
<1>13. \A i \in 0..b : Alike(Index(f)[i], Index(cur)[i])
  BY <1>6, LeftAlike
<1>14. /\ Index(cur)[p].depth = 0 /\ Index(cur)[p].section = X
       /\ Index(cur)[e].depth = 0 /\ Index(cur)[e].section = X
  <2>1. p \in 0..b /\ e \in 0..b
    BY <1>8, <1>9, <1>10
  <2>2. Alike(Index(f)[p], Index(cur)[p]) /\ Alike(Index(f)[e], Index(cur)[e])
    BY <1>13, <2>1
  <2> QED BY <1>7, <2>2 DEF Alike
<1>15. ASSUME NEW j \in (p + 1)..e PROVE j \in Touched(cur, X, {k})
  <2>0. Len(f) \in Nat /\ Len(cur) \in Nat
    BY <1>8
  <2>1. j \in s..e /\ j \in 1..b /\ j \in 1..Len(f) /\ j \in 1..Len(cur) /\ j - 1 \in 0..b
    BY <1>7, <1>8, <1>9, <1>10, <2>0
  <2>2. f[j] = cur[j] /\ Alike(Index(f)[j - 1], Index(cur)[j - 1])
    BY <1>8, <1>13, <2>1
  <2>3. j \in Touched(f, X, {k}) <=> j \in Touched(cur, X, {k})
    BY <1>8, <2>1, <2>2, TouchedAlike
  <2> QED BY <1>7, <2>1, <2>3
<1>16. CleanSwap(g, cur, p, e, W, X, {k})
  BY <1>7, <1>8, <1>10, <1>12, <1>14, <1>15 DEF CleanSwap
<1>17. Left(g, f, R, n)
  <2>0. Len(f) \in Nat /\ Len(cur) \in Nat /\ Len(W) \in Nat /\ Len(g) \in Nat
    BY <1>7, <1>8, <1>12
  <2>1. n # 0
    OBVIOUS
  <2>2. Below(f, R, n) = p
    BY <1>1, <1>5, <2>1 DEF Below
  <2>3. Len(g) = p + Len(W) + (Len(cur) - e) /\ \A i \in 1..p : g[i] = cur[i]
    BY <1>12 DEF Swap
  <2>4. p <= Len(g) /\ p <= Len(f)
    BY <1>8, <1>10, <2>0, <2>3
  <2>5. \A i \in 1..p : g[i] = f[i]
    BY <1>8, <1>10, <2>3
  <2> QED BY <1>10, <1>12, <2>2, <2>4, <2>5 DEF Left
<1> QED BY <1>1, <1>2, <1>3, <1>4, <1>5, <1>6, <1>9, <1>11, <1>16, <1>17

(* All of them, one after the other.                                       *)
LEMMA AllCuts ==
  ASSUME NEW f \in Seq(Line), NEW X, NEW edit, NEW K, Sensible(edit, K), Fitting(edit), NEW R,
         Cuts(R, f, X, edit)
  PROVE  /\ \A n \in 0..Len(R) : Left(Spliced(f, R)[n], f, R, n)
         /\ \A n \in 1..Len(R) :
              CleanSwap(Spliced(f, R)[n], Spliced(f, R)[n - 1], R[n].start - 1, R[n].end, R[n].with,
                        X, {f[R[n].start].key})
<1>0. R \in Seq(Slice)
  BY DEF Cuts
<1>1. Len(R) \in Nat
  BY <1>0
<1>2. PICK h : h = Spliced(f, R)
  OBVIOUS
<1>3. h[0] = f /\ \A n \in 1..Len(R) : h[n] = Splice(h[n - 1], R[n])
  BY <1>1, <1>2, SplicedIs
<1> DEFINE D == {n \in 0..Len(R) : Left(h[n], f, R, n)}
<1>4. 0 \in D
  <2>1. Left(f, f, R, 0)
    BY DEF Left, Below
  <2> QED BY <1>1, <1>3, <2>1
<1>5. ASSUME NEW n \in 0..Len(R), n < Len(R), n \in D PROVE n + 1 \in D
  <2>1. PICK m : m = n + 1
    OBVIOUS
  <2>2. m \in 1..Len(R) /\ m - 1 = n /\ m \in 0..Len(R)
    BY <1>1, <1>5, <2>1
  <2>3. Left(h[n], f, R, m - 1) /\ h[m] = Splice(h[n], R[m])
    BY <1>3, <1>5, <2>2
  <2>4. Left(h[m], f, R, m)
    BY <2>2, <2>3, OneCut
  <2> QED BY <2>1, <2>2, <2>4
<1>6. \A n \in 0..Len(R) : n \in D
  <2> HIDE DEF D
  <2> QED BY <1>1, <1>4, <1>5, UpTo
<1>7. ASSUME NEW n \in 1..Len(R)
      PROVE CleanSwap(h[n], h[n - 1], R[n].start - 1, R[n].end, R[n].with, X, {f[R[n].start].key})
  <2>1. n - 1 \in 0..Len(R)
    BY <1>1
  <2>2. PICK c : c = h[n - 1]
    OBVIOUS
  <2>3. Left(c, f, R, n - 1) /\ h[n] = Splice(c, R[n])
    BY <1>3, <1>6, <2>1, <2>2
  <2>4. CleanSwap(Splice(c, R[n]), c, R[n].start - 1, R[n].end, R[n].with, X, {f[R[n].start].key})
    BY <2>3, OneCut
  <2> QED BY <2>2, <2>3, <2>4
<1> QED BY <1>2, <1>6, <1>7

(* With more keys more is touched.                                        *)
LEMMA TouchesMore ==
  ASSUME NEW f, NEW X, NEW K, NEW k \in K
  PROVE  Touched(f, X, {k}) \subseteq Touched(f, X, K)
  BY DEF Touched

(* A clean swap of one key is one of more keys.                           *)
LEMMA SwapOfMore ==
  ASSUME NEW f, NEW g, NEW p, NEW e, NEW W, NEW X, NEW K, NEW k \in K, CleanSwap(g, f, p, e, W, X, {k})
  PROVE  CleanSwap(g, f, p, e, W, X, K)
<1>1. Fits(W, K)
  <2>1. Fits(W, {k})
    BY DEF CleanSwap
  <2> QED BY <2>1 DEF Fits
<1>2. \A j \in (p + 1)..e : j \in Touched(f, X, K)
  <2>1. \A j \in (p + 1)..e : j \in Touched(f, X, {k})
    BY DEF CleanSwap
  <2> QED BY <2>1, TouchesMore
<1> QED BY <1>1, <1>2 DEF CleanSwap

(* The rest of a file is the rest of what the slices leave of it.          *)
LEMMA CutsKeepRest ==
  ASSUME NEW f \in Seq(Line), NEW X, NEW edit, NEW K, Sensible(edit, K), Fitting(edit), NEW R,
         Cuts(R, f, X, edit)
  PROVE  Rest(Spliced(f, R)[Len(R)], X, K) = Rest(f, X, K)
<1>0. R \in Seq(Slice)
  BY DEF Cuts
<1>1. Len(R) \in Nat
  BY <1>0
<1>2. PICK h : h = Spliced(f, R)
  OBVIOUS
<1>3. h[0] = f
  BY <1>1, <1>2, SplicedIs
<1> DEFINE D == {n \in 0..Len(R) : Rest(h[n], X, K) = Rest(f, X, K)}
<1>4. 0 \in D
  BY <1>1, <1>3
<1>5. ASSUME NEW n \in 0..Len(R), n < Len(R), n \in D PROVE n + 1 \in D
  <2>1. PICK m : m = n + 1
    OBVIOUS
  <2>2. m \in 1..Len(R) /\ m - 1 = n /\ m \in 0..Len(R)
    BY <1>1, <1>5, <2>1
  <2>3. CleanSwap(h[m], h[m - 1], R[m].start - 1, R[m].end, R[m].with, X, {f[R[m].start].key})
    BY <1>2, <2>2, AllCuts
  <2>4. f[R[m].start].key \in K
    <3>1. Cut(R[m], f, X, K)
      BY <2>2, CutIs
    <3> QED BY <3>1 DEF Cut
  <2>5. CleanSwap(h[m], h[m - 1], R[m].start - 1, R[m].end, R[m].with, X, K)
    BY <2>3, <2>4, SwapOfMore
  <2>6. Rest(h[m], X, K) = Rest(h[m - 1], X, K)
    BY <2>5, SwapKeepsRest
  <2> QED BY <1>5, <2>1, <2>2, <2>6
<1>6. \A n \in 0..Len(R) : n \in D
  <2> HIDE DEF D
  <2> QED BY <1>1, <1>4, <1>5, UpTo
<1>7. Len(R) \in D
  BY <1>1, <1>6
<1> QED BY <1>2, <1>7

(* A line of section X at which the editor is in no value, moved by the    *)
(* slices before it: it is there, and the editor is there as before.       *)
Stands(g, q, X) == q \in 0..Len(g) /\ Index(g)[q].depth = 0 /\ Index(g)[q].section = X
\* Where the line is when n slices are cut: untouched, or below them.
Moved(f, R, n, last, q) ==
  \/ q = last /\ last <= Below(f, R, n)
  \/ Below(f, R, n) <= q /\ Below(f, R, n) < last

\* What the slice makes of the line's position.
Rides(r, q, slice, last) ==
  r = IF slice.start <= last THEN q + Len(slice.with) - (slice.end - slice.start + 1) ELSE q

(* One slice moves a line of the section, or swallows it, and leaves the  *)
(* editor in no value there.                                              *)
LEMMA OneMove ==
  ASSUME NEW f \in Seq(Line), NEW X, NEW edit, NEW K, Sensible(edit, K), Fitting(edit), NEW R,
         Cuts(R, f, X, edit), NEW n \in 1..Len(R), NEW cur, Left(cur, f, R, n - 1),
         NEW last, Stands(f, last, X), NEW q, Stands(cur, q, X), Moved(f, R, n - 1, last, q),
         NEW r, Rides(r, q, R[n], last)
  PROVE  Stands(Splice(cur, R[n]), r, X) /\ Moved(f, R, n, last, r)
<1>1. PICK s : s = R[n].start
  OBVIOUS
<1>2. PICK e : e = R[n].end
  OBVIOUS
<1>3. PICK W : W = R[n].with
  OBVIOUS
<1>4. PICK p : p = R[n].start - 1
  OBVIOUS
<1>5. PICK b : b = Below(f, R, n - 1)
  OBVIOUS
<1>6. PICK g : g = Splice(cur, R[n])
  OBVIOUS
<1>7. PICK k : k = f[R[n].start].key
  OBVIOUS
<1>8. CleanSwap(g, cur, p, e, W, X, {k}) /\ e <= b /\ Left(g, f, R, n)
  <2>1. /\ Left(Splice(cur, R[n]), f, R, n)
        /\ CleanSwap(Splice(cur, R[n]), cur, R[n].start - 1, R[n].end, R[n].with, X, {f[R[n].start].key})
        /\ R[n].end <= Below(f, R, n - 1)
    BY OneCut
  <2> QED BY <2>1, <1>1, <1>2, <1>3, <1>4, <1>5, <1>6, <1>7
<1>9. /\ cur \in Seq(Line) /\ g \in Seq(Line) /\ p \in Nat /\ e \in Nat /\ p <= e /\ e <= Len(cur)
      /\ Len(g) = p + Len(W) + (Len(cur) - e)
  BY <1>8 DEF CleanSwap, Swap
<1>10. W \in Seq(Line) /\ Len(W) \in Nat /\ Len(cur) \in Nat /\ Len(g) \in Nat
  <2>1. W \in Seq(Line)
    BY <1>8 DEF CleanSwap, Fits
  <2> QED BY <2>1, <1>9
<1>11. /\ \A i \in 0..p : Alike(Index(cur)[i], Index(g)[i])
       /\ \A i \in 0..(Len(cur) - e) : Alike(Index(cur)[e + i], Index(g)[p + Len(W) + i])
  BY <1>8, SwapWalks
<1>12. Cut(R[n], f, X, K)
  BY CutIs
<1>13. s \in 1..Len(f) /\ e \in s..Len(f) /\ e = EndOf(f, s) /\ s \in Entries(f, X)
  BY <1>1, <1>2, <1>12 DEF Cut
<1>14. s \in Nat /\ p = s - 1
  BY <1>1, <1>4, <1>13
<1>15. /\ last \in 0..Len(f) /\ Index(f)[last].depth = 0 /\ Index(f)[last].section = X
       /\ q \in 0..Len(cur) /\ Index(cur)[q].depth = 0 /\ Index(cur)[q].section = X
  BY DEF Stands
<1>16. b \in Nat /\ b <= Len(f) /\ b <= Len(cur)
  BY <1>5 DEF Left
<1>17. (q = last /\ last <= b) \/ (b <= q /\ b < last)
  BY <1>5 DEF Moved
<1>18. Below(f, R, n) = p
  <2>1. n # 0
    OBVIOUS
  <2> QED BY <2>1, <1>4 DEF Below
<1>19. Len(f) \in Nat /\ last \in Nat /\ q \in Nat
  BY <1>9, <1>10, <1>15
<1>20. CASE s <= last
  <2>1. e <= last
    BY <1>13, <1>14, <1>15, <1>19, <1>20, EntryStops
  <2>2. e <= q
    BY <1>8, <1>9, <1>16, <1>17, <1>19, <2>1
  <2>3. r = q + Len(W) - (e - s + 1)
    BY <1>1, <1>2, <1>3, <1>20 DEF Rides
  <2>4. PICK i : i = q - e
    OBVIOUS
  <2>5. PICK w : w = Len(W)
    OBVIOUS
  <2>a. PICK c : c = Len(cur)
    OBVIOUS
  <2>b. e \in Int /\ p \in Int /\ q \in Int /\ w \in Nat /\ c \in Nat /\ s = p + 1 /\ i \in Int
    <3>1. e \in Int /\ p \in Int /\ q \in Int /\ w \in Nat /\ c \in Nat
      BY <1>9, <1>10, <1>19, <2>5, <2>a
    <3>2. s = p + 1
      BY <1>14
    <3> QED BY <3>1, <3>2, <2>4
  <2>c. Len(g) = p + w + (c - e) /\ q <= c /\ p <= e /\ e <= c
    BY <1>9, <1>15, <1>10, <2>5, <2>a
  <2>d. r = q + w - (e - s + 1)
    BY <2>3, <2>5
  <2>e. e + i = q /\ 0 <= i /\ i <= c - e
    BY <2>2, <2>4, <2>b, <2>c
  <2>f. r = p + w + i
    BY <2>b, <2>d, <2>e
  <2>g. r \in Int /\ p <= r /\ 0 <= r /\ r <= Len(g)
    <3>1. 0 <= p
      BY <1>9
    <3> QED BY <3>1, <2>b, <2>c, <2>e, <2>f
  <2>h. r \in 0..Len(g)
    BY <1>10, <2>g
  <2>k. p < last
    BY <1>14, <1>19, <1>20
  <2>l. i \in 0..(Len(cur) - e)
    BY <2>a, <2>b, <2>e
  <2>7. Alike(Index(cur)[q], Index(g)[r])
    <3>1. Alike(Index(cur)[e + i], Index(g)[p + Len(W) + i])
      BY <1>11, <2>l
    <3> QED BY <2>5, <2>e, <2>f, <3>1
  <2>8. Stands(g, r, X)
    BY <1>15, <2>h, <2>7 DEF Stands, Alike
  <2>9. Moved(f, R, n, last, r)
    BY <1>18, <2>g, <2>k DEF Moved
  <2> QED BY <1>6, <2>8, <2>9
<1>21. CASE ~(s <= last)
  <2>1. r = q
    BY <1>1, <1>21 DEF Rides
  <2>2. q = last /\ last <= p
    BY <1>8, <1>9, <1>14, <1>13, <1>16, <1>17, <1>19, <1>21
  <2>3. Alike(Index(cur)[q], Index(g)[q]) /\ q \in 0..Len(g)
    <3>1. q \in 0..p
      BY <1>9, <1>19, <2>2
    <3> QED BY <1>9, <1>10, <1>11, <3>1
  <2>4. Stands(g, r, X)
    BY <1>15, <2>1, <2>3 DEF Stands, Alike
  <2>5. Moved(f, R, n, last, r)
    BY <1>18, <2>1, <2>2 DEF Moved
  <2> QED BY <1>6, <2>4, <2>5
<1> QED BY <1>20, <1>21

(* Where `last + shift` points after the cuts: at a line of the section   *)
(* where the editor is in no value.                                       *)
LEMMA PositionIs ==
  ASSUME NEW f \in Seq(Line), NEW X, NEW edit, NEW K, Sensible(edit, K), Fitting(edit), NEW R,
         Cuts(R, f, X, edit), NEW last, Stands(f, last, X)
  PROVE  Stands(Spliced(f, R)[Len(R)], last + Shift(R, last), X)
<1>0. R \in Seq(Slice)
  BY DEF Cuts
<1>1. Len(R) \in Nat
  BY <1>0
<1>2. PICK h : h = Spliced(f, R)
  OBVIOUS
<1>3. h[0] = f /\ \A n \in 1..Len(R) : h[n] = Splice(h[n - 1], R[n])
  BY <1>1, <1>2, SplicedIs
<1>a. last \in 0..Len(f) /\ Len(f) \in Nat
  BY DEF Stands
<1>b. last \in Int
  BY <1>a
<1>4. PICK z : /\ z \in [0..Len(R) -> Int] /\ z[0] = 0 /\ Shift(R, last) = z[Len(R)]
               /\ \A n \in 1..Len(R) :
                    z[n] = IF R[n].start <= last
                           THEN z[n - 1] + Len(R[n].with) - (R[n].end - R[n].start + 1)
                           ELSE z[n - 1]
  BY <1>0, <1>b, ShiftIs
<1> DEFINE D == {n \in 0..Len(R) : Stands(h[n], last + z[n], X) /\ Moved(f, R, n, last, last + z[n])}
<1>5. 0 \in D
  <2>1. last + z[0] = last
    BY <1>b, <1>4
  <2>2. Moved(f, R, 0, last, last)
    BY <1>a DEF Moved, Below
  <2> QED BY <1>1, <1>3, <2>1, <2>2
<1>6. ASSUME NEW n \in 0..Len(R), n < Len(R), n \in D PROVE n + 1 \in D
  <2>1. PICK m : m = n + 1
    OBVIOUS
  <2>2. m \in 1..Len(R) /\ m - 1 = n /\ m \in 0..Len(R)
    BY <1>1, <1>6, <2>1
  <2>3. PICK q : q = last + z[n]
    OBVIOUS
  <2>4. PICK r : r = last + z[m]
    OBVIOUS
  <2>5. Rides(r, q, R[m], last)
    <3>0. R[m] \in Slice
      BY <1>0, <2>2
    <3>a. R[m].start \in Nat /\ R[m].end \in Nat /\ R[m].with \in Seq(Line)
      BY <3>0 DEF Slice
    <3>b. PICK s : s = R[m].start
      OBVIOUS
    <3>c. PICK e : e = R[m].end
      OBVIOUS
    <3>d. PICK w : w = Len(R[m].with)
      OBVIOUS
    <3>1. s \in Nat /\ e \in Nat /\ w \in Nat
      BY <3>a, <3>b, <3>c, <3>d
    <3>e. PICK u : u = z[n]
      OBVIOUS
    <3>f. PICK v : v = z[m]
      OBVIOUS
    <3>2. u \in Int
      BY <1>4, <1>6, <3>e
    <3>3. v = IF s <= last THEN u + w - (e - s + 1) ELSE u
      <4>1. v = IF R[m].start <= last
               THEN z[m - 1] + Len(R[m].with) - (R[m].end - R[m].start + 1)
               ELSE z[m - 1]
        BY <1>4, <2>2, <3>f
      <4>2. z[m - 1] = u
        BY <2>2, <3>e
      <4> QED BY <4>1, <4>2, <3>b, <3>c, <3>d
    <3>4. q = last + u /\ r = last + v
      BY <2>3, <2>4, <3>e, <3>f
    <3>5. r = IF s <= last THEN q + w - (e - s + 1) ELSE q
      BY <1>b, <3>1, <3>2, <3>3, <3>4
    <3> QED BY <3>5, <3>b, <3>c, <3>d DEF Rides
  <2>6. Stands(h[n], q, X) /\ Moved(f, R, m - 1, last, q) /\ Left(h[n], f, R, m - 1) /\ h[m] = Splice(h[n], R[m])
    <3>1. Left(h[n], f, R, n)
      BY <1>2, <1>6, AllCuts
    <3> QED BY <1>3, <1>6, <2>2, <2>3, <3>1
  <2>7. Stands(h[m], r, X) /\ Moved(f, R, m, last, r)
    BY <2>2, <2>5, <2>6, OneMove
  <2> QED BY <2>1, <2>2, <2>4, <2>7
<1>7. \A n \in 0..Len(R) : n \in D
  <2> HIDE DEF D
  <2> QED BY <1>1, <1>5, <1>6, UpTo
<1>8. Len(R) \in D
  BY <1>1, <1>7
<1> QED BY <1>2, <1>4, <1>8

-----------------------------------------------------------------------------
(* The insertion, and the whole edit.                                      *)

(* Where the first insertion goes: at a line of the section at which the   *)
(* editor is in no value.                                                  *)
LEMMA LastKeptIs ==
  ASSUME NEW f \in Seq(Line), NEW X, NEW edit, Targets(f, X) # {}, ~Unterminated(f, X)
  PROVE  Stands(f, LastKept(f, X, edit), X)
<1> DEFINE stays == {m \in Entries(f, X) : f[m].key \notin RemoveKeys(edit)}
           ends == {EndOf(f, n) : n \in stays} \cup Targets(f, X)
<1>0. Len(f) \in Nat /\ Walk(Index(f), f) /\ DOMAIN f = 1..Len(f)
  BY IndexIs
<1>1. ASSUME NEW e \in ends PROVE Stands(f, e, X)
  <2>1. CASE e \in Targets(f, X)
    <3>1. /\ e \in 1..Len(f) /\ Index(f)[e - 1].depth = 0 /\ f[e].kind = "header" /\ f[e].section = X
      BY <1>0, <2>1 DEF Targets
    <3>2. e - 1 \in 0..Len(f) /\ e \in 0..Len(f)
      BY <1>0, <3>1
    <3>3. Index(f)[e - 1] \in Cursor /\ f[e] \in Line /\ Index(f)[e] = IndexLine(Index(f)[e - 1], f[e])
      <4>1. f[e] \in Line
        BY <3>1
      <4> QED BY <1>0, <3>1, <3>2, <4>1 DEF Walk
    <3>4. Index(f)[e].section = X /\ Index(f)[e].depth = 0
      BY <3>1, <3>3, CursorMoves
    <3> QED BY <3>2, <3>4 DEF Stands
  <2>2. CASE e \in {EndOf(f, n) : n \in stays}
    <3>1. PICK n \in Entries(f, X) : e = EndOf(f, n)
      BY <2>2
    <3>2. Index(f)[e].depth = 0
      BY <3>1, EntryCloses
    <3>3. n \in 1..Len(f) /\ e \in n..Len(f) /\ Index(f)[e].section = X
      <4>1. n \in 1..Len(f) /\ EndOf(f, n) \in n..Len(f)
        BY EntryIs
      <4>2. \A j \in n..EndOf(f, n) : Index(f)[j].section = X
        BY EntryIs
      <4>3. EndOf(f, n) \in n..EndOf(f, n)
        BY <4>1, <1>0
      <4> QED BY <3>1, <4>1, <4>2, <4>3
    <3>4. e \in 0..Len(f)
      BY <1>0, <3>3
    <3> QED BY <3>2, <3>3, <3>4 DEF Stands
  <2> QED BY <2>1, <2>2
<1>2. ends \in SUBSET (0..Len(f)) /\ ends # {}
  <2>1. \A e \in ends : e \in 0..Len(f)
    BY <1>1 DEF Stands
  <2> QED BY <2>1
<1>3. \E e \in ends : \A g \in ends : g <= e
  <2> HIDE DEF ends
  <2> QED BY <1>0, <1>2, DownTo
<1>4. LastKept(f, X, edit) \in ends
  <2>1. LastKept(f, X, edit) = CHOOSE e \in ends : \A g \in ends : g <= e
    BY DEF LastKept
  <2> HIDE DEF ends
  <2> QED BY <1>3, <2>1
<1> QED BY <1>1, <1>4

(* Lines that all have their endings.                                      *)
Whole(f) == f \in Seq(Line) /\ \A i \in 1..Len(f) : f[i].ended

(* Nothing is glued when every line has its ending.                       *)
LEMMA JoinedOfWhole == ASSUME NEW f, Whole(f) PROVE Joined(f) = f
<1>1. {i \in 1..(Len(f) - 1) : ~f[i].ended} = {}
  <2>1. Len(f) \in Nat
    BY DEF Whole
  <2>2. \A i \in 1..(Len(f) - 1) : i \in 1..Len(f)
    BY <2>1
  <2> QED BY <2>2 DEF Whole
<1> QED BY <1>1 DEF Joined

(* A text whose last line is ended is whole.                              *)
LEMMA WholeOfText ==
  ASSUME NEW f, IsText(f), Ended(f)
  PROVE  Whole(f)
<1>1. f \in Seq(Line) /\ f # <<>> /\ Len(f) \in Nat
  BY DEF IsText
<1>2. Len(f) \in 1..Len(f)
  BY <1>1, EmptySeq
<1>3. \A i \in 1..Len(f) : i = Len(f) \/ i \in 1..(Len(f) - 1)
  BY <1>1
<1> QED BY <1>1, <1>2, <1>3 DEF Whole, IsText, Ended

(* Whole lines swapped for whole lines leave whole lines.                 *)
LEMMA WholeSwap ==
  ASSUME NEW f, NEW g, NEW p \in Nat, NEW e \in Nat, NEW W, Whole(f), Whole(W), g \in Seq(Line),
         p <= e, e <= Len(f), Swap(g, f, p, e, W)
  PROVE  Whole(g)
<1>0. Len(f) \in Nat /\ Len(W) \in Nat /\ Len(g) \in Nat
  BY DEF Whole
<1>1. /\ Len(g) = p + Len(W) + (Len(f) - e) /\ \A i \in 1..p : g[i] = f[i]
      /\ \A i \in 1..Len(W) : g[p + i] = W[i]
      /\ \A i \in 1..(Len(f) - e) : g[p + Len(W) + i] = f[e + i]
  BY DEF Swap
<1>2. ASSUME NEW i \in 1..Len(g) PROVE g[i].ended
  <2>1. CASE i <= p
    <3>1. i \in 1..p /\ i \in 1..Len(f)
      BY <1>0, <2>1
    <3> QED BY <1>1, <3>1 DEF Whole
  <2>2. CASE p < i /\ i <= p + Len(W)
    <3>1. PICK j : j = i - p
      OBVIOUS
    <3>2. j \in 1..Len(W) /\ p + j = i
      BY <1>0, <2>2, <3>1
    <3>3. g[p + j] = W[j]
      BY <1>1, <3>2
    <3> QED BY <3>2, <3>3 DEF Whole
  <2>3. CASE p + Len(W) < i
    <3>1. PICK w : w = Len(W)
      OBVIOUS
    <3>2. PICK j : j = i - (p + w)
      OBVIOUS
    <3>3. j \in 1..(Len(f) - e) /\ p + w + j = i /\ e + j \in 1..Len(f)
      <4>1. w \in Nat /\ Len(g) = p + w + (Len(f) - e) /\ p + w < i
        BY <1>0, <1>1, <2>3, <3>1
      <4>2. i \in Int /\ i <= Len(g) /\ Len(f) \in Nat
        BY <1>0
      <4> QED BY <4>1, <4>2, <3>2
    <3>4. g[p + w + j] = f[e + j]
      BY <1>1, <3>1, <3>3
    <3> QED BY <3>3, <3>4 DEF Whole
  <2> QED BY <1>0, <2>1, <2>2, <2>3
<1> QED BY <1>2 DEF Whole

(* An emitted entry is of whole lines.                                    *)
LEMMA EmitIsWhole == ASSUME NEW k \in Nat, NEW value, Written(value) PROVE Whole(Emit(k, value))
<1>1. value \in Values
  BY DEF Written
<1>2. Emit(k, value) \in Seq(Line)
  BY <1>1, EmitLines
<1>3. \A i \in 1..Len(Emit(k, value)) : Emit(k, value)[i].ended
  BY <1>1, EmitLines
<1> QED BY <1>2, <1>3 DEF Whole

(* Whole lines, one after the other, are whole.                           *)
LEMMA BothWhole ==
  ASSUME NEW f, NEW g, Whole(f), Whole(g)
  PROVE  Whole(f \o g)
<1>1. f \in Seq(Line) /\ g \in Seq(Line) /\ Len(f) \in Nat /\ Len(g) \in Nat
  BY DEF Whole
<1>2. /\ f \o g \in Seq(Line) /\ Len(f \o g) = Len(f) + Len(g)
      /\ \A i \in 1..(Len(f) + Len(g)) : (f \o g)[i] = IF i <= Len(f) THEN f[i] ELSE g[i - Len(f)]
  BY <1>1, ConcatProperties
<1>3. ASSUME NEW i \in 1..Len(f \o g) PROVE (f \o g)[i].ended
  <2>1. i \in 1..(Len(f) + Len(g))
    BY <1>2
  <2>2. CASE i <= Len(f)
    <3>1. i \in 1..Len(f)
      BY <2>1, <2>2, <1>1
    <3> QED BY <1>2, <2>1, <2>2, <3>1 DEF Whole
  <2>3. CASE ~(i <= Len(f))
    <3>1. i - Len(f) \in 1..Len(g)
      BY <2>1, <2>3, <1>1
    <3> QED BY <1>2, <2>1, <2>3, <3>1 DEF Whole
  <2> QED BY <2>2, <2>3
<1> QED BY <1>2, <1>3 DEF Whole

(* The lines of the insertions are whole.                                 *)
LEMMA EmitSortedIsWhole ==
  ASSUME NEW edit, NEW K, Sensible(edit, K)
  PROVE  Whole(EmitSorted(edit.insert))
<1>1. PICK ins : ins = edit.insert
  OBVIOUS
<1>2. ins \in Seq(Insertions) /\ Len(ins) \in Nat /\ \A i \in 1..Len(ins) : Written(ins[i].value)
  <2>1. ins \in Seq(Insertions)
    BY <1>1 DEF Sensible
  <2>2. \A i \in DOMAIN ins : Written(ins[i].value)
    BY <1>1 DEF Sensible
  <2> QED BY <2>1, <2>2
<1>3. PICK sorted, p, h : Emits(ins, sorted, p, h)
  BY <1>2, EmitSortedIs
<1>4. /\ sorted \in Seq(Insertions) /\ Len(sorted) = Len(ins) /\ p \in [1..Len(ins) -> 1..Len(ins)]
      /\ \A i \in 1..Len(ins) : sorted[i] = ins[p[i]]
      /\ h \in [0..Len(ins) -> Seq(Line)] /\ h[0] = <<>> /\ EmitSorted(ins) = h[Len(ins)]
      /\ \A n \in 1..Len(ins) : h[n] = h[n - 1] \o Emit(sorted[n].key, sorted[n].value)
  BY <1>3 DEF Emits
<1> DEFINE D == {n \in 0..Len(ins) : Whole(h[n])}
<1>5. 0 \in D
  <2>1. Whole(<<>>)
    BY DEF Whole
  <2> QED BY <1>2, <1>4, <2>1
<1>6. ASSUME NEW n \in 0..Len(ins), n < Len(ins), n \in D PROVE n + 1 \in D
  <2>1. PICK m : m = n + 1
    OBVIOUS
  <2>2. m \in 1..Len(ins) /\ m - 1 = n /\ m \in 0..Len(ins)
    BY <1>2, <1>6, <2>1
  <2>3. sorted[m] \in Insertions /\ Written(sorted[m].value)
    <3>1. sorted[m] \in Insertions
      BY <1>4, <2>2
    <3>2. p[m] \in 1..Len(ins) /\ sorted[m] = ins[p[m]]
      BY <1>4, <2>2
    <3> QED BY <1>2, <3>1, <3>2
  <2>4. sorted[m].key \in Nat
    BY <2>3 DEF Insertions
  <2>5. Whole(Emit(sorted[m].key, sorted[m].value))
    BY <2>3, <2>4, EmitIsWhole
  <2>6. h[m] = h[n] \o Emit(sorted[m].key, sorted[m].value)
    BY <1>4, <2>2
  <2>7. Whole(h[m])
    BY <1>6, <2>5, <2>6, BothWhole
  <2> QED BY <2>1, <2>2, <2>7
<1>7. \A n \in 0..Len(ins) : n \in D
  <2> HIDE DEF D
  <2> QED BY <1>2, <1>5, <1>6, UpTo
<1>8. Len(ins) \in D
  BY <1>2, <1>7
<1> QED BY <1>1, <1>4, <1>8

(* The cuts leave whole lines.                                            *)
LEMMA CutsAreWhole ==
  ASSUME NEW f, Whole(f), NEW X, NEW edit, NEW K, Sensible(edit, K), Fitting(edit), NEW R,
         Cuts(R, f, X, edit)
  PROVE  Whole(Spliced(f, R)[Len(R)])
<1>0. R \in Seq(Slice) /\ f \in Seq(Line)
  BY DEF Cuts, Whole
<1>1. Len(R) \in Nat
  BY <1>0
<1>2. PICK h : h = Spliced(f, R)
  OBVIOUS
<1>3. h[0] = f
  BY <1>1, <1>2, SplicedIs
<1> DEFINE D == {n \in 0..Len(R) : Whole(h[n])}
<1>4. 0 \in D
  BY <1>1, <1>3
<1>5. ASSUME NEW n \in 0..Len(R), n < Len(R), n \in D PROVE n + 1 \in D
  <2>1. PICK m : m = n + 1
    OBVIOUS
  <2>2. m \in 1..Len(R) /\ m - 1 = n /\ m \in 0..Len(R)
    BY <1>1, <1>5, <2>1
  <2>3. PICK p : p = R[m].start - 1
    OBVIOUS
  <2>4. PICK e : e = R[m].end
    OBVIOUS
  <2>5. PICK W : W = R[m].with
    OBVIOUS
  <2>6. CleanSwap(h[m], h[n], p, e, W, X, {f[R[m].start].key})
    BY <1>0, <1>2, <2>2, <2>3, <2>4, <2>5, AllCuts
  <2>7. /\ h[m] \in Seq(Line) /\ p \in Nat /\ e \in Nat /\ p <= e /\ e <= Len(h[n])
        /\ Swap(h[m], h[n], p, e, W)
    BY <2>6 DEF CleanSwap
  <2>8. Whole(W)
    <3>1. SliceOf(R[m], f, X, edit, R[m].start)
      BY <2>2 DEF Cuts
    <3>2. PICK k : k = f[R[m].start].key
      OBVIOUS
    <3>3. W = <<>> \/ (W = Emit(k, edit.replace[k]) /\ k \in ReplaceKeys(edit))
      BY <2>5, <3>1, <3>2 DEF SliceOf
    <3>4. CASE W = <<>>
      BY <3>4 DEF Whole
    <3>5. CASE W = Emit(k, edit.replace[k]) /\ k \in ReplaceKeys(edit)
      <4>1. k \in Nat
        BY <3>5, WithIsTyped
      <4>2. Written(edit.replace[k])
        BY <3>5 DEF Sensible, ReplaceKeys
      <4> QED BY <3>5, <4>1, <4>2, EmitIsWhole
    <3> QED BY <3>3, <3>4, <3>5
  <2>9. Whole(h[m])
    BY <1>5, <2>7, <2>8, WholeSwap
  <2> QED BY <2>1, <2>2, <2>9
<1>6. \A n \in 0..Len(R) : n \in D
  <2> HIDE DEF D
  <2> QED BY <1>1, <1>4, <1>5, UpTo
<1>7. Len(R) \in D
  BY <1>1, <1>6
<1> QED BY <1>2, <1>7

(* Python's position is one of the list's, and itself when it was.        *)
LEMMA PositionInside ==
  ASSUME NEW p \in Int, NEW n \in Nat
  PROVE  Position(p, n) \in 0..n /\ (p \in 0..n => Position(p, n) = p)
<1>1. CASE p > n
  BY <1>1 DEF Position
<1>2. CASE p < 0 /\ n + p < 0
  BY <1>2 DEF Position
<1>3. CASE p < 0 /\ n + p >= 0
  BY <1>3 DEF Position
<1>4. CASE p >= 0 /\ p <= n
  BY <1>4 DEF Position
<1> QED BY <1>1, <1>2, <1>3, <1>4

(* Lines that fit, put in where the editor is in no value.                 *)
LEMMA InsertIs ==
  ASSUME NEW s \in Seq(Line), NEW at \in 0..Len(s), NEW W \in Seq(Line)
  PROVE  InsertLines(s, at, W) \in Seq(Line) /\ Swap(InsertLines(s, at, W), s, at, at, W)
<1>1. at \in Nat /\ at <= at /\ at <= Len(s)
  <2>1. Len(s) \in Nat
    OBVIOUS
  <2> QED BY <2>1
<1>2. InsertLines(s, at, W) = SubSeq(s, 1, at) \o W \o SubSeq(s, at + 1, Len(s))
  BY DEF InsertLines
<1> QED BY <1>1, <1>2, SwapIs

(* Inserted where the editor is in no value, they are a clean swap.          *)
LEMMA InsertIsClean ==
  ASSUME NEW s \in Seq(Line), NEW at, NEW X, NEW K, NEW W, Stands(s, at, X), Fits(W, K)
  PROVE  CleanSwap(InsertLines(s, at, W), s, at, at, W, X, K)
<1>1. at \in 0..Len(s) /\ Len(s) \in Nat /\ Index(s)[at].depth = 0 /\ Index(s)[at].section = X
  BY DEF Stands
<1>2. W \in Seq(Line)
  BY DEF Fits
<1>3. InsertLines(s, at, W) \in Seq(Line) /\ Swap(InsertLines(s, at, W), s, at, at, W)
  BY <1>1, <1>2, InsertIs
<1>4. at \in Nat /\ at <= at /\ at <= Len(s)
  BY <1>1
<1>5. \A j \in (at + 1)..at : j \in Touched(s, X, K)
  BY <1>4
<1> QED BY <1>1, <1>3, <1>4, <1>5 DEF CleanSwap

(* What the editor was told is the whole of what it does to a file that    *)
(* has the section: it leaves the rest.                                    *)
LEMMA EditKeepsRest ==
  ASSUME NEW f, Whole(f), NEW X, NEW edit, NEW K, Sensible(edit, K), Fitting(edit), Distinct(edit),
         Targets(f, X) # {}, ~Unterminated(f, X),
         RemoveKeys(edit) \cup ReplaceKeys(edit) \subseteq KeysOf(f, X)
  PROVE  Rest(EditSection(f, X, edit), X, K) = Rest(f, X, K)
<1>0. f \in Seq(Line)
  BY DEF Whole
<1>1. PICK R : R = FromBelow(Slices(f, X, edit))
  OBVIOUS
<1>2. Cuts(R, f, X, edit)
  BY <1>0, <1>1, CutsAre
<1>3. PICK s : s = Spliced(f, R)[Len(R)]
  OBVIOUS
<1>4. Rest(s, X, K) = Rest(f, X, K)
  BY <1>0, <1>2, <1>3, CutsKeepRest
<1>5. PICK last : last = LastKept(f, X, edit)
  OBVIOUS
<1>6. Stands(f, last, X)
  BY <1>0, <1>5, LastKeptIs
<1>7. PICK q : q = last + Shift(R, last)
  OBVIOUS
<1>8. Stands(s, q, X)
  BY <1>0, <1>2, <1>3, <1>6, <1>7, PositionIs
<1>9. Whole(s)
  BY <1>2, <1>3, CutsAreWhole
<1>10. q \in 0..Len(s) /\ Len(s) \in Nat /\ s \in Seq(Line)
  BY <1>8, <1>9 DEF Stands, Whole
<1>11. Position(q, Len(s)) = q
  <2>1. q \in Int
    BY <1>10
  <2> QED BY <2>1, <1>10, PositionInside
<1>12. PICK W : W = EmitSorted(edit.insert)
  OBVIOUS
<1>13. EditSection(f, X, edit) = Joined(IF edit.insert = <<>> THEN s ELSE InsertLines(s, q, W))
  BY <1>1, <1>3, <1>5, <1>7, <1>11, <1>12 DEF EditSection
<1>14. CASE edit.insert = <<>>
  BY <1>4, <1>9, <1>13, <1>14, JoinedOfWhole
<1>15. CASE edit.insert # <<>>
  <2>1. CleanSwap(InsertLines(s, q, W), s, q, q, W, X, K)
    <3>1. Fits(W, K)
      BY <1>12, EmitSortedFits
    <3> QED BY <1>8, <1>10, <3>1, InsertIsClean
  <2>2. Whole(InsertLines(s, q, W))
    <3>1. Whole(W)
      BY <1>12, EmitSortedIsWhole
    <3>2. W \in Seq(Line)
      BY <3>1 DEF Whole
    <3>3. InsertLines(s, q, W) \in Seq(Line) /\ Swap(InsertLines(s, q, W), s, q, q, W)
      BY <1>10, <3>2, InsertIs
    <3>4. q \in Nat /\ q <= q /\ q <= Len(s)
      BY <1>10
    <3> QED BY <1>9, <3>1, <3>3, <3>4, WholeSwap
  <2>3. EditSection(f, X, edit) = InsertLines(s, q, W)
    BY <1>13, <1>15, <2>2, JoinedOfWhole
  <2>4. Rest(InsertLines(s, q, W), X, K) = Rest(s, X, K)
    BY <2>1, SwapKeepsRest
  <2> QED BY <1>4, <2>3, <2>4
<1> QED BY <1>14, <1>15

(* A file given its last ending is whole.                                 *)
LEMMA EndIs ==
  ASSUME NEW f, IsText(f)
  PROVE  End(f) \in Seq(Line) /\ Len(End(f)) = Len(f) /\ Whole(End(f))
<1>1. f \in Seq(Line) /\ Len(f) \in Nat /\ Len(f) \in 1..Len(f) /\ DOMAIN f = 1..Len(f)
  <2>1. f \in Seq(Line) /\ f # <<>>
    BY DEF IsText
  <2>2. Len(f) \in Nat /\ DOMAIN f = 1..Len(f)
    BY <2>1
  <2>3. Len(f) # 0
    BY <2>1, EmptySeq
  <2> QED BY <2>1, <2>2, <2>3
<1>2. PICK line : line = [f[Len(f)] EXCEPT !.ended = TRUE]
  OBVIOUS
<1>3. line \in Line /\ line.ended
  <2>1. f[Len(f)] \in Line
    BY <1>1
  <2>2. PICK l : l = f[Len(f)]
    OBVIOUS
  <2>3. l = [kind |-> l.kind, section |-> l.section, key |-> l.key, star |-> l.star,
             text |-> l.text, ended |-> l.ended]
    BY <2>1, <2>2 DEF Line
  <2>4. line = [kind |-> l.kind, section |-> l.section, key |-> l.key, star |-> l.star,
                text |-> l.text, ended |-> TRUE]
    BY <1>2, <2>2, <2>3
  <2> QED BY <2>1, <2>2, <2>4, LineFields DEF Line
<1>4. End(f) = [i \in 1..Len(f) |-> IF i = Len(f) THEN line ELSE f[i]]
  BY <1>1, <1>2 DEF End
<1>5. \A i \in 1..Len(f) : (IF i = Len(f) THEN line ELSE f[i]) \in Line
  <2>1. line \in Line
    BY <1>3
  <2>2. \A i \in 1..Len(f) : f[i] \in Line
    BY <1>1
  <2> QED BY <2>1, <2>2
<1>6. End(f) \in [1..Len(f) -> Line]
  BY <1>4, <1>5
<1>7. End(f) \in Seq(Line) /\ Len(End(f)) = Len(f)
  BY <1>1, <1>6
<1>8. \A i \in 1..Len(f) : End(f)[i].ended
  <2> SUFFICES ASSUME NEW i \in 1..Len(f) PROVE End(f)[i].ended
    OBVIOUS
  <2>1. PICK N : N = Len(f)
    OBVIOUS
  <2>2. N \in Nat /\ i \in 1..N
    BY <1>1, <2>1
  <2>3. i = N \/ i \in 1..(N - 1)
    BY <2>2
  <2>4. i \in 1..(N - 1) => f[i].ended
    BY <2>1 DEF IsText
  <2> QED BY <1>3, <1>4, <2>1, <2>3, <2>4
<1> QED BY <1>7, <1>8 DEF Whole

(* A section appended to a file leaves the lines before it alone.         *)
LEMMA AppendIs ==
  ASSUME NEW f, IsText(f), NEW X \in Texts, NEW edit, NEW K, Sensible(edit, K)
  PROVE  /\ Whole(AppendSection(f, X, edit))
         /\ Len(AppendSection(f, X, edit)) > Len(f)
         /\ IsPrefix(End(f), AppendSection(f, X, edit))
<1>1. End(f) \in Seq(Line) /\ Len(End(f)) = Len(f) /\ Whole(End(f)) /\ Len(f) \in Nat
  BY EndIs DEF IsText
<1>2. Plain("blank") \in Line /\ Header(X) \in Line /\ Plain("blank").ended /\ Header(X).ended
  <2>1. "" \in Texts
    BY TextsAssumption
  <2>2. Plain("blank") \in Line /\ Plain("blank").ended
    BY <2>1 DEF Plain, Line, LineKind, NoSection, NoKey
  <2>3. PICK l : l = Plain("header")
    OBVIOUS
  <2>4. l \in Line /\ l.ended
    BY <2>1, <2>3 DEF Plain, Line, LineKind, NoSection, NoKey
  <2>5. l = [kind |-> l.kind, section |-> l.section, key |-> l.key, star |-> l.star,
             text |-> l.text, ended |-> l.ended]
    BY <2>4 DEF Line
  <2>6. Header(X) = [l EXCEPT !.section = X]
    BY <2>3 DEF Header
  <2>7. [l EXCEPT !.section = X] = [kind |-> l.kind, section |-> X, key |-> l.key, star |-> l.star,
                                    text |-> l.text, ended |-> l.ended]
    BY <2>5
  <2>8. Header(X) \in Line /\ Header(X).ended
    BY <2>4, <2>6, <2>7, LineFields DEF Line
  <2> QED BY <2>2, <2>8
<1>3. PICK a : a = IF f[Len(f)].kind = "blank" THEN <<>> ELSE <<Plain("blank")>>
  OBVIOUS
<1>4. PICK b : b = <<Header(X), Plain("blank")>>
  OBVIOUS
<1>5. PICK c : c = EmitSorted(edit.insert)
  OBVIOUS
<1>6. Whole(a)
  <2>1. CASE a = <<>>
    BY <2>1 DEF Whole
  <2>2. CASE a = <<Plain("blank")>>
    BY <1>2, <2>2 DEF Whole
  <2> QED BY <1>3, <2>1, <2>2
<1>7. Whole(b) /\ Len(b) = 2
  BY <1>2, <1>4 DEF Whole
<1>8. Whole(c)
  BY <1>5, EmitSortedIsWhole
<1>9. PICK g : g = AppendSection(f, X, edit)
  OBVIOUS
<1>10. g = ((End(f) \o a) \o b) \o c
  BY <1>3, <1>4, <1>5, <1>9 DEF AppendSection
<1>11. Whole(End(f) \o a) /\ Whole((End(f) \o a) \o b) /\ Whole(g)
  BY <1>1, <1>6, <1>7, <1>8, <1>10, BothWhole
<1>12. PICK u : u = End(f) \o a
  OBVIOUS
<1>13. PICK v : v = u \o b
  OBVIOUS
<1>14. a \in Seq(Line) /\ b \in Seq(Line) /\ c \in Seq(Line) /\ u \in Seq(Line) /\ v \in Seq(Line)
       /\ Len(a) \in Nat /\ Len(c) \in Nat /\ Len(u) \in Nat /\ Len(v) \in Nat /\ g = v \o c
  BY <1>6, <1>7, <1>8, <1>10, <1>11, <1>12, <1>13 DEF Whole
<1>15. /\ Len(u) = Len(f) + Len(a) /\ \A i \in 1..Len(f) : u[i] = End(f)[i]
       /\ Len(v) = Len(u) + Len(b) /\ \A i \in 1..Len(u) : v[i] = u[i]
       /\ Len(g) = Len(v) + Len(c) /\ \A i \in 1..Len(v) : g[i] = v[i]
  <2>1. Len(u) = Len(f) + Len(a)
    <3>1. Len(u) = Len(End(f)) + Len(a)
      BY <1>1, <1>12, <1>14, ConcatProperties
    <3> QED BY <1>1, <3>1
  <2>2. ASSUME NEW i \in 1..Len(f) PROVE u[i] = End(f)[i]
    <3>1. i \in 1..(Len(End(f)) + Len(a)) /\ i <= Len(End(f))
      BY <1>1, <1>14
    <3> QED BY <1>1, <1>12, <1>14, <3>1, ConcatProperties
  <2>3. Len(v) = Len(u) + Len(b)
    BY <1>13, <1>14, ConcatProperties
  <2>4. ASSUME NEW i \in 1..Len(u) PROVE v[i] = u[i]
    <3>1. i \in 1..(Len(u) + Len(b)) /\ i <= Len(u)
      BY <1>7, <1>14
    <3> QED BY <1>13, <1>14, <3>1, ConcatProperties
  <2>5. Len(g) = Len(v) + Len(c)
    BY <1>14, ConcatProperties
  <2>6. ASSUME NEW i \in 1..Len(v) PROVE g[i] = v[i]
    <3>1. i \in 1..(Len(v) + Len(c)) /\ i <= Len(v)
      BY <1>14
    <3> QED BY <1>14, <3>1, ConcatProperties
  <2> QED BY <2>1, <2>2, <2>3, <2>4, <2>5, <2>6
<1>16. Len(g) > Len(f) /\ \A i \in 1..Len(f) : g[i] = End(f)[i] /\ i \in 1..Len(u) /\ i \in 1..Len(v)
  <2>1. Len(g) > Len(f)
    BY <1>1, <1>7, <1>14, <1>15
  <2>2. ASSUME NEW i \in 1..Len(f) PROVE g[i] = End(f)[i] /\ i \in 1..Len(u) /\ i \in 1..Len(v)
    <3>1. i \in 1..Len(u)
      BY <1>1, <1>14, <1>15
    <3>2. i \in 1..Len(v)
      BY <1>7, <1>14, <1>15, <3>1
    <3> QED BY <1>15, <3>1, <3>2
  <2> QED BY <2>1, <2>2
<1>17. IsPrefix(End(f), g)
  <2>1. g \in Seq(Line) /\ Len(g) \in Nat
    BY <1>11 DEF Whole
  <2>2. SubSeq(g, 1, Len(End(f))) = End(f)
    <3>1. Len(f) \in 0..Len(g)
      BY <1>1, <1>16, <2>1
    <3>2. /\ SubSeq(g, 1, Len(f)) \in Seq(Line) /\ Len(SubSeq(g, 1, Len(f))) = Len(f)
          /\ \A i \in 1..Len(f) : SubSeq(g, 1, Len(f))[i] = g[i]
      BY <2>1, <3>1, FirstOnes
    <3>3. \A i \in 1..Len(f) : SubSeq(g, 1, Len(f))[i] = End(f)[i]
      BY <1>16, <3>2
    <3> QED BY <1>1, <3>2, <3>3, SeqEqual
  <2>3. Len(End(f)) <= Len(g)
    BY <1>1, <1>16, <2>1
  <2> QED BY <2>2, <2>3 DEF IsPrefix
<1> QED BY <1>9, <1>11, <1>16, <1>17
=============================================================================
