------------------------- MODULE GoalCompilationProofs --------------------------
(***************************************************************************)
(* What is proved of GoalCompilation, for every set of goals, every edit,  *)
(* every bound and every precision: that all readings of a goal are one    *)
(* document, that the defaults of the role it is read for are told, and    *)
(* that the way a number is written does not matter.                       *)
(*                                                                         *)
(* The argument, in the order of the module: powers of ten, and what       *)
(* normalize() makes of a coefficient, are the same whatever zeros a       *)
(* number is written with; rounding to the context's precision cannot pass *)
(* a limit of fewer digits, so a canonical text stays in its range; a      *)
(* block written out is settled, that is, read and written as itself; and  *)
(* goals that are alike in what they say once it is filled in are compiled *)
(* to one document.                                                        *)
(***************************************************************************)
EXTENDS GoalCompilation, WellFoundedInduction, TLAPS

(* Powers of ten, and division.                                            *)

(* A set of numbers that has an element has a least one (the library's     *)
(* well-founded induction on Nat, without its operator parameter).         *)
LEMMA LeastIsThere ==
  ASSUME NEW T \in SUBSET Nat, T # {}
  PROVE  \E n \in T : \A m \in T : n <= m
<1> DEFINE Less == {ss \in Nat \X Nat : ss[1] < ss[2]}
<1>1. IsWellFoundedOn(Less, Nat)
  BY NatLessThanWellFounded DEF OpToRel
<1>2. PICK n \in T : \A m \in T : <<m, n>> \notin Less
  <2> HIDE DEF Less
  <2>1. \A R, S, U : IsWellFoundedOn(R, S) /\ U \subseteq S /\ U # {}
                       => \E x \in U : \A y \in U : ~ (<<y, x>> \in R)
    BY WFMin
  <2> QED BY <1>1, <2>1
<1>3. \A m \in T : <<m, n>> \in Nat \X Nat /\ <<m, n>>[1] = m /\ <<m, n>>[2] = n
  BY <1>2
<1>4. \A m \in T : ~(m < n)
  BY <1>2, <1>3
<1> QED BY <1>2, <1>4

(* A table of powers of ten up to n.                                       *)
Powers(p, n) == p = [i \in 0..n |-> IF i = 0 THEN 1 ELSE 10 * p[i - 1]]

(* There is such a table for every n: the least n without one would have   *)
(* one.                                                                    *)
LEMMA PowersExist == \A n \in Nat : \E p : Powers(p, n)
<1> DEFINE T == {n \in Nat : ~\E p : Powers(p, n)}
<1> SUFFICES ASSUME T # {} PROVE FALSE
  OBVIOUS
<1>1. PICK n \in T : \A m \in T : n <= m
  BY LeastIsThere
<1>2. n # 0
  <2> DEFINE p == [i \in 0..0 |-> 1]
  <2>1. p = [i \in 0..0 |-> IF i = 0 THEN 1 ELSE 10 * p[i - 1]]
    OBVIOUS
  <2> QED BY <2>1 DEF Powers
<1>3. n - 1 \in Nat /\ n - 1 \notin T
  BY <1>1, <1>2
<1>4. PICK p : Powers(p, n - 1)
  BY <1>3
<1> DEFINE q == [i \in 0..n |-> IF i = n THEN 10 * p[n - 1] ELSE p[i]]
<1>5. p = [i \in 0..(n - 1) |-> IF i = 0 THEN 1 ELSE 10 * p[i - 1]]
  BY <1>4 DEF Powers
<1>6. ASSUME NEW i \in 0..n PROVE q[i] = IF i = 0 THEN 1 ELSE 10 * q[i - 1]
  <2>1. i = n \/ i \in 0..(n - 1)
    BY <1>1
  <2>2. CASE i = n
    <3>1. q[n] = 10 * p[n - 1] /\ q[n - 1] = p[n - 1]
      BY <1>1, <1>2
    <3> QED BY <2>2, <3>1, <1>2
  <2>3. CASE i \in 0..(n - 1)
    <3>1. q[i] = p[i]
      BY <2>3, <1>1
    <3>2. i # 0 => q[i - 1] = p[i - 1]
      BY <2>3, <1>1
    <3>3. p[i] = IF i = 0 THEN 1 ELSE 10 * p[i - 1]
      <4> HIDE DEF q
      <4> QED BY <2>3, <1>5
    <3> HIDE DEF q
    <3> QED BY <3>1, <3>2, <3>3
  <2> QED BY <2>1, <2>2, <2>3
<1>7. q = [i \in 0..n |-> IF i = 0 THEN 1 ELSE 10 * q[i - 1]]
  <2>1. q = [i \in 0..n |-> q[i]]
    OBVIOUS
  <2> HIDE DEF q
  <2> QED BY <1>6, <2>1
<1>8. Powers(q, n)
  BY <1>7 DEF Powers
<1> QED BY <1>1, <1>8

(* Two tables say the same where both say something.                       *)
LEMMA PowersAgree ==
  ASSUME NEW m \in Nat, NEW n \in Nat, m <= n, NEW p, NEW q, Powers(p, m), Powers(q, n)
  PROVE  p[m] = q[m]
<1> DEFINE T == {i \in 0..m : p[i] # q[i]}
<1> SUFFICES ASSUME T # {} PROVE FALSE
  OBVIOUS
<1>1. PICK i \in T : \A j \in T : i <= j
  <2>1. T \in SUBSET Nat
    OBVIOUS
  <2> HIDE DEF T
  <2> QED BY <2>1, LeastIsThere
<1>2. i \in 0..m /\ i \in 0..n
  BY <1>1
<1>3. p[i] = IF i = 0 THEN 1 ELSE 10 * p[i - 1]
  BY <1>2 DEF Powers
<1>4. q[i] = IF i = 0 THEN 1 ELSE 10 * q[i - 1]
  BY <1>2 DEF Powers
<1>5. i # 0 => i - 1 \in 0..m /\ i - 1 \notin T
  BY <1>1, <1>2
<1> QED BY <1>1, <1>3, <1>4, <1>5

(* The function the model defines by recursion is there: it is what the    *)
(* tables agree on.                                                        *)
LEMMA TenToIs == TenTo = [k \in Nat |-> IF k = 0 THEN 1 ELSE 10 * TenTo[k - 1]]
<1> DEFINE at(n) == CHOOSE p : Powers(p, n)
           F == [n \in Nat |-> at(n)[n]]
<1>1. \A n \in Nat : Powers(at(n), n)
  BY PowersExist
<1>2. ASSUME NEW k \in Nat PROVE F[k] = IF k = 0 THEN 1 ELSE 10 * F[k - 1]
  <2>1. F[k] = at(k)[k] /\ (k # 0 => F[k - 1] = at(k - 1)[k - 1])
    OBVIOUS
  <2> HIDE DEF at, F
  <2>2. at(k)[k] = IF k = 0 THEN 1 ELSE 10 * at(k)[k - 1]
    <3>1. k \in 0..k /\ Powers(at(k), k)
      BY <1>1
    <3> QED BY <3>1 DEF Powers
  <2>3. k # 0 => at(k)[k - 1] = at(k - 1)[k - 1]
    <3> SUFFICES ASSUME k # 0 PROVE at(k)[k - 1] = at(k - 1)[k - 1]
      OBVIOUS
    <3>1. k - 1 \in Nat /\ k - 1 <= k /\ Powers(at(k), k) /\ Powers(at(k - 1), k - 1)
      BY <1>1
    <3> QED BY <3>1, PowersAgree
  <2> QED BY <2>1, <2>2, <2>3
<1>3. F = [k \in Nat |-> IF k = 0 THEN 1 ELSE 10 * F[k - 1]]
  <2>1. F = [k \in Nat |-> F[k]]
    OBVIOUS
  <2> HIDE DEF F
  <2> QED BY <1>2, <2>1
<1> QED
  <2> HIDE DEF F
  <2> QED BY <1>3 DEF TenTo

(* Powers of ten are positive, and greater than their exponent.            *)
LEMMA TenToIsPositive == TenTo[0] = 1 /\ \A k \in Nat : TenTo[k] \in Nat /\ TenTo[k] > k /\ TenTo[k + 1] = 10 * TenTo[k]
<1> DEFINE T == {k \in Nat : ~(TenTo[k] \in Nat /\ TenTo[k] > k)}
<1>1. TenTo[0] = 1
  BY TenToIs
<1>2. \A k \in Nat : TenTo[k + 1] = 10 * TenTo[k]
  <2> TAKE k \in Nat
  <2>1. PICK j \in Nat : j = k + 1
    OBVIOUS
  <2>2. TenTo[j] = IF j = 0 THEN 1 ELSE 10 * TenTo[j - 1]
    BY TenToIs
  <2> QED BY <2>1, <2>2
<1>3. T = {}
  <2> SUFFICES ASSUME T # {} PROVE FALSE
    OBVIOUS
  <2>1. PICK n \in T : \A m \in T : n <= m
    BY LeastIsThere
  <2>2. n # 0
    BY <1>1, <2>1
  <2>3. PICK m \in Nat : n = m + 1 /\ m \notin T
    <3>1. n - 1 \in Nat /\ n = (n - 1) + 1 /\ n - 1 \notin T
      BY <2>1, <2>2
    <3> QED BY <3>1
  <2>4. TenTo[m] \in Nat /\ TenTo[m] > m /\ TenTo[n] = 10 * TenTo[m]
    BY <1>2, <2>3
  <2> QED BY <2>1, <2>3, <2>4
<1> QED BY <1>1, <1>2, <1>3

(* The laws of powers.                                                     *)
LEMMA TenToAdds == ASSUME NEW j \in Nat, NEW k \in Nat PROVE TenTo[j + k] = TenTo[j] * TenTo[k]
<1> DEFINE T == {i \in Nat : TenTo[j + i] # TenTo[j] * TenTo[i]}
<1> SUFFICES ASSUME T # {} PROVE FALSE
  OBVIOUS
<1>1. PICK n \in T : \A m \in T : n <= m
  BY LeastIsThere
<1>2. TenTo[j] \in Nat /\ TenTo[n] \in Nat
  BY TenToIsPositive
<1>3. n # 0
  BY <1>1, <1>2, TenToIsPositive
<1>4. PICK m \in Nat : n = m + 1 /\ m \notin T
  <2>1. n - 1 \in Nat /\ n = (n - 1) + 1 /\ n - 1 \notin T
    BY <1>1, <1>3
  <2> QED BY <2>1
<1>5. PICK s \in Nat : s = j + m /\ j + n = s + 1
  BY <1>4
<1>6. TenTo[j + n] = 10 * TenTo[s] /\ TenTo[n] = 10 * TenTo[m]
  BY <1>4, <1>5, TenToIsPositive
<1>7. TenTo[s] = TenTo[j] * TenTo[m] /\ TenTo[m] \in Nat
  BY <1>4, <1>5, TenToIsPositive
<1>8. TenTo[j + n] = TenTo[j] * TenTo[n]
  BY <1>2, <1>6, <1>7
<1> QED BY <1>1, <1>8

(* A greater exponent makes a greater power, ten times greater at least.   *)
LEMMA TenToGrows ==
  ASSUME NEW j \in Nat, NEW k \in Nat
  PROVE  /\ j <= k => TenTo[j] <= TenTo[k]
         /\ j < k => 10 * TenTo[j] <= TenTo[k]
<1>1. ASSUME NEW a \in Nat, NEW b \in Nat, a <= b PROVE TenTo[a] <= TenTo[b]
  <2>1. PICK d \in Nat : b = a + d
    <3>1. b - a \in Nat /\ b = a + (b - a)
      BY <1>1
    <3> QED BY <3>1
  <2>2. TenTo[b] = TenTo[a] * TenTo[d]
    BY <2>1, TenToAdds
  <2>3. TenTo[a] \in Nat /\ TenTo[d] \in Nat /\ TenTo[d] > d
    BY TenToIsPositive
  <2>4. \A x, y \in Nat : y > d => x <= x * y
    OBVIOUS
  <2> QED BY <2>2, <2>3, <2>4
<1>2. ASSUME j < k PROVE 10 * TenTo[j] <= TenTo[k]
  <2>1. TenTo[j + 1] = 10 * TenTo[j]
    BY TenToIsPositive
  <2> QED BY <1>1, <1>2, <2>1
<1> QED BY <1>1, <1>2

(* Division by a positive number.                                          *)
LEMMA Divides ==
  ASSUME NEW c \in Nat, NEW p \in Nat, p > 0
  PROVE  c \div p \in Nat /\ c % p \in 0..(p - 1) /\ c = p * (c \div p) + (c % p)
  OBVIOUS

(* A quotient and a remainder, named.                                      *)
LEMMA Parts ==
  ASSUME NEW c \in Nat, NEW p \in Nat, p > 0
  PROVE  \E q \in Nat, r \in 0..(p - 1) : q = c \div p /\ r = c % p /\ c = p * q + r
<1>1. c \div p \in Nat /\ c % p \in 0..(p - 1) /\ c = p * (c \div p) + (c % p)
  BY Divides
<1> QED BY <1>1

(* Quotient and remainder are the only ones.                               *)
LEMMA DividesAs ==
  ASSUME NEW c \in Nat, NEW p \in Nat, p > 0, NEW q \in Nat, NEW r \in 0..(p - 1), c = p * q + r
  PROVE  c \div p = q /\ c % p = r
  OBVIOUS

(* A multiple is divided without remainder.                                *)
LEMMA DividesEvenly ==
  ASSUME NEW p \in Nat, p > 0, NEW q \in Nat
  PROVE  (p * q) \div p = q /\ (p * q) % p = 0
  OBVIOUS

(* A coefficient has so many digits.                                       *)
LEMMA DigitsOf ==
  ASSUME NEW c \in Nat
  PROVE  /\ DigitCount(c) \in Nat \ {0} /\ c < TenTo[DigitCount(c)]
         /\ DigitCount(c) = 1 \/ c >= TenTo[DigitCount(c) - 1]
<1> DEFINE T == {d \in Nat : d # 0 /\ c < TenTo[d]}
<1>1. c + 1 \in T
  BY TenToIsPositive
<1>2. PICK d \in T : \A e \in T : d <= e
  BY <1>1, LeastIsThere
<1>3. d \in 1..(c + 1)
  BY <1>1, <1>2
<1>4. d = 1 \/ c >= TenTo[d - 1]
  <2> SUFFICES ASSUME d # 1 PROVE c >= TenTo[d - 1]
    OBVIOUS
  <2>1. PICK e \in Nat : e = d - 1 /\ e # 0 /\ e < d
    BY <1>3
  <2>2. e \notin T
    BY <1>2, <2>1
  <2>3. TenTo[e] \in Nat
    BY <2>1, TenToIsPositive
  <2> QED BY <2>1, <2>2, <2>3
<1>5. \E e \in 1..(c + 1) : c < TenTo[e] /\ (e = 1 \/ c >= TenTo[e - 1])
  BY <1>2, <1>3, <1>4
<1> QED BY <1>5 DEF DigitCount

(* ... and no other number of them.                                        *)
LEMMA DigitsFrom ==
  ASSUME NEW c \in Nat, NEW d \in Nat \ {0}, c < TenTo[d], d = 1 \/ c >= TenTo[d - 1]
  PROVE  DigitCount(c) = d
<1> DEFINE e == DigitCount(c)
<1>1. e \in Nat \ {0} /\ c < TenTo[e] /\ (e = 1 \/ c >= TenTo[e - 1])
  BY DigitsOf
<1> HIDE DEF e
<1>2. ~(e < d)
  <2> SUFFICES ASSUME e < d PROVE FALSE
    OBVIOUS
  <2>1. PICK f \in Nat : f = d - 1 /\ e <= f
    BY <1>1
  <2>2. TenTo[e] <= TenTo[f] /\ TenTo[e] \in Nat /\ TenTo[f] \in Nat
    BY <1>1, <2>1, TenToGrows, TenToIsPositive
  <2> QED BY <1>1, <2>1, <2>2
<1>3. ~(d < e)
  <2> SUFFICES ASSUME d < e PROVE FALSE
    OBVIOUS
  <2>1. PICK f \in Nat : f = e - 1 /\ d <= f
    BY <1>1
  <2>2. TenTo[d] <= TenTo[f] /\ TenTo[d] \in Nat /\ TenTo[f] \in Nat
    BY <1>1, <2>1, TenToGrows, TenToIsPositive
  <2> QED BY <1>1, <2>1, <2>2
<1> QED BY <1>1, <1>2, <1>3 DEF e

(* What ends in k zeros ends in any fewer.                                 *)
LEMMA FewerZeros ==
  ASSUME NEW c \in Nat, NEW j \in Nat, NEW k \in Nat, j <= k, c % TenTo[k] = 0
  PROVE  c % TenTo[j] = 0
<1>1. PICK d \in Nat : k = j + d
  <2>1. k - j \in Nat /\ k = j + (k - j)
    OBVIOUS
  <2> QED BY <2>1
<1>2. TenTo[k] = TenTo[j] * TenTo[d]
  BY <1>1, TenToAdds
<1>3. /\ TenTo[j] \in Nat /\ TenTo[j] > 0 /\ TenTo[d] \in Nat /\ TenTo[d] > 0
      /\ TenTo[k] \in Nat /\ TenTo[k] > 0
  BY TenToIsPositive
<1>4. c \div TenTo[k] \in Nat /\ c = TenTo[k] * (c \div TenTo[k])
  BY <1>3, Divides
<1>5. PICK q \in Nat : q = TenTo[d] * (c \div TenTo[k])
  BY <1>3, <1>4
<1>6. PICK p \in Nat : p = TenTo[j] /\ p > 0
  BY <1>3
<1>7. c = p * q
  <2>1. \A x, y, z \in Nat : (x * y) * z = x * (y * z)
    OBVIOUS
  <2>2. c = (TenTo[j] * TenTo[d]) * (c \div TenTo[k])
    BY <1>2, <1>4
  <2>3. c = TenTo[j] * (TenTo[d] * (c \div TenTo[k]))
    BY <1>3, <1>4, <2>1, <2>2
  <2> QED BY <1>5, <1>6, <2>3
<1>8. c % p = 0
  BY <1>6, <1>7, DividesEvenly
<1> QED BY <1>6, <1>8

(* A coefficient ends in so many zeros and not in one more ...             *)
LEMMA ZerosOf ==
  ASSUME NEW c \in Nat, c # 0
  PROVE  /\ ZeroCount(c) \in Nat
         /\ c % TenTo[ZeroCount(c)] = 0 /\ c % TenTo[ZeroCount(c) + 1] # 0
<1> DEFINE T == {z \in Nat : c % TenTo[z + 1] # 0}
           d == DigitCount(c)
<1>1. d \in Nat /\ c < TenTo[d + 1]
  BY DigitsOf, TenToIsPositive
<1> HIDE DEF d
<1>2. d \in T
  <2>1. TenTo[d + 1] \in Nat /\ TenTo[d + 1] > 0
    BY <1>1, TenToIsPositive
  <2>2. c = TenTo[d + 1] * 0 + c /\ c \in 0..(TenTo[d + 1] - 1)
    BY <1>1, <2>1
  <2>3. c % TenTo[d + 1] = c
    BY <2>1, <2>2, DividesAs
  <2> QED BY <1>1, <2>3
<1>3. PICK z \in T : \A y \in T : z <= y
  BY <1>2, LeastIsThere
<1>4. z \in 0..d
  BY <1>1, <1>2, <1>3
<1>5. c % TenTo[z] = 0
  <2>1. CASE z = 0
    BY <2>1, TenToIsPositive
  <2>2. CASE z # 0
    <3>1. PICK y \in Nat : z = y + 1
      <4>1. z - 1 \in Nat /\ z = (z - 1) + 1
        BY <1>4, <2>2
      <4> QED BY <4>1
    <3>2. y \notin T
      BY <1>3, <3>1
    <3> QED BY <3>1, <3>2
  <2> QED BY <2>1, <2>2
<1>6. \E y \in 0..DigitCount(c) : c % TenTo[y] = 0 /\ c % TenTo[y + 1] # 0
  BY <1>3, <1>4, <1>5 DEF d
<1>7. ZeroCount(c) \in 0..DigitCount(c)
      /\ c % TenTo[ZeroCount(c)] = 0 /\ c % TenTo[ZeroCount(c) + 1] # 0
  BY <1>6 DEF ZeroCount
<1> QED BY <1>1, <1>7 DEF d

(* A coefficient with its zeros taken off.                                 *)
LEMMA ZerosFrom ==
  ASSUME NEW s \in Nat, s % 10 # 0, NEW z \in Nat
  PROVE  /\ s * TenTo[z] \in Nat \ {0}
         /\ ZeroCount(s * TenTo[z]) = z
         /\ (s * TenTo[z]) \div TenTo[z] = s
<1>1. TenTo[z] \in Nat /\ TenTo[z] > 0 /\ TenTo[z + 1] = 10 * TenTo[z]
  BY TenToIsPositive
<1>2. PICK t \in Nat : t = TenTo[z]
  BY <1>1
<1>3. PICK c \in Nat : c = s * t /\ c # 0
  <2>1. s # 0
    OBVIOUS
  <2> QED BY <1>1, <1>2, <2>1
<1>4. c = t * s /\ t > 0
  BY <1>1, <1>2, <1>3
<1>5. c % t = 0 /\ c \div t = s
  BY <1>4, DividesEvenly
<1>6. c % (10 * t) # 0
  <2>1. PICK q \in Nat, r \in 1..9 : s = 10 * q + r
    <3>1. s \div 10 \in Nat /\ s % 10 \in 1..9 /\ s = 10 * (s \div 10) + (s % 10)
      OBVIOUS
    <3> QED BY <3>1
  <2>2. PICK p \in Nat : p = 10 * t /\ p > 0
    BY <1>4
  <2>3. PICK m \in 1..(p - 1) : m = t * r
    <3>1. t * r \in 1..(10 * t - 1)
      BY <1>4, <2>1
    <3> QED BY <2>2, <3>1
  <2>4. c = p * q + m /\ m \in 0..(p - 1)
    BY <1>3, <2>1, <2>2, <2>3
  <2>5. c % p = m
    BY <2>2, <2>4, DividesAs
  <2> QED BY <2>2, <2>3, <2>5
<1>7. /\ ZeroCount(c) \in Nat
      /\ c % TenTo[ZeroCount(c)] = 0 /\ c % TenTo[ZeroCount(c) + 1] # 0
  BY <1>3, ZerosOf
<1>8. ~(ZeroCount(c) < z)
  <2> SUFFICES ASSUME ZeroCount(c) < z PROVE FALSE
    OBVIOUS
  <2>1. PICK y \in Nat : y = ZeroCount(c) + 1 /\ y <= z
    BY <1>7
  <2>2. c % TenTo[y] = 0
    BY <1>2, <1>5, <2>1, FewerZeros
  <2> QED BY <1>7, <2>1, <2>2
<1>9. ~(z < ZeroCount(c))
  <2> SUFFICES ASSUME z < ZeroCount(c) PROVE FALSE
    OBVIOUS
  <2>1. PICK y \in Nat : y = z + 1 /\ y <= ZeroCount(c)
    BY <1>7
  <2>2. c % TenTo[y] = 0
    BY <1>7, <2>1, FewerZeros
  <2> QED BY <1>1, <1>2, <1>6, <2>1, <2>2
<1>10. ZeroCount(c) = z
  BY <1>7, <1>8, <1>9
<1> QED BY <1>2, <1>3, <1>5, <1>10

(* ... and what is left of it ends in none.                                *)
LEMMA SignificandOf ==
  ASSUME NEW c \in Nat, c # 0
  PROVE  \E s, z \in Nat : s % 10 # 0 /\ c = s * TenTo[z]
<1> DEFINE z == ZeroCount(c)
<1>1. z \in Nat /\ c % TenTo[z] = 0 /\ c % TenTo[z + 1] # 0
  BY ZerosOf
<1> HIDE DEF z
<1>2. TenTo[z] \in Nat /\ TenTo[z] > 0 /\ TenTo[z + 1] = 10 * TenTo[z]
  BY <1>1, TenToIsPositive
<1>3. PICK s \in Nat : c = TenTo[z] * s
  <2>1. c \div TenTo[z] \in Nat /\ c = TenTo[z] * (c \div TenTo[z])
    BY <1>1, <1>2, Divides
  <2> QED BY <2>1
<1>4. s % 10 # 0
  <2> SUFFICES ASSUME s % 10 = 0 PROVE FALSE
    OBVIOUS
  <2>1. PICK q \in Nat : s = 10 * q
    <3>1. s \div 10 \in Nat /\ s = 10 * (s \div 10)
      OBVIOUS
    <3> QED BY <3>1
  <2>2. PICK p \in Nat : p = 10 * TenTo[z] /\ p > 0
    BY <1>2
  <2>3. c = p * q
    BY <1>2, <1>3, <2>1, <2>2
  <2>4. c % p = 0
    BY <2>2, <2>3, DividesEvenly
  <2> QED BY <1>1, <1>2, <2>2, <2>4
<1>5. c = s * TenTo[z]
  BY <1>2, <1>3
<1> QED BY <1>1, <1>4, <1>5


(* Stripping takes exactly the zeros off, into the exponent.               *)
LEMMA StrippedIs ==
  \A neg, c, f : \A s, z \in Nat : \A e \in Int :
    s % 10 # 0 /\ c = s * TenTo[z] /\ f = e + z => Stripped(Number(neg, c, e)) = Number(neg, s, f)
<1> SUFFICES ASSUME NEW neg, NEW c, NEW f, NEW s \in Nat, NEW z \in Nat, NEW e \in Int,
                    s % 10 # 0, c = s * TenTo[z], f = e + z
             PROVE  Stripped(Number(neg, c, e)) = Number(neg, s, f)
  OBVIOUS
<1> QED BY ZerosFrom DEF Stripped, Number

-----------------------------------------------------------------------------
(* Rounding.                                                               *)

(* Rounding k digits off gives one of the two neighbours, and the number   *)
(* itself where nothing is lost.                                           *)
LEMMA HalvedIs ==
  ASSUME NEW c \in Nat, NEW k \in Nat
  PROVE  \E q \in Nat : /\ TenTo[k] * q <= c /\ c < TenTo[k] * (q + 1)
                        /\ Halved(c, k) \in {q, q + 1}
                        /\ c = TenTo[k] * q => Halved(c, k) = q
<1>1. PICK p \in Nat : p = TenTo[k] /\ p > 0
  BY TenToIsPositive
<1>2. PICK q \in Nat, r \in 0..(p - 1) : q = c \div p /\ r = c % p /\ c = p * q + r
  BY <1>1, Parts
<1>3. Halved(c, k) = IF 2 * r > p \/ (2 * r = p /\ q % 2 = 1) THEN q + 1 ELSE q
  BY <1>1, <1>2 DEF Halved
<1>4. q \in Nat /\ r \in Nat /\ r < p /\ c = p * q + r
  BY <1>1, <1>2
<1>5. PICK m \in Nat : m = p * q /\ p * (q + 1) = m + p
  BY <1>1, <1>4
<1>6. c = m + r
  BY <1>4, <1>5
<1>7. m <= c /\ c < m + p /\ (c = m => r = 0)
  BY <1>1, <1>4, <1>6
<1>8. Halved(c, k) \in {q, q + 1} /\ (r = 0 => Halved(c, k) = q)
  BY <1>1, <1>3, <1>4
<1> QED BY <1>1, <1>4, <1>5, <1>7, <1>8

(* Zeros put behind a coefficient are rounded off without a trace ...      *)
LEMMA HalvedScales ==
  ASSUME NEW c \in Nat, NEW k \in Nat, NEW j \in Nat
  PROVE  Halved(c * TenTo[j], k + j) = Halved(c, k)
<1>1. PICK p \in Nat : p = TenTo[k] /\ p > 0
  BY TenToIsPositive
<1>2. PICK t \in Nat : t = TenTo[j] /\ t > 0
  BY TenToIsPositive
<1>3. PICK m \in Nat : m = p * t /\ m > 0 /\ TenTo[k + j] = m
  <2>1. p * t \in Nat /\ p * t > 0
    BY <1>1, <1>2
  <2>2. TenTo[k + j] = TenTo[k] * TenTo[j]
    BY TenToAdds
  <2> QED BY <1>1, <1>2, <2>1, <2>2
<1>4. PICK q \in Nat, r \in 0..(p - 1) : q = c \div p /\ r = c % p /\ c = p * q + r
  BY <1>1, Parts, ZenonT(30)
<1>5. PICK d \in Nat : d = c * t
  BY <1>2
<1>6. PICK s \in 0..(m - 1) : s = r * t
  <2>1. \A x \in Nat : x < p => x * t < p * t /\ x * t \in Nat
    BY <1>1, <1>2
  <2>2. r \in Nat /\ r < p
    BY <1>1, <1>4
  <2>3. r * t \in Nat /\ r * t < m
    BY <1>3, <2>1, <2>2
  <2> QED BY <1>3, <2>3
<1>7. d = m * q + s
  <2>1. \A x, y, z, w \in Nat : (x * y + z) * w = (x * w) * y + z * w
    OBVIOUS
  <2>2. (p * q + r) * t = (p * t) * q + r * t
    BY <1>1, <1>2, <1>4, <2>1
  <2> QED BY <1>3, <1>4, <1>5, <1>6, <2>2
<1>8. d \div m = q /\ d % m = s
  BY <1>3, <1>7, DividesAs
<1>9. (2 * s > m <=> 2 * r > p) /\ (2 * s = m <=> 2 * r = p)
  <2>1. \A x, y \in Nat : (x * t > y * t <=> x > y) /\ (x * t = y * t <=> x = y)
    BY <1>2
  <2>2. 2 * s = (2 * r) * t
    BY <1>2, <1>4, <1>6
  <2>3. 2 * r \in Nat
    BY <1>4
  <2> QED BY <1>1, <1>3, <2>1, <2>2, <2>3
<1>10. Halved(d, k + j) = IF 2 * s > m \/ (2 * s = m /\ q % 2 = 1) THEN q + 1 ELSE q
  BY <1>3, <1>8 DEF Halved
<1>11. Halved(c, k) = IF 2 * r > p \/ (2 * r = p /\ q % 2 = 1) THEN q + 1 ELSE q
  BY <1>1, <1>4 DEF Halved
<1> QED BY <1>2, <1>5, <1>9, <1>10, <1>11

(* ... and if they are all that is rounded off it is the same again.       *)
LEMMA HalvedEvenly ==
  ASSUME NEW c \in Nat, NEW k \in Nat
  PROVE  Halved(c * TenTo[k], k) = c
<1>1. PICK p \in Nat : p = TenTo[k] /\ p > 0
  BY TenToIsPositive
<1>2. c * p = p * c
  BY <1>1
<1>3. (p * c) \div p = c /\ (p * c) % p = 0
  BY <1>1, DividesEvenly
<1> QED BY <1>1, <1>2, <1>3 DEF Halved

(* Each zero is a digit more.                                              *)
LEMMA DigitsScale ==
  ASSUME NEW c \in Nat, c # 0, NEW j \in Nat
  PROVE  DigitCount(c * TenTo[j]) = DigitCount(c) + j
<1>1. PICK d \in Nat \ {0} : d = DigitCount(c) /\ c < TenTo[d] /\ (d = 1 \/ c >= TenTo[d - 1])
  BY DigitsOf
<1>2. PICK i \in Nat : d = i + 1 /\ c >= TenTo[i]
  <2>1. PICK i \in Nat : i = d - 1 /\ d = i + 1
    BY <1>1
  <2>2. TenTo[0] = 1
    BY TenToIsPositive
  <2>3. CASE d = 1
    BY <2>1, <2>2, <2>3
  <2>4. CASE d # 1
    BY <1>1, <2>1, <2>4
  <2> QED BY <2>3, <2>4
<1>3. PICK t \in Nat : t = TenTo[j] /\ t > 0
  BY TenToIsPositive
<1>4. TenTo[d] \in Nat /\ TenTo[i] \in Nat
  BY <1>1, <1>2, TenToIsPositive
<1>5. TenTo[d + j] = TenTo[d] * t /\ TenTo[i + j] = TenTo[i] * t
  BY <1>1, <1>2, <1>3, TenToAdds
<1>6. c * t \in Nat /\ c * t < TenTo[d] * t /\ c * t >= TenTo[i] * t
  <2>1. \A x, y \in Nat : (x < y => x * t < y * t) /\ (x >= y => x * t >= y * t)
    BY <1>3
  <2> QED BY <1>1, <1>2, <1>3, <1>4, <2>1
<1>7. PICK f \in Nat \ {0} : f = d + j
  BY <1>1
<1>8. f - 1 = i + j
  BY <1>1, <1>2, <1>7
<1>9. c * t < TenTo[f] /\ c * t >= TenTo[f - 1]
  BY <1>5, <1>6, <1>7, <1>8
<1>10. DigitCount(c * t) = f
  BY <1>6, <1>9, DigitsFrom
<1> QED BY <1>1, <1>3, <1>7, <1>10

(* A number is stripped to one form whatever zeros it was written with.    *)
LEMMA StrippedScales ==
  \A neg, b, f : \A c, j \in Nat : \A e \in Int :
    c # 0 /\ b = c * TenTo[j] /\ f = e + j
      => Stripped(Number(neg, b, e)) = Stripped(Number(neg, c, f))
<1> SUFFICES ASSUME NEW neg, NEW b, NEW f, NEW c \in Nat, NEW j \in Nat, NEW e \in Int,
                    c # 0, b = c * TenTo[j], f = e + j
             PROVE  Stripped(Number(neg, b, e)) = Stripped(Number(neg, c, f))
  OBVIOUS
<1>1. PICK s \in Nat, z \in Nat : s % 10 # 0 /\ c = s * TenTo[z]
  BY SignificandOf
<1>2. PICK y \in Nat, g \in Int : y = z + j /\ g = e + y /\ g = f + z /\ f \in Int
  BY <1>1
<1>3. TenTo[z] \in Nat /\ TenTo[j] \in Nat /\ TenTo[y] = TenTo[z] * TenTo[j]
  BY <1>1, <1>2, TenToIsPositive, TenToAdds
<1>4. b = s * TenTo[y]
  <2>1. \A x, u, w \in Nat : (x * u) * w = x * (u * w)
    OBVIOUS
  <2> QED BY <1>1, <1>3, <2>1
<1>5. Stripped(Number(neg, b, e)) = Number(neg, s, g)
  <2>1. s % 10 # 0 /\ b = s * TenTo[y] /\ g = e + y
    BY <1>1, <1>2, <1>4
  <2> QED BY <2>1, StrippedIs
<1>6. Stripped(Number(neg, c, f)) = Number(neg, s, g)
  <2>1. s % 10 # 0 /\ c = s * TenTo[z] /\ f \in Int /\ g = f + z
    BY <1>1, <1>2
  <2> QED BY <2>1, StrippedIs
<1> QED BY <1>5, <1>6

(* What the context does to a number, by the digits it has too many.       *)
LEMMA RoundedIs ==
  ASSUME NEW neg, NEW c, NEW e
  PROVE  /\ DigitCount(c) - Precision <= 0 => Rounded(Number(neg, c, e)) = Number(neg, c, e)
         /\ ~(DigitCount(c) - Precision <= 0) =>
              Rounded(Number(neg, c, e))
                = Number(neg, Halved(c, DigitCount(c) - Precision), e + (DigitCount(c) - Precision))
BY DEF Rounded, Number

(* normalize() gives one result for every way to write a number (numfmt.py *)
(* 54-70): the step on which the hash of a goal depends.                   *)
LEMMA NormalizedScales ==
  ASSUME NEW neg, NEW c \in Nat, c # 0, NEW j \in Nat, NEW e \in Int
  PROVE  Normalized(Number(neg, c * TenTo[j], e - j)) = Normalized(Number(neg, c, e))
<1>1. PICK t \in Nat : t = TenTo[j] /\ t > 0
  BY TenToIsPositive
<1>2. PICK k \in Int : k = DigitCount(c) - Precision
  BY DigitsOf, DecimalAssumption
<1>3. PICK b \in Nat : b = c * t /\ b # 0
  BY <1>1
<1>4. DigitCount(b) - Precision = k + j
  <2>1. DigitCount(c) \in Nat /\ DigitCount(b) = DigitCount(c) + j
    BY <1>1, <1>3, DigitsOf, DigitsScale
  <2> QED BY <1>2, <2>1, DecimalAssumption
<1>5. PICK f \in Int : f = e - j /\ f + j = e
  OBVIOUS
<1>6. Stripped(Number(neg, b, f)) = Stripped(Number(neg, c, e))
  <2>1. b = c * TenTo[j] /\ e = f + j
    BY <1>1, <1>3, <1>5
  <2> QED BY <2>1, StrippedScales
<1>7. CASE k + j <= 0
  <2>1. k <= 0
    BY <1>2, <1>7
  <2> QED BY <1>1, <1>2, <1>3, <1>4, <1>5, <1>6, <1>7, <2>1, RoundedIs DEF Normalized
<1>8. CASE k <= 0 /\ ~(k + j <= 0)
  <2>1. PICK y \in Nat, i \in Nat : y = k + j /\ j = i + y
    <3>1. k + j \in Nat /\ -k \in Nat /\ j = -k + (k + j)
      BY <1>8, <1>2
    <3> QED BY <3>1
  <2>2. PICK a \in Nat : a = c * TenTo[i] /\ b = a * TenTo[y]
    <3>1. TenTo[i] \in Nat /\ TenTo[y] \in Nat
      BY <2>1, TenToIsPositive
    <3>3. TenTo[i + y] = TenTo[i] * TenTo[y]
      BY TenToAdds
    <3>2. \A x, u, v \in Nat : x * (u * v) = (x * u) * v
      OBVIOUS
    <3> QED BY <1>1, <1>3, <2>1, <3>1, <3>2, <3>3
  <2>3. Rounded(Number(neg, b, f)) = Number(neg, a, f + y)
    <3>1. Halved(b, y) = a
      BY <2>1, <2>2, HalvedEvenly
    <3> QED BY <1>4, <1>8, <2>1, <3>1, RoundedIs
  <2>4. PICK g \in Int : g = f + y /\ g + i = e
    BY <1>5, <2>1
  <2>5. Stripped(Number(neg, a, g)) = Stripped(Number(neg, c, e))
    <3>1. a = c * TenTo[i] /\ e = g + i
      BY <2>2, <2>4
    <3> QED BY <3>1, StrippedScales
  <2>6. Rounded(Number(neg, c, e)) = Number(neg, c, e)
    BY <1>2, <1>8, RoundedIs
  <2> QED BY <1>1, <1>3, <1>5, <2>3, <2>4, <2>5, <2>6 DEF Normalized
<1>9. CASE ~(k <= 0)
  <2>1. PICK y \in Nat : y = k
    BY <1>2, <1>9
  <2>2. Halved(b, y + j) = Halved(c, y)
    BY <1>1, <1>3, <2>1, HalvedScales
  <2>3. ~(y + j <= 0) /\ ~(y <= 0) /\ f + (y + j) = e + y
    BY <1>5, <1>9, <2>1
  <2> QED BY <1>1, <1>2, <1>3, <1>4, <1>5, <2>1, <2>2, <2>3, RoundedIs DEF Normalized
<1>10. k <= 0 \/ ~(k <= 0)
  OBVIOUS
<1> QED BY <1>7, <1>8, <1>9, <1>10

(* The neighbours that rounding chooses from have as many digits as the    *)
(* context keeps.                                                          *)
LEMMA RoundingKeepsDigits ==
  ASSUME NEW c \in Nat, NEW k \in Nat, DigitCount(c) = Precision + k, k # 0
  PROVE  \E q \in Nat : /\ TenTo[Precision - 1] <= q /\ q < TenTo[Precision]
                        /\ TenTo[k] * q <= c /\ c < TenTo[k] * (q + 1)
                        /\ Halved(c, k) \in {q, q + 1}
                        /\ c = TenTo[k] * q => Halved(c, k) = q
<1>1. PICK q \in Nat : /\ TenTo[k] * q <= c /\ c < TenTo[k] * (q + 1)
                       /\ Halved(c, k) \in {q, q + 1}
                       /\ c = TenTo[k] * q => Halved(c, k) = q
  BY HalvedIs
<1>2. PICK i \in Nat : Precision = i + 1 /\ i = Precision - 1
  <2>1. Precision - 1 \in Nat /\ Precision = (Precision - 1) + 1
    BY DecimalAssumption
  <2> QED BY <2>1
<1>3. c < TenTo[Precision + k] /\ c >= TenTo[i + k]
  <2>1. /\ c < TenTo[DigitCount(c)]
        /\ DigitCount(c) = 1 \/ c >= TenTo[DigitCount(c) - 1]
    BY DigitsOf
  <2>2. DigitCount(c) - 1 = i + k /\ DigitCount(c) # 1
    BY <1>2
  <2> QED BY <2>1, <2>2
<1>4. PICK t \in Nat : t = TenTo[k] /\ t > 0
  BY TenToIsPositive
<1>5. PICK a \in Nat, b \in Nat : a = TenTo[i] /\ b = TenTo[Precision]
  BY <1>2, TenToIsPositive, DecimalAssumption
<1>6. TenTo[Precision + k] = b * t /\ TenTo[i + k] = a * t
  BY <1>2, <1>4, <1>5, TenToAdds, DecimalAssumption
<1>7. ~(q < a)
  <2> SUFFICES ASSUME q + 1 <= a PROVE FALSE
    BY <1>5
  <2>1. \A x, y \in Nat : x <= y => t * x <= y * t /\ t * x \in Nat /\ y * t \in Nat
    BY <1>4
  <2>2. t * (q + 1) <= a * t /\ t * (q + 1) \in Nat /\ a * t \in Nat
    BY <1>5, <2>1
  <2> QED BY <1>1, <1>3, <1>4, <1>6, <2>2
<1>8. ~(b <= q)
  <2> SUFFICES ASSUME b <= q PROVE FALSE
    OBVIOUS
  <2>1. \A x, y \in Nat : x <= y => x * t <= t * y /\ x * t \in Nat /\ t * y \in Nat
    BY <1>4
  <2>2. b * t <= t * q /\ t * q \in Nat /\ b * t \in Nat
    BY <1>5, <2>1
  <2> QED BY <1>1, <1>3, <1>4, <1>6, <2>2
<1> QED BY <1>1, <1>2, <1>5, <1>7, <1>8

(* A rounded coefficient is not zero and does not outgrow the context.     *)
LEMMA RoundedHolds ==
  ASSUME NEW neg, NEW c \in Nat, c # 0, NEW e \in Int
  PROVE  \E h \in Nat, f \in Int :
           h # 0 /\ h <= TenTo[Precision] /\ Rounded(Number(neg, c, e)) = Number(neg, h, f)
<1>1. PICK k \in Int : k = DigitCount(c) - Precision
  BY DigitsOf, DecimalAssumption
<1>2. CASE k <= 0
  <2>1. PICK d \in Nat : d = DigitCount(c) /\ d <= Precision /\ c < TenTo[d]
    BY <1>1, <1>2, DigitsOf, DecimalAssumption
  <2>2. c <= TenTo[Precision]
    BY <2>1, TenToGrows, TenToIsPositive, DecimalAssumption
  <2> QED BY <1>1, <1>2, <2>2, RoundedIs
<1>3. CASE ~(k <= 0)
  <2>1. PICK y \in Nat : y = k /\ y # 0 /\ DigitCount(c) = Precision + y
    BY <1>1, <1>3, DigitsOf, DecimalAssumption
  <2>2. PICK q \in Nat : /\ TenTo[Precision - 1] <= q /\ q < TenTo[Precision]
                         /\ Halved(c, y) \in {q, q + 1}
    BY <2>1, RoundingKeepsDigits
  <2>3. Precision - 1 \in Nat /\ TenTo[Precision - 1] \in Nat /\ TenTo[Precision - 1] > 0
        /\ TenTo[Precision] \in Nat
    BY TenToIsPositive, DecimalAssumption
  <2>4. PICK h \in Nat : h = Halved(c, y) /\ h # 0 /\ h <= TenTo[Precision]
    BY <2>2, <2>3
  <2>5. Rounded(Number(neg, c, e)) = Number(neg, h, e + y)
    BY <1>1, <1>3, <2>1, <2>4, RoundedIs
  <2>6. e + y \in Int
    BY <2>1
  <2> QED BY <2>4, <2>5, <2>6
<1> QED BY <1>2, <1>3

(* What normalize() makes of a number: a significand without zeros ...     *)
LEMMA NormalizedIs ==
  ASSUME NEW neg, NEW c \in Nat, c # 0, NEW e \in Int
  PROVE  \E s \in Nat, x \in Int :
           s % 10 # 0 /\ s < TenTo[Precision] /\ Normalized(Number(neg, c, e)) = Number(neg, s, x)
<1>1. PICK h \in Nat, f \in Int :
           h # 0 /\ h <= TenTo[Precision] /\ Rounded(Number(neg, c, e)) = Number(neg, h, f)
  BY RoundedHolds
<1>2. PICK s \in Nat, z \in Nat : s % 10 # 0 /\ h = s * TenTo[z]
  BY <1>1, SignificandOf
<1>3. PICK x \in Int : x = f + z
  BY <1>1, <1>2
<1>9. Stripped(Number(neg, h, f)) = Number(neg, s, x)
  <2>1. s % 10 # 0 /\ h = s * TenTo[z] /\ x = f + z
    BY <1>2, <1>3
  <2>2. \A g : \A u, v \in Nat : \A w \in Int :
          u % 10 # 0 /\ h = u * TenTo[v] /\ g = w + v => Stripped(Number(neg, h, w)) = Number(neg, u, g)
    BY StrippedIs
  <2> QED BY <2>1, <2>2
<1>4. PICK i \in Nat : Precision = i + 1
  <2>1. Precision - 1 \in Nat /\ Precision = (Precision - 1) + 1
    BY DecimalAssumption
  <2> QED BY <2>1
<1>5. TenTo[i] \in Nat /\ TenTo[Precision] \in Nat /\ TenTo[Precision] = 10 * TenTo[i]
  BY <1>4, TenToIsPositive, DecimalAssumption
<1>6. TenTo[Precision] % 10 = 0
  BY <1>5, DividesEvenly
<1>7. s <= h
  <2>1. PICK t \in Nat : t = TenTo[z] /\ t > 0
    BY <1>2, TenToIsPositive
  <2>2. s <= s * t
    BY <1>2, <2>1
  <2> QED BY <1>2, <2>1, <2>2
<1>8. s < TenTo[Precision]
  BY <1>1, <1>2, <1>5, <1>6, <1>7
<1> QED BY <1>1, <1>2, <1>3, <1>8, <1>9 DEF Normalized

(* ... or zero ...                                                         *)
LEMMA NormalizedZero == \A neg, e : Normalized(Number(neg, 0, e)) = Number(neg, 0, 0)
<1>1. DigitCount(0) = 1
  <2>1. TenTo[1] > 0
    BY TenToIsPositive
  <2> QED BY <2>1, DigitsFrom
<1> TAKE neg, e
<1>2. Rounded(Number(neg, 0, e)) = Number(neg, 0, e)
  BY <1>1, RoundedIs, DecimalAssumption
<1> QED BY <1>2 DEF Normalized, Stripped, Number

(* ... and what has that form stays as it is.                              *)
LEMMA NormalizedStays ==
  ASSUME NEW neg, NEW s \in Nat, s % 10 # 0, s < TenTo[Precision], NEW x \in Int
  PROVE  Normalized(Number(neg, s, x)) = Number(neg, s, x)
<1>1. DigitCount(s) <= Precision
  <2> SUFFICES ASSUME ~(DigitCount(s) <= Precision) PROVE FALSE
    OBVIOUS
  <2>1. PICK i \in Nat : i = DigitCount(s) - 1 /\ i >= Precision /\ s >= TenTo[i]
    BY DigitsOf, DecimalAssumption
  <2>2. TenTo[Precision] <= TenTo[i] /\ TenTo[Precision] \in Nat /\ TenTo[i] \in Nat
    BY <2>1, TenToGrows, TenToIsPositive, DecimalAssumption
  <2> QED BY <2>1, <2>2
<1>2. Rounded(Number(neg, s, x)) = Number(neg, s, x)
  BY <1>1, RoundedIs, DigitsOf, DecimalAssumption
<1>3. Stripped(Number(neg, s, x)) = Number(neg, s, x)
  <2>1. s = s * TenTo[0] /\ x = x + 0
    BY TenToIsPositive
  <2> QED BY <2>1, StrippedIs
<1> QED BY <1>2, <1>3 DEF Normalized

(* A canonical text and the number it is the text of are one number.       *)
LEMMA FormatNormalizes ==
  ASSUME NEW neg, NEW c \in Nat, NEW e \in Int
  PROVE  \E d \in Nat, f \in Int :
           /\ Format(Number(neg, c, e)) = Number(neg, d, f)
           /\ d = 0 <=> c = 0
           /\ f = -1 \/ (f < -1 /\ d % 10 # 0)
           /\ Normalized(Number(neg, d, f)) = Normalized(Number(neg, c, e))
<1>1. CASE c = 0
  <2>1. Normalized(Number(neg, c, e)) = Number(neg, 0, 0)
    BY <1>1, NormalizedZero
  <2>2. Format(Number(neg, c, e)) = Number(neg, 0, -1)
    <3>1. TenTo[1] \in Nat /\ 0 + 1 = 1 /\ 0 * TenTo[1] = 0
      BY TenToIsPositive
    <3> QED BY <2>1, <3>1 DEF Format, Number
  <2>3. Normalized(Number(neg, 0, -1)) = Number(neg, 0, 0)
    BY NormalizedZero
  <2> QED BY <1>1, <2>1, <2>2, <2>3
<1>2. CASE c # 0
  <2>1. PICK s \in Nat, x \in Int :
           s % 10 # 0 /\ s < TenTo[Precision] /\ Normalized(Number(neg, c, e)) = Number(neg, s, x)
    BY <1>2, NormalizedIs
  <2>2. Normalized(Number(neg, s, x)) = Number(neg, s, x)
    BY <2>1, NormalizedStays
  <2>3. CASE x >= 0
    <3>1. PICK j \in Nat : j = x + 1 /\ x - j = -1
      BY <2>1, <2>3
    <3>2. PICK d \in Nat : d = s * TenTo[j] /\ d # 0
      <4>1. TenTo[j] \in Nat /\ TenTo[j] > 0 /\ s # 0
        <5>1. s # 0
          BY <2>1
        <5> QED BY <5>1, TenToIsPositive
      <4>2. s * TenTo[j] \in Nat /\ s * TenTo[j] # 0
        BY <2>1, <4>1
      <4> QED BY <4>2
    <3>3. Format(Number(neg, c, e)) = Number(neg, d, -1)
      BY <2>1, <2>3, <3>1, <3>2 DEF Format, Number
    <3>4. Normalized(Number(neg, d, -1)) = Normalized(Number(neg, s, x))
      <4>1. Normalized(Number(neg, s * TenTo[j], x - j)) = Normalized(Number(neg, s, x))
        BY <2>1, <3>1, NormalizedScales
      <4> QED BY <4>1, <3>1, <3>2
    <3> QED BY <1>2, <2>1, <2>2, <3>2, <3>3, <3>4
  <2>4. CASE ~(x >= 0)
    <3>1. Format(Number(neg, c, e)) = Number(neg, s, x)
      BY <2>1, <2>4 DEF Format, Number
    <3>2. x = -1 \/ x < -1
      BY <2>1, <2>4
    <3>3. s # 0
      BY <2>1
    <3> QED BY <1>2, <2>1, <2>2, <3>1, <3>2, <3>3
  <2> QED BY <2>3, <2>4
<1> QED BY <1>1, <1>2

-----------------------------------------------------------------------------
(* Ranges.                                                                 *)

Signed(neg, c) == IF neg THEN -c ELSE c

(* The value of a number, in tenths, is Signed(neg, c) * 10^b / 10^a for   *)
(* all a and b whose difference is right.                                  *)
LEMMA WithinMeans ==
  ASSUME NEW neg, NEW c \in Nat, NEW e \in Int, NEW a \in Nat, NEW b \in Nat, b - a = e + 1,
         NEW lowest \in Int, NEW highest \in Int
  PROVE  Within(Number(neg, c, e), lowest, highest)
           <=> /\ lowest * TenTo[a] <= Signed(neg, c) * TenTo[b]
               /\ Signed(neg, c) * TenTo[b] <= highest * TenTo[a]
<1>1. PICK v \in Int : v = Signed(neg, c)
  BY DEF Signed
<1>2. PICK i \in Nat, j \in Nat, m \in Nat :
         /\ a = i + m /\ b = j + m
         /\ i = IF e >= -1 THEN 0 ELSE -1 - e
         /\ j = IF e >= -1 THEN e + 1 ELSE 0
  <2>1. CASE e >= -1
    <3>1. e + 1 \in Nat /\ b = (e + 1) + a /\ a = 0 + a
      BY <2>1
    <3> QED BY <2>1, <3>1
  <2>2. CASE ~(e >= -1)
    <3>1. -1 - e \in Nat /\ a = (-1 - e) + b /\ b = 0 + b
      BY <2>2
    <3> QED BY <2>2, <3>1
  <2> QED BY <2>1, <2>2
<1>3. Scaled(Number(neg, c, e)) = v * TenTo[j] /\ Scale(Number(neg, c, e)) = TenTo[i]
  BY <1>1, <1>2 DEF Scaled, Scale, Number, Signed
<1>4. PICK p \in Nat, q \in Nat, t \in Nat : p = TenTo[i] /\ q = TenTo[j] /\ t = TenTo[m] /\ t > 0
  <2>1. TenTo[i] \in Nat /\ TenTo[j] \in Nat /\ TenTo[m] \in Nat /\ TenTo[m] > 0
    BY <1>2, TenToIsPositive
  <2> QED BY <2>1
<1>5. TenTo[a] = p * t /\ TenTo[b] = q * t
  BY <1>2, <1>4, TenToAdds
<1>6. \A x \in Int : /\ x * p <= v * q <=> x * (p * t) <= v * (q * t)
                     /\ v * q <= x * p <=> v * (q * t) <= x * (p * t)
  <2>1. \A y, z \in Int : y <= z <=> y * t <= z * t
    BY <1>4
  <2>2. \A y, z, u \in Int : y * (z * u) = (y * z) * u
    OBVIOUS
  <2> TAKE x \in Int
  <2>3. x * p \in Int /\ v * q \in Int
    BY <1>1, <1>4
  <2>4. x * (p * t) = (x * p) * t /\ v * (q * t) = (v * q) * t
    BY <1>1, <1>4, <2>2
  <2> QED BY <2>1, <2>3, <2>4
<1> QED BY <1>1, <1>3, <1>4, <1>5, <1>6 DEF Within

(* A range check does not see zeros behind the coefficient.                *)
LEMMA WithinScales ==
  ASSUME NEW neg, NEW c \in Nat, NEW j \in Nat, NEW e \in Int,
         NEW lowest \in Int, NEW highest \in Int
  PROVE  Within(Number(neg, c * TenTo[j], e - j), lowest, highest)
           <=> Within(Number(neg, c, e), lowest, highest)
<1>1. PICK a \in Nat, b \in Nat : b - a = e + 1
  <2>1. CASE e >= -1
    <3>1. e + 1 \in Nat /\ (e + 1) - 0 = e + 1
      BY <2>1
    <3> QED BY <3>1
  <2>2. CASE ~(e >= -1)
    <3>1. -1 - e \in Nat /\ 0 - (-1 - e) = e + 1
      BY <2>2
    <3> QED BY <3>1
  <2> QED BY <2>1, <2>2
<1>2. PICK d \in Nat, f \in Int, i \in Nat : d = c * TenTo[j] /\ f = e - j /\ i = a + j /\ b - i = f + 1
  <2>1. c * TenTo[j] \in Nat /\ e - j \in Int /\ a + j \in Nat /\ b - (a + j) = (e - j) + 1
    BY <1>1, TenToIsPositive
  <2> QED BY <2>1
<1>3. PICK v \in Int, w \in Int : v = Signed(neg, c) /\ w = Signed(neg, d)
  BY <1>2 DEF Signed
<1>4. PICK p \in Nat, q \in Nat, t \in Nat : p = TenTo[a] /\ q = TenTo[b] /\ t = TenTo[j] /\ t > 0
  <2>1. TenTo[a] \in Nat /\ TenTo[b] \in Nat /\ TenTo[j] \in Nat /\ TenTo[j] > 0
    BY <1>1, TenToIsPositive
  <2> QED BY <2>1
<1>5. TenTo[i] = p * t /\ w = v * t
  <2>1. TenTo[i] = p * t
    BY <1>2, <1>4, TenToAdds
  <2>2. (-c) * t = -(c * t)
    BY <1>4
  <2> QED BY <1>2, <1>3, <1>4, <2>1, <2>2 DEF Signed
<1>6. \A x \in Int : /\ x * p <= v * q <=> x * (p * t) <= (v * t) * q
                     /\ v * q <= x * p <=> (v * t) * q <= x * (p * t)
  <2>1. \A y, z \in Int : y <= z <=> y * t <= z * t
    BY <1>4
  <2>2. \A y, z, u \in Int : y * (z * u) = (y * z) * u /\ (y * u) * z = (y * z) * u
    OBVIOUS
  <2> TAKE x \in Int
  <2>3. x * p \in Int /\ v * q \in Int
    BY <1>3, <1>4
  <2>4. x * (p * t) = (x * p) * t /\ (v * t) * q = (v * q) * t
    BY <1>3, <1>4, <2>2
  <2> QED BY <2>1, <2>3, <2>4
<1>7. Within(Number(neg, d, f), lowest, highest)
           <=> lowest * TenTo[i] <= w * q /\ w * q <= highest * TenTo[i]
  <2>1. Within(Number(neg, d, f), lowest, highest)
          <=> /\ lowest * TenTo[i] <= Signed(neg, d) * TenTo[b]
              /\ Signed(neg, d) * TenTo[b] <= highest * TenTo[i]
    <3>1. \A g, h, k : g \in Nat /\ h \in Int /\ k \in Nat /\ b - k = h + 1
            => (Within(Number(neg, g, h), lowest, highest)
                  <=> /\ lowest * TenTo[k] <= Signed(neg, g) * TenTo[b]
                      /\ Signed(neg, g) * TenTo[b] <= highest * TenTo[k])
      BY <1>1, WithinMeans
    <3> QED BY <1>2, <3>1
  <2> QED BY <1>3, <1>4, <2>1
<1>8. Within(Number(neg, c, e), lowest, highest)
           <=> lowest * p <= v * q /\ v * q <= highest * p
  BY <1>1, <1>3, <1>4, WithinMeans
<1> QED BY <1>2, <1>5, <1>6, <1>7, <1>8

(* A number of fewer digits than the context keeps cannot be between two   *)
(* neighbours of that many digits.                                         *)
LEMMA ShortIsKept ==
  ASSUME NEW s \in Nat, s < TenTo[Precision], NEW q \in Nat, TenTo[Precision - 1] <= q,
         NEW i \in Nat, NEW u \in Nat,
         q * TenTo[u] <= s * TenTo[i], s * TenTo[i] < (q + 1) * TenTo[u]
  PROVE  s * TenTo[i] = q * TenTo[u]
<1>1. CASE u <= i
  <2>1. PICK m \in Nat : i = u + m
    <3>1. i - u \in Nat /\ i = u + (i - u)
      BY <1>1
    <3> QED BY <3>1
  <2>2. PICK t \in Nat, r \in Nat : t = TenTo[u] /\ t > 0 /\ r = s * TenTo[m]
    <3>1. TenTo[u] \in Nat /\ TenTo[u] > 0 /\ TenTo[m] \in Nat
      BY <2>1, TenToIsPositive
    <3> QED BY <3>1
  <2>3. s * TenTo[i] = r * t
    <3>1. TenTo[i] = t * TenTo[m] /\ TenTo[m] \in Nat
      BY <2>1, <2>2, TenToAdds, TenToIsPositive
    <3>2. \A x, y, z \in Nat : x * (y * z) = (x * z) * y
      OBVIOUS
    <3> QED BY <2>2, <3>1, <3>2
  <2>4. \A x, y \in Nat : (x * t <= y * t => x <= y) /\ (x * t < y * t => x < y)
    BY <2>2
  <2>5. q <= r /\ r < q + 1
    BY <2>2, <2>3, <2>4
  <2> QED BY <2>2, <2>3, <2>5
<1>2. CASE ~(u <= i)
  <2>1. PICK m \in Nat : u = i + (m + 1)
    <3>1. (u - i) - 1 \in Nat /\ u = i + (((u - i) - 1) + 1)
      BY <1>2
    <3> QED BY <3>1
  <2>2. PICK t \in Nat, w \in Nat : t = TenTo[i] /\ t > 0 /\ w = TenTo[m] /\ w > 0
    <3>1. TenTo[i] \in Nat /\ TenTo[i] > 0 /\ TenTo[m] \in Nat /\ TenTo[m] > 0
      BY <2>1, TenToIsPositive
    <3> QED BY <3>1
  <2>3. TenTo[u] = t * (10 * w)
    <3>1. TenTo[m + 1] = 10 * w
      BY <2>1, <2>2, TenToIsPositive
    <3>2. TenTo[i + (m + 1)] = TenTo[i] * TenTo[m + 1]
      <4>1. PICK n \in Nat : n = m + 1
        BY <2>1
      <4> QED BY <4>1, TenToAdds
    <3> QED BY <2>1, <2>2, <3>1, <3>2
  <2>4. (q * (10 * w)) * t <= s * t
    <3>1. \A x, y, z \in Nat : x * (y * z) = (x * z) * y
      OBVIOUS
    <3> QED BY <2>2, <2>3, <3>1
  <2>5. q * (10 * w) <= s
    <3>1. q * (10 * w) \in Nat
      BY <2>2
    <3>2. \A x, y \in Nat : x * t <= y * t => x <= y
      BY <2>2
    <3> QED BY <2>4, <3>1, <3>2
  <2>6. 10 * q <= q * (10 * w)
    BY <2>2
  <2>7. PICK d \in Nat : Precision = d + 1 /\ d = Precision - 1
    <3>1. Precision - 1 \in Nat /\ Precision = (Precision - 1) + 1
      BY DecimalAssumption
    <3> QED BY <3>1
  <2>8. TenTo[Precision] = 10 * TenTo[d] /\ TenTo[d] \in Nat /\ TenTo[d] <= q
    BY <2>7, TenToIsPositive
  <2>9. q * (10 * w) \in Nat
    BY <2>2
  <2> QED BY <2>5, <2>6, <2>8, <2>9
<1> QED BY <1>1, <1>2

(* The context keeps two digits at least.                                  *)
LEMMA TwoDigitsFit == TenTo[2] = 100 /\ TenTo[Precision] \in Nat /\ 100 <= TenTo[Precision]
<1>1. 0 + 1 = 1 /\ 1 + 1 = 2 /\ TenTo[0] = 1 /\ TenTo[0 + 1] = 10 * TenTo[0] /\ TenTo[1 + 1] = 10 * TenTo[1]
  BY TenToIsPositive
<1>2. TenTo[2] = 100
  BY <1>1
<1>3. Precision \in Nat /\ 2 <= Precision
  BY DecimalAssumption
<1> QED BY <1>2, <1>3, TenToGrows, TenToIsPositive

(* A limit of few digits, as all of the contract's are.                    *)
IsShort(limit) ==
  \E s \in Nat, i \in Nat : s < 100 /\ limit \in {s * TenTo[i], -(s * TenTo[i])}

(* Rounding passes no number of fewer digits than the context keeps, in    *)
(* either direction.                                                       *)
LEMMA RoundingKeepsOrder ==
  ASSUME NEW c \in Nat, NEW k \in Nat, DigitCount(c) = Precision + k, k # 0,
         NEW s \in Nat, s < TenTo[Precision], NEW i \in Nat, NEW b \in Nat
  PROVE  /\ s * TenTo[i] <= c * TenTo[b] => s * TenTo[i] <= Halved(c, k) * TenTo[b + k]
         /\ c * TenTo[b] <= s * TenTo[i] => Halved(c, k) * TenTo[b + k] <= s * TenTo[i]
<1>1. PICK q \in Nat : /\ TenTo[Precision - 1] <= q
                       /\ TenTo[k] * q <= c /\ c < TenTo[k] * (q + 1)
                       /\ Halved(c, k) \in {q, q + 1}
                       /\ c = TenTo[k] * q => Halved(c, k) = q
  BY RoundingKeepsDigits
<1>2. PICK u \in Nat : u = b + k
  OBVIOUS
<1>3. PICK p \in Nat, t \in Nat : p = TenTo[k] /\ p > 0 /\ t = TenTo[b] /\ t > 0
  <2>1. TenTo[k] \in Nat /\ TenTo[k] > 0 /\ TenTo[b] \in Nat /\ TenTo[b] > 0
    BY TenToIsPositive
  <2> QED BY <2>1
<1>4. PICK w \in Nat : w = TenTo[u] /\ w = t * p
  <2>1. TenTo[b + k] = TenTo[b] * TenTo[k]
    BY TenToAdds
  <2>2. t * p \in Nat
    BY <1>3
  <2> QED BY <1>2, <1>3, <2>1, <2>2
<1>5. PICK x \in Nat, y \in Nat, z \in Nat : x = s * TenTo[i] /\ y = c * t /\ z = q * w
  <2>1. s * TenTo[i] \in Nat /\ c * t \in Nat /\ q * w \in Nat
    BY <1>1, <1>3, <1>4, TenToIsPositive
  <2> QED BY <2>1
<1>6. (q + 1) * w = z + w
  BY <1>1, <1>4, <1>5
<1>7. z <= y /\ y < z + w /\ (y = z => c = p * q)
  <2>1. \A f, g \in Nat : (f <= g <=> f * t <= g * t) /\ (f < g <=> f * t < g * t) /\ (f = g <=> f * t = g * t)
    BY <1>3
  <2>2. \A f \in Nat : (p * f) * t = f * (t * p)
    BY <1>3
  <2>3. p * q \in Nat /\ p * (q + 1) \in Nat /\ q + 1 \in Nat
    BY <1>1, <1>3
  <2>4. (p * q) * t = z /\ (p * (q + 1)) * t = z + w
    BY <1>1, <1>4, <1>5, <1>6, <2>2, <2>3
  <2> QED BY <1>1, <1>3, <1>5, <2>1, <2>3, <2>4, SMTT(30)
<1>8. z <= x /\ x < z + w => x = z
  <2> SUFFICES ASSUME z <= x, x < z + w PROVE x = z
    OBVIOUS
  <2>1. q * TenTo[u] <= s * TenTo[i] /\ s * TenTo[i] < (q + 1) * TenTo[u]
    BY <1>4, <1>5, <1>6
  <2>2. q \in Nat /\ u \in Nat /\ TenTo[Precision - 1] <= q
    BY <1>1, <1>2
  <2>3. s * TenTo[i] = q * TenTo[u]
    <3> HIDE DEF IsShort
    <3> QED BY <2>1, <2>2, ShortIsKept
  <2> QED BY <1>4, <1>5, <2>3
<1>9. PICK h \in Nat : h = Halved(c, k) /\ (h = q \/ h = q + 1) /\ (c = p * q => h = q)
  BY <1>1, <1>3
<1>10. x <= y => x <= h * w
  <2>1. CASE h = q
    BY <1>5, <1>7, <1>8, <2>1
  <2>2. CASE h = q + 1
    BY <1>5, <1>6, <1>7, <2>2
  <2> QED BY <1>9, <2>1, <2>2
<1>11. y <= x => h * w <= x
  <2>1. CASE h = q
    BY <1>5, <1>7, <2>1
  <2>2. CASE h = q + 1
    <3> SUFFICES ASSUME y <= x, x < z + w PROVE FALSE
      BY <1>4, <1>5, <1>6, <2>2
    <3>1. x = z
      <4>1. z <= x
        BY <1>5, <1>7
      <4> QED BY <4>1, <1>8
    <3>2. y = z
      BY <1>5, <1>7, <3>1
    <3> QED BY <1>7, <1>9, <1>1, <2>2, <3>2
  <2> QED BY <1>9, <2>1, <2>2
<1> QED BY <1>2, <1>3, <1>4, <1>5, <1>9, <1>10, <1>11

(* ... so it takes no number out of a range whose ends are short.          *)
LEMMA RoundingKeepsRange ==
  ASSUME NEW neg, NEW c \in Nat, c # 0, NEW e \in Int,
         NEW lowest \in Int, NEW highest \in Int, IsShort(lowest), IsShort(highest),
         Within(Number(neg, c, e), lowest, highest)
  PROVE  Within(Rounded(Number(neg, c, e)), lowest, highest)
<1>1. PICK k \in Int : k = DigitCount(c) - Precision
  BY DigitsOf, DecimalAssumption
<1>2. CASE k <= 0
  BY <1>1, <1>2, RoundedIs
<1>3. CASE ~(k <= 0)
  <2>1. PICK y \in Nat : y = k /\ y # 0 /\ DigitCount(c) = Precision + y
    BY <1>1, <1>3, DigitsOf, DecimalAssumption
  <2>2. PICK h \in Nat : h = Halved(c, y)
    BY <2>1, HalvedIs
  <2>3. Rounded(Number(neg, c, e)) = Number(neg, h, e + y)
    BY <1>1, <1>3, <2>1, <2>2, RoundedIs
  <2>4. PICK a \in Nat, b \in Nat, d \in Nat, f \in Int : b - a = e + 1 /\ f = e + y /\ d = b + y /\ d - a = f + 1
    <3>1. CASE e >= -1
      <4>1. e + 1 \in Nat /\ (e + 1) - 0 = e + 1 /\ e + y \in Int /\ (e + 1) + y \in Nat /\ ((e + 1) + y) - 0 = (e + y) + 1
        BY <2>1, <3>1
      <4> QED BY <4>1
    <3>2. CASE ~(e >= -1)
      <4>1. -1 - e \in Nat /\ 0 - (-1 - e) = e + 1 /\ e + y \in Int /\ 0 + y \in Nat /\ (0 + y) - (-1 - e) = (e + y) + 1
        BY <2>1, <3>2
      <4> QED BY <4>1
    <3> QED BY <3>1, <3>2
  <2>5. /\ lowest * TenTo[a] <= Signed(neg, c) * TenTo[b]
        /\ Signed(neg, c) * TenTo[b] <= highest * TenTo[a]
    BY <2>4, WithinMeans
  <2>6. ASSUME NEW limit \in Int, IsShort(limit)
        PROVE  /\ limit * TenTo[a] <= Signed(neg, c) * TenTo[b]
                    => limit * TenTo[a] <= Signed(neg, h) * TenTo[d]
               /\ Signed(neg, c) * TenTo[b] <= limit * TenTo[a]
                    => Signed(neg, h) * TenTo[d] <= limit * TenTo[a]
    <3>1. PICK s \in Nat, i \in Nat : s < TenTo[Precision] /\ limit \in {s * TenTo[i], -(s * TenTo[i])}
      <4>1. PICK s \in Nat, i \in Nat : s < 100 /\ limit \in {s * TenTo[i], -(s * TenTo[i])}
        BY <2>6 DEF IsShort
      <4>2. s < TenTo[Precision]
        BY <4>1, TwoDigitsFit
      <4> QED BY <4>1, <4>2
    <3>2. PICK g \in Nat : g = i + a
      BY <2>4, <3>1
    <3>3. TenTo[i] \in Nat /\ TenTo[a] \in Nat /\ TenTo[b] \in Nat /\ TenTo[d] \in Nat /\ TenTo[g] = TenTo[i] * TenTo[a]
      <4>1. TenTo[i] \in Nat /\ TenTo[a] \in Nat /\ TenTo[b] \in Nat /\ TenTo[d] \in Nat
        BY <2>4, <3>1, TenToIsPositive
      <4>2. TenTo[i + a] = TenTo[i] * TenTo[a]
        BY <2>4, <3>1, TenToAdds
      <4> QED BY <3>2, <4>1, <4>2
    <3>4. PICK u \in Nat, v \in Nat, w \in Nat : u = s * TenTo[g] /\ v = c * TenTo[b] /\ w = h * TenTo[d]
      <4>1. s * TenTo[g] \in Nat /\ c * TenTo[b] \in Nat /\ h * TenTo[d] \in Nat
        BY <2>2, <2>4, <3>1, <3>2, <3>3, TenToIsPositive
      <4> QED BY <4>1
    <3>5. (u <= v => u <= w) /\ (v <= u => w <= u)
      <4>1. /\ s * TenTo[g] <= c * TenTo[b] => s * TenTo[g] <= Halved(c, y) * TenTo[b + y]
            /\ c * TenTo[b] <= s * TenTo[g] => Halved(c, y) * TenTo[b + y] <= s * TenTo[g]
        BY <2>1, <2>4, <3>1, <3>2, RoundingKeepsOrder
      <4> QED BY <2>2, <2>4, <3>4, <4>1
    <3>6. limit * TenTo[a] = u \/ limit * TenTo[a] = -u
      <4>1. \A x, z \in Nat : (s * x) * z = s * (x * z) /\ (-(s * x)) * z = -(s * (x * z))
        BY <3>1
      <4> QED BY <3>1, <3>3, <3>4, <4>1
    <3>7. /\ Signed(neg, c) * TenTo[b] = IF neg THEN -v ELSE v
          /\ Signed(neg, h) * TenTo[d] = IF neg THEN -w ELSE w
      <4>1. \A x, z \in Nat : (-x) * z = -(x * z)
        OBVIOUS
      <4> QED BY <2>2, <3>3, <3>4, <4>1 DEF Signed
    <3> QED BY <3>4, <3>5, <3>6, <3>7
  <2>7. /\ lowest * TenTo[a] <= Signed(neg, h) * TenTo[d]
        /\ Signed(neg, h) * TenTo[d] <= highest * TenTo[a]
    BY <2>5, <2>6
  <2>8. Within(Number(neg, h, f), lowest, highest)
    BY <2>2, <2>4, <2>7, WithinMeans
  <2> QED BY <2>3, <2>4, <2>8
<1> QED BY <1>1, <1>2, <1>3

-----------------------------------------------------------------------------
(* Canonical numbers.                                                      *)

(* The range check of a number of tenths compares the tenths.              *)
LEMMA TenthsWithin ==
  \A neg : \A c \in Nat, lowest, highest \in Int :
    Within(Number(neg, c, -1), lowest, highest)
      <=> lowest <= Signed(neg, c) /\ Signed(neg, c) <= highest
<1> SUFFICES ASSUME NEW neg, NEW c \in Nat, NEW lowest \in Int, NEW highest \in Int
             PROVE  Within(Number(neg, c, -1), lowest, highest)
                      <=> lowest <= Signed(neg, c) /\ Signed(neg, c) <= highest
  OBVIOUS
<1>1. PICK f \in Int, a \in Nat : f = -1 /\ a = 0 /\ a - a = f + 1 /\ TenTo[a] = 1
  <2>1. 0 - 0 = -1 + 1 /\ TenTo[0] = 1
    BY TenToIsPositive
  <2> QED BY <2>1
<1>2. Within(Number(neg, c, f), lowest, highest)
        <=> /\ lowest * TenTo[a] <= Signed(neg, c) * TenTo[a]
            /\ Signed(neg, c) * TenTo[a] <= highest * TenTo[a]
  BY <1>1, WithinMeans
<1>3. Signed(neg, c) \in Int
  BY DEF Signed
<1> QED BY <1>1, <1>2, <1>3

(* The canonical text of a number is in every short range the number is    *)
(* in: 499.99 may become 500, and never 500.1.                             *)
LEMMA FormatKeepsRange ==
  ASSUME NEW neg, NEW c \in Nat, NEW e \in Int,
         NEW lowest \in Int, NEW highest \in Int, IsShort(lowest), IsShort(highest),
         Within(Number(neg, c, e), lowest, highest)
  PROVE  Within(Format(Number(neg, c, e)), lowest, highest)
<1>1. CASE c = 0
  <2>1. Format(Number(neg, c, e)) = Number(neg, 0, -1)
    <3>1. Normalized(Number(neg, c, e)) = Number(neg, 0, 0)
      BY <1>1, NormalizedZero
    <3>2. TenTo[1] \in Nat /\ 0 + 1 = 1 /\ 0 * TenTo[1] = 0
      BY TenToIsPositive
    <3> QED BY <3>1, <3>2 DEF Format, Number
  <2>2. Signed(neg, 0) = 0
    <3>1. \A x \in Int : x = 0 => -x <= 0 /\ 0 <= -x
      OBVIOUS
    <3>2. PICK v \in Int : v = Signed(neg, c) /\ v <= 0 /\ 0 <= v
      BY <1>1, <3>1 DEF Signed
    <3> QED BY <1>1, <3>2
  <2>3. lowest <= 0 /\ 0 <= highest
    <3>1. PICK a \in Nat, b \in Nat : b - a = e + 1
      <4>1. CASE e >= -1
        <5>1. e + 1 \in Nat /\ (e + 1) - 0 = e + 1
          BY <4>1
        <5> QED BY <5>1
      <4>2. CASE ~(e >= -1)
        <5>1. -1 - e \in Nat /\ 0 - (-1 - e) = e + 1
          BY <4>2
        <5> QED BY <5>1
      <4> QED BY <4>1, <4>2
    <3>2. PICK p \in Nat, q \in Nat : p = TenTo[a] /\ p > 0 /\ q = TenTo[b]
      <4>1. TenTo[a] \in Nat /\ TenTo[a] > 0 /\ TenTo[b] \in Nat
        BY <3>1, TenToIsPositive
      <4> QED BY <4>1
    <3>3. lowest * p <= 0 * q /\ 0 * q <= highest * p
      <4>1. Within(Number(neg, 0, e), lowest, highest)
        BY <1>1
      <4>2. /\ lowest * TenTo[a] <= Signed(neg, 0) * TenTo[b]
            /\ Signed(neg, 0) * TenTo[b] <= highest * TenTo[a]
        BY <3>1, <4>1, WithinMeans
      <4> QED BY <2>2, <3>2, <4>2
    <3>4. \A x \in Int : (x * p <= 0 => x <= 0) /\ (0 <= x * p => 0 <= x)
      BY <3>2
    <3> QED BY <3>2, <3>3, <3>4
  <2>4. Within(Number(neg, 0, -1), lowest, highest)
    BY <1>1, <2>2, <2>3, TenthsWithin
  <2> QED BY <2>1, <2>4
<1>2. CASE c # 0
  <2>1. Within(Rounded(Number(neg, c, e)), lowest, highest)
    BY <1>2, RoundingKeepsRange
  <2>2. PICK h \in Nat, f \in Int : h # 0 /\ Rounded(Number(neg, c, e)) = Number(neg, h, f)
    BY <1>2, RoundedHolds
  <2>3. PICK s \in Nat, z \in Nat : s % 10 # 0 /\ h = s * TenTo[z]
    BY <2>2, SignificandOf
  <2>4. PICK x \in Int : x = f + z /\ f = x - z
    BY <2>2, <2>3
  <2>5. Normalized(Number(neg, c, e)) = Number(neg, s, x)
    <3>1. \A g : \A u, v \in Nat : \A w \in Int :
            u % 10 # 0 /\ h = u * TenTo[v] /\ g = w + v => Stripped(Number(neg, h, w)) = Number(neg, u, g)
      BY StrippedIs
    <3>2. Stripped(Number(neg, h, f)) = Number(neg, s, x)
      BY <2>2, <2>3, <2>4, <3>1
    <3> QED BY <2>2, <3>2 DEF Normalized
  <2>6. Within(Number(neg, s, x), lowest, highest)
    <3>1. Within(Number(neg, s * TenTo[z], x - z), lowest, highest)
      BY <2>1, <2>2, <2>3, <2>4
    <3> QED BY <2>3, <2>4, <3>1, WithinScales
  <2>7. CASE x >= 0
    <3>1. PICK j \in Nat : j = x + 1 /\ x - j = -1
      BY <2>4, <2>7
    <3>2. Format(Number(neg, c, e)) = Number(neg, s * TenTo[j], x - j)
      BY <2>5, <2>7, <3>1 DEF Format, Number
    <3>3. Within(Number(neg, s * TenTo[j], x - j), lowest, highest)
      BY <2>3, <2>4, <2>6, <3>1, WithinScales
    <3> QED BY <3>2, <3>3
  <2>8. CASE ~(x >= 0)
    BY <2>5, <2>6, <2>8 DEF Format, Number
  <2> QED BY <2>7, <2>8
<1> QED BY <1>1, <1>2

(* A canonical number, its canonical text, and a longer way to write it.   *)

(* A number among the decimals, taken apart ...                            *)
LEMMA DecimalIs ==
  ASSUME NEW n \in Decimal, n.kind = "number"
  PROVE  n = Number(n.neg, n.coef, n.exp) /\ n.neg \in BOOLEAN /\ n.coef \in Nat /\ n.exp \in Int
BY DEF Decimal, Number

(* ... and put together.                                                   *)
LEMMA NumberIs ==
  ASSUME NEW neg \in BOOLEAN, NEW c \in Nat, NEW e \in Int
  PROVE  LET n == Number(neg, c, e)
         IN  n \in Decimal /\ n.kind = "number" /\ n.neg = neg /\ n.coef = c /\ n.exp = e
BY DEF Decimal, Number

(* A canonical text is canonical, and is its own canonical text.           *)
LEMMA FormatIsCanonical ==
  ASSUME NEW n \in Decimal, IsCanonical(n)
  PROVE  /\ Format(n) \in Decimal /\ IsCanonical(Format(n)) /\ InCanonicalForm(Format(n))
         /\ Format(Format(n)) = Format(n)
<1>1. /\ n = Number(n.neg, n.coef, n.exp) /\ n.neg \in BOOLEAN /\ n.coef \in Nat /\ n.exp \in Int
      /\ ~(n.neg /\ n.coef = 0) /\ DigitCount(Normalized(n).coef) <= MaxSignificant
  BY DecimalIs DEF IsCanonical
<1>2. PICK d \in Nat, f \in Int :
           /\ Format(n) = Number(n.neg, d, f)
           /\ d = 0 <=> n.coef = 0
           /\ f = -1 \/ (f < -1 /\ d % 10 # 0)
           /\ Normalized(Number(n.neg, d, f)) = Normalized(n)
  BY <1>1, FormatNormalizes
<1>3. LET m == Format(n)
      IN  m \in Decimal /\ m.kind = "number" /\ m.neg = n.neg /\ m.coef = d /\ m.exp = f
  BY <1>1, <1>2, NumberIs
<1>4. Normalized(Format(n)) = Normalized(n)
  BY <1>2
<1>5. Format(Format(n)) = Format(n)
  BY <1>4 DEF Format
<1> QED BY <1>1, <1>2, <1>3, <1>4, <1>5 DEF IsCanonical, InCanonicalForm

(* A number that passed the checks still passes them once it is written    *)
(* out (manifest.py 281-289, numfmt.py 54-70).                             *)
LEMMA FormatStaysWithin ==
  ASSUME NEW n \in Decimal, IsCanonical(n),
         NEW lowest \in Int, NEW highest \in Int, IsShort(lowest), IsShort(highest),
         Within(n, lowest, highest)
  PROVE  Within(Format(n), lowest, highest)
<1>1. /\ n = Number(n.neg, n.coef, n.exp) /\ n.coef \in Nat /\ n.exp \in Int
  BY DecimalIs DEF IsCanonical
<1> QED BY <1>1, FormatKeepsRange

(* One zero more changes nothing that is checked or written.               *)
LEMMA LongerIsTheSame ==
  ASSUME NEW n \in Decimal
  PROVE  /\ Longer(n) \in Decimal
         /\ IsCanonical(Longer(n)) <=> IsCanonical(n)
         /\ IsCanonical(n) =>
              /\ Format(Longer(n)) = Format(n)
              /\ \A lowest, highest \in Int :
                   Within(Longer(n), lowest, highest) <=> Within(n, lowest, highest)
<1>1. CASE n.kind = "number"
  <2>1. n = Number(n.neg, n.coef, n.exp) /\ n.neg \in BOOLEAN /\ n.coef \in Nat /\ n.exp \in Int
    BY <1>1, DecimalIs
  <2>2. PICK c \in Nat, e \in Int : c = n.coef * 10 /\ e = n.exp - 1 /\ (c = 0 <=> n.coef = 0)
    BY <2>1
  <2>3. Longer(n) = Number(n.neg, c, e)
    BY <1>1, <2>1, <2>2 DEF Longer, Number
  <2>4. TenTo[1] = 10
    <3>1. 0 + 1 = 1 /\ TenTo[0] = 1 /\ TenTo[0 + 1] = 10 * TenTo[0]
      BY TenToIsPositive
    <3> QED BY <3>1
  <2>5. Normalized(Longer(n)) = Normalized(n)
    <3>1. CASE n.coef = 0
      BY <2>1, <2>2, <2>3, <3>1, NormalizedZero
    <3>2. CASE n.coef # 0
      <4>1. Normalized(Number(n.neg, n.coef * TenTo[1], n.exp - 1)) = Normalized(Number(n.neg, n.coef, n.exp))
        BY <2>1, <3>2, NormalizedScales
      <4> QED BY <2>1, <2>2, <2>3, <2>4, <4>1
    <3> QED BY <3>1, <3>2
  <2>6. Longer(n) \in Decimal /\ Longer(n).kind = "number" /\ Longer(n).neg = n.neg /\ Longer(n).coef = c
    BY <2>1, <2>2, <2>3, NumberIs
  <2>7. ASSUME NEW lowest \in Int, NEW highest \in Int
        PROVE  Within(Longer(n), lowest, highest) <=> Within(n, lowest, highest)
    <3>1. Within(Number(n.neg, n.coef * TenTo[1], n.exp - 1), lowest, highest)
            <=> Within(Number(n.neg, n.coef, n.exp), lowest, highest)
      BY <2>1, WithinScales
    <3> QED BY <2>1, <2>2, <2>3, <2>4, <3>1
  <2> QED BY <1>1, <2>2, <2>5, <2>6, <2>7 DEF IsCanonical, Format
<1>2. CASE n.kind # "number"
  BY <1>2 DEF Longer, IsCanonical
<1> QED BY <1>1, <1>2

-----------------------------------------------------------------------------
(* The contract's limits.                                                  *)

(* A limit as the contract's are: its ends are short, its default is       *)
(* between them and is not zero.                                           *)
Fair(limit) ==
  /\ limit[1] \in Int /\ limit[2] \in Int /\ limit[3] \in Int \ {0}
  /\ IsShort(limit[1]) /\ IsShort(limit[2]) /\ IsShort(limit[3])
  /\ limit[1] <= limit[3] /\ limit[3] <= limit[2]

AreFair(limits) == \A key \in DOMAIN limits : Fair(limits[key])

(* Numbers of at most two digits and some zeros are short.                 *)
LEMMA ShortNumbers ==
  \A n \in Nat : \/ n < 100
                 \/ n % 10 = 0 /\ n \div 10 < 100
                 \/ n % 100 = 0 /\ n \div 100 < 100
                 \/ n % 1000 = 0 /\ n \div 1000 < 100
     => IsShort(n) /\ IsShort(-n)
<1>1. TenTo[0] = 1 /\ TenTo[1] = 10 /\ TenTo[2] = 100 /\ TenTo[3] = 1000
  <2>1. 0 + 1 = 1 /\ 2 + 1 = 3 /\ TenTo[0] = 1 /\ TenTo[0 + 1] = 10 * TenTo[0]
        /\ TenTo[2 + 1] = 10 * TenTo[2]
    BY TenToIsPositive
  <2> QED BY <2>1, TwoDigitsFit
<1>2. \A n : \A s \in Nat, i \in Nat : s < 100 /\ n = s * TenTo[i] => IsShort(n) /\ IsShort(-n)
  BY DEF IsShort
<1> SUFFICES ASSUME NEW n \in Nat,
                    \/ n < 100
                    \/ n % 10 = 0 /\ n \div 10 < 100
                    \/ n % 100 = 0 /\ n \div 100 < 100
                    \/ n % 1000 = 0 /\ n \div 1000 < 100
             PROVE  \E s \in Nat, i \in Nat : s < 100 /\ n = s * TenTo[i]
  BY <1>2, ZenonT(30)
<1>3. CASE n < 100
  <2>1. n = n * TenTo[0]
    BY <1>1
  <2> QED BY <1>3, <2>1
<1>4. CASE n % 10 = 0 /\ n \div 10 < 100
  <2>1. n = (n \div 10) * TenTo[1] /\ n \div 10 \in Nat
    BY <1>1, <1>4
  <2> QED BY <1>4, <2>1
<1>5. CASE n % 100 = 0 /\ n \div 100 < 100
  <2>1. n = (n \div 100) * TenTo[2] /\ n \div 100 \in Nat
    BY <1>1, <1>5
  <2> QED BY <1>5, <2>1
<1>6. CASE n % 1000 = 0 /\ n \div 1000 < 100
  <2>1. n = (n \div 1000) * TenTo[3] /\ n \div 1000 \in Nat
    BY <1>1, <1>6
  <2> QED BY <1>6, <2>1
<1> QED BY <1>3, <1>4, <1>5, <1>6

(* The numbers of the contract.                                            *)
LEMMA ContractIsShort ==
  /\ \A n \in {0, 1, 5, 10, 12, 15, 18, 20, 25, 30, 40, 50, 60, 70, 80, 98} : IsShort(n)
  /\ \A n \in {100, 120, 150, 250, 400, 500, 750, 850} : IsShort(n)
  /\ \A n \in {1000, 1500, 2000, 3000, 4000, 5000} : IsShort(n)
  /\ \A n \in {1000, 3500, 10000} : IsShort(-n)
<1>1. ASSUME NEW n \in {0, 1, 5, 10, 12, 15, 18, 20, 25, 30, 40, 50, 60, 70, 80, 98} PROVE IsShort(n)
  <2>1. n \in Nat /\ n < 100
    OBVIOUS
  <2> QED BY <2>1, ShortNumbers
<1>2. ASSUME NEW n \in {100, 120, 150, 250, 400, 500, 750, 850} PROVE IsShort(n)
  <2>1. n \in Nat /\ n % 10 = 0 /\ n \div 10 < 100
    OBVIOUS
  <2> QED BY <2>1, ShortNumbers
<1>3. ASSUME NEW n \in {1000, 1500, 2000, 3000, 4000, 5000} PROVE IsShort(n)
  <2>1. n \in Nat /\ n % 100 = 0 /\ n \div 100 < 100
    OBVIOUS
  <2> QED BY <2>1, ShortNumbers
<1>4. ASSUME NEW n \in {1000, 3500, 10000} PROVE IsShort(-n)
  <2>1. CASE n \in {1000, 3500}
    <3>1. n \in Nat /\ n % 100 = 0 /\ n \div 100 < 100
      BY <2>1
    <3> QED BY <3>1, ShortNumbers
  <2>2. CASE n = 10000
    <3>1. n \in Nat /\ n % 1000 = 0 /\ n \div 1000 < 100
      BY <2>2
    <3> QED BY <3>1, ShortNumbers
  <2> QED BY <2>1, <2>2
<1> QED BY <1>1, <1>2, <1>3, <1>4

(* Every limit of the contract is fair (contract.py's tables, as           *)
(* CreatorManifest has them).                                              *)
LEMMA ContractIsFair ==
  /\ DOMAIN Limits = Roles \cup {Behavior}
  /\ AreFair(PhysicsLimits)
  /\ \A role \in DOMAIN Limits : AreFair(Limits[role])
<1>1. \A a, b, c \in Int : IsShort(a) /\ IsShort(b) /\ IsShort(c) /\ a <= c /\ c <= b /\ c # 0
                            => Fair(<<a, b, c>>)
  BY DEF Fair
<1>2. AreFair(PhysicsLimits)
  <2>1. Fair(<<1, 500, 98>>) /\ Fair(<<1, 20, 5>>)
    BY <1>1, ContractIsShort
  <2> QED BY <2>1 DEF AreFair, PhysicsLimits
<1>3. AreFair(Limits[Behavior])
  <2>1. Fair(<<500, 5000, 2000>>)
    BY <1>1, ContractIsShort
  <2>2. Fair(<<-10000, -1000, -3500>>)
    BY <1>1, ContractIsShort
  <2> QED BY <2>1, <2>2 DEF AreFair, Limits, Behavior
<1>4. AreFair(Limits["enforcer"])
  <2>1. /\ Fair(<<500, 5000, 1000>>) /\ Fair(<<0, 2000, 500>>) /\ Fair(<<30, 100, 60>>)
        /\ Fair(<<10, 25, 15>>)
    BY <1>1, ContractIsShort
  <2> QED BY <2>1 DEF AreFair, Limits, Character
<1>5. AreFair(Limits["scout"])
  <2>1. /\ Fair(<<500, 3000, 750>>) /\ Fair(<<0, 1000, 250>>) /\ Fair(<<50, 150, 80>>)
        /\ Fair(<<12, 30, 18>>)
    BY <1>1, ContractIsShort
  <2> QED BY <2>1 DEF AreFair, Limits, Character
<1>6. AreFair(Limits["fixer"])
  <2>1. /\ Fair(<<500, 4000, 850>>) /\ Fair(<<0, 1500, 400>>) /\ Fair(<<40, 120, 70>>)
        /\ Fair(<<10, 20, 15>>)
    BY <1>1, ContractIsShort
  <2> QED BY <2>1 DEF AreFair, Limits, Character
<1>7. DOMAIN Limits = Roles \cup {Behavior}
  BY DEF Limits, Roles, Behavior
<1> QED BY <1>2, <1>3, <1>4, <1>5, <1>6, <1>7 DEF Roles

(* A default is a number that is accepted.                                 *)
LEMMA DefaultIsFine ==
  ASSUME NEW limit, Fair(limit)
  PROVE  LET n == Tenths(limit[3])
         IN  n \in Decimal /\ IsCanonical(n) /\ Within(n, limit[1], limit[2])
<1>1. PICK v \in Int : v = limit[3] /\ v # 0 /\ IsShort(v)
  BY DEF Fair
<1>2. PICK neg \in BOOLEAN, c \in Nat : neg = (v < 0) /\ c = (IF v < 0 THEN -v ELSE v)
  <2>1. (v < 0) \in BOOLEAN /\ (IF v < 0 THEN -v ELSE v) \in Nat
    BY <1>1
  <2> QED BY <2>1
<1>3. Tenths(limit[3]) = Number(neg, c, -1)
  BY <1>1, <1>2 DEF Tenths
<1>4. c # 0 /\ Signed(neg, c) = v
  <2>1. CASE v < 0
    <3>1. neg /\ c = -v
      BY <1>2, <2>1
    <3> QED BY <1>1, <2>1, <3>1 DEF Signed
  <2>2. CASE ~(v < 0)
    <3>1. ~neg /\ c = v
      BY <1>2, <2>2
    <3> QED BY <1>1, <3>1 DEF Signed
  <2> QED BY <2>1, <2>2
<1>5. PICK s \in Nat, i \in Nat : s < 100 /\ c = s * TenTo[i]
  <2>1. PICK s \in Nat, i \in Nat : s < 100 /\ v \in {s * TenTo[i], -(s * TenTo[i])}
    BY <1>1 DEF IsShort
  <2>2. s * TenTo[i] \in Nat
    BY <2>1, TenToIsPositive
  <2>3. c = s * TenTo[i]
    BY <1>1, <1>2, <2>1, <2>2
  <2> QED BY <2>1, <2>3
<1>6. PICK x \in Int : x = -1 + i /\ x - i = -1
  BY <1>5
<1>7. s # 0
  BY <1>4, <1>5, TenToIsPositive
<1>8. Normalized(Number(neg, c, -1)) = Normalized(Number(neg, s, x))
  <2>1. Normalized(Number(neg, s * TenTo[i], x - i)) = Normalized(Number(neg, s, x))
    BY <1>5, <1>6, <1>7, NormalizedScales
  <2> QED BY <1>5, <1>6, <2>1
<1>9. PICK t \in Nat, z \in Nat : t % 10 # 0 /\ s = t * TenTo[z]
  BY <1>5, <1>7, SignificandOf
<1>10. t <= s
  <2>1. PICK p \in Nat : p = TenTo[z] /\ p > 0
    BY <1>9, TenToIsPositive
  <2>2. t <= t * p
    BY <1>9, <2>1
  <2> QED BY <1>9, <2>1, <2>2
<1>11. t < TenTo[Precision] /\ t < TenTo[2]
  BY <1>5, <1>9, <1>10, TwoDigitsFit
<1>12. PICK y \in Int : y = x + z /\ y - z = x
  BY <1>6, <1>9
<1>13. Normalized(Number(neg, s, x)) = Number(neg, t, y)
  <2>1. t \in Nat /\ t # 0 /\ z \in Nat /\ y \in Int
    BY <1>9, <1>12
  <2>2. Normalized(Number(neg, t * TenTo[z], y - z)) = Normalized(Number(neg, t, y))
    BY <2>1, NormalizedScales
  <2>3. Normalized(Number(neg, t, y)) = Number(neg, t, y)
    BY <1>9, <1>11, <1>12, NormalizedStays
  <2> QED BY <1>9, <1>12, <2>2, <2>3
<1>14. DigitCount(t) <= 2
  <2> SUFFICES ASSUME ~(DigitCount(t) <= 2) PROVE FALSE
    OBVIOUS
  <2>1. PICK d \in Nat : d = DigitCount(t) - 1 /\ d >= 2 /\ t >= TenTo[d]
    BY <1>9, DigitsOf
  <2>2. TenTo[2] <= TenTo[d] /\ TenTo[2] \in Nat /\ TenTo[d] \in Nat
    BY <2>1, TenToGrows, TenToIsPositive
  <2> QED BY <1>9, <1>11, <2>1, <2>2
<1>15. IsCanonical(Number(neg, c, -1)) /\ Number(neg, c, -1) \in Decimal
  <2>1. Number(neg, t, y).coef = t
    BY DEF Number
  <2>2. LET n == Number(neg, c, -1)
        IN  n \in Decimal /\ n.kind = "number" /\ n.coef = c
    BY <1>2 DEF Number, Decimal
  <2>3. DigitCount(t) <= MaxSignificant
    BY <1>9, <1>14, DigitsOf, DecimalAssumption
  <2> QED BY <1>4, <1>8, <1>13, <2>1, <2>2, <2>3 DEF IsCanonical
<1>16. Within(Number(neg, c, -1), limit[1], limit[2])
  <2>1. limit[1] \in Int /\ limit[2] \in Int /\ limit[1] <= v /\ v <= limit[2]
    BY <1>1 DEF Fair
  <2>2. \A lowest, highest \in Int : Within(Number(neg, c, -1), lowest, highest)
          <=> lowest <= Signed(neg, c) /\ Signed(neg, c) <= highest
    BY <1>2, TenthsWithin
  <2> QED BY <1>4, <2>1, <2>2
<1> QED BY <1>3, <1>15, <1>16

-----------------------------------------------------------------------------
(* Blocks of numbers.                                                      *)

(* What a block says once its values are filled in and written out.        *)
Told(block, limits) == Formatted(Block(block, limits))

(* What is taken of a block is a number or a word where a number belongs.  *)
LEMMA TakenIs ==
  ASSUME NEW block, IsBlock(block), NEW limits, AreFair(limits), NEW key \in DOMAIN limits
  PROVE  Taken(block, key, limits[key]) \in Decimal
<1>1. CASE key \in DOMAIN block
  BY <1>1 DEF Taken, IsBlock
<1>2. CASE key \notin DOMAIN block
  <2>1. Fair(limits[key])
    BY DEF AreFair
  <2>2. Tenths(limits[key][3]) \in Decimal
    BY <2>1, DefaultIsFine
  <2> QED BY <1>2, <2>2 DEF Taken
<1> QED BY <1>1, <1>2

(* ... value by value.                                                     *)
LEMMA ToldIs ==
  ASSUME NEW block, NEW limits
  PROVE  /\ DOMAIN Told(block, limits) = DOMAIN limits
         /\ Told(block, limits) = [key \in DOMAIN limits |-> Told(block, limits)[key]]
         /\ \A key \in DOMAIN limits : Told(block, limits)[key] = Format(Taken(block, key, limits[key]))
BY DEF Told, Formatted, Block

(* An accepted block, written out, is canonical, accepted, and what it is  *)
(* itself read and written as.                                             *)
LEMMA ToldIsFine ==
  ASSUME NEW block, IsBlock(block), NEW limits, AreFair(limits), BlockOk(block, limits)
  PROVE  /\ \A key \in DOMAIN limits :
              LET n == Told(block, limits)[key]
              IN  n \in Decimal /\ IsCanonical(n) /\ InCanonicalForm(n) /\ Format(n) = n
         /\ BlockOk(Told(block, limits), limits)
         /\ Block(Told(block, limits), limits) = Told(block, limits)
         /\ Formatted(Told(block, limits)) = Told(block, limits)
         /\ Told(Told(block, limits), limits) = Told(block, limits)
<1> DEFINE told == Told(block, limits)
<1>1. /\ DOMAIN told = DOMAIN limits
      /\ told = [key \in DOMAIN limits |-> told[key]]
      /\ \A key \in DOMAIN limits : told[key] = Format(Taken(block, key, limits[key]))
  BY ToldIs
<1> HIDE DEF told
<1>2. ASSUME NEW key \in DOMAIN limits
      PROVE  /\ told[key] \in Decimal /\ IsCanonical(told[key]) /\ InCanonicalForm(told[key])
             /\ Format(told[key]) = told[key]
             /\ Within(told[key], limits[key][1], limits[key][2])
  <2>1. PICK n \in Decimal : n = Taken(block, key, limits[key])
    BY TakenIs
  <2>2. IsCanonical(n) /\ Within(n, limits[key][1], limits[key][2])
    BY <2>1 DEF BlockOk
  <2>3. told[key] = Format(n)
    BY <1>1, <2>1
  <2>4. Format(n) \in Decimal /\ IsCanonical(Format(n)) /\ InCanonicalForm(Format(n))
        /\ Format(Format(n)) = Format(n)
    BY <2>2, FormatIsCanonical
  <2>5. /\ limits[key][1] \in Int /\ limits[key][2] \in Int
        /\ IsShort(limits[key][1]) /\ IsShort(limits[key][2])
    BY DEF AreFair, Fair
  <2>6. Within(Format(n), limits[key][1], limits[key][2])
    <3>1. PICK lowest \in Int, highest \in Int : lowest = limits[key][1] /\ highest = limits[key][2]
      BY <2>5
    <3>2. Within(Format(n), lowest, highest)
      BY <2>2, <2>5, <3>1, FormatStaysWithin
    <3> QED BY <3>1, <3>2
  <2> QED BY <2>3, <2>4, <2>6
<1>3. \A key \in DOMAIN limits : Taken(told, key, limits[key]) = told[key]
  BY <1>1 DEF Taken
<1>4. BlockOk(told, limits)
  BY <1>2, <1>3 DEF BlockOk
<1>5. Block(told, limits) = told
  BY <1>1, <1>3 DEF Block
<1>6. Formatted(told) = told
  BY <1>1, <1>2 DEF Formatted
<1>7. Told(told, limits) = told
  BY <1>5, <1>6 DEF Told
<1> QED BY <1>2, <1>4, <1>5, <1>6, <1>7 DEF told

(* A block with longer numbers is accepted alike and says the same.        *)
LEMMA LongerBlockIsTheSame ==
  ASSUME NEW block, IsBlock(block), NEW limits, AreFair(limits)
  PROVE  /\ DOMAIN LongerBlock(block) = DOMAIN block /\ IsBlock(LongerBlock(block))
         /\ BlockOk(LongerBlock(block), limits) <=> BlockOk(block, limits)
         /\ BlockOk(block, limits) => Told(LongerBlock(block), limits) = Told(block, limits)
<1> DEFINE other == LongerBlock(block)
<1>1. DOMAIN other = DOMAIN block /\ \A key \in DOMAIN block : other[key] = Longer(block[key])
  BY DEF LongerBlock
<1> HIDE DEF other
<1>2. IsBlock(other)
  BY <1>1, LongerIsTheSame DEF IsBlock
<1>3. ASSUME NEW key \in DOMAIN limits
      PROVE  LET n == Taken(block, key, limits[key])
                 m == Taken(other, key, limits[key])
             IN  /\ IsCanonical(m) /\ Within(m, limits[key][1], limits[key][2])
                      <=> IsCanonical(n) /\ Within(n, limits[key][1], limits[key][2])
                 /\ IsCanonical(n) => Format(m) = Format(n)
  <2>1. CASE key \in DOMAIN block
    <3>1. PICK n \in Decimal : n = block[key] /\ other[key] = Longer(n)
      BY <1>1, <2>1 DEF IsBlock
    <3>2. PICK lowest \in Int, highest \in Int : lowest = limits[key][1] /\ highest = limits[key][2]
      BY DEF AreFair, Fair
    <3>3. Taken(block, key, limits[key]) = n /\ Taken(other, key, limits[key]) = Longer(n)
      BY <1>1, <2>1, <3>1 DEF Taken
    <3>4. /\ IsCanonical(Longer(n)) <=> IsCanonical(n)
          /\ IsCanonical(n) => /\ Format(Longer(n)) = Format(n)
                               /\ Within(Longer(n), lowest, highest) <=> Within(n, lowest, highest)
      BY <3>2, LongerIsTheSame
    <3> QED BY <3>2, <3>3, <3>4
  <2>2. CASE key \notin DOMAIN block
    BY <1>1, <2>2 DEF Taken
  <2> QED BY <2>1, <2>2
<1>4. BlockOk(other, limits) <=> BlockOk(block, limits)
  BY <1>3 DEF BlockOk
<1>5. ASSUME BlockOk(block, limits) PROVE Told(other, limits) = Told(block, limits)
  <2>1. \A key \in DOMAIN limits : Told(other, limits)[key] = Told(block, limits)[key]
    BY <1>3, <1>5, ToldIs DEF BlockOk
  <2>2. /\ Told(other, limits) = [key \in DOMAIN limits |-> Told(other, limits)[key]]
        /\ Told(block, limits) = [key \in DOMAIN limits |-> Told(block, limits)[key]]
    BY ToldIs
  <2> QED BY <2>1, <2>2
<1> QED BY <1>1, <1>2, <1>4, <1>5 DEF other

-----------------------------------------------------------------------------
(* When a goal is accepted.                                                *)

(* The parameters a goal is read for, and whether its 3D part is read.     *)
Read(g) == GivenFor(g.parameters, ReadRole(g.template))

IsSolid(g) == g.template = Template3D

\* The 3D part of a goal is accepted.
SolidOk(g) ==
  /\ g.renderer \in Renderers \cup {""}
  /\ BlockOk(g.physics_3d, PhysicsLimits)
  /\ \A i \in DOMAIN g.input_map : \A action \in DOMAIN g.input_map[i] :
       g.input_map[i][action] # <<>>

\* A goal is compiled.
Accepted(g) ==
  /\ ~HasPath(g) /\ g.version = 1 /\ ~g.extra /\ g.game /\ ~g.gameExtra /\ Missing(g) = {}
  /\ g.template \in {Template2D, Template3D} /\ g.name \notin BadNames
  /\ DOMAIN g.parameters \subseteq AllowedRoles(g.template)
  /\ RoleOk(g.parameters, ReadRole(g.template))
  /\ IsSolid(g) => SolidOk(g)

(* The two templates, their versions and their roles.                      *)
LEMMA TemplatesAre ==
  /\ DOMAIN TemplateVersion = {Template2D, Template3D} /\ Template2D # Template3D
  /\ TemplateVersion[Template2D] = 2 /\ TemplateVersion[Template3D] = 3
  /\ ReadRole(Template2D) = Behavior /\ ReadRole(Template3D) = "enforcer"
  /\ RolesOf(2) = {Behavior} /\ RolesOf(3) = Roles /\ "enforcer" \in Roles /\ Behavior \notin Roles
  /\ TemplateOf(2) = Template2D /\ TemplateOf(3) = Template3D
<1>1. DOMAIN TemplateVersion = {Template2D, Template3D} /\ Template2D # Template3D
      /\ TemplateVersion[Template2D] = 2 /\ TemplateVersion[Template3D] = 3
  BY DEF TemplateVersion, Template2D, Template3D
<1>2. RolesOf(2) = {Behavior} /\ RolesOf(3) = Roles /\ "enforcer" \in Roles /\ Behavior \notin Roles
  BY DEF RolesOf, Roles, Behavior
<1> QED BY <1>1, <1>2 DEF ReadRole, TemplateOf

(* An empty block is accepted: its values are the defaults.                *)
LEMMA NothingIsOk ==
  /\ DOMAIN Nothing = {} /\ Len(Nothing) = 0 /\ IsBlock(Nothing)
  /\ \A role \in DOMAIN Limits : BlockOk(Nothing, Limits[role])
<1>1. DOMAIN Nothing = {} /\ Len(Nothing) = 0
  BY DEF Nothing
<1>2. ASSUME NEW limits, AreFair(limits) PROVE BlockOk(Nothing, limits)
  <2> SUFFICES ASSUME NEW key \in DOMAIN limits
               PROVE  LET n == Taken(Nothing, key, limits[key])
                      IN  IsCanonical(n) /\ Within(n, limits[key][1], limits[key][2])
    BY DEF BlockOk
  <2>1. Taken(Nothing, key, limits[key]) = Tenths(limits[key][3])
    BY <1>1 DEF Taken
  <2>2. Fair(limits[key])
    BY <1>2 DEF AreFair
  <2> QED BY <2>1, <2>2, DefaultIsFine
<1> QED BY <1>1, <1>2, ContractIsFair DEF IsBlock

(* Of a goal's parameters only the read role's reach the manifest.         *)
LEMMA GivenIs ==
  ASSUME NEW g, NEW role
  PROVE  GivenFor(Resolved(g), role)
           = IF role = ReadRole(g.template) THEN Read(g) ELSE Nothing
BY DEF GivenFor, Resolved, Read

(* What is left of validate_manifest_dict once a goal was turned into the  *)
(* document it checks.                                                     *)
LEMMA ManifestOkIs ==
  ASSUME NEW g, g.template \in {Template2D, Template3D}
  PROVE  ManifestOk(ManifestOf(g))
           <=> /\ g.name \notin BadNames
               /\ RoleOk(g.parameters, ReadRole(g.template))
               /\ IsSolid(g) => SolidOk(g)
<1>0. PICK data : data = ManifestOf(g)
  OBVIOUS
<1>1. /\ data.version = TemplateVersion[g.template] /\ data.extra = FALSE
      /\ data.name = g.name /\ data.template = g.template
      /\ data.inputs = FixedOf(TemplateVersion[g.template])
      /\ data.parameters = Resolved(g)
      /\ data.renderer = IF IsSolid(g) THEN g.renderer ELSE ""
      /\ data.physics_3d = IF IsSolid(g) THEN g.physics_3d ELSE Nothing
      /\ data.input_map = IF IsSolid(g) THEN g.input_map ELSE Nothing
  BY <1>0 DEF ManifestOf, IsSolid
<1>2. InputsOk(data.inputs, FixedOf(data.version))
  BY <1>1 DEF InputsOk
<1>3. \A role : role # ReadRole(g.template) /\ role \in DOMAIN Limits => RoleOk(data.parameters, role)
  BY <1>1, GivenIs, NothingIsOk DEF RoleOk
<1>4. RoleOk(data.parameters, ReadRole(g.template)) <=> RoleOk(g.parameters, ReadRole(g.template))
  BY <1>1, GivenIs DEF RoleOk, Read
<1>5. CASE g.template = Template2D
  <2>1. data.version = 2 /\ ReadRole(g.template) = Behavior /\ ~IsSolid(g)
    BY <1>1, <1>5, TemplatesAre DEF IsSolid
  <2>2. ParametersOk(data) <=> RoleOk(g.parameters, ReadRole(g.template))
    <3>1. DOMAIN data.parameters \subseteq {Behavior}
      BY <1>1, <2>1 DEF Resolved
    <3> QED BY <1>4, <2>1, <3>1 DEF ParametersOk
  <2>3. OnlyIn3D(data)
    <3>1. data.renderer = "" /\ data.physics_3d = Nothing /\ data.input_map = Nothing
      BY <1>1, <2>1
    <3>2. DOMAIN data.physics_3d = {} /\ Len(data.input_map) = 0
      BY <3>1, NothingIsOk
    <3>3. data.version # 3
      BY <2>1
    <3> QED BY <3>1, <3>2, <3>3 DEF OnlyIn3D
  <2>4. data.template = TemplateOf(data.version) /\ data.version \in 1..3
    <3>1. TemplateOf(2) = Template2D
      BY TemplatesAre
    <3>2. data.version \in 1..3
      BY <2>1
    <3> QED BY <1>1, <1>5, <2>1, <3>1, <3>2
  <2> QED BY <1>0, <1>1, <1>2, <2>1, <2>2, <2>3, <2>4 DEF ManifestOk
<1>6. CASE g.template = Template3D
  <2>1. data.version = 3 /\ ReadRole(g.template) = "enforcer" /\ IsSolid(g)
    BY <1>1, <1>6, TemplatesAre DEF IsSolid
  <2>2. ParametersOk(data) <=> RoleOk(g.parameters, ReadRole(g.template))
    <3>1. "enforcer" \in Roles /\ Roles \subseteq DOMAIN Limits
      BY TemplatesAre, ContractIsFair
    <3> QED BY <1>3, <1>4, <2>1, <3>1 DEF ParametersOk
  <2>3. OnlyIn3D(data) <=> SolidOk(g)
    BY <1>1, <2>1 DEF OnlyIn3D, SolidOk
  <2>4. data.template = TemplateOf(data.version) /\ data.version \in 1..3
    BY <1>1, <1>6, <2>1, TemplatesAre
  <2> QED BY <1>0, <1>1, <1>2, <2>1, <2>2, <2>3, <2>4 DEF ManifestOk
<1> QED BY <1>5, <1>6

(* When compile_goal accepts, asks or refuses, and what it returns         *)
(* (goal.py 405-554).                                                      *)
LEMMA CompileIs ==
  ASSUME NEW g
  PROVE  /\ CompileGoal(g).status \in {"ok", "clarification", "rejected"}
         /\ CompileGoal(g).status = "ok" <=> Accepted(g)
         /\ CompileGoal(g).status = "clarification" <=>
              /\ ~(HasPath(g) \/ g.version # 1 \/ g.extra)
              /\ ~g.game \/ (~g.gameExtra /\ Missing(g) # {})
         /\ CompileGoal(g).status = "clarification" <=> CompileGoal(g).missing # {}
         /\ CompileGoal(g).status = "rejected" => CompileGoal(g).hash = Nothing
         /\ Accepted(g) =>
              /\ CompileGoal(g).hash = Spelled(g, Manifest(ManifestOf(g)))
              /\ CompileGoal(g).manifest = AsDocument(Manifest(ManifestOf(g)))
              /\ CompileGoal(g).defaults = ResolvedDefaults(g)
<1>1. Resolvable(g) <=> /\ DOMAIN g.parameters \subseteq AllowedRoles(g.template)
                        /\ DOMAIN Read(g) \subseteq DOMAIN Limits[ReadRole(g.template)]
  BY DEF Resolvable, Read
<1>2. RoleOk(g.parameters, ReadRole(g.template)) => DOMAIN Read(g) \subseteq DOMAIN Limits[ReadRole(g.template)]
  BY DEF RoleOk, Read
<1> DEFINE bad == HasPath(g) \/ g.version # 1 \/ g.extra
           unclear == ~g.game \/ (~g.gameExtra /\ Missing(g) # {})
           wrong == \/ g.gameExtra \/ g.template \notin DOMAIN TemplateVersion
                    \/ ~Resolvable(g) \/ ~ManifestOk(ManifestOf(g))
           manifest == Manifest(ManifestOf(g))
<1>3. CompileGoal(g) =
        IF bad THEN Rejected
        ELSE IF unclear THEN Result("clarification", Missing(g), Nothing, Nothing, {})
        ELSE IF wrong THEN Rejected
        ELSE Result("ok", {}, Spelled(g, manifest), AsDocument(manifest), ResolvedDefaults(g))
  BY DEF CompileGoal
<1>4. Accepted(g) <=> ~bad /\ ~unclear /\ ~wrong
  BY <1>1, <1>2, ManifestOkIs, TemplatesAre DEF Accepted
<1>5. unclear => Missing(g) # {}
  BY DEF Missing
<1> HIDE DEF bad, unclear, wrong, manifest
<1>6. CASE bad
  BY <1>3, <1>4, <1>6 DEF Rejected, Result, bad
<1>7. CASE ~bad /\ unclear
  BY <1>3, <1>4, <1>5, <1>7 DEF Result, bad, unclear
<1>8. CASE ~bad /\ ~unclear /\ wrong
  BY <1>3, <1>4, <1>8 DEF Rejected, Result, bad, unclear
<1>9. CASE ~bad /\ ~unclear /\ ~wrong
  BY <1>3, <1>4, <1>9 DEF Result, bad, unclear, manifest
<1> QED BY <1>6, <1>7, <1>8, <1>9

-----------------------------------------------------------------------------
(* What an accepted goal is compiled to.                                   *)

(* The parts of a compilation that are filled in and written out.          *)
ToldParameters(g) ==
  [role \in RolesOf(TemplateVersion[g.template]) |->
     Told(IF role = ReadRole(g.template) THEN Read(g) ELSE Nothing, Limits[role])]
ToldRenderer(g) ==
  IF ~IsSolid(g) THEN "" ELSE IF g.renderer = "" THEN "forward_plus" ELSE g.renderer
ToldPhysics(g) == IF IsSolid(g) THEN Told(g.physics_3d, PhysicsLimits) ELSE Formatted(Nothing)
ToldBindings(g) ==
  IF ~IsSolid(g) THEN Nothing
  ELSE IF Len(g.input_map) = 0 THEN <<DefaultBindings>> ELSE g.input_map

\* The manifest a goal is compiled to, and the goal spelled out.
Document(g) ==
  [version |-> TemplateVersion[g.template], extra |-> FALSE, name |-> g.name,
   template |-> g.template, inputs |-> FixedOf(TemplateVersion[g.template]),
   parameters |-> ToldParameters(g), renderer |-> ToldRenderer(g),
   physics_3d |-> ToldPhysics(g), input_map |-> ToldBindings(g)]

SpelledOut(g) ==
  [g EXCEPT !.parameters = ToldParameters(g), !.renderer = ToldRenderer(g),
            !.physics_3d = ToldPhysics(g), !.input_map = ToldBindings(g)]

(* What compile_goal returns for a goal it accepts is these two documents. *)
LEMMA WhatIsCompiled ==
  ASSUME NEW g, g.template \in {Template2D, Template3D}
  PROVE  /\ AsDocument(Manifest(ManifestOf(g))) = Document(g)
         /\ Spelled(g, Manifest(ManifestOf(g))) = SpelledOut(g)
<1>0. PICK data, m : data = ManifestOf(g) /\ m = Manifest(data)
  OBVIOUS
<1>1. /\ data.version = TemplateVersion[g.template]
      /\ data.name = g.name /\ data.template = g.template
      /\ data.parameters = Resolved(g)
      /\ data.renderer = IF IsSolid(g) THEN g.renderer ELSE ""
      /\ data.physics_3d = IF IsSolid(g) THEN g.physics_3d ELSE Nothing
      /\ data.input_map = IF IsSolid(g) THEN g.input_map ELSE Nothing
  BY <1>0 DEF ManifestOf, IsSolid
<1>2. data.version = 3 <=> IsSolid(g)
  BY <1>1, TemplatesAre DEF IsSolid
<1>3. /\ m.version = data.version /\ m.name = data.name /\ m.template = data.template
      /\ m.inputs = FixedOf(data.version)
      /\ m.parameters = [role \in RolesOf(data.version) |->
                           Block(GivenFor(data.parameters, role), Limits[role])]
      /\ m.renderer = IF data.version # 3 THEN ""
                      ELSE IF data.renderer = "" THEN "forward_plus" ELSE data.renderer
      /\ m.physics_3d = IF data.version = 3 THEN Block(data.physics_3d, PhysicsLimits) ELSE Nothing
      /\ m.input_map = IF data.version # 3 THEN Nothing
                       ELSE IF Len(data.input_map) = 0 THEN <<DefaultBindings>> ELSE data.input_map
  BY <1>0 DEF Manifest, CanonicalInputs
<1>4. FormattedRoles(m.parameters) = ToldParameters(g)
  <2>1. FormattedRoles(m.parameters)
          = [role \in RolesOf(data.version) |->
               Formatted(Block(GivenFor(data.parameters, role), Limits[role]))]
    BY <1>3 DEF FormattedRoles
  <2>2. \A role : GivenFor(data.parameters, role) = IF role = ReadRole(g.template) THEN Read(g) ELSE Nothing
    BY <1>1, GivenIs
  <2> QED BY <1>1, <2>1, <2>2 DEF ToldParameters, Told
<1>5. m.renderer = ToldRenderer(g)
  BY <1>1, <1>2, <1>3 DEF ToldRenderer
<1>6. Formatted(m.physics_3d) = ToldPhysics(g)
  BY <1>1, <1>2, <1>3 DEF ToldPhysics, Told
<1>7. WrittenMap(m) = ToldBindings(g)
  BY <1>1, <1>2, <1>3 DEF ToldBindings, WrittenMap
<1> QED BY <1>0, <1>1, <1>3, <1>4, <1>5, <1>6, <1>7 DEF AsDocument, Document, Spelled, SpelledOut

(* The parameters that are read are a block, if only an empty one.         *)
LEMMA ReadIsBlock == ASSUME NEW g, IsGoal(g) PROVE IsBlock(Read(g))
BY NothingIsOk DEF Read, GivenFor, IsGoal

\* A block of canonical numbers that reads as it is written.
Settled(block, limits) ==
  /\ block = [key \in DOMAIN limits |-> block[key]]
  /\ \A key \in DOMAIN limits :
       block[key] \in Decimal /\ IsCanonical(block[key]) /\ InCanonicalForm(block[key])
  /\ BlockOk(block, limits) /\ Told(block, limits) = block

(* An accepted block, written out, is settled.                             *)
LEMMA ToldIsSettled ==
  ASSUME NEW block, IsBlock(block), NEW limits, AreFair(limits), BlockOk(block, limits)
  PROVE  Settled(Told(block, limits), limits)
BY ToldIs, ToldIsFine DEF Settled

(* The default bindings are not empty and name no path.                    *)
LEMMA BindingsAre ==
  /\ <<DefaultBindings>> # <<>> /\ Len(<<DefaultBindings>>) = 1
  /\ DOMAIN <<DefaultBindings>> = {1} /\ <<DefaultBindings>>[1] = DefaultBindings
  /\ \A action \in DOMAIN DefaultBindings :
       /\ DefaultBindings[action] # <<>>
       /\ \A b \in DOMAIN DefaultBindings[action] : ~PathLike(DefaultBindings[action][b])
<1>1. \A action \in DOMAIN DefaultBindings : DefaultBindings[action] # <<>>
  BY DEF DefaultBindings
<1>2. \A action \in DOMAIN DefaultBindings :
        \A b \in DOMAIN DefaultBindings[action] : ~PathLike(DefaultBindings[action][b])
  BY DEF DefaultBindings, PathLike
<1> QED BY <1>1, <1>2

(* Every block of a compiled goal is settled, and its 3D part is all there *)
(* or not there at all.                                                    *)
LEMMA CompiledIsSettled ==
  ASSUME NEW g, IsGoal(g), Accepted(g)
  PROVE  /\ DOMAIN ToldParameters(g) = RolesOf(TemplateVersion[g.template])
         /\ \A role \in RolesOf(TemplateVersion[g.template]) :
              Settled(ToldParameters(g)[role], Limits[role])
         /\ IsSolid(g) => /\ Settled(ToldPhysics(g), PhysicsLimits)
                          /\ ToldRenderer(g) \in Renderers
                          /\ Len(ToldBindings(g)) # 0
                          /\ \A i \in DOMAIN ToldBindings(g) :
                               \A action \in DOMAIN ToldBindings(g)[i] :
                                 ToldBindings(g)[i][action] # <<>>
         /\ ~IsSolid(g) => /\ DOMAIN ToldPhysics(g) = {} /\ ToldRenderer(g) = ""
                           /\ ToldBindings(g) = Nothing
<1>1. g.template \in {Template2D, Template3D}
  BY DEF Accepted
<1>2. DOMAIN ToldParameters(g) = RolesOf(TemplateVersion[g.template])
  BY DEF ToldParameters
<1>3. ASSUME NEW role \in RolesOf(TemplateVersion[g.template])
      PROVE  Settled(ToldParameters(g)[role], Limits[role])
  <2>1. PICK block : block = IF role = ReadRole(g.template) THEN Read(g) ELSE Nothing
    OBVIOUS
  <2>2. ToldParameters(g)[role] = Told(block, Limits[role])
    BY <2>1 DEF ToldParameters
  <2>3. role \in DOMAIN Limits /\ AreFair(Limits[role])
    BY <1>1, TemplatesAre, ContractIsFair
  <2>4. IsBlock(block)
    BY <2>1, ReadIsBlock, NothingIsOk
  <2>5. BlockOk(block, Limits[role])
    BY <2>1, <2>3, NothingIsOk DEF Accepted, RoleOk, Read
  <2> QED BY <2>2, <2>3, <2>4, <2>5, ToldIsSettled
<1>4. CASE IsSolid(g)
  <2>1. SolidOk(g)
    BY <1>4 DEF Accepted
  <2>2. Settled(ToldPhysics(g), PhysicsLimits)
    BY <1>4, <2>1, ContractIsFair, ToldIsSettled DEF ToldPhysics, SolidOk, IsGoal
  <2>3. ToldRenderer(g) \in Renderers
    BY <1>4, <2>1 DEF ToldRenderer, SolidOk, Renderers
  <2>4. /\ Len(ToldBindings(g)) # 0
        /\ \A i \in DOMAIN ToldBindings(g) :
             \A action \in DOMAIN ToldBindings(g)[i] : ToldBindings(g)[i][action] # <<>>
    <3>1. CASE Len(g.input_map) = 0
      <4>1. ToldBindings(g) = <<DefaultBindings>>
        BY <1>4, <3>1 DEF ToldBindings
      <4> QED BY <4>1, BindingsAre
    <3>2. CASE Len(g.input_map) # 0
      BY <1>4, <2>1, <3>2 DEF ToldBindings, SolidOk
    <3> QED BY <3>1, <3>2
  <2> QED BY <1>2, <1>3, <1>4, <2>2, <2>3, <2>4
<1>5. CASE ~IsSolid(g)
  <2>1. DOMAIN ToldPhysics(g) = {} /\ ToldRenderer(g) = "" /\ ToldBindings(g) = Nothing
    BY <1>5, NothingIsOk DEF ToldPhysics, ToldRenderer, ToldBindings, Formatted
  <2> QED BY <1>2, <1>3, <1>5, <2>1
<1> QED BY <1>4, <1>5

-----------------------------------------------------------------------------
(* The readings of one goal.                                               *)

(* The manifest of a goal is valid, and the planner reads it as what it    *)
(* is.                                                                     *)
LEMMA DocumentIsPlannable ==
  ASSUME NEW g, IsGoal(g), Accepted(g)
  PROVE  ManifestOk(Document(g)) /\ AsDocument(Manifest(Document(g))) = Document(g)
<1>0. PICK d, v : d = Document(g) /\ v = TemplateVersion[g.template]
  OBVIOUS
<1>1. /\ g.template \in {Template2D, Template3D} /\ g.name \notin BadNames
  BY DEF Accepted
<1>2. /\ d = [version |-> d.version, extra |-> d.extra, name |-> d.name,
              template |-> d.template, inputs |-> d.inputs,
              parameters |-> d.parameters, renderer |-> d.renderer,
              physics_3d |-> d.physics_3d, input_map |-> d.input_map]
      /\ d.version = v /\ d.extra = FALSE /\ d.name = g.name /\ d.template = g.template
      /\ d.inputs = FixedOf(v) /\ d.parameters = ToldParameters(g)
      /\ d.renderer = ToldRenderer(g) /\ d.physics_3d = ToldPhysics(g)
      /\ d.input_map = ToldBindings(g)
  BY <1>0 DEF Document
<1>3. /\ v \in 1..3 /\ v # 1 /\ g.template = TemplateOf(v) /\ (v = 3 <=> IsSolid(g))
      /\ (v = 2 <=> ~IsSolid(g))
  <2>1. CASE g.template = Template2D
    <3>1. v = 2 /\ ~IsSolid(g) /\ TemplateOf(2) = Template2D
      BY <1>0, <2>1, TemplatesAre DEF IsSolid
    <3> QED BY <2>1, <3>1
  <2>2. CASE g.template = Template3D
    <3>1. v = 3 /\ IsSolid(g) /\ TemplateOf(3) = Template3D
      BY <1>0, <2>2, TemplatesAre DEF IsSolid
    <3> QED BY <2>2, <3>1
  <2> QED BY <1>1, <2>1, <2>2
<1>4. /\ DOMAIN d.parameters = RolesOf(v)
      /\ \A role \in RolesOf(v) : Settled(d.parameters[role], Limits[role])
  BY <1>0, <1>2, CompiledIsSettled
<1>5. \A role \in RolesOf(v) : RoleOk(d.parameters, role)
  BY <1>4 DEF RoleOk, GivenFor, Settled
<1>6. ParametersOk(d)
  BY <1>2, <1>3, <1>4, <1>5, TemplatesAre DEF ParametersOk
<1>7. OnlyIn3D(d)
  <2>1. CASE v = 3
    <3>1. /\ Settled(ToldPhysics(g), PhysicsLimits) /\ ToldRenderer(g) \in Renderers
          /\ \A i \in DOMAIN ToldBindings(g) : \A action \in DOMAIN ToldBindings(g)[i] :
               ToldBindings(g)[i][action] # <<>>
      BY <1>3, <2>1, CompiledIsSettled
    <3> QED BY <1>2, <2>1, <3>1 DEF OnlyIn3D, Settled
  <2>2. CASE v # 3
    <3>1. DOMAIN ToldPhysics(g) = {} /\ ToldRenderer(g) = "" /\ Len(ToldBindings(g)) = 0
      BY <1>3, <2>2, CompiledIsSettled, NothingIsOk
    <3> QED BY <1>2, <2>2, <3>1 DEF OnlyIn3D
  <2> QED BY <2>1, <2>2
<1>8. ManifestOk(d)
  BY <1>1, <1>2, <1>3, <1>6, <1>7 DEF ManifestOk, InputsOk
<1>9. PICK m : m = Manifest(d)
  OBVIOUS
<1>10. /\ m.version = d.version /\ m.name = d.name /\ m.template = d.template
       /\ m.inputs = FixedOf(d.version)
       /\ m.parameters = [role \in RolesOf(d.version) |->
                            Block(GivenFor(d.parameters, role), Limits[role])]
       /\ m.renderer = IF d.version # 3 THEN ""
                       ELSE IF d.renderer = "" THEN "forward_plus" ELSE d.renderer
       /\ m.physics_3d = IF d.version = 3 THEN Block(d.physics_3d, PhysicsLimits) ELSE Nothing
       /\ m.input_map = IF d.version # 3 THEN Nothing
                        ELSE IF Len(d.input_map) = 0 THEN <<DefaultBindings>> ELSE d.input_map
  BY <1>9 DEF Manifest, CanonicalInputs
<1>11. FormattedRoles(m.parameters) = d.parameters
  <2>1. FormattedRoles(m.parameters)
          = [role \in RolesOf(v) |->
               Formatted(Block(GivenFor(d.parameters, role), Limits[role]))]
    BY <1>2, <1>10 DEF FormattedRoles
  <2>2. \A role \in RolesOf(v) :
          Formatted(Block(GivenFor(d.parameters, role), Limits[role])) = d.parameters[role]
    BY <1>4 DEF GivenFor, Settled, Told
  <2>3. d.parameters = [role \in RolesOf(v) |-> d.parameters[role]]
    BY <1>0, <1>2 DEF ToldParameters
  <2> QED BY <2>1, <2>2, <2>3
<1>12. Formatted(m.physics_3d) = d.physics_3d
  <2>1. CASE v = 3
    <3>1. Settled(ToldPhysics(g), PhysicsLimits)
      BY <1>3, <2>1, CompiledIsSettled
    <3>2. m.physics_3d = Block(ToldPhysics(g), PhysicsLimits)
      BY <1>2, <1>10, <2>1
    <3> QED BY <1>2, <3>1, <3>2 DEF Settled, Told
  <2>2. CASE v # 3
    BY <1>2, <1>3, <1>10, <2>2 DEF ToldPhysics
  <2> QED BY <2>1, <2>2
<1>13. m.renderer = d.renderer /\ WrittenMap(m) = d.input_map
  <2>1. CASE v = 3
    <3>1. ToldRenderer(g) # "" /\ Len(ToldBindings(g)) # 0
      BY <1>3, <2>1, CompiledIsSettled DEF Renderers
    <3> QED BY <1>2, <1>10, <2>1, <3>1 DEF WrittenMap
  <2>2. CASE v # 3
    BY <1>2, <1>3, <1>10, <2>2 DEF WrittenMap, ToldRenderer, ToldBindings
  <2> QED BY <2>1, <2>2
<1>14. AsDocument(m) = d
  BY <1>2, <1>10, <1>11, <1>12, <1>13 DEF AsDocument
<1> QED BY <1>0, <1>8, <1>9, <1>14

-----------------------------------------------------------------------------
(* The fields a compilation may rewrite.                                   *)
Rewritten == {"parameters", "renderer", "physics_3d", "input_map"}

\* Two goals that differ at most in how they say what is filled in.
Alike(g, h) ==
  /\ \A field \in GoalFields \ Rewritten : h[field] = g[field]
  /\ ToldParameters(h) = ToldParameters(g) /\ ToldRenderer(h) = ToldRenderer(g)
  /\ ToldPhysics(h) = ToldPhysics(g) /\ ToldBindings(h) = ToldBindings(g)

(* The others, one by one.                                                 *)
LEMMA FieldsAre ==
  ASSUME NEW g, NEW h, \A field \in GoalFields \ Rewritten : h[field] = g[field]
  PROVE  /\ h.version = g.version /\ h.extra = g.extra /\ h.game = g.game
         /\ h.gameExtra = g.gameExtra /\ h.name = g.name /\ h.template = g.template
         /\ h.resources = g.resources
BY DEF GoalFields, Rewritten

(* Goals that are alike have one manifest and one spelled-out goal.        *)
LEMMA AlikeAreOne ==
  ASSUME NEW g, NEW h, IsGoal(g), IsGoal(h), Alike(g, h)
  PROVE  Document(h) = Document(g) /\ SpelledOut(h) = SpelledOut(g)
<1>1. Document(h) = Document(g)
  BY FieldsAre DEF Alike, Document
<1>2. SpelledOut(h) = SpelledOut(g)
  <2>1. /\ g = [field \in GoalFields |-> g[field]]
        /\ h = [field \in GoalFields |-> h[field]]
    BY DEF IsGoal
  <2>2. \A field \in GoalFields \ Rewritten : h[field] = g[field]
    BY DEF Alike
  <2> QED BY <2>1, <2>2 DEF SpelledOut, Alike, Rewritten
<1> QED BY <1>1, <1>2

(* The fields of a spelled-out goal.                                       *)
LEMMA SpelledOutIs ==
  ASSUME NEW g, IsGoal(g)
  PROVE  /\ SpelledOut(g) = [field \in GoalFields |-> SpelledOut(g)[field]]
         /\ \A field \in GoalFields \ Rewritten : SpelledOut(g)[field] = g[field]
         /\ SpelledOut(g).parameters = ToldParameters(g)
         /\ SpelledOut(g).renderer = ToldRenderer(g)
         /\ SpelledOut(g).physics_3d = ToldPhysics(g)
         /\ SpelledOut(g).input_map = ToldBindings(g)
<1>1. DOMAIN g = GoalFields
  BY DEF IsGoal
<1> QED BY <1>1 DEF SpelledOut, GoalFields, Rewritten

(* The goal that is spelled out of an accepted one is a goal, accepted,    *)
(* and like it.                                                            *)
LEMMA SpelledOutIsAccepted ==
  ASSUME NEW g, IsGoal(g), Accepted(g)
  PROVE  IsGoal(SpelledOut(g)) /\ Accepted(SpelledOut(g)) /\ Alike(g, SpelledOut(g))
<1>0. PICK h, v, role : h = SpelledOut(g) /\ v = TemplateVersion[g.template] /\ role = ReadRole(g.template)
  OBVIOUS
<1>1. /\ h = [field \in GoalFields |-> h[field]]
      /\ \A field \in GoalFields \ Rewritten : h[field] = g[field]
      /\ h.parameters = ToldParameters(g) /\ h.renderer = ToldRenderer(g)
      /\ h.physics_3d = ToldPhysics(g) /\ h.input_map = ToldBindings(g)
  BY <1>0, SpelledOutIs
<1>2. /\ h.version = g.version /\ h.extra = g.extra /\ h.game = g.game
      /\ h.gameExtra = g.gameExtra /\ h.name = g.name /\ h.template = g.template
      /\ h.resources = g.resources
  BY <1>1, FieldsAre
<1>3. IsSolid(h) <=> IsSolid(g)
  BY <1>2 DEF IsSolid
<1>4. g.template \in {Template2D, Template3D}
  BY DEF Accepted
<1>5. /\ DOMAIN ToldParameters(g) = RolesOf(v)
      /\ \A r \in RolesOf(v) : Settled(ToldParameters(g)[r], Limits[r])
  BY <1>0, CompiledIsSettled
<1>6. role \in RolesOf(v) /\ RolesOf(v) = AllowedRoles(g.template)
  BY <1>0, <1>4, TemplatesAre DEF AllowedRoles
<1>7. Read(h) = ToldParameters(g)[role]
  BY <1>0, <1>1, <1>2, <1>5, <1>6 DEF Read, GivenFor
<1>8. RoleOk(h.parameters, ReadRole(h.template))
  BY <1>0, <1>2, <1>5, <1>6, <1>7 DEF RoleOk, Read, Settled
<1>9. ToldParameters(h) = ToldParameters(g)
  <2>1. ASSUME NEW r \in RolesOf(v)
        PROVE  Told(IF r = role THEN Read(h) ELSE Nothing, Limits[r])
                 = Told(IF r = role THEN Read(g) ELSE Nothing, Limits[r])
    <3>1. CASE r = role
      <4>1. Told(Read(h), Limits[role]) = Read(h)
        BY <1>5, <1>6, <1>7 DEF Settled
      <4>2. Read(h) = Told(Read(g), Limits[role])
        BY <1>0, <1>6, <1>7 DEF ToldParameters
      <4> QED BY <3>1, <4>1, <4>2
    <3>2. CASE r # role
      BY <3>2
    <3> QED BY <3>1, <3>2
  <2> QED BY <1>0, <1>2, <2>1 DEF ToldParameters
<1>10. ToldPhysics(h) = ToldPhysics(g) /\ ToldRenderer(h) = ToldRenderer(g)
       /\ ToldBindings(h) = ToldBindings(g)
  <2>1. CASE IsSolid(g)
    <3>1. /\ Settled(ToldPhysics(g), PhysicsLimits) /\ ToldRenderer(g) # ""
          /\ Len(ToldBindings(g)) # 0
      BY <2>1, CompiledIsSettled DEF Renderers
    <3>2. ToldPhysics(h) = Told(ToldPhysics(g), PhysicsLimits)
      BY <1>1, <1>3, <2>1 DEF ToldPhysics
    <3>3. ToldRenderer(h) = ToldRenderer(g)
      BY <1>1, <1>3, <2>1, <3>1 DEF ToldRenderer
    <3>4. ToldBindings(h) = ToldBindings(g)
      BY <1>1, <1>3, <2>1, <3>1 DEF ToldBindings
    <3> QED BY <3>1, <3>2, <3>3, <3>4 DEF Settled
  <2>2. CASE ~IsSolid(g)
    BY <1>3, <2>2 DEF ToldPhysics, ToldRenderer, ToldBindings
  <2> QED BY <2>1, <2>2
<1>11. ~HasPath(h)
  <2>1. /\ ~PathLike(g.name) /\ ~PathLike(g.template) /\ ~PathLike(g.renderer)
        /\ ~PathLike(g.resources)
        /\ \A i \in DOMAIN g.input_map : \A action \in DOMAIN g.input_map[i] :
             \A b \in DOMAIN g.input_map[i][action] : ~PathLike(g.input_map[i][action][b])
    BY DEF Accepted, HasPath
  <2>2. ~PathLike(ToldRenderer(g))
    BY <2>1 DEF ToldRenderer, PathLike
  <2>3. \A i \in DOMAIN ToldBindings(g) : \A action \in DOMAIN ToldBindings(g)[i] :
          \A b \in DOMAIN ToldBindings(g)[i][action] : ~PathLike(ToldBindings(g)[i][action][b])
    <3>1. CASE IsSolid(g) /\ Len(g.input_map) = 0
      <4>1. ToldBindings(g) = <<DefaultBindings>>
        BY <3>1 DEF ToldBindings
      <4> QED BY <4>1, BindingsAre
    <3>2. CASE IsSolid(g) /\ Len(g.input_map) # 0
      BY <2>1, <3>2 DEF ToldBindings
    <3>3. CASE ~IsSolid(g)
      BY <3>3, NothingIsOk DEF ToldBindings
    <3> QED BY <3>1, <3>2, <3>3
  <2> QED BY <1>1, <1>2, <2>1, <2>2, <2>3 DEF HasPath
<1>12. IsSolid(h) => SolidOk(h)
  <2>1. SUFFICES ASSUME IsSolid(g) PROVE SolidOk(h)
    BY <1>3
  <2>2. /\ Settled(ToldPhysics(g), PhysicsLimits) /\ ToldRenderer(g) \in Renderers
        /\ \A i \in DOMAIN ToldBindings(g) : \A action \in DOMAIN ToldBindings(g)[i] :
             ToldBindings(g)[i][action] # <<>>
    BY <2>1, CompiledIsSettled
  <2> QED BY <1>1, <2>2 DEF SolidOk, Settled
<1>13. Missing(h) = {}
  <2>1. Missing(g) = {} /\ g.game
    BY DEF Accepted
  <2> QED BY <1>2, <2>1 DEF Missing
<1>14. Accepted(h)
  BY <1>0, <1>1, <1>2, <1>5, <1>6, <1>8, <1>11, <1>12, <1>13 DEF Accepted
<1>15. IsGoal(h)
  <2>1. \A r \in DOMAIN h.parameters : IsBlock(h.parameters[r])
    BY <1>1, <1>5 DEF Settled, IsBlock
  <2>2. IsBlock(h.physics_3d)
    BY <1>1, CompiledIsSettled DEF Settled, IsBlock
  <2> QED BY <1>1, <2>1, <2>2 DEF IsGoal
<1> QED BY <1>0, <1>1, <1>9, <1>10, <1>14, <1>15 DEF Alike

(* A sequence in another order.                                            *)
LEMMA TurnedSequences ==
  ASSUME NEW S, NEW s \in Seq(S), s # <<>>
  PROVE  /\ Len(Reverse(s)) = Len(s) /\ ToSet(Reverse(s)) = ToSet(s)
         /\ Len(Tail(s) \o <<Head(s)>>) = Len(s) /\ ToSet(Tail(s) \o <<Head(s)>>) = ToSet(s)
<1>1. PICK n \in Nat : n = Len(s) /\ n >= 1 /\ DOMAIN s = 1..n
  OBVIOUS
<1>2. PICK r : r = Reverse(s) /\ r = [i \in 1..n |-> s[(n - i) + 1]]
  BY <1>1 DEF Reverse
<1>3. Len(r) = n /\ DOMAIN r = 1..n
  <2>1. r \in [1..n -> S]
    <3>1. \A i \in 1..n : (n - i) + 1 \in 1..n
      BY <1>1
    <3> QED BY <1>1, <1>2, <3>1
  <2> QED BY <1>1, <2>1
<1>4. ToSet(r) = ToSet(s)
  <2>1. \A i \in 1..n : (n - i) + 1 \in 1..n /\ r[i] = s[(n - i) + 1]
    BY <1>1, <1>2
  <2>2. \A i \in 1..n : r[(n - i) + 1] = s[i] /\ (n - i) + 1 \in 1..n
    <3> TAKE i \in 1..n
    <3>1. PICK j \in 1..n : j = (n - i) + 1 /\ (n - j) + 1 = i
      <4>1. (n - i) + 1 \in 1..n /\ (n - ((n - i) + 1)) + 1 = i
        BY <1>1
      <4> QED BY <4>1
    <3> QED BY <2>1, <3>1
  <2>3. ToSet(r) \subseteq ToSet(s)
    BY <1>1, <1>3, <2>1 DEF ToSet
  <2>4. ToSet(s) \subseteq ToSet(r)
    BY <1>1, <1>3, <2>2 DEF ToSet
  <2> QED BY <2>3, <2>4
<1>5. PICK t : t = Tail(s) \o <<Head(s)>>
  OBVIOUS
<1>6. /\ Len(t) = n /\ DOMAIN t = 1..n /\ t[n] = s[1]
      /\ \A i \in 1..(n - 1) : t[i] = s[i + 1]
  BY <1>1, <1>5
<1>7. ToSet(t) = ToSet(s)
  <2>1. \A i \in 1..n : t[i] \in ToSet(s)
    <3> TAKE i \in 1..n
    <3>1. CASE i = n
      BY <1>1, <1>6, <3>1 DEF ToSet
    <3>2. CASE i # n
      <4>1. i \in 1..(n - 1) /\ i + 1 \in 1..n
        BY <1>1, <3>2
      <4> QED BY <1>1, <1>6, <4>1 DEF ToSet
    <3> QED BY <3>1, <3>2
  <2>2. \A i \in 1..n : s[i] \in ToSet(t)
    <3> TAKE i \in 1..n
    <3>1. CASE i = 1
      BY <1>1, <1>6, <3>1 DEF ToSet
    <3>2. CASE i # 1
      <4>1. PICK j \in 1..(n - 1) : j + 1 = i /\ j \in 1..n
        <5>1. i - 1 \in 1..(n - 1) /\ (i - 1) + 1 = i /\ i - 1 \in 1..n
          BY <1>1, <3>2
        <5> QED BY <5>1
      <4>2. t[j] = s[i]
        BY <1>6, <4>1
      <4> QED BY <1>6, <4>1, <4>2 DEF ToSet
    <3> QED BY <3>1, <3>2
  <2> QED BY <1>1, <1>6, <2>1, <2>2 DEF ToSet
<1> QED BY <1>1, <1>2, <1>3, <1>4, <1>5, <1>6, <1>7

(* The inputs the contract fixes are sequences, and not empty.             *)
LEMMA FixedAre ==
  \A version \in {2, 3} :
    \E S : FixedOf(version) \in Seq(S) /\ FixedOf(version) # <<>>
<1>1. PICK a, b, c : FixedInputs = <<a, b, c>>
  BY DEF FixedInputs
<1>2. FixedInputs \in Seq({a, b, c}) /\ FixedInputs # <<>>
  BY <1>1
<1>3. PICK d, e, f, h, i, j, k, l, m, n, o, p, q, r : FixedInputs3D = <<d, e, f, h, i, j, k, l, m, n, o, p, q, r>>
  BY DEF FixedInputs3D
<1>4. FixedInputs3D \in Seq({d, e, f, h, i, j, k, l, m, n, o, p, q, r}) /\ FixedInputs3D # <<>>
  BY <1>3
<1> QED BY <1>2, <1>4 DEF FixedOf

(* A manifest written by hand, with its inputs in another order, is valid  *)
(* and canonically the goal's.                                             *)
LEMMA HandwrittenIsTheSame ==
  ASSUME NEW g, IsGoal(g), Accepted(g), NEW m \in Handwritten(g)
  PROVE  ManifestOk(m) /\ AsDocument(Manifest(m)) = Document(g)
<1>0. PICK data, v : data = ManifestOf(g) /\ v = TemplateVersion[g.template]
  OBVIOUS
<1>1. /\ g.template \in {Template2D, Template3D} /\ v \in {2, 3}
  BY <1>0, TemplatesAre DEF Accepted
<1>2. PICK inputs : /\ m = [data EXCEPT !.inputs = inputs]
                    /\ Len(inputs) = Len(FixedOf(v)) /\ ToSet(inputs) = ToSet(FixedOf(v))
  <2>1. PICK inputs \in {FixedOf(v), Reverse(FixedOf(v)), Tail(FixedOf(v)) \o <<Head(FixedOf(v))>>} :
          m = [data EXCEPT !.inputs = inputs]
    BY <1>0 DEF Handwritten
  <2>2. PICK S : FixedOf(v) \in Seq(S) /\ FixedOf(v) # <<>>
    BY <1>1, FixedAre
  <2> QED BY <2>1, <2>2, TurnedSequences
<1>3. ManifestOk(data)
  BY <1>0, <1>1, ManifestOkIs DEF Accepted
<1>4. DOMAIN data = {"version", "extra", "name", "template", "inputs", "parameters", "renderer",
                     "physics_3d", "input_map"} /\ data.version = v
  BY <1>0 DEF ManifestOf
<1>5. /\ m.version = data.version /\ m.extra = data.extra /\ m.name = data.name
      /\ m.template = data.template /\ m.inputs = inputs /\ m.parameters = data.parameters
      /\ m.renderer = data.renderer /\ m.physics_3d = data.physics_3d
      /\ m.input_map = data.input_map
  BY <1>2, <1>4
<1>6. ManifestOk(m)
  <2>1. InputsOk(m.inputs, FixedOf(m.version))
    BY <1>2, <1>4, <1>5 DEF InputsOk
  <2>2. ParametersOk(m) <=> ParametersOk(data)
    BY <1>5 DEF ParametersOk
  <2>3. OnlyIn3D(m) <=> OnlyIn3D(data)
    BY <1>5 DEF OnlyIn3D
  <2> QED BY <1>3, <1>5, <2>1, <2>2, <2>3 DEF ManifestOk
<1>7. Manifest(m) = Manifest(data)
  BY <1>5 DEF Manifest, CanonicalInputs
<1> QED BY <1>0, <1>1, <1>6, <1>7, WhatIsCompiled

(* A goal with its defaults written out is accepted, like the goal, and    *)
(* leaves nothing to default.                                              *)
LEMMA ExplicitIsTheSame ==
  ASSUME NEW g, IsGoal(g), Accepted(g)
  PROVE  LET h == Explicit(g, ResolvedDefaults(g))
         IN  IsGoal(h) /\ Accepted(h) /\ Alike(g, h) /\ ResolvedDefaults(h) = {}
<1>0. PICK h, role, given, left :
        /\ h = Explicit(g, ResolvedDefaults(g)) /\ role = ReadRole(g.template) /\ given = Read(g)
        /\ left = DOMAIN Limits[role] \ DOMAIN given
  OBVIOUS
<1>1. role \in DOMAIN Limits /\ AreFair(Limits[role]) /\ role \in AllowedRoles(g.template)
  <2>1. role \in AllowedRoles(g.template) /\ role \in Roles \cup {Behavior}
    BY <1>0, TemplatesAre DEF Accepted, AllowedRoles
  <2> QED BY <2>1, ContractIsFair
<1>2. /\ IsBlock(given) /\ DOMAIN given \subseteq DOMAIN Limits[role] /\ BlockOk(given, Limits[role])
  BY <1>0, ReadIsBlock DEF Accepted, RoleOk, Read
<1>3. {d[2] : d \in ResolvedDefaults(g)} = left
  <2>1. ResolvedDefaults(g) = {<<role, key>> : key \in left}
    BY <1>0 DEF ResolvedDefaults, Read
  <2>2. \A key \in left : <<role, key>> \in ResolvedDefaults(g) /\ <<role, key>>[2] = key
    BY <2>1
  <2>3. \A d \in ResolvedDefaults(g) : d[2] \in left
    BY <2>1
  <2> QED BY <2>2, <2>3
<1>4. PICK block : block = [key \in DOMAIN given \cup left |->
                              IF key \in left THEN Tenths(Limits[role][key][3]) ELSE given[key]]
  OBVIOUS
<1>5. h = [g EXCEPT !.parameters =
             [r \in DOMAIN g.parameters \cup {role} |-> IF r # role THEN g.parameters[r] ELSE block]]
  BY <1>0, <1>3, <1>4 DEF Explicit, Read
<1>6. /\ h = [field \in GoalFields |-> h[field]]
      /\ \A field \in GoalFields \ {"parameters"} : h[field] = g[field]
      /\ h.parameters = [r \in DOMAIN g.parameters \cup {role} |->
                           IF r # role THEN g.parameters[r] ELSE block]
  <2>1. DOMAIN g = GoalFields
    BY DEF IsGoal
  <2> QED BY <1>5, <2>1 DEF GoalFields
<1>7. /\ \A field \in GoalFields \ Rewritten : h[field] = g[field]
      /\ h.renderer = g.renderer /\ h.physics_3d = g.physics_3d /\ h.input_map = g.input_map
  BY <1>6 DEF Rewritten, GoalFields
<1>8. /\ h.version = g.version /\ h.extra = g.extra /\ h.game = g.game
      /\ h.gameExtra = g.gameExtra /\ h.name = g.name /\ h.template = g.template
      /\ h.resources = g.resources /\ (IsSolid(h) <=> IsSolid(g))
  BY <1>7, FieldsAre DEF IsSolid
<1>9. Read(h) = block
  BY <1>0, <1>6, <1>8 DEF Read, GivenFor
<1>10. DOMAIN block = DOMAIN Limits[role]
  BY <1>0, <1>2, <1>4
<1>11. \A key \in DOMAIN Limits[role] :
         Taken(block, key, Limits[role][key]) = Taken(given, key, Limits[role][key])
  BY <1>0, <1>4, <1>10 DEF Taken
<1>12. BlockOk(block, Limits[role]) /\ Block(block, Limits[role]) = Block(given, Limits[role])
  BY <1>2, <1>11 DEF BlockOk, Block
<1>13. IsBlock(block)
  BY <1>1, <1>2, <1>10, <1>11, TakenIs DEF IsBlock, Taken
<1>14. IsGoal(h)
  BY <1>6, <1>7, <1>13 DEF IsGoal
<1>15. RoleOk(h.parameters, ReadRole(h.template))
  BY <1>0, <1>8, <1>9, <1>10, <1>12 DEF RoleOk, Read
<1>16. Accepted(h)
  <2>1. DOMAIN h.parameters \subseteq AllowedRoles(h.template)
    BY <1>1, <1>6, <1>8 DEF Accepted
  <2>2. HasPath(h) <=> HasPath(g)
    BY <1>7, <1>8 DEF HasPath
  <2>3. Missing(h) = Missing(g)
    BY <1>8 DEF Missing
  <2>4. SolidOk(h) <=> SolidOk(g)
    BY <1>7 DEF SolidOk
  <2> QED BY <1>8, <1>15, <2>1, <2>2, <2>3, <2>4 DEF Accepted
<1>17. Alike(g, h)
  <2>1. Told(block, Limits[role]) = Told(given, Limits[role])
    BY <1>12 DEF Told
  <2>2. ToldParameters(h) = ToldParameters(g)
    BY <1>0, <1>8, <1>9, <2>1 DEF ToldParameters
  <2> QED BY <1>7, <1>8, <2>2 DEF Alike, ToldRenderer, ToldPhysics, ToldBindings
<1>18. ResolvedDefaults(h) = {}
  BY <1>0, <1>8, <1>9, <1>10 DEF ResolvedDefaults, Read
<1> QED BY <1>0, <1>14, <1>16, <1>17, <1>18

(* Every value of the read role is the goal's own or the contract's.       *)
LEMMA NothingIsInvented ==
  ASSUME NEW g, IsGoal(g), Accepted(g)
  PROVE  LET role == ReadRole(g.template)
             given == GivenFor(g.parameters, role)
         IN  \A key \in DOMAIN Limits[role] :
               LET planned == Document(g).parameters[role][key]
                   recorded == <<role, key>> \in ResolvedDefaults(g)
               IN  /\ key \in DOMAIN given <=> ~recorded
                   /\ planned = Format(IF recorded THEN Tenths(Limits[role][key][3]) ELSE given[key])
<1>0. PICK role, given : role = ReadRole(g.template) /\ given = Read(g)
  OBVIOUS
<1>1. given = GivenFor(g.parameters, role)
  BY <1>0 DEF Read
<1>2. role \in RolesOf(TemplateVersion[g.template])
  BY <1>0, TemplatesAre DEF Accepted
<1>3. Document(g).parameters[role] = Told(given, Limits[role])
  BY <1>0, <1>2 DEF Document, ToldParameters
<1>4. ASSUME NEW key \in DOMAIN Limits[role]
      PROVE  /\ key \in DOMAIN given <=> ~(<<role, key>> \in ResolvedDefaults(g))
             /\ Told(given, Limits[role])[key]
                  = Format(IF <<role, key>> \in ResolvedDefaults(g)
                           THEN Tenths(Limits[role][key][3]) ELSE given[key])
  <2>1. ResolvedDefaults(g) = {<<role, k>> : k \in DOMAIN Limits[role] \ DOMAIN given}
    BY <1>0, <1>1 DEF ResolvedDefaults
  <2>2. <<role, key>> \in ResolvedDefaults(g) <=> key \notin DOMAIN given
    BY <2>1
  <2>3. Told(given, Limits[role])[key] = Format(Taken(given, key, Limits[role][key]))
    BY ToldIs
  <2> QED BY <2>2, <2>3 DEF Taken
<1> QED BY <1>0, <1>1, <1>3, <1>4

(* The goal with every number written with one zero more.                  *)
Lengthened(g) ==
  [g EXCEPT !.parameters = [role \in DOMAIN @ |-> LongerBlock(@[role])],
            !.physics_3d = LongerBlock(@)]

(* ... is a goal, accepted or refused like the first, and like it when     *)
(* accepted.                                                               *)
LEMMA LengthenedIsTheSame ==
  ASSUME NEW g, IsGoal(g)
  PROVE  LET h == Lengthened(g)
         IN  /\ IsGoal(h) /\ (Accepted(h) <=> Accepted(g))
             /\ CompileGoal(h).status = CompileGoal(g).status
             /\ Accepted(g) => Alike(g, h)
<1>0. PICK h, role : h = Lengthened(g) /\ role = ReadRole(g.template)
  OBVIOUS
<1>1. /\ h = [field \in GoalFields |-> h[field]]
      /\ \A field \in GoalFields \ {"parameters", "physics_3d"} : h[field] = g[field]
      /\ h.parameters = [r \in DOMAIN g.parameters |-> LongerBlock(g.parameters[r])]
      /\ h.physics_3d = LongerBlock(g.physics_3d)
  <2>1. DOMAIN g = GoalFields
    BY DEF IsGoal
  <2> QED BY <1>0, <2>1 DEF Lengthened, GoalFields
<1>2. /\ \A field \in GoalFields \ Rewritten : h[field] = g[field]
      /\ h.renderer = g.renderer /\ h.input_map = g.input_map
  BY <1>1 DEF Rewritten, GoalFields
<1>3. /\ h.version = g.version /\ h.extra = g.extra /\ h.game = g.game
      /\ h.gameExtra = g.gameExtra /\ h.name = g.name /\ h.template = g.template
      /\ h.resources = g.resources /\ (IsSolid(h) <=> IsSolid(g))
  BY <1>2, FieldsAre DEF IsSolid
<1>4. IsGoal(h)
  <2>1. \A r \in DOMAIN h.parameters : IsBlock(h.parameters[r])
    BY <1>1, ContractIsFair, LongerBlockIsTheSame DEF IsGoal
  <2>2. IsBlock(h.physics_3d)
    BY <1>1, ContractIsFair, LongerBlockIsTheSame DEF IsGoal
  <2> QED BY <1>1, <2>1, <2>2 DEF IsGoal
<1>5. Read(h) = LongerBlock(Read(g))
  <2>1. CASE role \in DOMAIN g.parameters
    BY <1>0, <1>1, <1>3, <2>1 DEF Read, GivenFor
  <2>2. CASE role \notin DOMAIN g.parameters
    <3>1. Read(h) = Nothing /\ Read(g) = Nothing
      BY <1>0, <1>1, <1>3, <2>2 DEF Read, GivenFor
    <3>2. LongerBlock(Nothing) = Nothing
      BY DEF LongerBlock, Nothing
    <3> QED BY <3>1, <3>2
  <2> QED BY <2>1, <2>2
<1>6. IsBlock(Read(g)) /\ IsBlock(g.physics_3d)
  BY ReadIsBlock DEF IsGoal
<1>7. /\ BlockOk(h.physics_3d, PhysicsLimits) <=> BlockOk(g.physics_3d, PhysicsLimits)
      /\ BlockOk(g.physics_3d, PhysicsLimits) =>
           Told(h.physics_3d, PhysicsLimits) = Told(g.physics_3d, PhysicsLimits)
  BY <1>1, <1>6, ContractIsFair, LongerBlockIsTheSame
<1>8. ASSUME g.template \in {Template2D, Template3D}
      PROVE  /\ RoleOk(h.parameters, role) <=> RoleOk(g.parameters, role)
             /\ RoleOk(g.parameters, role) => Told(Read(h), Limits[role]) = Told(Read(g), Limits[role])
  <2>1. AreFair(Limits[role])
    BY <1>0, <1>8, TemplatesAre, ContractIsFair
  <2>2. /\ DOMAIN Read(h) = DOMAIN Read(g)
        /\ BlockOk(Read(h), Limits[role]) <=> BlockOk(Read(g), Limits[role])
        /\ BlockOk(Read(g), Limits[role]) =>
             Told(Read(h), Limits[role]) = Told(Read(g), Limits[role])
    BY <1>5, <1>6, <2>1, LongerBlockIsTheSame
  <2> QED BY <1>0, <1>3, <2>2 DEF RoleOk, Read
<1>9. (HasPath(h) <=> HasPath(g)) /\ Missing(h) = Missing(g)
  BY <1>2, <1>3 DEF HasPath, Missing
<1>10. SolidOk(h) <=> SolidOk(g)
  BY <1>2, <1>7 DEF SolidOk
<1>11. DOMAIN h.parameters = DOMAIN g.parameters
  BY <1>1
<1>12. Accepted(h) <=> Accepted(g)
  <2>1. CASE g.template \in {Template2D, Template3D}
    <3>1. RoleOk(h.parameters, ReadRole(h.template)) <=> RoleOk(g.parameters, ReadRole(g.template))
      BY <1>0, <1>3, <1>8, <2>1
    <3> QED BY <1>3, <1>9, <1>10, <1>11, <3>1 DEF Accepted
  <2>2. CASE g.template \notin {Template2D, Template3D}
    BY <1>3, <2>2 DEF Accepted
  <2> QED BY <2>1, <2>2
<1>13. CompileGoal(h).status = CompileGoal(g).status
  <2>1. CompileGoal(h).status = "clarification" <=> CompileGoal(g).status = "clarification"
    BY <1>3, <1>9, CompileIs
  <2>2. CompileGoal(h).status = "ok" <=> CompileGoal(g).status = "ok"
    BY <1>12, CompileIs
  <2>3. /\ CompileGoal(h).status \in {"ok", "clarification", "rejected"}
        /\ CompileGoal(g).status \in {"ok", "clarification", "rejected"}
    BY CompileIs
  <2> QED BY <2>1, <2>2, <2>3
<1>14. ASSUME Accepted(g) PROVE Alike(g, h)
  <2>1. g.template \in {Template2D, Template3D} /\ RoleOk(g.parameters, role)
    BY <1>0, <1>14 DEF Accepted
  <2>2. Told(Read(h), Limits[role]) = Told(Read(g), Limits[role])
    BY <1>8, <2>1
  <2>3. ToldParameters(h) = ToldParameters(g)
    BY <1>0, <1>3, <2>2 DEF ToldParameters
  <2>4. ToldPhysics(h) = ToldPhysics(g)
    BY <1>3, <1>7, <1>14 DEF ToldPhysics, Accepted, SolidOk
  <2>5. ToldRenderer(h) = ToldRenderer(g) /\ ToldBindings(h) = ToldBindings(g)
    BY <1>2, <1>3 DEF ToldRenderer, ToldBindings
  <2> QED BY <1>2, <2>3, <2>4, <2>5 DEF Alike
<1> QED BY <1>0, <1>4, <1>12, <1>13, <1>14

(* An accepted goal is compiled to the two documents.                      *)
LEMMA AcceptedIs ==
  ASSUME NEW g, Accepted(g)
  PROVE  /\ CompileGoal(g).status = "ok" /\ CompileGoal(g).hash = SpelledOut(g)
         /\ CompileGoal(g).manifest = Document(g) /\ CompileGoal(g).defaults = ResolvedDefaults(g)
<1>1. g.template \in {Template2D, Template3D}
  BY DEF Accepted
<1> QED BY <1>1, CompileIs, WhatIsCompiled

(* Goals that are alike are compiled alike.                                *)
LEMMA AlikeCompileAlike ==
  ASSUME NEW g, NEW h, IsGoal(g), IsGoal(h), Accepted(g), Accepted(h), Alike(g, h)
  PROVE  /\ CompileGoal(h).status = "ok" /\ CompileGoal(h).hash = CompileGoal(g).hash
         /\ CompileGoal(h).manifest = CompileGoal(g).manifest
BY AcceptedIs, AlikeAreOne

(* Every number of what a goal is compiled to is canonical and has the     *)
(* canonical form.                                                         *)
LEMMA CompiledNumbers ==
  ASSUME NEW g, IsGoal(g), Accepted(g),
         NEW n \in Numbers(Document(g).parameters) \cup Numbers(SpelledOut(g).parameters)
                   \cup Numbers([p \in {1} |-> SpelledOut(g).physics_3d])
  PROVE  IsCanonical(n) /\ InCanonicalForm(n)
<1>1. ASSUME NEW block, NEW limits, Settled(block, limits), NEW key \in DOMAIN block
      PROVE  IsCanonical(block[key]) /\ InCanonicalForm(block[key])
  <2>1. DOMAIN block = DOMAIN limits
    BY <1>1 DEF Settled
  <2> QED BY <1>1, <2>1 DEF Settled
<1>2. Document(g).parameters = ToldParameters(g) /\ SpelledOut(g).parameters = ToldParameters(g)
      /\ SpelledOut(g).physics_3d = ToldPhysics(g)
  BY SpelledOutIs DEF Document
<1>3. CASE n \in Numbers(ToldParameters(g))
  <2>1. PICK role \in DOMAIN ToldParameters(g) :
          \E key \in DOMAIN ToldParameters(g)[role] : n = ToldParameters(g)[role][key]
    BY <1>3 DEF Numbers
  <2>2. Settled(ToldParameters(g)[role], Limits[role])
    BY <2>1, CompiledIsSettled
  <2> QED BY <1>1, <2>1, <2>2
<1>4. CASE n \in Numbers([p \in {1} |-> ToldPhysics(g)])
  <2>1. PICK key \in DOMAIN ToldPhysics(g) : n = ToldPhysics(g)[key]
    BY <1>4 DEF Numbers
  <2>2. IsSolid(g)
    BY <2>1, CompiledIsSettled
  <2>3. Settled(ToldPhysics(g), PhysicsLimits)
    BY <2>2, CompiledIsSettled
  <2> QED BY <1>1, <2>1, <2>3
<1> QED BY <1>2, <1>3, <1>4

-----------------------------------------------------------------------------
\* What one edit makes of a goal is a goal.
EditsAreGoals == \A g : IsGoal(g) => \A h \in Edits(g) : IsGoal(h)

(* What is kept of a compilation is what compiling the goal gives.         *)
Invariant == IsGoal(goal) /\ outcome \in {NotCompiled, CompileGoal(goal)}

(* A goal not compiled yet.                                                *)
LEMMA NotCompiledIs == NotCompiled.status = "none" /\ NotCompiled.missing = {}
BY DEF NotCompiled, Result

(* The invariant holds in every reachable state, if edits make goals of    *)
(* goals.                                                                  *)
THEOREM InvariantHolds == ASSUME EditsAreGoals PROVE Spec => []Invariant
<1>1. Init => Invariant
  BY GoalAssumption DEF Init, Invariant
<1>2. Invariant /\ [Next]_vars => Invariant'
  <2> SUFFICES ASSUME Invariant, [Next]_vars PROVE Invariant'
    OBVIOUS
  <2>1. CASE Write
    <3>1. IsGoal(goal') /\ outcome' = NotCompiled
      BY <2>1 DEF Write, Invariant, EditsAreGoals
    <3> QED BY <3>1 DEF Invariant
  <2>2. CASE Compile
    BY <2>2 DEF Compile, Invariant
  <2>3. CASE UNCHANGED vars
    BY <2>3 DEF vars, Invariant
  <2> QED BY <2>1, <2>2, <2>3 DEF Next
<1> QED BY <1>1, <1>2, PTL DEF Spec

(* A compilation that succeeded is that of the goal as it is, which is     *)
(* therefore accepted.                                                     *)
LEMMA WhenCompiled ==
  ASSUME Invariant, Compiled
  PROVE  IsGoal(goal) /\ Accepted(goal) /\ outcome = CompileGoal(goal)
<1>1. outcome = CompileGoal(goal)
  BY NotCompiledIs DEF Invariant, Compiled
<1> QED BY <1>1, CompileIs DEF Invariant, Compiled

(* The types of the specification follow from the invariant.               *)
LEMMA TypesFollow == ASSUME Invariant PROVE TypeOK
<1>1. outcome.status \in {"none", "ok", "clarification", "rejected"}
      /\ ((outcome.status = "clarification") = (outcome.missing # {}))
  BY NotCompiledIs, CompileIs DEF Invariant
<1>2. ASSUME Compiled
      PROVE  \A n \in Numbers(outcome.manifest.parameters) \cup Numbers(outcome.hash.parameters)
                      \cup Numbers([p \in {1} |-> outcome.hash.physics_3d]) :
               IsCanonical(n) /\ InCanonicalForm(n)
  <2>1. IsGoal(goal) /\ Accepted(goal) /\ outcome = CompileGoal(goal)
    BY <1>2, WhenCompiled
  <2>2. outcome.manifest = Document(goal) /\ outcome.hash = SpelledOut(goal)
    BY <2>1, AcceptedIs
  <2> QED BY <2>1, <2>2, CompiledNumbers
<1> QED BY <1>1, <1>2 DEF TypeOK, Invariant

(* Whatever goals, edits and precision: the manifest, the spelled-out goal *)
(* and the manifests written by hand are readings of one document (goal.py *)
(* compile_goal, manifest.py validate_manifest_dict, plan.py               *)
(* plan_creator_manifest).                                                 *)
THEOREM OneManifestHolds == ASSUME EditsAreGoals PROVE Spec => []OneManifest
<1>1. Invariant => OneManifest
  <2> SUFFICES ASSUME Invariant PROVE OneManifest
    OBVIOUS
  <2>1. TypeOK
    BY TypesFollow
  <2>2. CompiledIsPlannable
    BY WhenCompiled, AcceptedIs, DocumentIsPlannable DEF CompiledIsPlannable
  <2>3. RecompileIsStable
    BY WhenCompiled, AcceptedIs, SpelledOutIsAccepted, AlikeCompileAlike DEF RecompileIsStable
  <2>4. HandWrittenAgrees
    BY WhenCompiled, AcceptedIs, HandwrittenIsTheSame DEF HandWrittenAgrees
  <2> QED BY <2>1, <2>2, <2>3, <2>4 DEF OneManifest
<1> QED BY <1>1, InvariantHolds, PTL

(* Whatever goals and edits: what a goal leaves out of the role it is read *)
(* for is filled in with the recorded defaults, what it gives of that role *)
(* is kept, and writing the defaults out changes nothing (goal.py          *)
(* 326-402).                                                               *)
THEOREM ReadRoleDefaultsAreToldHolds == ASSUME EditsAreGoals PROVE Spec => []ReadRoleDefaultsAreTold
<1>1. Invariant => ReadRoleDefaultsAreTold
  <2> SUFFICES ASSUME Invariant PROVE ReadRoleDefaultsAreTold
    OBVIOUS
  <2>1. ExplicitDefaults
    <3> SUFFICES ASSUME Compiled
                 PROVE  LET again == CompileGoal(Explicit(goal, outcome.defaults))
                        IN  /\ again.status = "ok" /\ again.defaults = {}
                            /\ again.hash = outcome.hash /\ again.manifest = outcome.manifest
      BY DEF ExplicitDefaults
    <3>1. IsGoal(goal) /\ Accepted(goal) /\ outcome = CompileGoal(goal)
          /\ outcome.defaults = ResolvedDefaults(goal)
      BY WhenCompiled, AcceptedIs
    <3>2. PICK h : h = Explicit(goal, outcome.defaults)
      OBVIOUS
    <3>3. IsGoal(h) /\ Accepted(h) /\ Alike(goal, h) /\ ResolvedDefaults(h) = {}
      BY <3>1, <3>2, ExplicitIsTheSame
    <3> QED BY <3>1, <3>2, <3>3, AlikeCompileAlike, AcceptedIs
  <2>2. NothingInvented
    <3> SUFFICES ASSUME Compiled PROVE NothingInvented
      BY DEF NothingInvented
    <3>1. IsGoal(goal) /\ Accepted(goal) /\ outcome = CompileGoal(goal)
          /\ outcome.defaults = ResolvedDefaults(goal) /\ outcome.manifest = Document(goal)
      BY WhenCompiled, AcceptedIs
    <3> QED BY <3>1, NothingIsInvented DEF NothingInvented
  <2> QED BY <2>1, <2>2 DEF ReadRoleDefaultsAreTold
<1> QED BY <1>1, InvariantHolds, PTL

(* Whatever goals and edits: 200, 200.0 and 2.0e2 are accepted or refused  *)
(* alike and hashed to one goal (goal.py compute_goal_hash).               *)
THEOREM SameNumberSameHashHolds == ASSUME EditsAreGoals PROVE Spec => []SameNumberSameHash
<1>1. Invariant => SameNumberSameHash
  <2> SUFFICES ASSUME Invariant, outcome.status \in {"ok", "rejected"}
               PROVE  LET again == CompileGoal(Lengthened(goal))
                      IN  again.status = outcome.status /\ again.hash = outcome.hash
    BY DEF SameNumberSameHash, Lengthened
  <2>1. IsGoal(goal) /\ outcome = CompileGoal(goal)
    BY NotCompiledIs DEF Invariant
  <2>2. PICK h : /\ h = Lengthened(goal) /\ IsGoal(h) /\ (Accepted(h) <=> Accepted(goal))
                 /\ CompileGoal(h).status = outcome.status
                 /\ Accepted(goal) => Alike(goal, h)
    BY <2>1, LengthenedIsTheSame
  <2>3. CASE outcome.status = "ok"
    <3>1. Accepted(goal)
      BY <2>1, <2>3, CompileIs
    <3> QED BY <2>1, <2>2, <3>1, AlikeCompileAlike
  <2>4. CASE outcome.status = "rejected"
    BY <2>1, <2>2, <2>4, CompileIs
  <2> QED BY <2>2, <2>3, <2>4
<1> QED BY <1>1, InvariantHolds, PTL
================================================================================
