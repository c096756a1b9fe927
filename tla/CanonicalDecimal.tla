---------------------------- MODULE CanonicalDecimal ----------------------------
(***************************************************************************)
(* The numbers of goals and manifests (creator/numfmt.py), as the decimal  *)
(* arithmetic of the language keeps them: a sign, a coefficient and a      *)
(* power of ten, so that 200, 200.0 and 2.0e2 are three decimals of one    *)
(* value.  A canonical text is the decimal it is read back as.             *)
(*                                                                         *)
(* normalize() works in the arithmetic's context, which rounds to          *)
(* Precision digits (28) before the significant ones are counted.          *)
(*                                                                         *)
(* A definition marked "Slip" is not part of the model: it is a plausible  *)
(* mistake in the definition that follows it, kept to show that the        *)
(* properties of GoalCompilation notice it.                                *)
(***************************************************************************)
EXTENDS Integers

CONSTANTS Precision,       \* digits the decimal context keeps
          MaxSignificant   \* MAX_SIGNIFICANT_DIGITS (6)

ASSUME DecimalAssumption ==
  /\ Precision \in Nat
  /\ MaxSignificant \in 2..Precision

TenTo[k \in Nat] == IF k = 0 THEN 1 ELSE 10 * TenTo[k - 1]

Number(neg, coef, exp) == [kind |-> "number", neg |-> neg, coef |-> coef, exp |-> exp]

Decimal == [kind : {"number", "other"}, neg : BOOLEAN, coef : Nat, exp : Int]

\* A key with nothing after it, or a word where a number is expected.
NotANumber == [kind |-> "other", neg |-> FALSE, coef |-> 0, exp |-> 0]

Tenths(n) == Number(n < 0, IF n < 0 THEN -n ELSE n, -1)

DigitCount(coef) ==
  CHOOSE d \in 1..(coef + 1) : coef < TenTo[d] /\ (d = 1 \/ coef >= TenTo[d - 1])

(* Half-even rounding of a coefficient that drops k of its digits.         *)
Halved(coef, k) ==
  LET kept == coef \div TenTo[k]
      rest == 2 * (coef % TenTo[k])
  IN  IF rest > TenTo[k] \/ (rest = TenTo[k] /\ kept % 2 = 1) THEN kept + 1 ELSE kept

Rounded(n) ==
  LET k == DigitCount(n.coef) - Precision
  IN  IF k <= 0 THEN n ELSE Number(n.neg, Halved(n.coef, k), n.exp + k)

ZeroCount(coef) ==
  CHOOSE z \in 0..DigitCount(coef) : coef % TenTo[z] = 0 /\ coef % TenTo[z + 1] # 0

Stripped(n) ==
  IF n.coef = 0 THEN Number(n.neg, 0, 0)
  ELSE Number(n.neg, n.coef \div TenTo[ZeroCount(n.coef)], n.exp + ZeroCount(n.coef))

Normalized(n) == Stripped(Rounded(n))

(* parse_canonical_decimal accepts the value.                              *)
IsCanonical(n) ==
  /\ n.kind = "number"
  /\ ~(n.neg /\ n.coef = 0)
  /\ DigitCount(Normalized(n).coef) <= MaxSignificant

(* Slip: the text a number came with is kept.                              *)
FormatAsGiven(n) == n

(* format_canonical: a decimal point always, an exponent never.            *)
Format(n) ==
  LET m == Normalized(n)
  IN  IF m.exp >= 0 THEN Number(m.neg, m.coef * TenTo[m.exp + 1], -1) ELSE m

(* A value is Scaled(n) / Scale(n) tenths.                                 *)
Scaled(n) ==
  (IF n.neg THEN -n.coef ELSE n.coef) * TenTo[IF n.exp >= -1 THEN n.exp + 1 ELSE 0]
Scale(n) == TenTo[IF n.exp >= -1 THEN 0 ELSE -1 - n.exp]

(* The range checks, both ends included, of a limit given in tenths.       *)
Within(n, lowest, highest) ==
  lowest * Scale(n) <= Scaled(n) /\ Scaled(n) <= highest * Scale(n)
================================================================================
