----------------------------- MODULE IEEEFloat -----------------------------
(***************************************************************************)
(* Rust's f64 (IEEE 754 binary64) at a reduced width, the way Interpreter *)
(* models i64 at IntWidth bits: FloatPrec significand bits (53 in f64) and *)
(* exponents up to FloatEmax (1023), with subnormals, signed zeros, the    *)
(* infinities and NaN, and round-to-nearest, ties-to-even, as the          *)
(* standard defines every f64 operation the Interpreter uses.              *)
(*                                                                         *)
(* A finite magnitude m is an integer count of the smallest subnormal,    *)
(* 2^(FEmin - FloatPrec + 1); a number of units is m / 2^FracBits in the  *)
(* format's own scale, where 1.0 is 2^FracBits units.                     *)
(***************************************************************************)
EXTENDS Integers

CONSTANTS
  FloatPrec,   \* significand bits, the hidden bit included
  FloatEmax    \* largest exponent

ASSUME FloatPrec \in 2..6 /\ FloatEmax \in 1..4

FEmin    == 1 - FloatEmax
Binades  == FloatEmax - FEmin              \* normal binades above the first
FracBits == FloatPrec - 1 - FEmin          \* units per 1.0 = 2^FracBits

\* The largest finite magnitude.
MaxMag == (2 ^ FloatPrec - 1) * 2 ^ Binades
\* The first magnitude past the range: a result rounded to it overflows.
Beyond == 2 ^ FloatPrec * 2 ^ Binades

FloatV(neg, cls, m) == [t |-> "Float", neg |-> neg, cls |-> cls, m |-> m]
FNaN      == FloatV(FALSE, "nan", 0)
FInf(neg) == FloatV(neg, "inf", 0)
FNum(neg, m) == FloatV(neg, "fin", m)

\* The binade of +-num/den units, starting the search at binade j: binade
\* 0 holds the subnormals and the first normal binade (spacing 1), binade
\* j > 0 holds [2^(FloatPrec-1+j), 2^(FloatPrec+j)) with spacing 2^j.
RECURSIVE BinadeOf(_, _, _)
BinadeOf(num, den, j) ==
  IF j < Binades /\ num >= 2 ^ (FloatPrec + j) * den THEN BinadeOf(num, den, j + 1) ELSE j

\* The f64 nearest to +-num/den units (num >= 0, den > 0): the closer of
\* the neighbours below and above, the one with an even last significand
\* bit on a tie, and infinity from Beyond on (a tie between MaxMag and
\* Beyond goes to Beyond, whose significand is even).  A result that
\* rounds to zero keeps its sign.
Round(neg, num, den) ==
  LET sp  == 2 ^ BinadeOf(num, den, 0)
      lo  == (num \div (sp * den)) * sp
      rem == num - lo * den
      r   == IF 2 * rem < sp * den THEN lo
             ELSE IF 2 * rem > sp * den THEN lo + sp
             ELSE IF (lo \div sp) % 2 = 0 THEN lo ELSE lo + sp
  IN IF r >= Beyond THEN FInf(neg) ELSE FNum(neg, r)

IsNaN(a)  == a.cls = "nan"
IsInf(a)  == a.cls = "inf"
FIsZero(a) == a.cls = "fin" /\ a.m = 0          \* a == 0.0, -0.0 included
FNeg(a)   == [a EXCEPT !.neg = ~a.neg]
Signed(a) == IF a.neg THEN -a.m ELSE a.m

\* `i as f64`: the nearest f64 to the integer.
FromInt(i) ==
  IF i = 0 THEN FNum(FALSE, 0)
  ELSE Round(i < 0, (IF i < 0 THEN -i ELSE i) * 2 ^ FracBits, 1)

\* f64 +: NaN in, or opposite infinities, give NaN; an exact zero sum is
\* -0.0 only when both operands are -0.0.
FAdd(a, b) ==
  CASE IsNaN(a) \/ IsNaN(b) \/ (IsInf(a) /\ IsInf(b) /\ a.neg # b.neg) -> FNaN
    [] IsInf(a) -> a
    [] IsInf(b) -> b
    [] Signed(a) + Signed(b) = 0 -> FNum(a.neg /\ b.neg, 0)
    [] OTHER -> LET s == Signed(a) + Signed(b) IN
                Round(s < 0, IF s < 0 THEN -s ELSE s, 1)

FSub(a, b) == FAdd(a, FNeg(b))

\* f64 *: the sign is the exclusive or; zero times infinity is NaN.
FMul(a, b) ==
  LET neg == a.neg # b.neg IN
  CASE IsNaN(a) \/ IsNaN(b) \/ (IsInf(a) /\ FIsZero(b)) \/ (FIsZero(a) /\ IsInf(b)) -> FNaN
    [] IsInf(a) \/ IsInf(b) -> FInf(neg)
    [] OTHER -> Round(neg, a.m * b.m, 2 ^ FracBits)

\* f64 /: 0/0 and inf/inf are NaN, a non-zero number over a zero is an
\* infinity.
FDiv(a, b) ==
  LET neg == a.neg # b.neg IN
  CASE IsNaN(a) \/ IsNaN(b) \/ (IsInf(a) /\ IsInf(b)) \/ (FIsZero(a) /\ FIsZero(b)) -> FNaN
    [] IsInf(a) \/ FIsZero(b) -> FInf(neg)
    [] IsInf(b) -> FNum(neg, 0)
    [] OTHER -> Round(neg, a.m * 2 ^ FracBits, b.m)

\* f64 comparison: every ordered comparison with NaN is false and zeros
\* compare equal.
Key(a) == IF IsInf(a) THEN (IF a.neg THEN -Beyond ELSE Beyond) ELSE Signed(a)
FEq(a, b) == ~IsNaN(a) /\ ~IsNaN(b) /\ Key(a) = Key(b)
FLt(a, b) == ~IsNaN(a) /\ ~IsNaN(b) /\ Key(a) < Key(b)

=============================================================================
