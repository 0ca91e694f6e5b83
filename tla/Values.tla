------------------------------- MODULE Values -------------------------------
(***************************************************************************)
(* Integers and truth values, and the operators on them as far as the two  *)
(* engines agree.  Values are written as the literals of Expressions; int  *)
(* has Width bits instead of 64.                                           *)
(***************************************************************************)
EXTENDS Expressions, Integers, FiniteSetsExt

CONSTANT Width

Least == -(2 ^ (Width - 1))
Wrap(n) == ((n - Least) % 2 ^ Width) + Least
Magnitude(n) == IF n < 0 THEN -n ELSE n

\* Division of Go: towards zero.
Quotient(a, b) ==
  LET q == Magnitude(a) \div Magnitude(b)
  IN  Wrap(IF (a < 0) = (b < 0) THEN q ELSE -q)
Remainder(a, b) == a - b * (Magnitude(a) \div Magnitude(b)) * (IF (a < 0) = (b < 0) THEN 1 ELSE -1)

\* The conversion of a float to int: one that does not fit is the least.
Truncated(n) == IF n \in Least .. -(Least + 1) THEN n ELSE Least

\* By way of floats.  A fraction becomes 0, except for the powers of 1 and -1.
Power(a, b) ==
  CASE b = 0 -> 1
    [] b > 0 /\ Magnitude(a) <= 1 -> a ^ b
    [] b > 0 /\ Magnitude(a) > 1 -> IF b < Width THEN Truncated(a ^ b) ELSE Least
    [] b < 0 /\ Magnitude(a) = 1 -> a ^ Magnitude(b)
    [] b < 0 /\ a = 0 -> Least
    [] OTHER -> 0

Bits(n) == {i \in 0 .. Width - 1 : ((n % 2 ^ Width) \div 2 ^ i) % 2 = 1}
OfBits(bits) == Wrap(MapThenSumSet(LAMBDA i : 2 ^ i, bits))

IntOp(op, a, b) ==
  CASE op = "+" -> Number(Wrap(a + b))
    [] op = "-" -> Number(Wrap(a - b))
    [] op = "*" -> Number(Wrap(a * b))
    [] op = "/" -> Number(Quotient(a, b))
    [] op = "%" -> Number(Remainder(a, b))
    [] op = "**" -> Number(Power(a, b))
    [] op = "<<" -> Number(Wrap(a * 2 ^ b))
    [] op = ">>" -> Number(a \div 2 ^ b)
    [] op = "|" -> Number(OfBits(Bits(a) \cup Bits(b)))
    [] op = "&" -> Number(OfBits(Bits(a) \cap Bits(b)))
    [] op = "^" -> Number(OfBits((Bits(a) \cup Bits(b)) \ (Bits(a) \cap Bits(b))))
    [] op = "<" -> Truth(a < b)
    [] op = "<=" -> Truth(a <= b)
    [] op = ">" -> Truth(a > b)
    [] op = ">=" -> Truth(a >= b)

BoolOp(op, a, b) ==
  CASE op = "|" -> Truth(a \/ b)
    [] op = "&" -> Truth(a /\ b)
    [] op = "^" -> Truth(a # b)

Comparisons == {"==", "!="}

\* An operator whose operands both have been evaluated.
Operation(op, v, w) ==
  CASE op = "==" -> Truth(v = w)
    [] op = "!=" -> Truth(v # w)
    [] op \notin Comparisons /\ v.k = "int" -> IntOp(op, v.n, w.n)
    [] op \notin Comparisons /\ v.k = "bool" -> BoolOp(op, v.b, w.b)

PrefixOperation(op, v) ==
  CASE op = "-" -> Number(Wrap(-v.n))
    [] op = "!" /\ v.k = "int" -> Number(-v.n - 1)
    [] op = "!" /\ v.k = "bool" -> Truth(~v.b)

\* Operands on which Go panics, or, where it looks, the VM reports an error.
Illegal(op, v, w) ==
  \/ op \in {"/", "%"} /\ w.n = 0
  \/ op \in {"<<", ">>"} /\ w.n < 0

DeepCast(v, t) ==
  CASE v.k = t -> v
    [] v.k = "bool" /\ t = "int" -> Number(IF v.b THEN 1 ELSE 0)
    [] v.k = "int" /\ t = "bool" -> Truth(v.n # 0)
=============================================================================
