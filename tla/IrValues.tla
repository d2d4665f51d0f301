----------------------------- MODULE IrValues -----------------------------
(***************************************************************************)
(* What LLVM computes, as far as the generated code uses it.  The value of *)
(* an integer or a pointer is its bit pattern, a number from 0 up; that of *)
(* a floating type is a number of halves, exact.  Some numbers no pattern  *)
(* and no number of halves reaches stand for what is not a value.          *)
(***************************************************************************)
EXTENDS CTypes

Poison == -1000000      \* LLVM's poison or undef, or an operation it traps
NaN == -1000001         \* not a number
IsNumber(v) == v > -900000

(* The width of the LLVM integer a type becomes: i1 for _Bool, and the     *)
(* pointer's for what is an address.                                       *)
Width(t) ==
  CASE IsBoolTy(t) -> 1
    [] IsIntegerTy(t) -> Bits[Base(t)]
    [] OTHER -> Bits["long"]

Pattern(v, w) == v % (2 ^ w)
Signed(p, w) == IF p >= 2 ^ (w - 1) THEN p - 2 ^ w ELSE p

(* v, or poison when an operand is poison. *)
Strict(a, b, v) == IF a = Poison \/ b = Poison THEN Poison ELSE v

InSigned(v, w) == v \in -(2 ^ (w - 1)) .. 2 ^ (w - 1) - 1

Toward0(a, b) ==
  LET q == (IF a < 0 THEN -a ELSE a) \div (IF b < 0 THEN -b ELSE b)
  IN  IF (a < 0) = (b < 0) THEN q ELSE -q

(* Widening and narrowing, to and from floating types. *)
ZExtOrTrunc(v, to) == Strict(v, v, Pattern(v, to))
SExtOrTrunc(v, from, to) == Strict(v, v, Pattern(Signed(v, from), to))
UIToFP(v) == Strict(v, v, 2 * v)
SIToFP(v, from) == Strict(v, v, 2 * Signed(v, from))
FPToSI(v, to) ==
  IF IsNumber(v) /\ InSigned(Toward0(v, 2), to)
  THEN Pattern(Toward0(v, 2), to) ELSE Poison
FPToUI(v, to) ==
  IF IsNumber(v) /\ Toward0(v, 2) \in 0 .. 2 ^ to - 1
  THEN Toward0(v, 2) ELSE Poison

(* Integer arithmetic; nsw makes a signed overflow poison. *)
Wrapped(v, w) == Pattern(v, w)
NoWrap(v, w) == IF InSigned(v, w) THEN Pattern(v, w) ELSE Poison
IAdd(a, b, w) == Strict(a, b, Wrapped(a + b, w))
ISub(a, b, w) == Strict(a, b, Wrapped(a - b, w))
IMul(a, b, w) == Strict(a, b, Wrapped(a * b, w))
NSWAdd(a, b, w) == Strict(a, b, NoWrap(Signed(a, w) + Signed(b, w), w))
NSWSub(a, b, w) == Strict(a, b, NoWrap(Signed(a, w) - Signed(b, w), w))
NSWMul(a, b, w) == Strict(a, b, NoWrap(Signed(a, w) * Signed(b, w), w))
UDiv(a, b) == IF b = 0 THEN Poison ELSE Strict(a, b, a \div b)
URem(a, b) == IF b = 0 THEN Poison ELSE Strict(a, b, a % b)
SDiv(a, b, w) ==
  IF b = 0 THEN Poison
  ELSE Strict(a, b, NoWrap(Toward0(Signed(a, w), Signed(b, w)), w))
SRem(a, b, w) ==
  IF SDiv(a, b, w) = Poison THEN Poison
  ELSE Pattern(Signed(a, w) - Signed(b, w) * Signed(SDiv(a, b, w), w), w)

(* Bit by bit: Having(op) are the pairs of bits whose result is a one. *)
Bit(v, i) == (v \div 2 ^ i) % 2
Having(op) ==
  CASE op = "&" -> {<<1, 1>>}
    [] op = "|" -> {<<0, 1>>, <<1, 0>>, <<1, 1>>}
    [] op = "^" -> {<<0, 1>>, <<1, 0>>}
BitByBit(op, a, b, w) ==
  LET Low[i \in 0 .. w] ==
        IF i = 0 THEN 0
        ELSE Low[i - 1] +
             (IF <<Bit(a, i - 1), Bit(b, i - 1)>> \in Having(op) THEN 2 ^ (i - 1) ELSE 0)
  IN  Strict(a, b, Low[w])
Shl(a, b, w) == IF b >= w THEN Poison ELSE Strict(a, b, Pattern(a * 2 ^ b, w))
LShr(a, b, w) == IF b >= w THEN Poison ELSE Strict(a, b, a \div 2 ^ b)
AShr(a, b, w) ==
  IF b >= w THEN Poison ELSE Strict(a, b, Pattern(Signed(a, w) \div 2 ^ b, w))

(* Comparisons give an i1.  An ordered comparison of a NaN is false. *)
Flag(p) == IF p THEN 1 ELSE 0
Holds(op, a, b) ==
  CASE op = "<" -> a < b
    [] op = "<=" -> a <= b
    [] op = ">" -> a > b
    [] op = ">=" -> a >= b
    [] op = "==" -> a = b
    [] op = "!=" -> a # b
ICmpU(op, a, b) == Strict(a, b, Flag(Holds(op, a, b)))
ICmpS(op, a, b, w) == Strict(a, b, Flag(Holds(op, Signed(a, w), Signed(b, w))))
FCmpO(op, a, b) ==
  Strict(a, b, Flag(a # NaN /\ b # NaN /\ Holds(op, a, b)))

(* Floating arithmetic, where the exact result is a number of halves. *)
Exact(op, a, b) ==
  CASE op = "*" -> (a * b) % 2 = 0
    [] op = "/" -> b # 0 /\ IsNumber(a) /\ IsNumber(b) =>
                     2 * a = Toward0(2 * a, b) * b
    [] OTHER -> TRUE
FOp(op, a, b) ==
  IF a = NaN \/ b = NaN THEN NaN
  ELSE Strict(a, b, CASE op = "+" -> a + b
                      [] op = "-" -> a - b
                      [] op = "*" -> (a * b) \div 2
                      [] op = "/" -> IF b = 0 THEN NaN ELSE Toward0(2 * a, b))

(* An address moved over n elements of a type, n an i64. *)
GEP(p, n, size) ==
  Strict(p, n, Pattern(p + Signed(n, Bits["long"]) * size, Bits["long"]))
===========================================================================
