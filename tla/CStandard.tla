----------------------------- MODULE CStandard -----------------------------
(***************************************************************************)
(* What C asks of an expression, stated apart from the code: which ones    *)
(* are valid, the type they have and, where C defines it, their value.     *)
(* Values are numbers, not patterns: an integer is itself, a floating      *)
(* value its number of halves, a pointer the address it holds.             *)
(*                                                                         *)
(*   ty, const, lv  as an expression   ice  an integer constant expression *)
(*   npc   a null pointer constant     addr the address of an lvalue       *)
(*   val   the value, or Undef         ok   FALSE: it breaks a constraint  *)
(***************************************************************************)
EXTENDS CTypes, FiniteSetsExt

CONSTANT Objects      \* the objects in memory: [addr, ty, elems], the values
                      \* of an object's elements in order

Undef == -2000000     \* C does not define the value
NoPlace == -1

CExpr(ty, val) ==
  [ty |-> ty, const |-> FALSE, lv |-> FALSE, ice |-> FALSE, npc |-> FALSE,
   addr |-> NoPlace, val |-> val, ok |-> TRUE]
CInvalid == [CExpr(VoidTy, Undef) EXCEPT !.ok = FALSE]
Demand(valid, c) == IF valid THEN c ELSE CInvalid

(* The values of a type, and bringing a number among them. *)
MinOf(t) ==
  IF IsBoolTy(t) \/ "unsigned" \in t.spec THEN 0 ELSE -(2 ^ (Bits[Base(t)] - 1))
MaxOf(t) == IF IsBoolTy(t) THEN 1 ELSE MaxIntegerValue(t)
Fits(v, t) == MinOf(t) <= v /\ v <= MaxOf(t)
InType(v, t) ==
  LET n == MaxOf(t) - MinOf(t) + 1 IN ((v - MinOf(t)) % n) + MinOf(t)
Whole(v) == IF v >= 0 THEN v \div 2 ELSE -((-v) \div 2)
AddressRange == 0 .. 2 ^ Bits["long"] - 1

(* 6.3.1 and 6.3.2: conversion of a value. *)
CConvert(v, from, to) ==
  CASE v = Undef \/ IsVoidTy(to) -> Undef
    [] v # Undef /\ IsBoolTy(to) -> IF v = 0 THEN 0 ELSE 1
    [] v # Undef /\ IsIntegerTy(to) /\ IsFloatPointTy(from) ->
         IF Fits(Whole(v), to) THEN Whole(v) ELSE Undef
    [] v # Undef /\ IsIntegerTy(to) /\ ~IsFloatPointTy(from) -> InType(v, to)
    [] v # Undef /\ IsFloatPointTy(to) -> IF IsFloatPointTy(from) THEN v ELSE 2 * v
    [] v # Undef /\ IsPointerTy(to) -> IF v \in AddressRange THEN v ELSE Undef
    [] OTHER -> v

(* 6.3.2.1: an array or a function as an operand is a pointer to it. *)
CDecay(c) ==
  IF c.ty.k \in {"array", "func"}
  THEN [c EXCEPT !.ty = Decayed(c.ty), !.lv = FALSE, !.val = c.addr]
  ELSE c

(* 6.3.1.1, 6.3.1.8: the promotions and the common type. *)
CPromoted(t) ==
  IF ~IsFloatPointTy(t) /\ MinOf(IntTy) <= MinOf(t) /\ MaxOf(t) <= MaxOf(IntTy)
  THEN IntTy ELSE t
Unsigned(t) == Basic(t.spec \cup {"unsigned"})
CCommon(a, b) ==
  IF IsFloatPointTy(a) \/ IsFloatPointTy(b)
  THEN Higher(a, b)
  ELSE LET p == CPromoted(a)
           q == CPromoted(b)
           hi == Higher(p, q)
           uns == {t \in {p, q} : IsUnsigned(t)}
       IN  IF \/ uns \in {{}, {hi}}
              \/ \A t \in uns : MaxOf(t) <= MaxOf(hi)
           THEN hi
           ELSE Unsigned(hi)

(* 6.5.5 to 6.5.12 on values of the common type. *)
ToDouble == {"+", "-", "*", "/"}
Size(v) == IF v < 0 THEN -v ELSE v
CQuotient(a, b) ==
  (IF (a < 0) = (b < 0) THEN 1 ELSE -1) * (Size(a) \div Size(b))
OneBits(v, t) == {i \in 0 .. Bits[Base(t)] - 1 : (v \div 2 ^ i) % 2 = 1}
FromBits(B, t) == InType(MapThenSumSet(LAMBDA i : 2 ^ i, B), t)
InRange(v, t) ==
  CASE IsUnsigned(t) -> InType(v, t)
    [] ~IsUnsigned(t) -> IF Fits(v, t) THEN v ELSE Undef
CInteger(op, t, a, b) ==
  CASE op = "+" -> InRange(a + b, t)
    [] op = "-" -> InRange(a - b, t)
    [] op = "*" -> InRange(a * b, t)
    [] op = "/" -> IF b = 0 THEN Undef ELSE InRange(CQuotient(a, b), t)
    [] op = "%" -> IF b = 0 \/ InRange(CQuotient(a, b), t) = Undef THEN Undef
                   ELSE a - b * CQuotient(a, b)
    [] op = "&" -> FromBits(OneBits(a, t) \cap OneBits(b, t), t)
    [] op = "|" -> FromBits(OneBits(a, t) \cup OneBits(b, t), t)
    [] op = "^" -> FromBits((OneBits(a, t) \cup OneBits(b, t)) \
                            (OneBits(a, t) \cap OneBits(b, t)), t)
CDouble(op, a, b) ==
  CASE op = "+" -> a + b
    [] op = "-" -> a - b
    [] op = "*" -> (a * b) \div 2
    [] op = "/" -> IF b = 0 THEN Undef ELSE CQuotient(2 * a, b)
COp(op, t, a, b) ==
  IF a = Undef \/ b = Undef THEN Undef
  ELSE IF IsFloatPointTy(t) THEN CDouble(op, a, b) ELSE CInteger(op, t, a, b)

CShift(op, t, a, n) ==
  CASE a = Undef \/ n = Undef -> Undef
    [] a # Undef /\ n # Undef ->
         IF n \notin 0 .. Bits[Base(t)] - 1 THEN Undef
         ELSE IF op = ">>" THEN a \div 2 ^ n
         ELSE IF a < 0 THEN Undef ELSE InRange(a * 2 ^ n, t)

Truth(p) == IF p THEN 1 ELSE 0
CCompare(op, a, b) ==
  IF a = Undef \/ b = Undef THEN Undef
  ELSE Truth(CASE op = "<" -> a < b
               [] op = "<=" -> a <= b
               [] op = ">" -> a > b
               [] op = ">=" -> a >= b
               [] op = "==" -> a = b
               [] op = "!=" -> a # b)

(* 6.5.6: addresses within one object, or just past its end. *)
Within(o) == o.addr .. o.addr + GetWidth(o.ty)
SameObject(a, b) == \E o \in Objects : {a, b} \subseteq Within(o)
CMove(p, t, n) ==
  IF p = Undef \/ n = Undef THEN Undef
  ELSE LET q == p + n * GetWidth(t.to)
       IN  IF SameObject(p, q) THEN q ELSE Undef
CDistance(t, p, q) ==
  IF p # Undef /\ q # Undef /\ SameObject(p, q)
  THEN CQuotient(p - q, GetWidth(t.to)) ELSE Undef

(* What an lvalue of a type holds. *)
CLoad(p, t) ==
  LET here == {o \in Objects : p \in Within(o) /\ p < o.addr + GetWidth(o.ty)}
      at(o) == (p - o.addr) \div GetWidth(t)
  IN  IF t.k \in {"array", "func", "record"} THEN p
      ELSE IF p = Undef \/ here = {} THEN Undef
      ELSE LET o == CHOOSE o \in here : TRUE
               elem == IF o.ty.k = "array" THEN o.ty.of ELSE o.ty
           IN  IF Equal(elem, t) /\ at(o) + 1 \in DOMAIN o.elems
               THEN o.elems[at(o) + 1] ELSE Undef
CLValue(p, t, const) ==
  [CExpr(t, CLoad(p, t)) EXCEPT !.lv = TRUE, !.const = const, !.addr = p]

(***************************************************************************)
(* Unary operators and casts.                                              *)
(***************************************************************************)
Ice(c, from) == [c EXCEPT !.ice = from, !.npc = from /\ c.val = 0]
IsObjectPointer(t) == IsPointerTy(t) /\ IsComplete(t.to)
CIsInteger(t) == IsIntegerOrBoolTy(t)

CUnary(op, c0) ==
  LET c == CDecay(c0)
      t == CPromoted(c.ty)
  IN  CASE op = "+" /\ IsArithmeticTy(c.ty) -> Ice(CExpr(t, c.val), c.ice)
        [] op = "-" /\ IsArithmeticTy(c.ty) ->
             Ice(CExpr(t, COp("-", t, 0, c.val)), c.ice)
        [] op = "~" /\ CIsInteger(c.ty) ->
             Ice(CExpr(t, IF c.val = Undef THEN Undef ELSE InType(-c.val - 1, t)),
                 c.ice)
        [] op = "!" /\ IsScalarTy(c.ty) ->
             Ice(CExpr(IntTy, CCompare("==", c.val, 0)), c.ice)
        [] op = "*" /\ IsPointerTy(c.ty) -> CLValue(c.val, c.ty.to, c.ty.const)
        [] op = "&" /\ (c0.lv \/ c0.ty.k = "func") ->
             CExpr(PointerTo(c0.ty, c0.const), c0.addr)
        [] OTHER -> CInvalid

CCast(c0, to) ==
  LET c == CDecay(c0)
  IN  Demand(\/ IsVoidTy(to)
             \/ /\ IsScalarTy(to) /\ IsScalarTy(c.ty)
                /\ {IsFloatPointTy(to), IsPointerTy(c.ty)} # {TRUE}
                /\ {IsPointerTy(to), IsFloatPointTy(c.ty)} # {TRUE},
             LET d == CExpr(to, CConvert(c.val, c.ty, to))
             IN  [d EXCEPT !.ice = c.ice /\ CIsInteger(to),
                           !.npc = /\ c.ice /\ d.val = 0
                                   /\ CIsInteger(to) \/ Equal(to, PointerTo(VoidTy, FALSE))])

CSizeOf(c) == Demand(IsComplete(c.ty), Ice(CExpr(ULongTy, GetWidth(c.ty)), TRUE))

(***************************************************************************)
(* Binary operators.                                                       *)
(***************************************************************************)
CArithmetic(op, l, r) ==
  LET t == CCommon(l.ty, r.ty)
  IN  Ice(CExpr(t, COp(op, t, CConvert(l.val, l.ty, t), CConvert(r.val, r.ty, t))),
          l.ice /\ r.ice)
CComparison(op, l, r) ==
  LET t == CCommon(l.ty, r.ty)
  IN  Ice(CExpr(IntTy, CCompare(op, CConvert(l.val, l.ty, t),
                                CConvert(r.val, r.ty, t))), l.ice /\ r.ice)
VoidAndObject(a, b) ==
  IsVoidTy(a.to) # IsVoidTy(b.to) /\ {a.to.k, b.to.k} \cap {"func"} = {}

CBinary(op, l0, r0) ==
  LET l == CDecay(l0)
      r == CDecay(r0)
      numbers == IsArithmeticTy(l.ty) /\ IsArithmeticTy(r.ty)
      integers == CIsInteger(l.ty) /\ CIsInteger(r.ty)
      pointers == IsPointerTy(l.ty) /\ IsPointerTy(r.ty)
      ice == l.ice /\ r.ice
  IN  CASE op \in ToDouble /\ numbers -> CArithmetic(op, l, r)
        [] op \in {"%", "&", "|", "^"} /\ integers -> CArithmetic(op, l, r)
        [] op \in {"<<", ">>"} /\ integers ->
             LET t == CPromoted(l.ty)
             IN  Ice(CExpr(t, CShift(op, t, l.val, r.val)), ice)
        [] op \in {"<", "<=", ">", ">=", "==", "!="} /\ numbers ->
             CComparison(op, l, r)
        [] op = "+" /\ IsPointerTy(l.ty) /\ CIsInteger(r.ty) ->
             Demand(IsObjectPointer(l.ty), CExpr(l.ty, CMove(l.val, l.ty, r.val)))
        [] op = "+" /\ CIsInteger(l.ty) /\ IsPointerTy(r.ty) ->
             Demand(IsObjectPointer(r.ty), CExpr(r.ty, CMove(r.val, r.ty, l.val)))
        [] op = "-" /\ IsPointerTy(l.ty) /\ CIsInteger(r.ty) ->
             Demand(IsObjectPointer(l.ty),
                    CExpr(l.ty, IF r.val = Undef THEN Undef
                                ELSE CMove(l.val, l.ty, -r.val)))
        [] op = "-" /\ pointers ->
             Demand(IsObjectPointer(l.ty) /\ Compatible(l.ty, r.ty),
                    CExpr(LongTy, CDistance(l.ty, l.val, r.val)))
        [] op \in {"<", "<=", ">", ">="} /\ pointers ->
             Demand(Compatible(l.ty, r.ty) /\ ~IsFunctionTy(l.ty.to),
                    CExpr(IntTy, IF SameObject(l.val, r.val)
                                 THEN CCompare(op, l.val, r.val) ELSE Undef))
        [] op \in {"==", "!="} /\ pointers ->
             Demand(\/ Compatible(l.ty, r.ty) \/ VoidAndObject(l.ty, r.ty)
                    \/ l.npc \/ r.npc,
                    CExpr(IntTy, CCompare(op, l.val, r.val)))
        [] op \in {"==", "!="} /\ <<IsPointerTy(l.ty), r.npc>> = <<TRUE, TRUE>> ->
             CExpr(IntTy, CCompare(op, l.val, r.val))
        [] op \in {"==", "!="} /\ <<l.npc, IsPointerTy(r.ty)>> = <<TRUE, TRUE>> ->
             CExpr(IntTy, CCompare(op, l.val, r.val))
        [] op \in {"&&", "||"} /\ IsScalarTy(l.ty) /\ IsScalarTy(r.ty) ->
             LET decided == IF op = "&&" THEN l.val = 0 ELSE l.val # 0
             IN  Ice(CExpr(IntTy, IF l.val = Undef THEN Undef
                                  ELSE IF decided THEN Truth(op = "||")
                                  ELSE CCompare("!=", r.val, 0)), ice)
        [] op = "," -> CExpr(r.ty, IF l.val = Undef /\ ~IsVoidTy(l.ty)
                                   THEN Undef ELSE r.val)
        [] OTHER -> CInvalid

(* 6.5.15: the conditional operator. *)
CConditionType(l, r) ==
  CASE IsArithmeticTy(l.ty) /\ IsArithmeticTy(r.ty) -> CCommon(l.ty, r.ty)
    [] IsPointerTy(l.ty) /\ r.npc -> l.ty
    [] IsPointerTy(r.ty) /\ l.npc -> r.ty
    [] IsPointerTy(l.ty) /\ IsPointerTy(r.ty) /\ ~l.npc /\ ~r.npc ->
         IF Compatible(l.ty, r.ty) THEN l.ty
         ELSE IF VoidAndObject(l.ty, r.ty) THEN PointerTo(VoidTy, FALSE)
         ELSE NoType
    [] l.ty.k \in {"void", "record"} /\ Equal(l.ty, r.ty) -> l.ty
    [] OTHER -> NoType
CCondition(b0, l0, r0) ==
  LET b == CDecay(b0)
      l == CDecay(l0)
      r == CDecay(r0)
      t == CConditionType(l, r)
      taken == IF b.val = 0 THEN r ELSE l
      ice == b.ice /\ l.ice /\ r.ice
  IN  Demand(IsScalarTy(b.ty) /\ t # NoType,
             Ice(CExpr(t, IF b.val = Undef THEN Undef
                          ELSE CConvert(taken.val, taken.ty, t)), ice))

(***************************************************************************)
(* Assignment, its two shorthands and arguments.                           *)
(***************************************************************************)
CAssignable(to, c) ==
  CASE IsArithmeticTy(to) /\ IsArithmeticTy(c.ty) -> TRUE
    [] IsBoolTy(to) /\ IsPointerTy(c.ty) -> TRUE
    [] IsPointerTy(to) /\ c.npc -> TRUE
    [] IsPointerTy(to) /\ IsPointerTy(c.ty) /\ ~c.npc ->
         /\ Compatible(to, c.ty) \/ VoidAndObject(to, c.ty)
         /\ c.ty.const => to.const
    [] OTHER -> Equal(to, c.ty) /\ to.k = "record"

CStored(to, c0) ==
  LET c == CDecay(c0)
  IN  Demand(CAssignable(to, c), CExpr(to, CConvert(c.val, c.ty, to)))

CAssign(l, r) == Demand(l.lv /\ ~l.const /\ l.ty.k # "array", CStored(l.ty, r))

CPlusOne(op, c) == CBinary(op, c, Ice(CExpr(IntTy, 1), TRUE))
CMoved(c, moved) ==
  Demand(c.lv /\ ~c.const /\ moved.ok /\ c.ty.k # "array",
         CExpr(c.ty, CConvert(moved.val, moved.ty, c.ty)))

(* 6.5.2.2: an argument beyond the parameters is promoted. *)
CArgument(c0, params, i) ==
  LET c == CDecay(c0)
      t == IF IsFloatTy(c.ty) THEN DoubleTy
           ELSE IF IsArithmeticTy(c.ty) THEN CPromoted(c.ty) ELSE c.ty
  IN  IF i <= Len(params) THEN CStored(params[i], c)
      ELSE CExpr(t, CConvert(c.val, c.ty, t))
===========================================================================
