----------------------------- MODULE ExprCode -----------------------------
(***************************************************************************)
(* The values of checked expressions: what the code CodeGen emits for an   *)
(* operation computes (code_gen_expr.cpp), and what CalcConstantExpr folds *)
(* the same operation to (calc.cpp).  The two are written apart, as they   *)
(* are in the code.                                                        *)
(***************************************************************************)
EXTENDS TypedExpr

(***************************************************************************)
(* CodeGen.  t is the type both operands have; the pointer's, if one is.   *)
(***************************************************************************)
NegOp(t, a) ==
  IF IsFloatPointTy(t) THEN (IF a = NaN THEN NaN ELSE Strict(a, a, -a))
  ELSE IF IsUnsigned(t) THEN ISub(0, a, Width(t)) ELSE NSWSub(0, a, Width(t))

LogicNotOp(t, a) == ICmpU("==", CastToBool(a, t), 0)

AddOp(t, a, b) ==
  CASE IsFloatPointTy(t) -> FOp("+", a, b)
    [] IsPointerTy(t) -> GEP(a, b, GetWidth(t.to))
    [] OTHER -> IF IsUnsigned(t) THEN IAdd(a, b, Width(t))
                                 ELSE NSWAdd(a, b, Width(t))

DivOp(t, a, b) ==
  CASE IsFloatPointTy(t) -> FOp("/", a, b)
    [] OTHER -> IF IsUnsigned(t) THEN UDiv(a, b) ELSE SDiv(a, b, Width(t))

\* Mutant: an offset is added, whatever its sign.
SubOpForward(t, r, a, b) ==
  CASE IsFloatPointTy(t) -> FOp("-", a, b)
    [] IsPointerTy(t) /\ ~IsPointerTy(r) -> GEP(a, b, GetWidth(t.to))
    [] OTHER -> ISub(a, b, Width(t))

(* Of two pointers: both as i64, the difference over the element size. *)
SubOp(t, r, a, b) ==
  CASE IsFloatPointTy(t) -> FOp("-", a, b)
    [] IsPointerTy(t) /\ ~IsPointerTy(r) ->
         GEP(a, ISub(0, b, Width(r)), GetWidth(t.to))
    [] IsPointerTy(t) /\ IsPointerTy(r) ->
         DivOp(ULongTy, ISub(a, b, Width(ULongTy)), GetWidth(t.to))
    [] OTHER -> IF IsUnsigned(t) THEN ISub(a, b, Width(t))
                                 ELSE NSWSub(a, b, Width(t))

MulOp(t, a, b) ==
  CASE IsFloatPointTy(t) -> FOp("*", a, b)
    [] OTHER -> IF IsUnsigned(t) THEN IMul(a, b, Width(t))
                                 ELSE NSWMul(a, b, Width(t))

ModOp(t, a, b) == IF IsUnsigned(t) THEN URem(a, b) ELSE SRem(a, b, Width(t))

BitOp(op, t, a, b) == BitByBit(op, a, b, Width(t))

ShlOp(t, a, b) == Shl(a, b, Width(t))
ShrOp(t, a, b) == IF IsUnsigned(t) THEN LShr(a, b, Width(t))
                                   ELSE AShr(a, b, Width(t))

RelationOp(op, t, a, b) ==
  CASE IsFloatPointTy(t) -> FCmpO(op, a, b)
    [] IsPointerTy(t) \/ IsUnsigned(t) -> ICmpU(op, a, b)
    [] OTHER -> ICmpS(op, a, b, Width(t))

EqualityOp(op, t, a, b) ==
  IF IsFloatPointTy(t) THEN FCmpO(op, a, b) ELSE ICmpU(op, a, b)

LogicOrOp(l, r) ==
  LET lhs == IF Decided(l.k) THEN Flag(l.k # 0) ELSE l.br
  IN  IF lhs = 0 THEN CastToBool(r.val, r.ty) ELSE lhs

(* A constant on the left is asked whether it is one, not whether it is    *)
(* other than zero; a floating constant never is.                          *)
LogicAndOp(l, r) ==
  LET lhs == IF Decided(l.k) THEN Flag(l.k = 1 /\ ~IsFloatPointTy(l.ty)) ELSE l.br
  IN  IF lhs = 1 THEN CastToBool(r.val, r.ty) ELSE lhs

BinaryCode(op, l, r) ==
  CASE op = "+" -> AddOp(l.ty, l.val, r.val)
    [] op = "-" -> SubOp(l.ty, r.ty, l.val, r.val)
    [] op = "*" -> MulOp(l.ty, l.val, r.val)
    [] op = "/" -> DivOp(l.ty, l.val, r.val)
    [] op = "%" -> ModOp(l.ty, l.val, r.val)
    [] op \in Bitwises -> BitOp(op, l.ty, l.val, r.val)
    [] op = "<<" -> ShlOp(l.ty, l.val, r.val)
    [] op = ">>" -> ShrOp(l.ty, l.val, r.val)
    [] op \in Relations -> RelationOp(op, l.ty, l.val, r.val)
    [] op \in Equalities -> EqualityOp(op, l.ty, l.val, r.val)
    [] op = "&&" -> LogicAndOp(l, r)
    [] op = "||" -> LogicOrOp(l, r)
    [] op \in {",", "="} -> r.val

(* A constant condition chooses; a select takes a value, a branch branches. *)
ConditionOp(c, l, r) ==
  LET cheap == l.form = "literal" /\ r.form = "literal"
      cond == IF Decided(c.k) THEN Flag(c.k # 0)
              ELSE IF cheap THEN CastToBool(c.val, c.ty) ELSE c.br
  IN  CASE cond = 1 -> l.val
        [] cond = 0 -> r.val
        [] OTHER -> Poison

(* EmitBranchOnBoolExpr takes these four apart, and asks Calc of none. *)
BranchAnd(l, r) == IF l.br = 1 THEN r.br ELSE l.br
BranchOr(l, r) == IF l.br = 0 THEN r.br ELSE l.br
\* Mutant: the targets are not exchanged.
BranchNotAsIs(x) == x.br
BranchNot(x) == IF x.br = Poison THEN Poison ELSE 1 - x.br
\* Mutant: the two sides are exchanged.
BranchConditionSwapped(c, l, r) ==
  CASE c.br = 1 -> r.br [] c.br = 0 -> l.br [] OTHER -> Poison
BranchCondition(c, l, r) ==
  CASE c.br = 1 -> l.br [] c.br = 0 -> r.br [] OTHER -> Poison

(* A load of what an lvalue names; arrays and functions stay where they     *)
(* are.  So does a record that is named; Deref loads one, but no operator   *)
(* looks into a record, and p stands for its place and for what is in it.   *)
Load(p, ty) ==
  LET found == {c \in Cells : c.addr = p /\ Equal(c.ty, ty)}
  IN  IF ty.k \in {"array", "func", "record"} THEN p
      ELSE IF found = {} THEN Poison ELSE (CHOOSE c \in found : TRUE).val

Deref(x) == Load(x.val, x.ty.to)

(* IncOrDec: the value after, from the value before. *)
One(t) == IF IsFloatPointTy(t) THEN 2 ELSE 1
IncOrDec(t, v, inc) ==
  AddOp(t, v, IF inc THEN One(t)
              ELSE NegOp(IF IsPointerTy(t) THEN LongTy ELSE t, One(t)))

(***************************************************************************)
(* CalcConstantExpr.  LLVM folds constants without poison for an overflow. *)
(***************************************************************************)
KNeg(t, a) ==
  IF IsFloatPointTy(t) THEN (IF a = NaN THEN NaN ELSE -a)
  ELSE ISub(0, a, Width(t))
KLogicNot(t, a) == 1 - ConstantCastToBool(a, t)
\* Mutant: an index is not scaled.
KAddUnscaled(t, a, b) ==
  IF IsFloatPointTy(t) THEN FOp("+", a, b)
  ELSE IF IsPointerTy(t) THEN GEP(a, b, 1) ELSE IAdd(a, b, Width(t))
KAdd(t, a, b) ==
  CASE IsFloatPointTy(t) -> FOp("+", a, b)
    [] IsPointerTy(t) -> GEP(a, b, GetWidth(t.to))
    [] OTHER -> IAdd(a, b, Width(t))
KDiv(t, a, b) ==
  CASE IsFloatPointTy(t) -> FOp("/", a, b)
    [] OTHER -> IF IsUnsigned(t) THEN UDiv(a, b) ELSE SDiv(a, b, Width(t))
KSub(t, r, a, b) ==
  CASE IsFloatPointTy(t) -> FOp("-", a, b)
    [] IsPointerTy(t) /\ ~IsPointerTy(r) ->
         GEP(a, KNeg(r, b), GetWidth(t.to))
    [] IsPointerTy(t) /\ IsPointerTy(r) -> Symbolic
    [] OTHER -> ISub(a, b, Width(t))
KMul(t, a, b) ==
  IF IsFloatPointTy(t) THEN FOp("*", a, b) ELSE IMul(a, b, Width(t))
KMod(t, a, b) == IF IsUnsigned(t) THEN URem(a, b) ELSE SRem(a, b, Width(t))
KBit(op, t, a, b) == BitOp(op, t, a, b)
KShift(op, t, a, b) ==
  CASE op = "<<" -> Shl(a, b, Width(t))
    [] op = ">>" -> IF IsUnsigned(t) THEN LShr(a, b, Width(t))
                                     ELSE AShr(a, b, Width(t))
\* Mutant: is_unsigned is not asked.
KRelationUnsigned(op, t, a, b) ==
  IF IsFloatPointTy(t) THEN FCmpO(op, a, b) ELSE ICmpU(op, a, b)
KRelation(op, t, a, b) ==
  CASE IsFloatPointTy(t) -> FCmpO(op, a, b)
    [] IsIntegerOrBoolTy(t) /\ ~IsUnsigned(t) -> ICmpS(op, a, b, Width(t))
    [] OTHER -> ICmpU(op, a, b)
KEquality(op, t, a, b) ==
  IF IsFloatPointTy(t) THEN FCmpO(op, a, b) ELSE ICmpU(op, a, b)
KLogicOr(l, r) == IF l.k = 0 THEN Flag(r.k # 0) ELSE 1
KLogicAnd(l, r) == IF l.k = 0 THEN 0 ELSE Flag(r.k # 0)

(* Visit(BinaryOpExpr): the left constant, then the right, then the fold.  *)
BinaryConstant(op, l, r) ==
  CASE ~Decided(l.k) -> l.k
    [] Decided(l.k) /\ ~Decided(r.k) -> r.k
    [] Symbolic \in {l.k, r.k} /\ op \notin Logicals \cup {",", "="} -> Symbolic
    [] OTHER ->
       CASE op = "+" -> KAdd(l.ty, l.k, r.k)
         [] op = "-" -> KSub(l.ty, r.ty, l.k, r.k)
         [] op = "*" -> KMul(l.ty, l.k, r.k)
         [] op = "/" -> IF r.k = 0 THEN DivByZero ELSE KDiv(l.ty, l.k, r.k)
         [] op = "%" -> IF r.k = 0 THEN DivByZero ELSE KMod(l.ty, l.k, r.k)
         [] op \in Bitwises -> KBit(op, l.ty, l.k, r.k)
         [] op \in Shifts -> KShift(op, l.ty, l.k, r.k)
         [] op \in Relations -> KRelation(op, l.ty, l.k, r.k)
         [] op \in Equalities -> KEquality(op, l.ty, l.k, r.k)
         [] op = "&&" -> KLogicAnd(l, r)
         [] op = "||" -> KLogicOr(l, r)
         [] op \in {",", "="} -> NotConst

ConditionConstant(c, l, r) ==
  IF ~Decided(c.k) THEN c.k ELSE IF c.k = 0 THEN r.k ELSE l.k
===========================================================================
