----------------------------- MODULE TypedExpr -----------------------------
(***************************************************************************)
(* Expressions as they are built: MakeAstNode constructs a node over nodes *)
(* already checked, and Check (ast.cpp) refuses it or gives it its type    *)
(* and its operands their conversions.  As a node never changes after      *)
(* that, the value the generated code computes for it (code_gen_expr.cpp)  *)
(* and the constant calc.cpp folds it to are fields of the node.           *)
(*                                                                         *)
(*   ty, const  its QualType         lv   whether it is an lvalue          *)
(*   form       "literal" (a ConstantExpr), "plus" (a sum) or "other"      *)
(*   val        the run-time value   k    what Calc returns for it         *)
(*   addr       where it is          ak   what Calc returns for its address*)
(*   br         1 or 0: which way a branch on it goes                      *)
(*   pair       the types its two operands have once they are converted    *)
(*   ok         FALSE when Error refused it, or an assertion stopped kcc   *)
(***************************************************************************)
EXTENDS IrValues

CONSTANT Cells          \* what memory holds: [addr, ty, val] of each scalar

Nowhere == -1
NotConst == -1000002    \* Calc throws: not a constant expression
DivByZero == -1000003   \* Calc calls Error
NoStorage == -1000004   \* Calc asserts that an object has static storage
Symbolic == -1000005    \* Calc has an expression over an address, unfolded

(* Calc returned something, and whether isZeroValue says it is zero. *)
Decided(k) == IsNumber(k) \/ k \in {NaN, Symbolic}
Stops(k) == k \in {DivByZero, NoStorage}

Refused(x) == [x EXCEPT !.ok = FALSE, !.k = NotConst]
Stopped(x, k) == [x EXCEPT !.ok = FALSE, !.k = k]

IsAddress(t) == t.k \in {"ptr", "array", "func", "record"}

(***************************************************************************)
(* Conversions: CastTo for the code, ConstantCastTo for constants.         *)
(***************************************************************************)
CastToBool(v, from) ==
  CASE IsBoolTy(from) -> v
    [] IsIntegerTy(from) \/ IsAddress(from) -> ICmpU("!=", v, 0)
    [] IsFloatPointTy(from) -> FCmpO("!=", v, 0)
    [] OTHER -> Poison

CastTo(v, from, to) ==
  CASE IsBoolTy(to) -> CastToBool(v, from)
    [] IsIntegerOrBoolTy(from) /\ IsIntegerTy(to) ->
         IF IsUnsigned(from) THEN ZExtOrTrunc(v, Width(to))
                             ELSE SExtOrTrunc(v, Width(from), Width(to))
    [] IsIntegerOrBoolTy(from) /\ IsFloatPointTy(to) ->
         IF IsUnsigned(from) THEN UIToFP(v) ELSE SIToFP(v, Width(from))
    [] IsFloatPointTy(from) /\ IsIntegerTy(to) ->
         IF IsUnsigned(from) THEN FPToUI(v, Width(to)) ELSE FPToSI(v, Width(to))
    [] IsAddress(from) /\ IsIntegerTy(to) -> ZExtOrTrunc(v, Width(to))
    [] IsIntegerOrBoolTy(from) /\ IsPointerTy(to) -> ZExtOrTrunc(v, Width(to))
    [] OTHER -> v

ConstantCastToBool(v, from) ==
  IF IsBoolTy(from) THEN v
  ELSE IF IsFloatPointTy(from) THEN FCmpO("!=", v, 0) ELSE ICmpU("!=", v, 0)

ConstantCastTo(v, from, to) ==
  CASE ~IsNumber(v) -> v
    [] IsNumber(v) /\ IsBoolTy(to) -> ConstantCastToBool(v, from)
    [] IsNumber(v) /\ IsIntegerOrBoolTy(from) /\ IsIntegerTy(to) ->
         IF Width(from) > Width(to) \/ IsUnsigned(from)
         THEN ZExtOrTrunc(v, Width(to))
         ELSE SExtOrTrunc(v, Width(from), Width(to))
    [] IsNumber(v) /\ IsIntegerOrBoolTy(from) /\ IsFloatPointTy(to) ->
         IF IsUnsigned(from) THEN UIToFP(v) ELSE SIToFP(v, Width(from))
    [] IsNumber(v) /\ IsFloatPointTy(from) /\ IsIntegerTy(to) ->
         FPToSI(v, Width(to))
    [] IsNumber(v) /\ IsAddress(from) /\ IsIntegerTy(to) ->
         IF v = 0 THEN 0 ELSE Symbolic
    [] IsNumber(v) /\ IsIntegerOrBoolTy(from) /\ IsPointerTy(to) ->
         ZExtOrTrunc(v, Width(to))
    [] OTHER -> v

Node(ty, form, val, k) ==
  [ty |-> ty, const |-> FALSE, lv |-> FALSE, form |-> form, val |-> val,
   k |-> k, addr |-> Nowhere, ak |-> NotConst, br |-> CastToBool(val, ty),
   pair |-> <<>>, ok |-> TRUE]

(* TypeCastExpr, checked: no conversion between pointers and floats. *)
TypeCast(x, to) ==
  IF \/ IsFloatPointTy(to) /\ IsPointerTy(x.ty)
     \/ IsPointerTy(to) /\ IsFloatPointTy(x.ty)
  THEN Refused(x)
  ELSE [Node(to, "other", CastTo(x.val, x.ty, to),
             ConstantCastTo(x.k, x.ty, to)) EXCEPT !.ok = x.ok]

MayCast(x) ==
  IF x.ty.k \in {"func", "array"} THEN TypeCast(x, Decayed(x.ty)) ELSE x

CastUnlessEqual(x, to) == IF Equal(x.ty, to) THEN x ELSE TypeCast(x, to)
MayCastTo(x, to) == CastUnlessEqual(MayCast(x), to)

IsZero(x) == x.form = "literal" /\ IsIntegerTy(x.ty) /\ x.val = 0

(* What a Check leaves: the operands, converted, and the type. *)
Checked(l, r, ty) == [l |-> l, r |-> r, ty |-> ty, ok |-> l.ok /\ r.ok]
CheckFails(l, r) == [l |-> l, r |-> r, ty |-> VoidTy, ok |-> FALSE]

ConvertTo(l, r, t) == Checked(MayCastTo(l, t), MayCastTo(r, t), t)
Convert(l, r) == ConvertTo(l, r, MaxType(l.ty, r.ty))

\* Mutant: the two are compared, but neither is converted.
EnsureCompatibleOrVoidPtr(l, r, ty) ==
  IF \/ Compatible(l.ty, r.ty)
     \/ IsVoidTy(l.ty.to) \/ IsVoidTy(r.ty.to)
  THEN Checked(l, r, ty) ELSE CheckFails(l, r)

EnsureCompatible(l, r, ty) ==
  IF Compatible(l.ty, r.ty) THEN Checked(l, r, ty) ELSE CheckFails(l, r)

EnsureCompatibleConvertVoidPtr(l, r, ty) ==
  EnsureCompatible(
    IF IsVoidTy(l.ty.to) THEN MayCastTo(l, r.ty) ELSE l,
    IF ~IsVoidTy(l.ty.to) /\ IsVoidTy(r.ty.to) THEN MayCastTo(r, l.ty) ELSE r,
    ty)

(***************************************************************************)
(* BinaryOpExpr::Check, one operator for each.                             *)
(***************************************************************************)
BothArithmetic(l, r) == IsArithmeticTy(l.ty) /\ IsArithmeticTy(r.ty)
BothPointers(l, r) == IsPointerTy(l.ty) /\ IsPointerTy(r.ty)
PointerAndInteger(l, r) == IsPointerTy(l.ty) /\ IsIntegerTy(r.ty)

AddOpCheck(l, r) ==
  CASE BothArithmetic(l, r) -> Convert(l, r)
    [] PointerAndInteger(r, l) -> Checked(r, MayCastTo(l, ULongTy), r.ty)
    [] PointerAndInteger(l, r) -> Checked(l, MayCastTo(r, ULongTy), l.ty)
    [] OTHER -> CheckFails(l, r)

SubOpCheck(l, r) ==
  CASE BothArithmetic(l, r) -> Convert(l, r)
    [] PointerAndInteger(l, r) -> Checked(l, MayCastTo(r, ULongTy), l.ty)
    [] BothPointers(l, r) /\ Compatible(l.ty, r.ty) -> Checked(l, r, LongTy)
    [] OTHER -> CheckFails(l, r)

MultiOpCheck(op, l, r) ==
  IF IF op = "%" THEN IsIntegerTy(l.ty) /\ IsIntegerTy(r.ty)
                 ELSE BothArithmetic(l, r)
  THEN Convert(l, r) ELSE CheckFails(l, r)

\* Mutant: _Bool is not asked about.
BitwiseOpCheckOfIntegers(l, r) ==
  IF IsIntegerTy(l.ty) /\ IsIntegerTy(r.ty)
  THEN Convert(l, r) ELSE CheckFails(l, r)

BitwiseOpCheck(l, r) ==
  IF IsIntegerOrBoolTy(l.ty) /\ IsIntegerOrBoolTy(r.ty)
  THEN Convert(l, r) ELSE CheckFails(l, r)

\* Mutant: each operand is promoted by itself.
ShiftOpCheckPromotingEach(l, r) ==
  IF IsIntegerOrBoolTy(l.ty) /\ IsIntegerOrBoolTy(r.ty)
  THEN LET l1 == MayCastTo(l, IntegerPromote(l.ty))
       IN  Checked(l1, MayCastTo(r, IntegerPromote(r.ty)), l1.ty)
  ELSE CheckFails(l, r)

(* Both operands take the promoted type of the left one. *)
ShiftOpCheck(l, r) ==
  IF IsIntegerOrBoolTy(l.ty) /\ IsIntegerOrBoolTy(r.ty)
  THEN LET l1 == MayCastTo(l, IntegerPromote(l.ty))
       IN  Checked(l1, MayCastTo(r, l1.ty), l1.ty)
  ELSE CheckFails(l, r)

LogicalOpCheck(l, r) ==
  IF IsScalarTy(l.ty) /\ IsScalarTy(r.ty)
  THEN Checked(l, r, IntTy) ELSE CheckFails(l, r)

\* Mutant: a null constant is only looked for on the right.
EqualityOpCheckRightNull(l, r) ==
  CASE BothPointers(l, r) -> EnsureCompatibleConvertVoidPtr(l, r, IntTy)
    [] BothArithmetic(l, r) -> [Convert(l, r) EXCEPT !.ty = IntTy]
    [] PointerAndInteger(l, r) /\ IsZero(r) ->
         Checked(l, MayCastTo(r, l.ty), IntTy)
    [] OTHER -> CheckFails(l, r)

EqualityOpCheck(l, r) ==
  CASE BothPointers(l, r) -> EnsureCompatibleConvertVoidPtr(l, r, IntTy)
    [] BothArithmetic(l, r) -> [Convert(l, r) EXCEPT !.ty = IntTy]
    [] PointerAndInteger(l, r) /\ IsZero(r) ->
         Checked(l, MayCastTo(r, l.ty), IntTy)
    [] PointerAndInteger(r, l) /\ IsZero(l) ->
         Checked(r, MayCastTo(l, r.ty), IntTy)
    [] OTHER -> CheckFails(l, r)

RelationalOpCheck(l, r) ==
  CASE BothPointers(l, r) -> EnsureCompatibleConvertVoidPtr(l, r, IntTy)
    [] IsRealTy(l.ty) /\ IsRealTy(r.ty) -> [Convert(l, r) EXCEPT !.ty = IntTy]
    [] OTHER -> CheckFails(l, r)

AssignOpCheck(l, r) ==
  IF \/ l.const \/ ~l.lv
     \/ PointerAndInteger(l, r) /\ ~IsZero(r)
  THEN CheckFails(l, r)
  ELSE Checked(l, MayCastTo(r, l.ty), l.ty)

Relations == {"<", "<=", ">", ">="}
Equalities == {"==", "!="}
Bitwises == {"&", "|", "^"}
Shifts == {"<<", ">>"}
Logicals == {"&&", "||"}
Multis == {"*", "/", "%"}
BinaryOps ==
  {"+", "-", ","} \cup Multis \cup Bitwises \cup Shifts \cup Logicals
  \cup Equalities \cup Relations

(* On operands the constructor has decayed. *)
BinaryCheck(op, l, r) ==
  CASE op = "=" -> AssignOpCheck(l, r)
    [] op = "+" -> AddOpCheck(l, r)
    [] op = "-" -> SubOpCheck(l, r)
    [] op \in Multis -> MultiOpCheck(op, l, r)
    [] op \in Bitwises -> BitwiseOpCheck(l, r)
    [] op \in Shifts -> ShiftOpCheck(l, r)
    [] op \in Logicals -> LogicalOpCheck(l, r)
    [] op \in Equalities -> EqualityOpCheck(l, r)
    [] op \in Relations -> RelationalOpCheck(l, r)
    [] op = "," -> Checked(l, r, r.ty)

(* ConditionOpExpr::Check, on decayed operands. *)
ConditionCheck(l, r) ==
  CASE BothArithmetic(l, r) -> Convert(l, r)
    [] IsStructOrUnionTy(l.ty) /\ IsStructOrUnionTy(r.ty) ->
         IF Equal(l.ty, r.ty) THEN Checked(l, r, l.ty) ELSE CheckFails(l, r)
    [] BothPointers(l, r) ->
         LET l1 == IF IsVoidTy(l.ty.to) THEN MayCastTo(l, r.ty) ELSE l
             r1 == IF ~IsVoidTy(l.ty.to) /\ IsVoidTy(r.ty.to)
                   THEN MayCastTo(r, l.ty) ELSE r
         IN  Checked(l1, r1, l1.ty)
    [] IsVoidTy(l.ty) /\ IsVoidTy(r.ty) -> Checked(l, r, VoidTy)
    [] PointerAndInteger(l, r) /\ IsZero(r) ->
         Checked(l, MayCastTo(r, l.ty), l.ty)
    [] PointerAndInteger(r, l) /\ IsZero(l) ->
         Checked(MayCastTo(l, r.ty), r, r.ty)
    [] OTHER -> CheckFails(l, r)

(* FuncCallExpr::Check on one argument: a parameter's type, or the default *)
(* promotions after the last parameter.                                    *)
Argument(x, params, i) ==
  IF i <= Len(params) THEN MayCastTo(x, params[i])
  ELSE IF IsFloatTy(x.ty) THEN MayCastTo(x, DoubleTy)
  ELSE IF IsIntegerTy(x.ty) THEN MayCastTo(x, IntegerPromote(x.ty))
  ELSE x

TakesArguments(f, n) == n = Len(f.params) \/ (n > Len(f.params) /\ f.va)
===========================================================================
