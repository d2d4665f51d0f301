------------------------------ MODULE CTypes ------------------------------
(***************************************************************************)
(* The types of type.cpp, as values: a kind and what the class of that     *)
(* kind keeps.  A QualType is a type and whether it is const; only const   *)
(* is kept of the qualifiers, as nothing else of them changes a check.     *)
(* Bits gives the width of each integer type (8, 16, 32, 64, 64 in the     *)
(* code; the runs take smaller ones in the same order).                    *)
(***************************************************************************)
EXTENDS Integers, Sequences

CONSTANT Bits

IntegerBases == {"char", "short", "int", "long", "longlong"}

ASSUME BitsAssumption ==
  /\ Bits \in [IntegerBases -> Nat \ {0}]
  /\ Bits["char"] < Bits["short"]
  /\ Bits["short"] < Bits["int"]
  /\ Bits["int"] < Bits["long"]
  /\ Bits["long"] <= Bits["longlong"]

(***************************************************************************)
(* Constructors.  An arithmetic type is its type_spec_, the set of the     *)
(* flags it is spelt with.                                                 *)
(***************************************************************************)
VoidTy == [k |-> "void"]
Basic(spec) == [k |-> "arith", spec |-> spec]
PointerTo(to, const) == [k |-> "ptr", to |-> to, const |-> const]
ArrayOf(of, const, n) == [k |-> "array", of |-> of, const |-> const, n |-> n]
Unknown == 0      \* the n of an array without a bound
FunctionOf(ret, params, va) ==
  [k |-> "func", ret |-> ret, params |-> params, va |-> va]
RecordOf(struct, name, members, complete, id) ==
  [k |-> "record", struct |-> struct, name |-> name, members |-> members,
   complete |-> complete, id |-> id]

BoolTy == Basic({"bool"})
CharTy == Basic({"char"})
IntTy == Basic({"int"})
UIntTy == Basic({"int", "unsigned"})
LongTy == Basic({"long"})
ULongTy == Basic({"long", "unsigned"})
DoubleTy == Basic({"double"})

(* DealWithTypeSpec: the one spelling of the many a type has. *)
DealWithTypeSpec(spec) ==
  LET named == CASE spec = {"signed"} -> {"int"}
                 [] spec = {"unsigned"} -> {"unsigned", "int"}
                 [] OTHER -> spec
      plain == named \ {"signed"}
  IN  IF plain \cap {"short", "long", "longlong"} # {}
      THEN plain \ {"int"}
      ELSE plain

ArithmeticSpecs ==
  {{"bool"}, {"float"}, {"double"}, {"double", "long"}} \cup
  UNION {{{b}, {b, "unsigned"}} : b \in IntegerBases}

(* ArithmeticType::Get: one object for each type, assert(false) for none. *)
NoType == [k |-> "none"]
Get(spec) ==
  LET s == DealWithTypeSpec(spec)
  IN  IF s \in ArithmeticSpecs THEN Basic(s) ELSE NoType

(***************************************************************************)
(* The predicates the checks ask.  An integer type is not _Bool.           *)
(***************************************************************************)
IsVoidTy(t) == t.k = "void"
IsBoolTy(t) == t.k = "arith" /\ t.spec = {"bool"}
IsPointerTy(t) == t.k = "ptr"
IsArrayTy(t) == t.k = "array"
IsStructOrUnionTy(t) == t.k = "record"
IsFunctionTy(t) == t.k = "func"
IsCharacterTy(t) == t.k = "arith" /\ "char" \in t.spec
IsFloatPointTy(t) ==
  t.k = "arith" /\ t.spec \in {{"float"}, {"double"}, {"long", "double"}}
IsFloatTy(t) == t.k = "arith" /\ t.spec = {"float"}
IsArithmeticTy(t) == t.k = "arith"
IsIntegerTy(t) == t.k = "arith" /\ ~IsFloatPointTy(t) /\ ~IsBoolTy(t)
IsRealTy(t) == IsIntegerTy(t) \/ IsFloatPointTy(t)
IsScalarTy(t) == IsArithmeticTy(t) \/ IsPointerTy(t)
IsIntegerOrBoolTy(t) == IsIntegerTy(t) \/ IsBoolTy(t)
IsUnsigned(t) ==
  IsBoolTy(t) \/ (IsIntegerTy(t) /\ "unsigned" \in t.spec)

Base(t) == CHOOSE b \in IntegerBases : b \in t.spec

IsComplete(t) ==
  CASE t.k \in {"arith", "ptr"} -> TRUE
    [] t.k = "array" -> t.n # Unknown
    [] t.k = "record" -> t.complete
    [] OTHER -> FALSE

(* Rank, with the floating types above every integer type. *)
Rank(t) ==
  LET s == t.spec \ {"unsigned"}
  IN  CASE s = {"bool"} -> 0
        [] s = {"char"} -> 1
        [] s = {"short"} -> 2
        [] s = {"int"} -> 3
        [] s = {"long"} -> 4
        [] s = {"longlong"} -> 5
        [] s = {"float"} -> 6
        [] s = {"double"} -> 7
        [] s = {"double", "long"} -> 8

MaxIntegerValue(t) ==
  IF "unsigned" \in t.spec THEN 2 ^ Bits[Base(t)] - 1
                           ELSE 2 ^ (Bits[Base(t)] - 1) - 1

(* GetWidth in units of a char; the floating types stand at the widths of  *)
(* the integer types they are as wide as.                                  *)
Units(base) == Bits[base] \div Bits["char"]
RECURSIVE GetWidth(_)
GetWidth(t) ==
  CASE t.k \in {"void", "func"} -> 1
    [] IsBoolTy(t) -> 1
    [] IsFloatPointTy(t) /\ Rank(t) = 6 -> Units("int")
    [] IsFloatPointTy(t) /\ Rank(t) = 7 -> Units("long")
    [] IsFloatPointTy(t) /\ Rank(t) = 8 -> 2 * Units("long")
    [] IsIntegerTy(t) -> Units(Base(t))
    [] t.k = "ptr" -> Units("long")
    [] t.k = "array" -> t.n * GetWidth(t.of)
    [] t.k = "record" -> t.members * Units("int")

(***************************************************************************)
(* Same type and compatible type.  An array without a bound agrees with    *)
(* every bound, and whether a function takes more arguments is not asked.  *)
(***************************************************************************)
SameRecord(a, b) ==
  /\ b.k = "record" /\ a.struct = b.struct
  /\ a.name # "" /\ b.name # "" => a.name = b.name
  /\ a.complete /\ b.complete => a.members = b.members /\ a.id = b.id

BoundsAgree(a, b) == a.n # Unknown /\ b.n # Unknown => a.n = b.n

RECURSIVE Equal(_, _)
Equal(a, b) ==
  CASE a.k = "void" -> b.k = "void"
    [] a.k = "arith" -> b.k = "arith" /\ a.spec = b.spec
    [] a.k = "ptr" -> b.k = "ptr" /\ Equal(a.to, b.to)
    [] a.k = "array" -> b.k = "array" /\ Equal(a.of, b.of) /\ BoundsAgree(a, b)
    [] a.k = "record" -> SameRecord(a, b)
    [] a.k = "func" ->
         /\ b.k = "func" /\ Equal(a.ret, b.ret)
         /\ Len(a.params) = Len(b.params)
         /\ \A i \in DOMAIN a.params : Equal(a.params[i], b.params[i])

RECURSIVE Compatible(_, _)
Compatible(a, b) ==
  CASE a.k \in {"void", "arith"} -> Equal(a, b)
    [] a.k = "ptr" -> b.k = "ptr" /\ Compatible(a.to, b.to)
    [] a.k = "array" ->
         b.k = "array" /\ Compatible(a.of, b.of) /\ BoundsAgree(a, b)
    [] a.k = "record" -> SameRecord(a, b)
    [] a.k = "func" ->
         /\ b.k = "func" /\ Compatible(a.ret, b.ret)
         /\ Len(a.params) = Len(b.params)
         /\ \A i \in DOMAIN a.params : Equal(a.params[i], b.params[i])

(* Type::MayCast: what a function or an array is as an operand. *)
Decayed(t) ==
  CASE t.k = "func" -> PointerTo(t, FALSE)
    [] t.k = "array" -> PointerTo(t.of, t.const)
    [] OTHER -> t

(***************************************************************************)
(* The usual arithmetic conversions.                                       *)
(***************************************************************************)
IntegerPromote(t) == IF Rank(t) < Rank(IntTy) THEN IntTy ELSE t

Higher(a, b) == IF Rank(a) >= Rank(b) THEN a ELSE b

\* Mutant: the higher rank wins, as if unsigned never mattered.
MaxOfPromotedByRank(l, r) == Higher(l, r)

MaxOfPromoted(l, r) ==
  LET uns == IF IsUnsigned(l) THEN l ELSE r
      sgn == IF IsUnsigned(l) THEN r ELSE l
  IN  CASE Equal(l, r) -> l
        [] ~Equal(l, r) /\ IsUnsigned(l) = IsUnsigned(r) -> Higher(l, r)
        [] OTHER -> IF Rank(uns) >= Rank(sgn) THEN uns
                    ELSE IF MaxIntegerValue(sgn) >= MaxIntegerValue(uns)
                    THEN sgn
                    ELSE Get(sgn.spec \cup {"unsigned"})

MaxType(l, r) ==
  IF /\ ~IsIntegerTy(l) \/ ~IsIntegerTy(r)
     /\ ~IsBoolTy(l) /\ ~IsBoolTy(r)
  THEN Higher(l, r)
  ELSE MaxOfPromoted(IntegerPromote(l), IntegerPromote(r))
===========================================================================
