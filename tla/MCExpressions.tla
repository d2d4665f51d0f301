--------------------------- MODULE MCExpressions ---------------------------
(* The inputs of the runs of Expressions: widths, memory, names, operators. *)
EXTENDS Expressions

Small == [char |-> 2, short |-> 4, int |-> 6, long |-> 8, longlong |-> 8]

(* The ends of each type, and what lies around zero. *)
Ends(t) ==
  IF IsFloatPointTy(t) THEN {-3, 0, 2, 80}
  ELSE {v \in {MinOf(t), -1, 0, 1, MaxOf(t)} : Fits(v, t)}
Integers2 == {Basic(s) : s \in
  {{"bool"}, {"char"}, {"char", "unsigned"}, {"short"}, {"short", "unsigned"},
   {"int"}, {"int", "unsigned"}, {"long"}, {"long", "unsigned"}, {"longlong"},
   {"longlong", "unsigned"}}}

Numbers ==
  UNION {{Variable(t, v) : v \in Ends(t)} : t \in Integers2 \cup {DoubleTy}} \cup
  UNION {{Literal(t, v) : v \in {w \in Ends(t) : w >= 0}} :
           t \in {IntTy, ULongTy, DoubleTy}} \cup
  {Enumerator(v) : v \in Ends(IntTy)}
AllOthers == {"?:", "sizeof", "=", "++", "--", "()"}
Arithmetic ==
  [unary |-> {"+", "-", "~", "!"}, binary |-> BinaryOps,
   casts |-> Integers2 \cup {DoubleTy}, others |-> AllOthers,
   operands |-> 2, ops |-> 1]

(* Memory: an array, two integers and a pointer into the array. *)
IntPtr == PointerTo(IntTy, FALSE)
VoidPtr == PointerTo(VoidTy, FALSE)
ArrayAt == 16
IntAt == 40
ConstAt == 48
PtrAt == 56
VoidPtrAt == 64
BoolAt == 72
FloatAt == 76
RecordAt == 80
FloatTy == Basic({"float"})
StructTy == RecordOf(TRUE, "s", 1, TRUE, 1)
Memory == {
  [addr |-> ArrayAt, ty |-> ArrayOf(IntTy, FALSE, 2), elems |-> <<7, -9>>],
  [addr |-> IntAt, ty |-> IntTy, elems |-> <<-1>>],
  [addr |-> ConstAt, ty |-> IntTy, elems |-> <<2>>],
  [addr |-> PtrAt, ty |-> IntPtr, elems |-> <<19>>],
  [addr |-> VoidPtrAt, ty |-> VoidPtr, elems |-> <<ArrayAt>>],
  [addr |-> BoolAt, ty |-> BoolTy, elems |-> <<1>>],
  [addr |-> FloatAt, ty |-> FloatTy, elems |-> <<3>>],
  [addr |-> RecordAt, ty |-> StructTy, elems |-> <<>>]}
MemoryCells ==
  UNION {{LET t == IF o.ty.k = "array" THEN o.ty.of ELSE o.ty
          IN  [addr |-> o.addr + (i - 1) * GetWidth(t), ty |-> t,
               val |-> PatternOf(o.elems[i], t)] : i \in DOMAIN o.elems} :
         o \in Memory}
Function == FunctionOf(IntTy, <<CharTy, IntPtr>>, TRUE)
Names == {
  Object(ArrayAt, ArrayOf(IntTy, FALSE, 2), FALSE, TRUE),
  Object(IntAt, IntTy, FALSE, FALSE),
  Object(ConstAt, IntTy, TRUE, TRUE),
  Object(PtrAt, IntPtr, FALSE, FALSE),
  Object(VoidPtrAt, VoidPtr, FALSE, FALSE),
  Object(BoolAt, BoolTy, FALSE, TRUE),
  Object(FloatAt, FloatTy, FALSE, FALSE),
  Object(RecordAt, StructTy, FALSE, TRUE),
  Literal(IntTy, 0), Literal(ULongTy, 1), Enumerator(0),
  FunctionName(200, Function)}
Pointers ==
  [unary |-> {"*", "&", "!", "-"},
   binary |-> {"+", "-", "==", "<", "&&", "||", ","},
   casts |-> {VoidPtr, IntPtr, LongTy, VoidTy}, others |-> AllOthers,
   operands |-> 3, ops |-> 2]

Everything == [arithmetic |-> Arithmetic, pointers |-> Pointers]
LeavesOf == [arithmetic |-> Numbers, pointers |-> Names]
===========================================================================
