---------------------------- MODULE Expressions ----------------------------
(***************************************************************************)
(* The parser builds an expression from the inside out: each operation is  *)
(* a node over the operands built last, checked as it is made.  Here that  *)
(* is a stack, and an operand is a pair: x, the node as kcc has it, with   *)
(* the value its code computes and the constant it folds to, and c, the    *)
(* same expression in C (CStandard).                                       *)
(*                                                                         *)
(* An assignment, ++ and --, and a call end the expression: what they      *)
(* store or pass is left on the stack.  Only expressions that are valid C  *)
(* are built, as nothing is said of what kcc makes of the others.          *)
(***************************************************************************)
EXTENDS ExprCode, CStandard

CONSTANTS
  Kits,         \* by name, what the expressions of a run are made with:
                \*   unary, binary, others   the operators, by the way their
                \*             node is made; others: ?: sizeof = ++ -- ()
                \*   casts     the types of casts
                \*   operands  bound: how many operands wait at once
                \*   ops       bound: how many operations an expression has
  Leaves        \* by the same names, the pairs of the names and constants

(* left is how many operations the expression may still have. *)
VARIABLES kit, stack, left, done

vars == <<kit, stack, left, done>>

(***************************************************************************)
(* Names and constants.                                                    *)
(***************************************************************************)
Pair(x, c) == [x |-> x, c |-> c, known |-> {}]
PatternOf(v, ty) == IF IsFloatPointTy(ty) THEN v ELSE Pattern(v, Width(ty))
Meaning(v, ty) ==
  IF IsIntegerTy(ty) /\ ~IsUnsigned(ty) THEN Signed(v, Width(ty)) ELSE v

Literal(ty, v) ==
  LET p == PatternOf(v, ty)
  IN  Pair(Node(ty, "literal", p, p), Ice(CExpr(ty, v), IsIntegerTy(ty)))
Enumerator(v) ==
  LET p == PatternOf(v, IntTy)
  IN  Pair(Node(IntTy, "other", p, p), Ice(CExpr(IntTy, v), TRUE))

(* An object somewhere, with one of the values of its type. *)
Variable(ty, v) ==
  Pair([Node(ty, "other", PatternOf(v, ty), NotConst) EXCEPT
         !.lv = TRUE, !.ak = NoStorage],
       [CExpr(ty, v) EXCEPT !.lv = TRUE])

(* An object of Objects: static storage or a place on the stack. *)
Object(addr, ty, const, static) ==
  LET k == IF static /\ ty.k \in {"array", "record"} THEN addr ELSE NotConst
  IN  Pair([Node(ty, "other", Load(addr, ty), k) EXCEPT
             !.lv = TRUE, !.const = const, !.addr = addr,
             !.ak = IF static THEN addr ELSE NoStorage],
           CLValue(addr, ty, const))

FunctionName(addr, ty) ==
  Pair([Node(ty, "other", addr, addr) EXCEPT !.addr = addr, !.ak = addr],
       [CExpr(ty, addr) EXCEPT !.addr = addr])

(***************************************************************************)
(* What each operation makes of its operands: Check, Visit and Calc.       *)
(***************************************************************************)
Folded(k, v) == IF k = Symbolic \/ ~Decided(k) THEN k ELSE v
Not(v, w) == Strict(v, v, 2 ^ w - 1 - v)

Promoted(x) ==
  IF IsIntegerOrBoolTy(x.ty) THEN MayCastTo(x, IntegerPromote(x.ty)) ELSE x

\* x is the operand, decayed, and y the same, promoted.
UnaryNode(op, x, y) ==
  LET t == y.ty
  IN  CASE op = "+" /\ IsArithmeticTy(x.ty) -> Node(t, "other", y.val, y.k)
        [] op = "-" /\ IsArithmeticTy(x.ty) ->
             Node(t, "other", NegOp(t, y.val), Folded(y.k, KNeg(t, y.k)))
        [] op = "~" /\ IsIntegerTy(x.ty) ->
             Node(t, "other", Not(y.val, Width(t)),
                  Folded(y.k, Not(y.k, Width(t))))
        [] op = "!" /\ IsScalarTy(x.ty) ->
             [Node(IntTy, "other", LogicNotOp(x.ty, x.val),
                   Folded(x.k, KLogicNot(x.ty, x.k)))
               EXCEPT !.br = BranchNot(x)]
        [] op = "*" /\ IsPointerTy(x.ty) ->
             [Node(x.ty.to, "other", Deref(x), NotConst) EXCEPT
               !.lv = TRUE, !.const = x.ty.const, !.addr = x.val,
               !.ak = IF x.form = "plus" THEN x.k ELSE NotConst]
        [] op = "&" /\ (IsFunctionTy(x.ty) \/ x.lv) ->
             Node(PointerTo(x.ty, x.const), "other", x.addr, x.ak)
        [] OTHER -> Refused(x)

\* chk is what Check has left of the operands, l0 the left one as it was.
BinaryNode(op, l0, chk) ==
  LET l == chk.l
      r == chk.r
      n == Node(chk.ty, IF op = "+" THEN "plus" ELSE "other",
                BinaryCode(op, l, r), BinaryConstant(op, l, r))
  IN  IF ~chk.ok THEN Refused(l0)
      ELSE IF op \in Logicals /\ Stops(l.k) THEN Stopped(l0, l.k)
      ELSE CASE op = "&&" -> [n EXCEPT !.br = BranchAnd(l, r)]
             [] op = "||" -> [n EXCEPT !.br = BranchOr(l, r)]
             [] op \in {",", "="} -> n
             [] OTHER -> [n EXCEPT !.pair = <<l.ty, r.ty>>]

ConditionNode(c, chk) ==
  LET l == chk.l
      r == chk.r
  IN  IF ~chk.ok \/ ~IsScalarTy(c.ty) THEN Refused(c)
      ELSE IF Stops(c.k) THEN Stopped(c, c.k)
      ELSE [Node(chk.ty, "other", ConditionOp(c, l, r), ConditionConstant(c, l, r))
             EXCEPT !.br = BranchCondition(c, l, r), !.pair = <<l.ty, r.ty>>]

SizeOfNode(x) ==
  IF IsComplete(x.ty) \/ IsVoidTy(x.ty) \/ IsFunctionTy(x.ty)
  THEN Node(ULongTy, "literal", GetWidth(x.ty), GetWidth(x.ty))
  ELSE Refused(x)

IncDecNode(op, x) ==
  IF x.const \/ ~x.lv \/ ~(IsRealTy(x.ty) \/ IsPointerTy(x.ty))
  THEN Refused(x)
  ELSE Node(x.ty, "other", IncOrDec(x.ty, x.val, op = "++"), NotConst)

(***************************************************************************)
(* Where kcc and C are known to part.  Nothing is said of what they make   *)
(* of an expression past that; README.md has each.                         *)
(***************************************************************************)
HasBool(args) == \E i \in DOMAIN args : IsBoolTy(args[i].x.ty)
LeftConstant(args) == MayCast(args[1].x).k

Refusals(op, args) ==
  {d \in {"operand of type _Bool", "null constant that is no literal",
          "constant that stops kcc"} :
    CASE d = "operand of type _Bool" ->
           HasBool(args) /\ op \in {"+", "-", "%", "~", "++", "--"} \cup Relations
      [] d = "null constant that is no literal" ->
           /\ op \in {"==", "!=", "?:", "=", "()"}
           /\ \E i \in DOMAIN args : args[i].c.npc /\ ~IsZero(args[i].x)
      [] d = "constant that stops kcc" ->
           op \in {"&&", "||", "?:"} /\ Stops(LeftConstant(args))}

Differences(op, args, x, c) ==
  {d \in {"constant left of &&", "constant over an address", "negative difference", "float to unsigned",
          "narrow increment", "void pointer in a condition", "_Bool argument"} :
    CASE d = "constant left of &&" ->
           /\ op = "&&" /\ Decided(LeftConstant(args))
           /\ LeftConstant(args) \notin {0, 1} \/ IsFloatPointTy(args[1].x.ty)
      [] d = "constant over an address" ->
           op \in {"&&", "||", "?:"} /\ \E i \in DOMAIN args : args[i].x.k = Symbolic
      [] d = "negative difference" ->
           op = "-" /\ c.ty = LongTy /\ IsAddress(args[1].c.ty) /\ c.val < 0
      [] d = "float to unsigned" ->
           /\ op \in {"cast", "=", "()"} /\ IsIntegerTy(x.ty) /\ IsUnsigned(x.ty)
           /\ IsFloatPointTy(args[Len(args)].x.ty) /\ c.val > MaxOf(x.ty) \div 2
      [] d = "narrow increment" ->
           /\ op \in {"++", "--"} /\ IsIntegerTy(x.ty) /\ ~IsUnsigned(x.ty)
           /\ Rank(x.ty) < Rank(IntTy)
           /\ c.val = IF op = "++" THEN MinOf(x.ty) ELSE MaxOf(x.ty)
      [] d = "void pointer in a condition" ->
           op = "?:" /\ IsPointerTy(c.ty) /\ IsVoidTy(c.ty.to) /\ ~IsVoidTy(x.ty.to)
      [] d = "_Bool argument" -> op = "()" /\ IsBoolTy(x.ty) /\ ~IsBoolTy(c.ty)}

Known(op, args, x, c) ==
  IF x.ok THEN Differences(op, args, x, c) ELSE Refusals(op, args)
Made(x, c, known) == [x |-> x, c |-> c, known |-> known]

(***************************************************************************)
(* Building.                                                               *)
(***************************************************************************)
Init ==
  /\ kit \in DOMAIN Kits
  /\ stack = <<>> /\ left = Kits[kit].ops /\ done = FALSE

Push(leaf) ==
  /\ ~done /\ Len(stack) < Kits[kit].operands /\ left > 0
  /\ stack' = Append(stack, leaf)
  /\ UNCHANGED <<kit, left, done>>

(* The operands of an operation of n operands, and the stack without them. *)
Top(n) == SubSeq(stack, Len(stack) - n + 1, Len(stack))
Below(n) == SubSeq(stack, 1, Len(stack) - n)
Ready(n) == ~done /\ left > 0 /\ Len(stack) >= n

Build(n, op, x, c) ==
  /\ c.ok
  /\ \E known \in {Known(op, Top(n), x, c)} :
       /\ stack' = Append(Below(n), Made(x, c, known))
       /\ done' = (~x.ok \/ known # {})
  /\ left' = left - 1
  /\ UNCHANGED kit

Unary(op) ==
  /\ Ready(1)
  /\ LET a == Top(1)[1]
     IN  \E y \in {IF op = "&" THEN a.x ELSE MayCast(a.x)} :
           \E z \in {IF op = "&" THEN y ELSE Promoted(y)} :
             \E x \in {UnaryNode(op, y, z)}, c \in {CUnary(op, a.c)} :
               Build(1, op, x, c)

Check(op, l, r) == {BinaryCheck(op, MayCast(l), MayCast(r))}

Binary(op) ==
  /\ Ready(2)
  /\ LET l == Top(2)[1]
         r == Top(2)[2]
     IN  /\ /\ op \in {"*", "/"}
            /\ IsFloatPointTy(l.x.ty) \/ IsFloatPointTy(r.x.ty)
            => Exact(op, CConvert(l.c.val, l.c.ty, DoubleTy),
                         CConvert(r.c.val, r.c.ty, DoubleTy))
         /\ \E chk \in Check(op, l.x, r.x) :
              \E x \in {BinaryNode(op, l.x, chk)}, c \in {CBinary(op, l.c, r.c)} :
                Build(2, op, x, c)

Condition ==
  /\ Ready(3)
  /\ LET a == Top(3)
     IN  \E y \in {MayCast(a[1].x)},
            chk \in {ConditionCheck(MayCast(a[2].x), MayCast(a[3].x))} :
           \E x \in {ConditionNode(y, chk)},
              c \in {CCondition(a[1].c, a[2].c, a[3].c)} : Build(3, "?:", x, c)

Cast(to) ==
  /\ Ready(1)
  /\ LET a == Top(1)[1]
     IN  \E x \in {TypeCast(a.x, to)}, c \in {CCast(a.c, to)} :
           Build(1, "cast", x, c)

SizeOf ==
  /\ Ready(1)
  /\ LET a == Top(1)[1]
     IN  \E x \in {SizeOfNode(a.x)}, c \in {CSizeOf(a.c)} :
           Build(1, "sizeof", x, c)

(* What is stored, by an assignment or by ++ or -- (before or after), and  *)
(* what is passed end the expression.                                      *)
Deliver(made) ==
  /\ stack' = made
  /\ left' = 0 /\ done' = TRUE
  /\ UNCHANGED kit

Assign ==
  /\ Ready(2) /\ Len(stack) = 2
  /\ \E chk \in Check("=", stack[1].x, stack[2].x) :
       \E x \in {BinaryNode("=", stack[1].x, chk)},
          c \in {CAssign(stack[1].c, stack[2].c)} :
         /\ c.ok
         /\ Deliver(<<Made(x, c, Known("=", stack, x, c))>>)

IncDec(op) ==
  /\ Ready(1) /\ Len(stack) = 1
  /\ \E y \in {MayCast(stack[1].x)},
        moved \in {CPlusOne(IF op = "++" THEN "+" ELSE "-", stack[1].c)} :
       \E x \in {IncDecNode(op, y)}, c \in {CMoved(stack[1].c, moved)} :
         /\ c.ok
         /\ Deliver(<<Made(x, c, Known(op, stack, x, c))>>)

(* The function, or a pointer to it, lies below its arguments. *)
Call ==
  /\ Ready(2)
  /\ LET f == Decayed(stack[1].x.ty)
         args == Tail(stack)
     IN  /\ IsPointerTy(f) /\ IsFunctionTy(f.to)
         /\ TakesArguments(f.to, Len(args))
         /\ \E xs \in {[i \in DOMAIN args |-> Argument(args[i].x, f.to.params, i)]},
               cs \in {[i \in DOMAIN args |-> CArgument(args[i].c, f.to.params, i)]} :
              /\ \A i \in DOMAIN args : cs[i].ok
              /\ Deliver([i \in DOMAIN args |->
                   Made(xs[i], cs[i], Known("()", <<args[i]>>, xs[i], cs[i]))])

Next ==
  \/ \E leaf \in Leaves[kit] : Push(leaf)
  \/ \E op \in Kits[kit].unary : Unary(op)
  \/ \E op \in Kits[kit].binary : Binary(op)
  \/ \E to \in Kits[kit].casts : Cast(to)
  \/ "?:" \in Kits[kit].others /\ Condition
  \/ "sizeof" \in Kits[kit].others /\ SizeOf
  \/ "=" \in Kits[kit].others /\ Assign
  \/ \E op \in Kits[kit].others \cap {"++", "--"} : IncDec(op)
  \/ "()" \in Kits[kit].others /\ Call

Spec == Init /\ [][Next]_vars

(***************************************************************************)
(* Properties.                                                             *)
(***************************************************************************)
Built == {stack[i] : i \in DOMAIN stack}
Claimed == {p \in Built : p.x.ok /\ p.known = {}}

(* An expression C gives a value has that value, of the type C gives it:   *)
(* the conversions Check inserts and the instructions CodeGen chooses by   *)
(* them add up to the arithmetic of C.                                     *)
ValueRight ==
  \A p \in Claimed :
    /\ Equal(Decayed(p.x.ty), Decayed(p.c.ty))
    /\ p.c.val # Undef => Meaning(p.x.val, p.x.ty) = p.c.val

(* A constant Calc folds an expression to is the value its code computes:  *)
(* the two are written apart, over the same checked tree.                  *)
FoldAgrees ==
  \A p \in Claimed :
    (IsNumber(p.x.k) \/ p.x.k = NaN) /\ p.x.val # Poison => p.x.k = p.x.val

(* A branch on an expression goes where its value says, although           *)
(* EmitBranchOnBoolExpr takes !, &&, || and ?: apart by itself.            *)
BranchesOnValue ==
  \A p \in Claimed :
    p.c.val # Undef /\ IsScalarTy(p.c.ty) => p.x.br = Truth(p.c.val # 0)

(* The two operands of an instruction, and the two values of a select or   *)
(* phi, have one LLVM type, or are a pointer and an offset.                *)
SameLLVM(a, b) ==
  \/ Equal(a, b)
  \/ IsIntegerOrBoolTy(a) /\ IsIntegerOrBoolTy(b) /\ Width(a) = Width(b)
OperandsAgree ==
  \A p \in Claimed : p.x.pair # <<>> =>
    \/ SameLLVM(p.x.pair[1], p.x.pair[2])
    \/ IsPointerTy(p.x.pair[1]) /\ SameLLVM(p.x.pair[2], ULongTy)

(* Nothing that is valid C is refused, but for what is known. *)
AcceptsValid == \A p \in Built : p.x.ok \/ p.known # {}
===========================================================================
