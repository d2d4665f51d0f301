-------------------------------- MODULE Ast --------------------------------
(***************************************************************************)
(* The abstract syntax tree of one function body (ast.h, ast.cpp), and the *)
(* two questions the code generator asks of it before it emits anything:   *)
(* does a statement contain a label, and is a condition a constant.        *)
(*                                                                         *)
(* The tree is an arena: prog[n] is node n, numbered in the order in which *)
(* the parser meets the nodes, so that a child's number exceeds its        *)
(* parent's.  Node 1 is the body.  A node is a record                      *)
(*   kind   the class of the node                                          *)
(*   up     its parent, 0 for the body                                     *)
(*   kids   its children in source order                                   *)
(*   name   the label a Label or a Goto names                              *)
(*   to     for a Goto, the label node ParseFuncDef resolved it to         *)
(*   num    for Const and Comma, the value of the constant                 *)
(*   form   for a For, which of "init", "cond" and "inc" are present; for  *)
(*          a Return, whether it has a "value"                             *)
(*                                                                         *)
(* An expression is kept only as far as it steers control.  Dyn is an      *)
(* expression with an effect and an unknown truth value, Comma is          *)
(* (effect, constant), StmtExpr is the GNU ({ ... }).                      *)
(***************************************************************************)
EXTENDS Integers, Sequences, SequencesExt

VARIABLE prog

Loops == {"While", "DoWhile", "For"}

StmtKind == Loops \cup {"Expr", "Null", "Decl", "Compound", "If", "Switch",
                        "Case", "Default", "Goto", "Label", "Continue",
                        "Break", "Return"}

ExprKind == {"Dyn", "Const", "Comma", "And", "Or", "Not", "Cond", "StmtExpr"}

Kind(n) == prog[n].kind
Up(n)   == prog[n].up

\* A null pointer has no children.
Kids(n) == IF n \in DOMAIN prog THEN prog[n].kids ELSE <<>>

GetCond(n) == IF Kind(n) = "DoWhile" THEN Kids(n)[2] ELSE Kids(n)[1]
GetBody(n) == IF Kind(n) = "DoWhile" THEN Kids(n)[1] ELSE Last(Kids(n))

GetThen(n) == Kids(n)[2]
HasElse(n) == Len(Kids(n)) = 3
GetElse(n) == Kids(n)[3]

Has(n, part) == part \in prog[n].form

\* Stmt::Children and its overrides: sub-statements only.  An expression has
\* none, so a statement expression hides the statements inside it.
Children(n) == {c \in ToSet(Kids(n)) : Kind(c) \in StmtKind}

ContainsLabel(n) ==
  LET found[m \in DOMAIN prog] ==
        \/ Kind(m) \in {"Label", "Case", "Default", "Switch"}
        \/ Kind(m) \in StmtKind /\ \E c \in Children(m) : found[c]
  IN  found[n]

\* What the constant evaluator answers for an expression it cannot evaluate.
NotConst == -1

\* CalcConstantExpr::Calc.  Both operands of && and || must be constants,
\* and of a statement expression only the last statement is looked at.
Calc(e) ==
  LET Truth(c) == IF c = 0 THEN 0 ELSE 1
      calc[m \in DOMAIN prog] ==
        LET k == [i \in DOMAIN Kids(m) |-> calc[Kids(m)[i]]] IN
        CASE Kind(m) = "Const" -> prog[m].num
          [] Kind(m) = "Not" /\ k[1] # NotConst -> 1 - Truth(k[1])
          [] Kind(m) = "And" /\ NotConst \notin {k[1], k[2]} ->
               Truth(k[1]) * Truth(k[2])
          [] Kind(m) = "Or" /\ NotConst \notin {k[1], k[2]} ->
               Truth(k[1] + k[2])
          [] Kind(m) = "Cond" /\ k[1] # NotConst ->
               IF k[1] = 0 THEN k[3] ELSE k[2]
          [] Kind(m) = "StmtExpr" \/ (Kind(m) = "Compound" /\ k # <<>>)
                                  \/ (Kind(m) = "Expr" /\ k # <<>>) -> Last(k)
          [] OTHER -> NotConst
  IN  calc[e]

\* The nearest enclosing node of one of the kinds, 0 when there is none.
Enclosing(n, kinds) ==
  LET above[m \in DOMAIN prog] ==
        IF Up(m) = 0 THEN 0
        ELSE IF Kind(Up(m)) \in kinds THEN Up(m)
        ELSE above[Up(m)]
  IN  above[n]

NodesOf(kinds) == {n \in DOMAIN prog : Kind(n) \in kinds}

\* The case labels and the default labels a switch statement owns.
CasesOf(s)    == {c \in NodesOf({"Case"}) : Enclosing(c, {"Switch"}) = s}
DefaultsOf(s) == {c \in NodesOf({"Default"}) : Enclosing(c, {"Switch"}) = s}

=============================================================================
