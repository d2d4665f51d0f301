------------------------------ MODULE MCCompile ------------------------------
(* The inputs of the runs of Compile: what the bodies are made of. *)
EXTENDS Compile

CONSTANTS L, M

Labels == {L, M}

Clauses(fors, returns, numbers, names) ==
  [fors |-> fors, returns |-> returns, numbers |-> numbers, names |-> names]
Bodies(stmts, exprs, clauses, size) ==
  [stmts |-> stmts, exprs |-> exprs, size |-> size] @@ clauses

NoClauses == Clauses({}, {}, {}, {})

LoopBodies == Bodies(
  {"Compound", "Expr", "If", "While", "DoWhile", "For", "Goto", "Label",
   "Break", "Continue"},
  {"Dyn", "Const"},
  Clauses({{}, {"cond"}, {"inc"}, {"init", "cond", "inc"}}, {}, {0, 1}, {L}), 6)

ConditionBodies == Bodies(
  {"Compound", "Expr", "If", "While", "Decl", "For"},
  {"Dyn", "Const", "Comma", "And", "Or", "Not", "Cond"},
  Clauses({{"cond"}}, {}, {0, 1, 2}, {}), 6)

SwitchBodies == Bodies(
  {"Compound", "Expr", "Switch", "Case", "Default", "Break", "Continue", "While"},
  {"Dyn"}, NoClauses, 7)

GotoBodies == Bodies(
  {"Compound", "Expr", "If", "Goto", "Label", "While", "Return", "Null"},
  {"Dyn", "Const"}, Clauses({}, {{}, {"value"}}, {0, 1}, Labels), 6)

StmtExprBodies == Bodies(
  {"Expr", "If", "Return", "Goto", "Label"}, {"Dyn", "And", "StmtExpr"},
  Clauses({}, {{"value"}}, {}, {L}), 8)

DeclBodies == Bodies(
  {"Compound", "Expr", "Decl", "If", "While", "Goto", "Label", "Switch", "Case"},
  {"Dyn", "Const"}, Clauses({}, {}, {1}, {L}), 6)

LoopsAndConditions == {LoopBodies, ConditionBodies}
JumpsOfAllKinds == {SwitchBodies, GotoBodies, StmtExprBodies, DeclBodies}

AllKinds == {Bodies(
  StmtKind, {"Dyn", "Const", "Comma", "And", "Cond", "StmtExpr"},
  Clauses({{}, {"init", "cond", "inc"}}, {{}, {"value"}}, {0, 1}, {L}), 5)}

\* The input of the run that shows one group of bodies.
Just(stmts, exprs, numbers, size) ==
  {Bodies(stmts, exprs, Clauses({}, {}, numbers, {L}), size)}

DeadDecl == Just({"Goto", "Label", "Decl", "While"}, {"Dyn", "Const"}, {1}, 6)
=============================================================================
