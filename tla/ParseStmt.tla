------------------------------ MODULE ParseStmt ------------------------------
(***************************************************************************)
(* The statement parser (parse_stmt.cpp, ParseFuncDef in parse.cpp) for    *)
(* one function body.  The tokens are the environment's choice: at each    *)
(* point the next construct is any the grammar allows there, within the    *)
(* kinds and the size the constants admit, so the reachable values of      *)
(* prog are the trees the parser builds for all bodies up to that size.    *)
(*                                                                         *)
(* open is the call stack of the recursive descent: what the active        *)
(* functions still expect, innermost first.                                *)
(*   "stmt"   a statement, the next child of n                             *)
(*   "expr"   an expression, the next child of n                           *)
(*   "items"  the items of the compound statement n up to its '}'          *)
(*   "else"   Try(kElse) after the then branch of n                        *)
(*   "label"  the rest of ParseLabelStmt for n, after its statement        *)
(***************************************************************************)
EXTENDS Ast

CONSTANTS
  Grammars,     \* what the inputs are made of: one of these for each input
  LabelNames    \* the labels they name

\* The kinds of statements and of expressions an input uses, the sets of
\* clauses its for statements have, {"value"} for "return e;" and {} for
\* "return;", the values of its constants, its labels, and its largest tree.
ASSUME ParseAssumption ==
  Grammars \subseteq
    [stmts : SUBSET StmtKind, exprs : SUBSET ExprKind,
     fors : SUBSET SUBSET {"init", "cond", "inc"},
     returns : SUBSET SUBSET {"value"}, numbers : SUBSET Nat,
     names : SUBSET LabelNames, size : Nat]

VARIABLES
  grammar,  \* what this input is made of
  open,     \* what the parser still expects, innermost first
  labels,   \* labels_: name -> label node, 0 for a name not yet in the map
  gotos,    \* gotos_: the goto nodes of this function, in order
  parsed    \* "no", "yes", or "error" once Error() has ended the process

parseVars == <<grammar, prog, open, labels, gotos, parsed>>

Expect(what, n) == [what |-> what, n |-> n]

Body == [kind |-> "Compound", up |-> 0, kids |-> <<>>, name |-> "",
         to |-> 0, num |-> 0, form |-> {}]

ParseInit ==
  /\ grammar \in Grammars
  /\ prog = <<Body>>
  /\ open = <<Expect("items", 1)>>
  /\ labels = [l \in LabelNames |-> 0]
  /\ gotos = <<>>
  /\ parsed = "no"

-----------------------------------------------------------------------------
New == Len(prog) + 1

\* The parser has come to a statement or an expression; rest is the stack
\* once it is taken.  The list of a compound statement stays open.
At(what) ==
  /\ parsed = "no" /\ open # <<>>
  /\ Head(open).what = what \/ (what = "stmt" /\ Head(open).what = "items")

rest == IF Head(open).what = "items" THEN open ELSE Tail(open)

\* The nodes it takes at least to complete what the stack s still expects in
\* the tree p.  A statement expression must end in an expression statement
\* with an expression (otherwise its type is void, StmtExpr::Check).
HasValue(p, n) ==
  /\ p[n].kids # <<>>
  /\ LET last == Last(p[n].kids) IN p[last].kind = "Expr" /\ p[last].kids # <<>>

Pending(p, s) ==
  LET Coming(n) == \E x \in ToSet(s) : /\ x.what = "expr" /\ p[x.n].kind = "Expr"
                                       /\ p[n].kids # <<>> /\ x.n = Last(p[n].kids)
      Needs(x) ==
        CASE x.what \in {"stmt", "expr"} -> 1
          [] x.what = "body" -> 3
          [] x.what = "items" /\ x.n # 1 /\ p[p[x.n].up].kind = "StmtExpr"
               /\ ~HasValue(p, x.n) /\ ~Coming(x.n) -> 2
          [] OTHER -> 0
  IN  FoldLeft(LAMBDA sum, x : sum + Needs(x), 0, s)

\* Mutant: the parent link of every node is the body.
NodeOfBody(kind, next, extra) ==
  LET node == [extra EXCEPT !.kind = kind, !.up = 1]
      tree == Append([prog EXCEPT ![Head(open).n].kids = Append(@, New)], node)
  IN  /\ Len(tree) + Pending(tree, next \o rest) <= grammar.size
      /\ prog' = tree
      /\ open' = next \o rest
      /\ UNCHANGED <<grammar, parsed>>

\* MakeAstNode and its place in the tree; next is what the function goes on
\* to parse.  A tree that could not be completed within grammar.size is not begun.
Node(kind, next, extra) ==
  LET node == [extra EXCEPT !.kind = kind, !.up = Head(open).n]
      tree == Append([prog EXCEPT ![Head(open).n].kids = Append(@, New)], node)
  IN  /\ Len(tree) + Pending(tree, next \o rest) <= grammar.size
      /\ prog' = tree
      /\ open' = next \o rest
      /\ UNCHANGED <<grammar, parsed>>

Stmt(kind, next, extra) ==
  /\ kind \in grammar.stmts
  /\ At("stmt")
  /\ Node(kind, next, extra)

Plain(kind, next) == Stmt(kind, next, Body) /\ UNCHANGED <<labels, gotos>>

\* Error() is [[noreturn]]: it prints and exits.
Fail == parsed' = "error" /\ UNCHANGED <<grammar, prog, open, labels, gotos>>

stmt == Expect("stmt", New)
expr == Expect("expr", New)

-----------------------------------------------------------------------------
ParseExprStmt ==
  \/ Plain("Null", <<>>)
  \/ Plain("Expr", <<>>)
  \/ grammar.exprs # {} /\ Plain("Expr", <<expr>>)

\* A declaration is an item of a compound statement, never a sub-statement.
ParseDecl ==
  /\ At("stmt") /\ Head(open).what = "items"
  /\ \/ Plain("Decl", <<>>)
     \/ grammar.exprs # {} /\ Plain("Decl", <<expr>>)

ParseCompoundStmt == Plain("Compound", <<Expect("items", New)>>)

ParseIfStmt      == Plain("If", <<expr, stmt, Expect("else", New)>>)
ParseSwitchStmt  == Plain("Switch", <<stmt>>)
ParseWhileStmt   == Plain("While", <<expr, stmt>>)
ParseDoWhileStmt == Plain("DoWhile", <<stmt, expr>>)
ParseCaseStmt    == Plain("Case", <<stmt>>)
ParseDefaultStmt == Plain("Default", <<stmt>>)
ParseContinueStmt == Plain("Continue", <<>>)
ParseBreakStmt    == Plain("Break", <<>>)

ParseForStmt ==
  \E f \in grammar.fors :
    /\ Stmt("For", IF "cond" \in f THEN <<expr, stmt>> ELSE <<stmt>>,
            [Body EXCEPT !.form = f])
    /\ UNCHANGED <<labels, gotos>>

ParseReturnStmt ==
  \E f \in grammar.returns :
    /\ Stmt("Return", <<>>, [Body EXCEPT !.form = f])
    /\ UNCHANGED <<labels, gotos>>

\* Mutant: gotos_ holds the name of the label, not the goto.
ParseGotoByName ==
  \E l \in grammar.names :
    /\ Stmt("Goto", <<>>, [Body EXCEPT !.name = l])
    /\ gotos' = Append(gotos, l)
    /\ UNCHANGED labels

ParseGotoStmt ==
  \E l \in grammar.names :
    /\ Stmt("Goto", <<>>, [Body EXCEPT !.name = l])
    /\ gotos' = Append(gotos, New)
    /\ UNCHANGED labels

\* FindLabel is asked before the labelled statement is parsed ...
ParseLabelStmt ==
  \E l \in grammar.names :
    IF labels[l] = 0
    THEN /\ Stmt("Label", <<stmt, Expect("label", New)>>,
                 [Body EXCEPT !.name = l])
         /\ UNCHANGED <<labels, gotos>>
    ELSE "Label" \in grammar.stmts /\ At("stmt") /\ Fail

\* ... and the label is entered in labels_ after it.
RegisterLabel ==
  /\ At("label")
  /\ labels' = [labels EXCEPT ![prog[Head(open).n].name] = Head(open).n]
  /\ open' = Tail(open)
  /\ UNCHANGED <<grammar, prog, gotos, parsed>>

ParseElse ==
  /\ At("else")
  /\ \E next \in {<<>>, <<Expect("stmt", Head(open).n)>>} :
       /\ Len(prog) + Pending(prog, next \o rest) <= grammar.size
       /\ open' = next \o rest
  /\ UNCHANGED <<grammar, prog, labels, gotos, parsed>>

\* '}'.  The body's own '}' ends ParseCompoundStmt in ParseFuncDef, which then
\* resolves every goto or fails.
CloseBlock ==
  /\ At("items") /\ Head(open).n # 1
  /\ Kind(Up(Head(open).n)) = "StmtExpr" => HasValue(prog, Head(open).n)
  /\ open' = Tail(open)
  /\ UNCHANGED <<grammar, prog, labels, gotos, parsed>>

\* Mutant: a label that is nowhere in the function is not diagnosed.
ParseFuncDefUnchecked ==
  /\ At("items") /\ Head(open).n = 1
  /\ prog' = [n \in DOMAIN prog |->
                IF Kind(n) = "Goto" THEN [prog[n] EXCEPT !.to = labels[prog[n].name]]
                ELSE prog[n]]
  /\ open' = <<>>
  /\ labels' = [l \in LabelNames |-> 0]
  /\ gotos' = <<>>
  /\ parsed' = "yes"
  /\ UNCHANGED grammar

ParseFuncDef ==
  /\ At("items") /\ Head(open).n = 1
  /\ IF \E i \in DOMAIN gotos : labels[prog[gotos[i]].name] = 0
     THEN Fail
     ELSE /\ prog' = [n \in DOMAIN prog |->
                        IF Kind(n) = "Goto"
                        THEN [prog[n] EXCEPT !.to = labels[prog[n].name]]
                        ELSE prog[n]]
          /\ open' = <<>>
          /\ labels' = [l \in LabelNames |-> 0]
          /\ gotos' = <<>>
          /\ parsed' = "yes"
          /\ UNCHANGED grammar

\* The expressions that steer control, parsed by ParseExpr.
ParseCondition ==
  LET Form(kind, next, c) ==
        /\ kind \in grammar.exprs
        /\ At("expr")
        /\ Node(kind, next, [Body EXCEPT !.num = c])
        /\ UNCHANGED <<labels, gotos>>
  IN  \/ Form("Dyn", <<>>, 0)
      \/ \E c \in grammar.numbers : Form("Const", <<>>, c) \/ Form("Comma", <<>>, c)
      \/ Form("Not", <<expr>>, 0)
      \/ Form("And", <<expr, expr>>, 0)
      \/ Form("Or", <<expr, expr>>, 0)
      \/ Form("Cond", <<expr, expr, expr>>, 0)
      \/ Form("StmtExpr", <<Expect("body", New)>>, 0)

\* TryParseStmtExpr has seen '(' '{'.
ParseStmtExpr ==
  /\ At("body")
  /\ Node("Compound", <<Expect("items", New)>>, Body)
  /\ UNCHANGED <<labels, gotos>>

ParseStep ==
  \/ ParseExprStmt \/ ParseDecl \/ ParseCompoundStmt \/ ParseIfStmt
  \/ ParseSwitchStmt \/ ParseWhileStmt \/ ParseDoWhileStmt \/ ParseForStmt
  \/ ParseCaseStmt \/ ParseDefaultStmt \/ ParseContinueStmt \/ ParseBreakStmt
  \/ ParseReturnStmt \/ ParseGotoStmt \/ ParseLabelStmt \/ RegisterLabel
  \/ ParseElse \/ CloseBlock \/ ParseFuncDef \/ ParseCondition
  \/ ParseStmtExpr

-----------------------------------------------------------------------------
NodeType == [kind : StmtKind \cup ExprKind, up : Nat, kids : Seq(Nat),
             name : LabelNames \cup {""}, to : Nat, num : Nat,
             form : SUBSET {"init", "cond", "inc", "value"}]

Expectation == [what : {"stmt", "expr", "items", "else", "label", "body"}, n : Nat]

\* The types of the parser's state.
ParseTypeOK ==
  /\ grammar \in Grammars
  /\ prog \in Seq(NodeType)
  /\ open \in Seq(Expectation)
  /\ labels \in [LabelNames -> Nat]
  /\ gotos \in Seq(Nat)
  /\ parsed \in {"no", "yes", "error"}

\* What the recursive descent builds is a tree: a node's children are nodes
\* made after it and know it as their parent, so that every walk of it (Calc,
\* ContainsLabel, EmitStmt) ends.
TreeShape ==
  \A n \in DOMAIN prog :
    /\ n # 1 => prog[n].up \in 1..n - 1
    /\ \A i \in DOMAIN prog[n].kids :
         /\ prog[n].kids[i] \in n + 1..Len(prog)
         /\ prog[prog[n].kids[i]].up = n

\* A function that was parsed has every goto tied to a label of that name in
\* that same function, whichever of the two came first.
GotosResolved ==
  parsed = "yes" =>
    \A n \in DOMAIN prog : prog[n].kind = "Goto" =>
      /\ prog[n].to \in DOMAIN prog
      /\ prog[prog[n].to].kind = "Label"
      /\ prog[prog[n].to].name = prog[n].name

=============================================================================
