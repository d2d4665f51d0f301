------------------------------- MODULE CodeGen -------------------------------
(***************************************************************************)
(* Code generation for the statements and the conditions of one function   *)
(* (code_gen.cpp, code_gen_stmt.cpp, the logical operators of              *)
(* code_gen_expr.cpp): CodeGen walks the tree prog and builds the basic    *)
(* blocks of an LLVM function through IRBuilder.                           *)
(*                                                                         *)
(* A handler that calls back into EmitStmt or Accept is cut at those       *)
(* calls: each piece is an action, and todo is the C++ call stack, what is *)
(* still to run, next first.                                               *)
(*                                                                         *)
(* A block is named by the node it is created for and its role there, so   *)
(* CreateBasicBlock needs no state.  A block holds the events that occur   *)
(* when control runs through it, <<n, "eval">> being the evaluation of     *)
(* node n, <<n, "init">> and <<n, "inc">> the clauses of a for statement.  *)
(***************************************************************************)
EXTENDS Ast, Functions

CONSTANT ReturnsValue   \* the function's return type is not void

ASSUME CodeGenAssumption == ReturnsValue \in BOOLEAN

VARIABLES
  fn,          \* func_: the LLVM function, with Builder's insertion point
  todo,        \* the pieces of the active handlers still to run
  result,      \* result_: the value of the last expression
  loops,       \* break_continue_stack_, innermost first
  switchInst,  \* switch_inst_: the block that ends in the active switch
  status       \* "idle", "emit", then "done", "broken", "error" or "crash"

genVars == <<fn, todo, result, loops, switchInst, status>>

Block(n, role) == <<n, role>>

NoBlock     == Block(0, "none")
EntryBlock  == Block(0, "entry")
AnyValue    == Block(0, "value")   \* no block: an instruction or a global
ReturnBlock == Block(0, "return")

\* A boolean value as a function of the register that holds the last value
\* computed at run time; isConst tells a llvm::Constant from an instruction.
Constant(c) == [isConst |-> TRUE, of |-> [r \in 0..1 |-> IF c = 0 THEN 0 ELSE 1]]
Register    == [isConst |-> FALSE, of |-> [r \in 0..1 |-> r]]

\* A terminator: where it goes for each value of its operand, 0 being the
\* only way out of a br, the false edge of a condbr, the default of a switch.
Term(op, of, to) == [op |-> op, of |-> of, to |-> to]
NoTerm == Term("none", Register.of, [x \in {} |-> NoBlock])
Ret    == Term("ret", Register.of, [x \in {} |-> NoBlock])
Br(b)  == Term("br", Register.of, [x \in {0} |-> b])
CondBr(v, t, f) ==
  Term("condbr", v.of, [x \in 0..1 |-> IF x = 1 THEN t ELSE f])
Switch(default) == Term("switch", Register.of, [x \in {0} |-> default])

-----------------------------------------------------------------------------
\* The function under construction:
\*   blk    the events and the terminator of each block of func_
\*   phi    the incoming values of the phi at the head of a block
\*   loose  what instructions created without an insertion point, which are in
\*          no block, use: targets of terminators, and AnyValue
\*   at     Builder.GetInsertBlock()
Empty == [code |-> <<>>, term |-> NoTerm]

StartedFunction ==
  [blk |-> [b \in {EntryBlock} |-> Empty],
   phi |-> {}, loose |-> {}, at |-> EntryBlock]

HaveInsertPoint(f) == f.at # NoBlock
Terminated(f, b)   == f.blk[b].term.op # "none"
Targets(f, b)      == Range(f.blk[b].term.to)

\* llvm::predecessors walks the users of a block; a terminator that is in
\* no block has no parent to report.
Predecessors(f, b) ==
  {p \in DOMAIN f.blk : b \in Targets(f, p)}
    \cup (IF b \in f.loose THEN {NoBlock} ELSE {})

UseEmpty(f, b) == Predecessors(f, b) = {}

ClearInsertionPoint(f) == [f EXCEPT !.at = NoBlock]

CreateTerm(f, t) ==
  IF HaveInsertPoint(f)
  THEN [f EXCEPT !.blk[f.at].term = t]
  ELSE [f EXCEPT !.loose = @ \cup Range(t.to)]

\* An instruction that uses a value of the function or a global: IRBuilder makes
\* it, and a user of the value, also where there is no block to insert it in.
Insert(f) == IF HaveInsertPoint(f) THEN f ELSE [f EXCEPT !.loose = @ \cup {AnyValue}]

\* One that uses v: a branch on it, or what casts it to bool or negates it.  It
\* is folded if v is a constant.
Use(f, v) == IF v.isConst THEN f ELSE Insert(f)

\* The event is a call, or an access to a variable.
AddEvent(f, e) ==
  IF HaveInsertPoint(f)
  THEN [f EXCEPT !.blk[f.at].code = Append(@, e)]
  ELSE Insert(f)

AddIncoming(f, b, pred, v) ==
  [f EXCEPT !.phi = @ \cup {[at |-> b, from |-> pred, of |-> v.of]}]

EmitBranch(f, b) ==
  ClearInsertionPoint(
    IF HaveInsertPoint(f) /\ ~Terminated(f, f.at) THEN CreateTerm(f, Br(b))
    ELSE f)

PushBack(f, b) ==
  [f EXCEPT !.blk = [x \in DOMAIN f.blk \cup {b} |->
                       IF x = b THEN Empty ELSE f.blk[x]],
            !.at = b]

\* Mutant: the block before does not fall through.
EmitBlockAlone(f, b) == PushBack(f, b)

EmitBlock(f, b) == PushBack(EmitBranch(f, b), b)

\* EmitBlock(b, true): a block nothing branches to is deleted instead.
EmitFinished(f, b) ==
  LET g == EmitBranch(f, b) IN IF UseEmpty(g, b) THEN g ELSE PushBack(g, b)

\* Mutant: the insertion point is not cleared.
EmitBranchAndStay(f, b) == IF HaveInsertPoint(f) THEN CreateTerm(f, Br(b)) ELSE f

EmitBranchThroughCleanup(f, b) ==
  IF HaveInsertPoint(f) THEN ClearInsertionPoint(CreateTerm(f, Br(b))) ELSE f

ReplaceAllUses(f, old, new) ==
  LET Subst(x) == IF x = old THEN new ELSE x
      Redirect(t) == [t EXCEPT !.to = [x \in DOMAIN t.to |-> Subst(t.to[x])]]
  IN  [f EXCEPT
         !.blk = [b \in DOMAIN f.blk |->
                    [f.blk[b] EXCEPT !.term = Redirect(f.blk[b].term)]],
         !.loose = {Subst(x) : x \in f.loose}]

\* Mutant: the users of the block are forgotten.
EraseForwardingBlock(f, b) ==
  IF f.blk[b].term.op # "br" THEN f ELSE [f EXCEPT !.blk = Restrict(@, DOMAIN @ \ {b})]

\* A block that only branches on is taken out and its users go straight to
\* where it went.
SimplifyForwardingBlocks(f, b) ==
  IF f.blk[b].term.op # "br" THEN f
  ELSE LET g == ReplaceAllUses(f, b, f.blk[b].term.to[0])
       IN  [g EXCEPT !.blk = Restrict(@, DOMAIN @ \ {b})]

\* It is undefined for a block that was deleted, or that branches to itself.
Simplifies(f, b) == b \in DOMAIN f.blk /\ f.blk[b].term # Br(b)

-----------------------------------------------------------------------------
\* The pieces of the active handlers.
Piece(op, n) == [op |-> op, n |-> n, t |-> NoBlock, f |-> NoBlock]
EmitStmt(n)  == Piece("stmt", n)
Accept(e)    == Piece("expr", e)
Resume(op, n) == Piece(op, n)
\* EmitBranchOnBoolExpr(e, t, f), and the rest of its last line.
BranchOn(e, t, f)  == [op |-> "branch", n |-> e, t |-> t, f |-> f]
CreateCondBr(t, f) == [op |-> "condbr", n |-> 0, t |-> t, f |-> f]
StartBlock(b)      == [op |-> "block", n |-> 0, t |-> b, f |-> NoBlock]
RestoreSwitch(n)   == [op |-> "switch.end", n |-> n, t |-> switchInst, f |-> NoBlock]

Top == Head(todo)

Running(op) == status = "emit" /\ todo # <<>> /\ Top.op = op

\* The rest of the handler: f is the function so far, next what it calls.
Go(f, next) ==
  /\ fn' = f
  /\ todo' = next \o Tail(todo)
  /\ UNCHANGED status

\* The process ends: Error() was called, an assertion failed, or a null
\* pointer was used.
Stop(how) ==
  /\ status' = how
  /\ todo' = <<>>
  /\ UNCHANGED <<fn, result, loops, switchInst>>

Keep == UNCHANGED <<result, loops, switchInst>>

\* The same when an expression computed at run time has just been emitted.
Evaluate(f, next) ==
  Go(f, next) /\ result' = Register /\ UNCHANGED <<loops, switchInst>>

GenInit ==
  /\ fn = StartedFunction
  /\ todo = <<>>
  /\ result = Constant(0)
  /\ loops = <<>>
  /\ switchInst = NoBlock
  /\ status = "idle"

\* Visit(FuncDef): StartFunction, EmitStmt on the body, FinishFunction.  The
\* name of the function is an expression like any other, not null.
StartFunction ==
  /\ status = "idle"
  /\ fn' = StartedFunction
  /\ todo' = <<EmitStmt(1), Resume("finish", 1)>>
  /\ status' = "emit"
  /\ result' = Constant(1)
  /\ UNCHANGED <<loops, switchInst>>

-----------------------------------------------------------------------------
\* EmitStmt.  A simple statement is visited whatever the insertion point; any
\* other is dropped where no code can run, unless it contains a label.
Simple == {"Label", "Case", "Default", "Compound", "Goto", "Continue", "Break",
           "Decl"}

Live(n) == Kind(n) \in Simple \/ HaveInsertPoint(fn) \/ ContainsLabel(n)

DropStmt ==
  /\ Running("stmt") /\ ~Live(Top.n)
  /\ Go(fn, <<>>) /\ Keep

Visit(kind) == Running("stmt") /\ Kind(Top.n) = kind /\ Live(Top.n)

\* EnsureInsertPoint, as EmitStmt calls it.
Ensured ==
  IF HaveInsertPoint(fn) \/ Kind(Top.n) \in Simple THEN fn
  ELSE EmitBlock(fn, Block(Top.n, "anon"))

GetBasicBlockForLabel(n) == Block(n, "label")

VisitLabelStmt ==
  /\ Visit("Label")
  /\ Go(EmitBlock(fn, GetBasicBlockForLabel(Top.n)), <<EmitStmt(GetBody(Top.n))>>)
  /\ Keep

\* switch_inst_ points at a switch instruction, and not at nothing.
InSwitch == /\ switchInst \in DOMAIN fn.blk
            /\ fn.blk[switchInst].term.op = "switch"

\* SwitchInst::addCase.
AddCase(f, switch, n, b) ==
  LET to == f.blk[switch].term.to IN
  [f EXCEPT !.blk[switch].term.to =
     [x \in DOMAIN to \cup {n} |-> IF x = n THEN b ELSE to[x]]]

VisitCaseStmt ==
  LET n == Top.n
      b == Block(n, "case")
      f == EmitBlock(fn, b)
  IN
  /\ Visit("Case")
  /\ IF ~InSwitch THEN Stop("crash")
     ELSE Go(AddCase(f, switchInst, n, b), <<EmitStmt(GetBody(n))>>) /\ Keep

\* assert(default_block->empty()); a block cannot be put in a list twice either.
VisitDefaultStmt ==
  LET b == fn.blk[switchInst].term.to[0] IN
  /\ Visit("Default")
  /\ IF ~InSwitch \/ b \in DOMAIN fn.blk THEN Stop("crash")
     ELSE Go(EmitBlock(fn, b), <<EmitStmt(GetBody(Top.n))>>) /\ Keep

Stmts(n) == [i \in DOMAIN Kids(n) |-> EmitStmt(Kids(n)[i])]

VisitCompoundStmt == Visit("Compound") /\ Go(fn, Stmts(Top.n)) /\ Keep

\* An expression statement that is opaque to the model, and one that is one of
\* the modelled expressions.
VisitExprStmt ==
  /\ Visit("Expr")
  /\ IF Kids(Top.n) = <<>> THEN Evaluate(AddEvent(Ensured, <<Top.n, "eval">>), <<>>)
     ELSE Go(Ensured, <<Accept(Kids(Top.n)[1])>>) /\ Keep

VisitNullStmt == Visit("Null") /\ Go(Ensured, <<>>) /\ Keep

\* DealLocaleDecl for a scalar: the initialiser is evaluated, without regard to
\* the insertion point ...
VisitDeclaration ==
  LET n == Top.n IN
  /\ Visit("Decl")
  /\ IF Kids(n) = <<>> THEN Evaluate(AddEvent(fn, <<n, "eval">>), <<>>)
     ELSE Go(fn, <<Accept(Kids(n)[1]), Resume("store", n)>>) /\ Keep

\* ... and stored where the variable is.
StoreInit == Running("store") /\ Go(Insert(fn), <<>>) /\ Keep

-----------------------------------------------------------------------------
\* A constant condition picks the branch now, if the other has no label.
Executed(n) == IF Calc(GetCond(n)) # 0 THEN <<GetThen(n)>>
               ELSE IF HasElse(n) THEN <<GetElse(n)>> ELSE <<>>
Skipped(n)  == IF Calc(GetCond(n)) = 0 THEN <<GetThen(n)>>
               ELSE IF HasElse(n) THEN <<GetElse(n)>> ELSE <<>>

Folds(n) == /\ Calc(GetCond(n)) # NotConst
            /\ \A i \in DOMAIN Skipped(n) : ~ContainsLabel(Skipped(n)[i])

FoldIfStmt ==
  LET n == Top.n IN
  /\ Visit("If") /\ Folds(n)
  /\ Go(Ensured, [i \in DOMAIN Executed(n) |-> EmitStmt(Executed(n)[i])])
  /\ Keep

VisitIfStmt ==
  LET n == Top.n
      else == Block(n, IF HasElse(n) THEN "else" ELSE "end")
  IN
  /\ Visit("If") /\ ~Folds(n)
  /\ Go(Ensured, <<BranchOn(GetCond(n), Block(n, "then"), else),
                   StartBlock(Block(n, "then")), EmitStmt(GetThen(n)),
                   Resume("if.else", n)>>)
  /\ Keep

IfElse ==
  LET n == Top.n
      f == EmitBranch(fn, Block(n, "end"))
  IN
  /\ Running("if.else")
  /\ IF HasElse(n)
     THEN Go(EmitBlock(f, Block(n, "else")),
             <<EmitStmt(GetElse(n)), Resume("if.end", n)>>)
     ELSE Go(EmitFinished(f, Block(n, "end")), <<>>)
  /\ Keep

IfEnd ==
  /\ Running("if.end")
  /\ Go(EmitFinished(EmitBranch(fn, Block(Top.n, "end")), Block(Top.n, "end")), <<>>)
  /\ Keep

PopBlock == loops' = Tail(loops) /\ UNCHANGED <<result, switchInst>>

PushBlock(break, continue) ==
  loops' = <<[break |-> break, continue |-> continue]>> \o loops

\* The switch is created with its default, and continue inside it goes where
\* it would outside, to a null block if that is nowhere.
VisitSwitchStmt ==
  LET n == Top.n
      f == AddEvent(Ensured, <<n, "eval">>)
      continue == IF loops = <<>> THEN NoBlock ELSE Head(loops).continue
  IN
  /\ Visit("Switch")
  /\ Go(ClearInsertionPoint(CreateTerm(f, Switch(Block(n, "default")))),
        <<EmitStmt(GetBody(n)), RestoreSwitch(n)>>)
  /\ switchInst' = f.at
  /\ PushBlock(Block(n, "end"), continue)
  /\ result' = Register

\* Mutant: the default of a switch without one is left as it is.
SwitchEndKeepsDefault ==
  /\ Running("switch.end")
  /\ Go(EmitFinished(fn, Block(Top.n, "end")), <<>>)
  /\ loops' = Tail(loops)
  /\ switchInst' = Top.t
  /\ UNCHANGED result

\* Mutant: the default goes to the end even if there is one.
SwitchEndSkipsDefault ==
  LET end == Block(Top.n, "end") IN
  /\ Running("switch.end")
  /\ Go(EmitFinished(ReplaceAllUses(fn, Block(Top.n, "default"), end), end), <<>>)
  /\ loops' = Tail(loops)
  /\ switchInst' = Top.t
  /\ UNCHANGED result

SwitchEnd ==
  LET n == Top.n
      default == Block(n, "default")
      f == IF default \in DOMAIN fn.blk THEN fn
           ELSE ReplaceAllUses(fn, default, Block(n, "end"))
  IN
  /\ Running("switch.end")
  /\ Go(EmitFinished(f, Block(n, "end")), <<>>)
  /\ loops' = Tail(loops)
  /\ switchInst' = Top.t
  /\ UNCHANGED result

-----------------------------------------------------------------------------
VisitWhileStmt ==
  LET n == Top.n IN
  /\ Visit("While")
  /\ Go(EmitBlock(Ensured, Block(n, "cond")),
        <<Accept(GetCond(n)), Resume("while.body", n)>>)
  /\ PushBlock(Block(n, "end"), Block(n, "cond"))
  /\ UNCHANGED <<result, switchInst>>

\* while (1): no branch on the condition.
IsOne  == result.isConst /\ result.of[0] = 1
IsZero == result.isConst /\ result.of[0] = 0

WhileBody ==
  LET n == Top.n
      f == IF IsOne THEN fn
           ELSE CreateTerm(Use(fn, result),
                           CondBr(result, Block(n, "body"), Block(n, "end")))
      end == Resume(IF IsOne THEN "while.end.one" ELSE "while.end", n)
  IN
  /\ Running("while.body")
  /\ Go(EmitBlock(f, Block(n, "body")), <<EmitStmt(GetBody(n)), end>>)
  /\ Keep

WhileEnd ==
  LET n == Top.n
      f == EmitFinished(EmitBranch(fn, Block(n, "cond")), Block(n, "end"))
  IN
  /\ Running("while.end") \/ Running("while.end.one")
  /\ IF Top.op = "while.end" THEN Go(f, <<>>) /\ PopBlock
     ELSE IF ~Simplifies(f, Block(n, "cond")) THEN Stop("crash")
     ELSE Go(SimplifyForwardingBlocks(f, Block(n, "cond")), <<>>) /\ PopBlock

\* Mutant: continue goes to the body.
VisitDoWhileContinuingAtBody ==
  LET n == Top.n IN
  /\ Visit("DoWhile")
  /\ Go(EmitBlock(Ensured, Block(n, "body")),
        <<EmitStmt(GetBody(n)), Resume("do.cond", n)>>)
  /\ PushBlock(Block(n, "end"), Block(n, "body"))
  /\ UNCHANGED <<result, switchInst>>

VisitDoWhileStmt ==
  LET n == Top.n IN
  /\ Visit("DoWhile")
  /\ Go(EmitBlock(Ensured, Block(n, "body")),
        <<EmitStmt(GetBody(n)), Resume("do.cond", n)>>)
  /\ PushBlock(Block(n, "end"), Block(n, "cond"))
  /\ UNCHANGED <<result, switchInst>>

DoWhileCond ==
  LET n == Top.n IN
  /\ Running("do.cond")
  /\ Go(EmitBlock(fn, Block(n, "cond")),
        <<Accept(GetCond(n)), Resume("do.end", n)>>)
  /\ PopBlock

DoWhileEnd ==
  LET n == Top.n
      f == EmitBlock(IF IsZero THEN fn
                     ELSE CreateTerm(Use(fn, result),
                                     CondBr(result, Block(n, "body"), Block(n, "end"))),
                     Block(n, "end"))
  IN
  /\ Running("do.end")
  /\ IF ~IsZero THEN Go(f, <<>>) /\ Keep
     ELSE IF ~Simplifies(f, Block(n, "cond")) THEN Stop("crash")
     ELSE Go(SimplifyForwardingBlocks(f, Block(n, "cond")), <<>>) /\ Keep

\* The init clause, expression or declaration, then the condition.
VisitForStmt ==
  LET n == Top.n
      init == IF Has(n, "init") THEN AddEvent(Ensured, <<n, "init">>) ELSE Ensured
      body == Resume("for.body", n)
      next == IF ~Has(n, "cond") THEN <<body>>
              ELSE <<BranchOn(GetCond(n), Block(n, "body"), Block(n, "end")),
                     StartBlock(Block(n, "body")), body>>
  IN
  /\ Visit("For")
  /\ Go(EmitBlock(init, Block(n, "cond")), next)
  /\ Keep

\* Mutant: continue goes past the increment.
ForBodyContinuingAtCond ==
  LET n == Top.n IN
  /\ Running("for.body")
  /\ Go(fn, <<EmitStmt(GetBody(n)), Resume("for.end", n)>>)
  /\ PushBlock(Block(n, "end"), Block(n, "cond"))
  /\ UNCHANGED <<result, switchInst>>

ForBody ==
  LET n == Top.n
      continue == Block(n, IF Has(n, "inc") THEN "inc" ELSE "cond")
  IN
  /\ Running("for.body")
  /\ Go(fn, <<EmitStmt(GetBody(n)), Resume("for.end", n)>>)
  /\ PushBlock(Block(n, "end"), continue)
  /\ UNCHANGED <<result, switchInst>>

\* Mutant: no PopBlock.
ForEndWithoutPop ==
  LET n == Top.n
      f == IF Has(n, "inc")
           THEN AddEvent(EmitBlock(fn, Block(n, "inc")), <<n, "inc">>)
           ELSE fn
  IN
  /\ Running("for.end")
  /\ Go(EmitFinished(EmitBranch(f, Block(n, "cond")), Block(n, "end")), <<>>)
  /\ Keep

ForEnd ==
  LET n == Top.n
      f == IF Has(n, "inc")
           THEN AddEvent(EmitBlock(fn, Block(n, "inc")), <<n, "inc">>)
           ELSE fn
  IN
  /\ Running("for.end")
  /\ Go(EmitFinished(EmitBranch(f, Block(n, "cond")), Block(n, "end")), <<>>)
  /\ PopBlock

VisitGotoStmt ==
  /\ Visit("Goto")
  /\ Go(EmitBranchThroughCleanup(fn, GetBasicBlockForLabel(prog[Top.n].to)), <<>>)
  /\ Keep

\* Mutant: the null block is taken for a block.
BranchToAny(b) == Go(EmitBranchThroughCleanup(fn, b), <<>>) /\ Keep

\* CreateBr to a null block is undefined.
BranchTo(b) ==
  IF b = NoBlock /\ HaveInsertPoint(fn) THEN Stop("crash")
  ELSE Go(EmitBranchThroughCleanup(fn, b), <<>>) /\ Keep

VisitContinueStmt ==
  /\ Visit("Continue")
  /\ IF loops = <<>> THEN Stop("error") ELSE BranchTo(Head(loops).continue)

VisitBreakStmt ==
  /\ Visit("Break")
  /\ IF loops = <<>> THEN Stop("error") ELSE BranchTo(Head(loops).break)

\* A void function has no return_value_ to store to.
VisitReturnStmt ==
  /\ Visit("Return")
  /\ IF ~Has(Top.n, "value")
     THEN Go(EmitBranchThroughCleanup(Ensured, ReturnBlock), <<>>) /\ Keep
     ELSE IF ReturnsValue
     THEN Evaluate(EmitBranchThroughCleanup(AddEvent(Ensured, <<Top.n, "eval">>),
                                            ReturnBlock), <<>>)
     ELSE Stop("error")

-----------------------------------------------------------------------------
\* Expressions, for their value (Accept) ...
Expression(kind) == Running("expr") /\ Kind(Top.n) = kind

Value(v) == Go(fn, <<>>) /\ result' = v /\ UNCHANGED <<loops, switchInst>>

\* The next expressions to evaluate; the value is that of the last of them.
Then(next) == Go(fn, next) /\ Keep

VisitConstantExpr == Expression("Const") /\ Value(Constant(prog[Top.n].num))

\* A call, a load, a comparison: its value is known at run time.
VisitFuncCallExpr ==
  Expression("Dyn") /\ Evaluate(AddEvent(fn, <<Top.n, "eval">>), <<>>)

\* (effect, constant): Visit(BinaryOpExpr) answers the value of its right side.
VisitCommaExpr ==
  /\ Expression("Comma")
  /\ Go(AddEvent(fn, <<Top.n, "eval">>), <<>>)
  /\ result' = Constant(prog[Top.n].num)
  /\ UNCHANGED <<loops, switchInst>>

VisitUnaryOpExpr ==
  Expression("Not") /\ Then(<<Accept(Kids(Top.n)[1]), Resume("not", Top.n)>>)

LogicNotOp ==
  /\ Running("not")
  /\ Go(Use(fn, result), <<>>)
  /\ result' = [result EXCEPT !.of = [r \in 0..1 |-> 1 - @[r]]]
  /\ UNCHANGED <<loops, switchInst>>

\* Visit(ConditionOpExpr).  lhs and rhs are the blocks the arms end in.
VisitConditionOpExpr ==
  LET n == Top.n
      cond == Kids(n)[1]
      lhs == Kids(n)[2]
      rhs == Kids(n)[3]
  IN
  /\ Expression("Cond")
  /\ IF Calc(cond) # NotConst THEN Then(<<Accept(IF Calc(cond) = 0 THEN rhs ELSE lhs)>>)
     ELSE IF Kind(lhs) = "Const" /\ Kind(rhs) = "Const"
     THEN Then(<<Accept(cond), Resume("select", n)>>)
     ELSE Then(<<BranchOn(cond, Block(n, "lhs"), Block(n, "rhs")),
                 StartBlock(Block(n, "lhs")), Accept(lhs), Resume("cond.lhs", n),
                 StartBlock(Block(n, "rhs")), Accept(rhs), Resume("cond.rhs", n)>>)

\* CreateSelect folds when the condition is a constant.
SelectArm ==
  LET Arm(i) == Constant(prog[Kids(Top.n)[i]].num).of[0] IN
  /\ Running("select")
  /\ Go(Use(fn, result), <<>>)
  /\ result' = [result EXCEPT !.of =
                  [r \in 0..1 |-> IF @[r] = 1 THEN Arm(2) ELSE Arm(3)]]
  /\ UNCHANGED <<loops, switchInst>>

EndArm(f, n) == EmitBranch(AddIncoming(f, Block(n, "end"), f.at, result), Block(n, "end"))

CondLhsEnd == Running("cond.lhs") /\ Go(EndArm(fn, Top.n), <<>>) /\ Keep

CondRhsEnd ==
  /\ Running("cond.rhs")
  /\ Evaluate(EmitBlock(EndArm(fn, Top.n), Block(Top.n, "end")), <<>>)

\* LogicAndOp and LogicOrOp.  A constant left operand is the whole value or has
\* no part in it; && takes isOneValue for not zero.
Decides(n) ==
  LET c == Calc(Kids(n)[1]) IN IF Kind(n) = "And" THEN c # 1 ELSE c # 0

ShortValue(n) == Constant(IF Kind(n) = "And" THEN 0 ELSE 1)

VisitLogicOp ==
  LET n == Top.n
      rhs == Block(n, "rhs")
      end == Block(n, "end")
      branch == IF Kind(n) = "And" THEN BranchOn(Kids(n)[1], rhs, end)
                ELSE BranchOn(Kids(n)[1], end, rhs)
  IN
  /\ Expression("And") \/ Expression("Or")
  /\ IF Calc(Kids(n)[1]) = NotConst THEN Then(<<branch, Resume("logic.rhs", n)>>)
     ELSE IF Decides(n) THEN Value(ShortValue(n))
     ELSE Then(<<Accept(Kids(n)[2])>>)

\* The predecessors of the end block so far are those the left operand decides.
LogicRhs ==
  LET n == Top.n
      end == Block(n, "end")
      short == [fn EXCEPT !.phi = @ \cup
                  {[at |-> end, from |-> p, of |-> ShortValue(n).of] :
                     p \in Predecessors(fn, end)}]
  IN
  /\ Running("logic.rhs")
  /\ Go(EmitBlock(short, Block(n, "rhs")), <<Accept(Kids(n)[2]), Resume("logic.end", n)>>)
  /\ Keep

\* Mutant: the value of the right operand does not reach the phi.
LogicEndWithoutValue ==
  Running("logic.end") /\ Evaluate(EmitBlock(fn, Block(Top.n, "end")), <<>>)

LogicEnd ==
  LET end == Block(Top.n, "end") IN
  /\ Running("logic.end")
  /\ Evaluate(AddIncoming(EmitBlock(fn, end), end, fn.at, result), <<>>)

\* Mutant: only the statement that gives the value is emitted.
VisitLastOfStmtExpr ==
  Expression("StmtExpr") /\ Then(<<EmitStmt(Last(Kids(Kids(Top.n)[1])))>>)

VisitStmtExpr == Expression("StmtExpr") /\ Then(Stmts(Kids(Top.n)[1]))

\* Mutant: ! does not exchange the targets.
EmitBranchOnUnnegated ==
  LET n == Top.n
      k == Kids(n)
      lhs == Block(n, "lhs")
      rhs == Block(n, "rhs")
  IN
  /\ Running("branch")
  /\ Then(CASE Kind(n) = "And" ->
              <<BranchOn(k[1], lhs, Top.f), StartBlock(lhs), BranchOn(k[2], Top.t, Top.f)>>
           [] Kind(n) = "Or" ->
              <<BranchOn(k[1], Top.t, lhs), StartBlock(lhs), BranchOn(k[2], Top.t, Top.f)>>
           [] Kind(n) = "Not" -> <<BranchOn(k[1], Top.t, Top.f)>>
           [] Kind(n) = "Cond" ->
              <<BranchOn(k[1], lhs, rhs), StartBlock(lhs), BranchOn(k[2], Top.t, Top.f),
                StartBlock(rhs), BranchOn(k[3], Top.t, Top.f)>>
           [] OTHER -> <<Accept(n), CreateCondBr(Top.t, Top.f)>>)

\* ... and for the branch they decide (EmitBranchOnBoolExpr).
EmitBranchOnBoolExpr ==
  LET n == Top.n
      t == Top.t
      f == Top.f
      k == Kids(n)
      lhs == Block(n, "lhs")
      rhs == Block(n, "rhs")
  IN
  /\ Running("branch")
  /\ Then(CASE Kind(n) = "And" ->
              <<BranchOn(k[1], lhs, f), StartBlock(lhs), BranchOn(k[2], t, f)>>
           [] Kind(n) = "Or" ->
              <<BranchOn(k[1], t, lhs), StartBlock(lhs), BranchOn(k[2], t, f)>>
           [] Kind(n) = "Not" -> <<BranchOn(k[1], f, t)>>
           [] Kind(n) = "Cond" ->
              <<BranchOn(k[1], lhs, rhs), StartBlock(lhs), BranchOn(k[2], t, f),
                StartBlock(rhs), BranchOn(k[3], t, f)>>
           [] OTHER -> <<Accept(n), CreateCondBr(t, f)>>)

BranchOnValue ==
  /\ Running("condbr")
  /\ Go(CreateTerm(Use(fn, result), CondBr(result, Top.t, Top.f)), <<>>)
  /\ Keep

EmitNextBlock == Running("block") /\ Go(EmitBlock(fn, Top.t), <<>>) /\ Keep

-----------------------------------------------------------------------------
\* The entry block is never empty, it holds alloc_insert_point_; a phi is an
\* instruction too.
IsEmpty(f, b) ==
  /\ b # EntryBlock /\ f.blk[b].code = <<>>
  /\ \A p \in f.phi : p.at # b

\* Mutant: the returns join the block Builder is in, whatever it holds.
EmitReturnIntoBlock(f) ==
  IF HaveInsertPoint(f) THEN ReplaceAllUses(f, ReturnBlock, f.at)
  ELSE EmitBlock(f, ReturnBlock)

EmitReturnBlock(f) ==
  IF HaveInsertPoint(f) /\ (IsEmpty(f, f.at) \/ UseEmpty(f, ReturnBlock))
  THEN ReplaceAllUses(f, ReturnBlock, f.at)
  ELSE EmitBlock(f, ReturnBlock)

EmitFunctionEpilog(f) == CreateTerm(f, Ret)

\* What verifyModule asks of the function: each block ends in a terminator,
\* which goes to blocks of this function other than the first, a phi has one
\* entry for each predecessor, and nothing that is in no block uses a value of
\* the function or a global.
WellFormed(f) ==
  /\ \A b \in DOMAIN f.blk :
       /\ Terminated(f, b)
       /\ Targets(f, b) \subseteq DOMAIN f.blk \ {EntryBlock}
  /\ \A p \in f.phi : {q.from : q \in {q \in f.phi : q.at = p.at}} =
                     Predecessors(f, p.at) \ {NoBlock}
  /\ AnyValue \notin f.loose

\* FinishFunction with the assertion of EmitReturnBlock, then the end of
\* GenCode: a module that is not well formed ends the process.
FinishFunction ==
  LET f == EmitFunctionEpilog(EmitReturnBlock(fn)) IN
  /\ Running("finish")
  /\ IF HaveInsertPoint(fn) /\ Terminated(fn, fn.at) THEN Stop("crash")
     ELSE /\ fn' = f
          /\ todo' = <<>>
          /\ status' = IF WellFormed(f) THEN "done" ELSE "broken"
          /\ Keep

GenStep ==
  \/ StartFunction \/ DropStmt \/ VisitLabelStmt \/ VisitCaseStmt
  \/ VisitDefaultStmt \/ VisitCompoundStmt \/ VisitExprStmt \/ VisitNullStmt
  \/ VisitDeclaration \/ StoreInit \/ FoldIfStmt \/ VisitIfStmt \/ IfElse \/ IfEnd
  \/ VisitSwitchStmt \/ SwitchEnd \/ VisitWhileStmt \/ WhileBody \/ WhileEnd
  \/ VisitDoWhileStmt \/ DoWhileCond \/ DoWhileEnd \/ VisitForStmt \/ ForBody
  \/ ForEnd \/ VisitGotoStmt \/ VisitContinueStmt \/ VisitBreakStmt
  \/ VisitReturnStmt \/ VisitConstantExpr \/ VisitFuncCallExpr \/ VisitCommaExpr
  \/ VisitUnaryOpExpr \/ LogicNotOp \/ VisitConditionOpExpr \/ SelectArm
  \/ CondLhsEnd \/ CondRhsEnd \/ VisitLogicOp \/ LogicRhs \/ LogicEnd
  \/ VisitStmtExpr \/ EmitBranchOnBoolExpr \/ BranchOnValue \/ EmitNextBlock
  \/ FinishFunction

-----------------------------------------------------------------------------
\* The types of the code generator's state.
Roles == {"none", "value", "entry", "return", "anon", "label", "case", "default", "then",
          "else", "end", "cond", "body", "inc", "lhs", "rhs"}
Blocks == Nat \X Roles
Events == Nat \X {"eval", "init", "inc"}

Ops == {"stmt", "expr", "branch", "condbr", "block", "finish", "store",
        "if.else", "if.end", "switch.end", "while.body", "while.end", "while.end.one",
        "do.cond", "do.end", "for.body", "for.end", "not", "select", "cond.lhs",
        "cond.rhs", "logic.rhs", "logic.end"}

IsTerm(t) ==
  /\ t = [op |-> t.op, of |-> t.of, to |-> t.to]
  /\ t.op \in {"none", "ret", "br", "condbr", "switch"}
  /\ t.of \in [0..1 -> 0..1]
  /\ DOMAIN t.to \subseteq Nat
  /\ \A x \in DOMAIN t.to : t.to[x] \in Blocks \ {NoBlock}

CodeGenTypeOK ==
  /\ fn = [blk |-> fn.blk, phi |-> fn.phi, loose |-> fn.loose, at |-> fn.at]
  /\ \A b \in DOMAIN fn.blk :
       /\ b \in Blocks \ {NoBlock}
       /\ fn.blk[b] \in [code : Seq(Events), term : {fn.blk[b].term}]
       /\ IsTerm(fn.blk[b].term)
  /\ fn.phi \subseteq [at : Blocks, from : Blocks, of : [0..1 -> 0..1]]
  /\ fn.loose \subseteq Blocks /\ fn.at \in Blocks
  /\ todo \in Seq([op : Ops, n : Nat, t : Blocks, f : Blocks])
  /\ result \in [isConst : BOOLEAN, of : [0..1 -> 0..1]]
  /\ loops \in Seq([break : Blocks, continue : Blocks])
  /\ switchInst \in Blocks
  /\ status \in {"idle", "emit", "done", "broken", "error", "crash"}

\* The pieces of the handlers that have called PushBlock and not yet PopBlock.
Pushed == {"while.body", "while.end", "while.end.one", "do.cond", "for.end", "switch.end"}

\* How many pieces from each on have still to call PopBlock.
Depth ==
  LET depth[i \in 1..Len(todo) + 1] ==
        IF i > Len(todo) THEN 0
        ELSE depth[i + 1] + IF todo[i].op \in Pushed THEN 1 ELSE 0
  IN depth

\* break_continue_stack_ holds the end block of each construct whose body is
\* being generated, innermost first, and nothing else: a body that is left by
\* an early return of its handler pops what it pushed.  It is empty at the end
\* of the function (the first assertion of GenCode).
LoopStackMatchesCalls ==
  status \in {"emit", "done", "broken"} =>
    /\ Len(loops) = Depth[1]
    /\ \A i \in DOMAIN todo : todo[i].op \in Pushed =>
         loops[Len(loops) + 1 - Depth[i]].break = Block(todo[i].n, "end")

\* Builder is never left in a block that already has a terminator, other than
\* between a conditional branch and the block that is started next: nothing
\* is ever inserted behind a terminator.
OpenInsertPoint ==
  status = "emit" /\ HaveInsertPoint(fn) /\ Terminated(fn, fn.at) =>
    Top.op \in {"block", "logic.rhs"}

\* A block Builder has left is complete.  At the end of the function every
\* block is: no path of any handler leaves one open.
AllTerminated ==
  /\ \A b \in DOMAIN fn.blk \ {fn.at} : status = "emit" => Terminated(fn, b)
  /\ status \in {"done", "broken"} => \A b \in DOMAIN fn.blk : Terminated(fn, b)

=============================================================================
