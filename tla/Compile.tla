------------------------------- MODULE Compile -------------------------------
(***************************************************************************)
(* One function through the whole of kcc: the parser builds prog, the code *)
(* generator builds fn from it, and the machine runs fn.  The last part is *)
(* LLVM's business; it is here so that what was generated can be compared, *)
(* event by event, with what the source means (SourceSemantics).           *)
(***************************************************************************)
EXTENDS ParseStmt, CodeGen

CONSTANT Apart   \* the groups of bodies (below) this instance leaves out

VARIABLES
  pc,       \* where the machine is: [block, i], i the next instruction
  reg,      \* the last truth value computed
  event,    \* the last event and ...
  outcome,  \* ... what it yielded
  turn      \* flips with every event

runVars == <<pc, reg, event, outcome, turn>>
vars == <<parseVars, genVars, runVars>>

Source == INSTANCE SourceSemantics

-----------------------------------------------------------------------------
\* The constraints of C11 6.8 the parser does not enforce, and GNU C's rule
\* that no jump enters a statement expression.
Inside(n, k) == LET in[m \in 0..Len(prog)] == m # 0 /\ (m = k \/ in[Up(m)]) IN in[n]

BelongsTo(n, kinds) ==
  LET e == Enclosing(n, kinds \cup {"StmtExpr"}) IN e # 0 /\ Kind(e) \in kinds

ValidJumps ==
  /\ \A n \in NodesOf({"Break"}) : BelongsTo(n, Loops \cup {"Switch"})
  /\ \A n \in NodesOf({"Continue"}) : ~\E s \in NodesOf({"StmtExpr"}) :
       Inside(n, s) /\ ~Inside(Enclosing(n, Loops), s)
  /\ \A n \in NodesOf({"Continue"}) : Enclosing(n, Loops) # 0
  /\ \A g \in NodesOf({"Goto"}), s \in NodesOf({"StmtExpr"}) :
       Inside(prog[g].to, s) => Inside(g, s)

ValidLabels ==
  /\ \A n \in NodesOf({"Case", "Default"}) : BelongsTo(n, {"Switch"})
  /\ \A d, e \in NodesOf({"Default"}) :
       Enclosing(d, {"Switch"}) = Enclosing(e, {"Switch"}) => d = e
  /\ \A l, m \in NodesOf({"Label"}) : prog[l].name = prog[m].name => l = m

ValidReturns == \A n \in NodesOf({"Return"}) : Has(n, "value") <=> ReturnsValue

Valid == ValidJumps /\ ValidLabels /\ ValidReturns

-----------------------------------------------------------------------------
\* Bodies kcc compiles to something else than they mean, or not at all.  A run
\* names in Apart the groups it leaves out.
Within(n, kinds) == \E m \in NodesOf(kinds) : Inside(m, n)

\* Statement s may leave Builder without an insertion point: it jumps, or a
\* loop in it may have no way out.
Leaves(s) ==
  \/ Within(s, {"Goto", "Return", "Break", "Continue"})
  \/ \E n \in NodesOf({"While"}) : Inside(n, s) /\ Within(GetCond(n), {"Const", "Comma"})
  \/ \E n \in NodesOf({"For"}) : Inside(n, s) /\ ~Has(n, "cond")

\* Statement n comes where no insertion point need be: behind such a statement,
\* or first in a switch, with no label in between.
CutOff(n) ==
  LET cut[m \in DOMAIN prog] ==
        LET b == Up(m)
            before == {i \in DOMAIN Kids(b) : Kids(b)[i] < m}
            NoLabel(s) == \A i \in before : Kids(b)[i] > s => ~ContainsLabel(Kids(b)[i])
        IN  /\ b # 0
            /\ \/ Kind(b) = "Switch"
               \/ /\ Kind(b) = "Compound"
                  /\ \/ cut[b] /\ NoLabel(0)
                     \/ \E i \in before : Leaves(Kids(b)[i]) /\ NoLabel(Kids(b)[i])
  IN  cut[n]

Group(g) ==
  CASE g = "invalid" -> ~Valid
    \* ({ f(); 1; }) as a constant: only the last statement is looked at
    [] g = "constant statement expression" ->
         \E e \in NodesOf({"StmtExpr"}) : Calc(e) # NotConst
    \* while (f(), 1): the block of the condition is taken out with the call
    [] g = "constant condition with an effect" ->
         \E n \in NodesOf({"While", "DoWhile"}) :
           Within(GetCond(n), {"Comma", "StmtExpr"})
    \* 2 && x
    [] g = "true constant other than 1" ->
         \E n \in NodesOf({"And"}) : Calc(Kids(n)[1]) \notin {NotConst, 0, 1}
    \* while (1); int x = f();
    [] g = "unreachable initialiser" -> \E d \in NodesOf({"Decl"}) : CutOff(d)
    \* if (({ return f(); g(); })) ...
    [] g = "value behind a jump" ->
         \E e \in NodesOf({"StmtExpr"}) :
           /\ CutOff(Last(Kids(Kids(e)[1])))
           /\ Kind(Up(e)) # "Expr" \/ Source!IsValueOf(Up(e))

InScope == \A g \in Apart : ~Group(g)

-----------------------------------------------------------------------------
Init ==
  /\ ParseInit /\ GenInit
  /\ pc = [block |-> NoBlock, i |-> 0] /\ reg = 0
  /\ Source!SrcInit

Parse == ParseStep /\ UNCHANGED <<genVars, runVars>>

Generate == parsed = "yes" /\ InScope /\ GenStep /\ UNCHANGED <<parseVars, runVars>>

\* The machine.  Control enters a block through its phi.
Enter(b) ==
  /\ pc' = [block |-> b, i |-> 1]
  /\ reg' = LET ins == {p \in fn.phi : p.at = b /\ p.from = pc.block}
            IN  IF ins = {} THEN reg ELSE (CHOOSE p \in ins : TRUE).of[reg]

Code == fn.blk[pc.block].code
Exit == fn.blk[pc.block].term

RunFunction ==
  /\ status = "done" /\ pc.i = 0
  /\ Enter(EntryBlock)
  /\ UNCHANGED <<event, outcome, turn>>

RunEvent ==
  /\ pc.i \in DOMAIN Code
  /\ event' = Code[pc.i]
  /\ outcome' \in Source!Outcomes(event')
  /\ reg' = IF Kind(event'[1]) = "Dyn" THEN outcome' ELSE reg
  /\ pc' = [pc EXCEPT !.i = @ + 1]
  /\ turn' = 1 - turn

RunTerminator ==
  /\ pc.i > Len(Code) /\ Exit.op # "ret"
  /\ Enter(CASE Exit.op = "condbr" -> Exit.to[Exit.of[reg]]
             [] Exit.op = "switch" /\ outcome \in DOMAIN Exit.to -> Exit.to[outcome]
             [] OTHER -> Exit.to[0])
  /\ UNCHANGED <<event, outcome, turn>>

RunReturn ==
  /\ pc.i > Len(Code) /\ Exit.op = "ret" /\ event # Source!Returned
  /\ event' = Source!Returned /\ outcome' = 0 /\ turn' = 1 - turn
  /\ UNCHANGED <<pc, reg>>

Run ==
  /\ \/ RunFunction
     \/ pc.i # 0 /\ (RunEvent \/ RunTerminator \/ RunReturn)
  /\ UNCHANGED <<parseVars, genVars>>

\* Nothing is left to do: the process has failed, the function has returned,
\* or the body is one of those left out.
Finished ==
  /\ \/ parsed = "error"
     \/ parsed = "yes" /\ ~InScope
     \/ status \in {"error", "crash", "broken"}
     \/ event = Source!Returned
  /\ UNCHANGED vars

Next == Parse \/ Generate \/ Run \/ Finished

Spec == Init /\ [][Next]_vars

-----------------------------------------------------------------------------
\* A body that satisfies the constraints of the language is compiled: neither
\* diagnosed, nor the end of an assertion or of a null pointer, nor turned
\* into a module the verifier refuses.
Accepted == parsed = "yes" /\ Valid => status \in {"idle", "emit", "done"}

\* The code that was generated does what the source says: each event of the
\* machine is the event the source has next, with an outcome it admits.
Implements == Source!SrcSpec

\* Nothing but the processor decides when the compiled function takes its next
\* step, and the function waits for nothing.
FairSpec == Spec /\ WF_vars(Run)

\* While the source has another event to come, the machine gets to it: no
\* branch was bent into a loop that does nothing for ever.
MachineAdvances ==
  \A t \in 0..1 :
    (/\ status = "done" /\ turn = t /\ event # Source!Returned
     /\ Source!Follow(event, outcome)[1] = "event")
      ~> (turn # t)

=============================================================================
