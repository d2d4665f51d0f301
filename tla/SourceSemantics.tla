--------------------------- MODULE SourceSemantics ---------------------------
(***************************************************************************)
(* What the function means: the abstract specification of the compiler.    *)
(* Running the body prog yields a sequence of events, the evaluations its   *)
(* expressions have an effect by, in the order C11 6.8 and 6.5.13-17 give.  *)
(* What an evaluation yields is not known at compile time, so each event    *)
(* has an outcome: the truth value of a condition, or the case label whose  *)
(* value the operand of a switch equals (0 for none).                       *)
(*                                                                          *)
(* A step is one event.  Between two events control moves silently through  *)
(*   <<"in", n>>      statement or expression n is about to be executed     *)
(*   <<"out", n>>     statement n is complete                               *)
(*   <<"val", e, v>>  expression e has the truth value v                    *)
(***************************************************************************)
EXTENDS Ast

VARIABLES
  event,     \* the last event, <<node, slot>>
  outcome,   \* what it yielded
  turn       \* 0 or 1 by turns, so that a repeated event is still a step

srcVars == <<event, outcome, turn>>

Started  == <<0, "start">>
Returned == <<0, "return">>

In(n)     == <<"in", n>>
Out(n)    == <<"out", n>>
Val(e, v) == <<"val", e, v>>
Event(n, slot) == <<"event", <<n, slot>>>>
Exit      == <<"event", Returned>>

ForTest(n) == In(IF Has(n, "cond") THEN GetCond(n) ELSE GetBody(n))

NextIteration(n) ==
  CASE Kind(n) = "For" /\ Has(n, "inc")  -> Event(n, "inc")
    [] Kind(n) = "For" /\ ~Has(n, "inc") -> ForTest(n)
    [] OTHER -> In(GetCond(n))

Execute(n) ==
  CASE Kind(n) \in {"Compound", "StmtExpr", "Expr", "Decl"} /\ Kids(n) # <<>> ->
         In(Head(Kids(n)))
    [] Kind(n) \in {"Expr", "Decl", "Switch", "Dyn", "Comma"} -> Event(n, "eval")
    [] Kind(n) \in {"Null", "Compound"} -> Out(n)
    [] Kind(n) \in {"Label", "Case", "Default", "DoWhile"} -> In(GetBody(n))
    [] Kind(n) \in {"If", "While", "Not", "And", "Or", "Cond"} -> In(Head(Kids(n)))
    [] Kind(n) = "For" -> IF Has(n, "init") THEN Event(n, "init") ELSE ForTest(n)
    [] Kind(n) = "Goto" -> In(prog[n].to)
    [] Kind(n) = "Continue" -> NextIteration(Enclosing(n, Loops))
    [] Kind(n) = "Break" -> Out(Enclosing(n, Loops \cup {"Switch"}))
    [] Kind(n) = "Return" -> IF Has(n, "value") THEN Event(n, "eval") ELSE Exit
    [] Kind(n) = "Const" -> Val(n, IF prog[n].num = 0 THEN 0 ELSE 1)

NextSibling(n) ==
  LET k == Kids(Up(n))
      i == CHOOSE j \in DOMAIN k : k[j] = n
  IN  IF i < Len(k) THEN In(k[i + 1]) ELSE Out(Up(n))

Completed(n) ==
  CASE Up(n) = 0 -> Exit
    [] Up(n) # 0 /\ Kind(Up(n)) = "Compound" -> NextSibling(n)
    [] Up(n) # 0 /\ Kind(Up(n)) \in Loops -> NextIteration(Up(n))
    [] OTHER -> Out(Up(n))

\* The last expression statement of ({ ... }) gives it its value.
IsValueOf(s) ==
  /\ Up(Up(s)) # 0 /\ Kind(Up(Up(s))) = "StmtExpr"
  /\ s = Last(Kids(Up(s)))

Valued(e, v) ==
  LET p == Up(e)
      first == e = Head(Kids(p))
  IN
  CASE Kind(p) = "Expr" -> IF IsValueOf(p) THEN Val(Up(Up(p)), v) ELSE Out(p)
    [] Kind(p) = "Decl" -> Out(p)
    [] Kind(p) = "If" -> IF v = 1 THEN In(GetThen(p))
                         ELSE IF HasElse(p) THEN In(GetElse(p)) ELSE Out(p)
    [] Kind(p) \in Loops -> IF v = 1 THEN In(GetBody(p)) ELSE Out(p)
    [] Kind(p) = "Not" -> Val(p, 1 - v)
    [] Kind(p) = "And" -> IF first /\ v = 1 THEN In(Kids(p)[2]) ELSE Val(p, v)
    [] Kind(p) = "Or"  -> IF first /\ v = 0 THEN In(Kids(p)[2]) ELSE Val(p, v)
    [] Kind(p) = "Cond" -> IF first THEN In(Kids(p)[IF v = 1 THEN 2 ELSE 3])
                           ELSE Val(p, v)

SwitchTo(n, v) ==
  CASE v # 0 -> In(v)
    [] v = 0 /\ DefaultsOf(n) # {} -> In(CHOOSE d \in DefaultsOf(n) : TRUE)
    [] OTHER -> Out(n)

After(e, v) ==
  LET n == e[1] IN
  CASE e = Started -> In(1)
    [] e \in {<<n, "init">>, <<n, "inc">>} -> ForTest(n)
    [] e = <<n, "eval">> ->
         CASE Kind(n) = "Dyn"    -> Val(n, v)
           [] Kind(n) = "Comma"  -> Val(n, IF prog[n].num = 0 THEN 0 ELSE 1)
           [] Kind(n) = "Switch" -> SwitchTo(n, v)
           [] Kind(n) = "Return" -> Exit
           [] OTHER -> Out(n)

Silent(at) ==
  CASE at[1] = "in"  -> Execute(at[2])
    [] at[1] = "out" -> Completed(at[2])
    [] at[1] = "val" -> Valued(at[2], at[3])
    [] OTHER -> at

\* The event that follows.  There are at most four silent points for a node,
\* so control that meets no event in that many steps goes round for ever.
Follow(e, v) ==
  LET walk[k \in 0..4 * Len(prog)] ==
        IF k = 0 THEN After(e, v) ELSE Silent(walk[k - 1])
  IN  walk[4 * Len(prog)]

Outcomes(e) ==
  IF e[1] = 0 THEN {0}
  ELSE IF Kind(e[1]) = "Dyn" THEN {0, 1}
  ELSE IF Kind(e[1]) = "Switch" THEN CasesOf(e[1]) \cup {0}
  ELSE {0}

SrcInit == event = Started /\ outcome = 0 /\ turn = 0

SrcStep ==
  LET next == Follow(event, outcome) IN
  /\ turn' = 1 - turn
  /\ event # Returned
  /\ next[1] = "event"
  /\ event' = next[2]
  /\ outcome' \in Outcomes(next[2])

SrcSpec == SrcInit /\ [][SrcStep]_srcVars

=============================================================================
