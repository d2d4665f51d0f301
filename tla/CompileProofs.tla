---------------------------- MODULE CompileProofs ----------------------------
(***************************************************************************)
(* The theorems about one function on its way through kcc, for bodies of   *)
(* any size.  Each is an invariance proof: the inductive invariant is      *)
(* ParseInv for the parser, GenInv and LoopInv for the code generator,     *)
(* which may rely on the parser's.                                         *)
(***************************************************************************)
EXTENDS Compile, ParseProofs, CodeGenProofs

\* Nothing is generated before the function is parsed.
Untouched == parsed # "yes" => todo = <<>>

Inv == ParseInv /\ KidsInv /\ GenInv /\ LoopInv /\ GenTypes /\ Untouched

LEMMA ParseInvKids == ParseInv => KidLists
<1> SUFFICES ASSUME ParseInv, NEW n \in DOMAIN prog PROVE prog[n].kids \in Seq(Nat)
  BY DEF KidLists
<1>1. prog \in Seq(NodeType)
  BY DEF ParseInv, ParseTypeOK
<1>2. prog[n] \in NodeType
  BY <1>1
<1> QED
  BY <1>2 DEF NodeType

\* What the parser hands over: each handler finds the children it asks for.
LEMMA Parsed == ParseInv /\ KidsInv /\ parsed = "yes" => TreeOK
<1> SUFFICES ASSUME ParseInv, KidsInv, parsed = "yes" PROVE TreeOK
  OBVIOUS
<1>1. prog \in Seq(NodeType) /\ prog # <<>>
  BY DEF ParseInv, ParseTypeOK
<1>2. DOMAIN prog = 1..Len(prog) /\ Len(prog) \in Nat /\ 1 \in DOMAIN prog
  BY <1>1
<1>3. ASSUME NEW n \in DOMAIN prog
      PROVE  /\ prog[n].kids \in Seq(DOMAIN prog)
             /\ prog[n].kind = "Goto" => prog[n].to \in Nat
             /\ Least(prog[n].kind) <= Len(prog[n].kids) /\ Len(prog[n].kids) \in Nat
  <2>1. prog[n].kids \in Seq(Nat) /\ prog[n].to \in Nat /\ n \in Nat
    <3>1. prog[n] \in NodeType
      BY <1>1
    <3>2. prog[n].kids \in Seq(Nat) /\ prog[n].to \in Nat
      BY <3>1 DEF NodeType
    <3> QED
      BY <1>2, <3>2
  <2>2. \A i \in DOMAIN prog[n].kids : prog[n].kids[i] \in n + 1..Len(prog)
    BY DEF ParseInv, TreeShape
  <2>3. \A i \in DOMAIN prog[n].kids : prog[n].kids[i] \in DOMAIN prog
    BY <1>2, <2>1, <2>2
  <2>4. Least(prog[n].kind) <= Len(prog[n].kids)
    BY KidsComplete DEF ChildrenComplete
  <2> QED
    BY <2>1, <2>3, <2>4
<1> QED
  BY <1>2, <1>3 DEF TreeOK, Least

\* A step that leaves the parser, or the generator, alone.
LEMMA ParseStutters == ParseInv /\ KidsInv /\ UNCHANGED parseVars => (ParseInv /\ KidsInv)'
<1> SUFFICES ASSUME ParseInv, KidsInv, UNCHANGED parseVars PROVE ParseInv' /\ KidsInv'
  OBVIOUS
<1>1. ParseInv'
  BY DEF parseVars, ParseInv, ParseTypeOK, OpenOK, TreeShape, LabelsOK, GotosOK, GotosResolved
<1>2. prog' = prog /\ open' = open /\ parsed' = parsed
  BY DEF parseVars
<1>3. \E slot : Slots(slot, open', prog')
  BY <1>2 DEF KidsInv
<1> QED
  BY <1>1, <1>2, <1>3 DEF KidsInv

LEMMA GenStutters == GenInv /\ LoopInv /\ UNCHANGED genVars => (GenInv /\ LoopInv)'
BY DEF genVars, GenInv, LoopInv

LEMMA TypesStutter ==
  ASSUME GenTypes, Untouched, UNCHANGED genVars, UNCHANGED parseVars \/ parsed # "yes"
  PROVE  GenTypes'
<1>1. todo' \in Seq(Pieces')
  <2>1. CASE UNCHANGED parseVars
    <3>1. Pieces' = Pieces
      BY <2>1 DEF Pieces, PieceTyped, parseVars
    <3> QED
      BY <3>1 DEF GenTypes, genVars
  <2>2. CASE parsed # "yes"
    <3>1. todo' = <<>>
      BY <2>2 DEF Untouched, genVars
    <3> QED
      BY <3>1
  <2> QED
    BY <2>1, <2>2
<1> QED
  BY <1>1 DEF GenTypes, genVars

LEMMA InitInv == Init => Inv
<1> SUFFICES ASSUME Init PROVE Inv
  OBVIOUS
<1>1. ParseInv /\ KidsInv
  BY ParseInitInv, InitKids DEF Init
<1>2. GenInv
  BY DEF Init, GenInit, GenInv
<1>3. LoopInv /\ Untouched
  BY DEF Init, GenInit, LoopInv, Untouched
<1>4. GenTypes
  BY GenInitTypes DEF Init
<1> QED
  BY <1>1, <1>2, <1>3, <1>4 DEF Inv

LEMMA NextInv == Inv /\ [Next]_vars => Inv'
<1> SUFFICES ASSUME Inv, [Next]_vars PROVE Inv'
  OBVIOUS
<1>1. ParseInv /\ KidsInv /\ GenInv /\ LoopInv /\ GenTypes /\ Untouched /\ KidLists
  BY ParseInvKids DEF Inv
<1>2. CASE Parse
  <2>1. ParseStep /\ UNCHANGED genVars
    BY <1>2 DEF Parse
  <2>2. parsed = "no"
    BY <2>1, ParsesOnce
  <2>3. ParseInv' /\ KidsInv'
    BY <1>1, <2>1, ParseStepInv
  <2>4. GenTypes'
    BY <1>1, <2>1, <2>2, TypesStutter
  <2>5. Untouched'
    BY <1>1, <2>1, <2>2 DEF Untouched, genVars
  <2> QED
    BY <1>1, <2>1, <2>3, <2>4, <2>5, GenStutters DEF Inv
<1>3. CASE Generate
  <2>1. GenStep /\ UNCHANGED parseVars /\ parsed = "yes"
    BY <1>3 DEF Generate
  <2>2. UNCHANGED prog /\ TreeOK
    BY <1>1, <2>1, Parsed DEF parseVars
  <2>3. GenTypes'
    BY <1>1, <2>1, <2>2, GenStepTypes
  <2>4. Untouched'
    BY <2>1 DEF Untouched, parseVars
  <2> QED
    BY <1>1, <2>1, <2>3, <2>4, GenStepInv, GenStepLoops, ParseStutters DEF Inv
<1>4. CASE Run \/ Finished \/ UNCHANGED vars
  <2>1. UNCHANGED parseVars /\ UNCHANGED genVars
    BY <1>4 DEF Run, Finished, vars
  <2>2. GenTypes'
    BY <1>1, <2>1, TypesStutter
  <2>3. Untouched'
    BY <1>1, <2>1 DEF Untouched, genVars, parseVars
  <2> QED
    BY <1>1, <2>1, <2>2, <2>3, GenStutters, ParseStutters DEF Inv
<1> QED
  BY <1>2, <1>3, <1>4 DEF Next

LEMMA Invariance == Spec => []Inv
BY InitInv, NextInv, PTL DEF Spec

-----------------------------------------------------------------------------
\* Every variable of the parser has its type, whatever the input.
THEOREM ParseTypes == Spec => []ParseTypeOK
<1>1. Inv => ParseTypeOK
  BY DEF Inv, ParseInv
<1> QED
  BY <1>1, Invariance, PTL

\* The nodes ParseCompoundStmt and its callees make form a tree whose links
\* agree in both directions: every walk of it (Calc, ContainsLabel, EmitStmt)
\* ends.
THEOREM ParsesTree == Spec => []TreeShape
<1>1. Inv => TreeShape
  BY DEF Inv, ParseInv
<1> QED
  BY <1>1, Invariance, PTL

\* Each Parse function comes back with the operands and sub-statements its node
\* needs: in a function that was parsed no child a handler of the code generator
\* asks for is missing.
THEOREM ParsesCompleteTree == Spec => []ChildrenComplete
<1>1. Inv => ChildrenComplete
  BY KidsComplete DEF Inv
<1> QED
  BY <1>1, Invariance, PTL

\* ParseFuncDef leaves no goto untied: each goto of a function that was parsed
\* has a label node of its own function under the name it gives.
THEOREM ParserResolvesGotos == Spec => []GotosResolved
<1>1. Inv => GotosResolved
  BY DEF Inv, ParseInv
<1> QED
  BY <1>1, Invariance, PTL

\* Every variable of the code generator has its type: every block named, put in the
\* function, branched to or kept on a stack is that of a node in one of the roles a
\* handler makes, and no block of the function and no target of a terminator is null.
THEOREM GeneratesTypes == Spec => []CodeGenTypeOK
<1>1. Inv => CodeGenTypeOK
  BY GenTypesTyped DEF Inv
<1> QED
  BY <1>1, Invariance, PTL

\* No handler of the code generator leaves a block without its terminator, and
\* the function it finishes has none: LLVM is never handed an open block.
THEOREM GeneratesTerminated == Spec => []AllTerminated
<1>1. Inv => AllTerminated
  BY DEF Inv, GenInv, AllTerminated, Sound, Complete, Terminated
<1> QED
  BY <1>1, Invariance, PTL

\* No handler leaves Builder behind a terminator, other than for the block that
\* is started next: nothing is ever inserted after the end of a block.
THEOREM GeneratesInOpenBlocks == Spec => []OpenInsertPoint
<1>1. Inv => OpenInsertPoint
  <2> SUFFICES ASSUME Inv, status = "emit", HaveInsertPoint(fn), Terminated(fn, fn.at)
               PROVE  Top.op \in {"block", "logic.rhs"}
    BY DEF OpenInsertPoint
  <2>1. TodoOK(todo) /\ todo # <<>> /\ Starts(todo[1])
    BY DEF Inv, GenInv, Open, HaveInsertPoint, Terminated
  <2>2. PICK S : todo \in Seq(S)
    BY <2>1 DEF TodoOK, PartOK
  <2>3. Top = todo[1]
    BY <2>1, <2>2 DEF Top
  <2> QED
    BY <2>1, <2>3 DEF Starts
<1> QED
  BY <1>1, Invariance, PTL

\* break_continue_stack_ and the C++ call stack stay in step: every handler pops
\* what it pushed, on each of its ways out and in the reverse order, so that break
\* goes to the end of the construct it is in and the stack is empty at the end
\* of the function.
THEOREM MatchesLoopStack == Spec => []LoopStackMatchesCalls
<1>1. Inv => LoopStackMatchesCalls
  BY LoopsMatchCalls DEF Inv
<1> QED
  BY <1>1, Invariance, PTL

=============================================================================
