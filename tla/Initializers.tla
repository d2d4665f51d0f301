---------------------------- MODULE Initializers ----------------------------
(***************************************************************************)
(* The parser of initialisers (parse_init.cpp): ParseInitializer with the  *)
(* functions for arrays, structs and string literals, each of which exists *)
(* twice, for what is initialised at run time and for constants.  frames   *)
(* is the call stack, innermost first, at the token that is read next.     *)
(*                                                                         *)
(* A token is a record: t what it is, and n a number: the index of a       *)
(* designator "[n]", the name of ".n", the length of a string literal,     *)
(* which of Objects an expression of struct type is.  An expression "val"  *)
(* has an arithmetic type and a constant value, known by its place in toks.*)
(* A designator is one token, as the parser puts it back whole.            *)
(*                                                                         *)
(* At run time what is found is stored, in order, over zeros (mem).        *)
(* Constants are built up: each call returns the one for its object (val,  *)
(* at the offsets of the whole), which the caller puts among its own.      *)
(***************************************************************************)
EXTENDS Aggregates, Integers

VARIABLES
  declared,    \* the type of what is declared
  static,      \* whether its initialiser must be constant
  toks, at,    \* the tokens there are, and the one read next
  frames,
  mem,
  length,      \* the elements an array without a bound has so far
  verdict

ivars == <<declared, static, toks, at, frames, mem, length, verdict>>

Top       == frames[1]
Tok       == toks[at].t
Reading   == verdict = "ok" /\ at <= Len(toks)
Outermost == Len(frames) = 1
Running(fn, pc) == Reading /\ frames # <<>> /\ Top.fn = fn /\ Top.pc = pc

(***************************************************************************)
(* Calls and returns.                                                      *)
(***************************************************************************)
\* ParseInitializer, and what a constant begins as.
Frame(ty, off, designated) ==
  [fn |-> "init", pc |-> IF designated THEN "assign" ELSE "kind", ty |-> ty, off |-> off,
   designated |-> designated, brace |-> FALSE, index |-> 0,
   val |-> Zero(IF static THEN Space ELSE 0)]

\* Error, or an assertion.
Stop(how) == verdict' = how /\ UNCHANGED <<at, frames, mem, length>>

\* n tokens are read.
Take(n) == at' = at + n /\ UNCHANGED verdict
In(f) == frames' = <<f>> \o Tail(frames) /\ UNCHANGED mem
Call(f, ty, off) ==
  frames' = <<Frame(ty, off, f.designated), f>> \o Tail(frames) /\ UNCHANGED mem

\* The call ends with the constant val, or with what it has stored in m.
End(val, m) ==
  /\ frames' = IF Outermost THEN <<>>
               ELSE <<[frames[2] EXCEPT !.pc = "after",
                                        !.val = Copy(@, Top.off, Top.ty.size, val)]>>
                    \o SubSeq(frames, 3, Len(frames))
  /\ mem' = IF Outermost /\ static THEN val ELSE m
Return == End(Top.val, mem)

\* Where a brace is still to be closed the call does not end yet.
Store(v, size, kept) ==
  LET val == Fill(Top.val, Top.off, size, v)
      m == IF static \/ ~kept THEN mem ELSE Fill(mem, Top.off, size, v)
  IN  IF Top.brace
      THEN frames' = <<[Top EXCEPT !.pc = "close", !.val = val]>> \o Tail(frames) /\ mem' = m
      ELSE End(val, m)

(***************************************************************************)
(* ParseInitializer and ParseConstantInitializer.                          *)
(***************************************************************************)
Assigns ==
  /\ Running("init", "assign")
  /\ IF Tok \in {".", "[", "="}
     THEN /\ Take(IF Tok = "=" THEN 1 ELSE 0)
          /\ In([Top EXCEPT !.pc = "kind"]) /\ UNCHANGED length
     ELSE Stop("error")

ParseScalar ==
  /\ Running("init", "kind") /\ Top.ty.k = "scalar"
  /\ Take(IF Tok = "{" THEN 1 ELSE 0)
  /\ In([Top EXCEPT !.pc = "value", !.brace = (Tok = "{")]) /\ UNCHANGED length

\* ParseAssignExpr, and the constant of it or its entry among the stores.
ParseValue ==
  /\ Running("init", "value")
  /\ CASE Tok = "val" -> Take(1) /\ Store(at, Top.ty.size, TRUE) /\ UNCHANGED length
       [] Tok \in {"obj", "str"} -> Stop(IF static THEN "error" ELSE "crash")
       [] OTHER -> Stop("error")

BeginList(fn, brace, taken) ==
  /\ Take(taken)
  /\ In([Top EXCEPT !.fn = fn, !.pc = "loop", !.brace = brace,
                    !.index = IF fn = "array" THEN 0 ELSE 1])
  /\ UNCHANGED length

ParseArray ==
  /\ Running("init", "kind") /\ Top.ty.k = "array"
  /\ CASE Outermost /\ Tok \notin {"{", "str"} -> Stop("error")
       [] Tok \in {"{", "str"} /\ Top.ty.of.k = "scalar" ->
            /\ Take(IF Tok = "{" THEN 1 ELSE 0)
            /\ In([Top EXCEPT !.pc = "literal", !.brace = (Tok = "{")]) /\ UNCHANGED length
       [] OTHER -> BeginList("array", Tok = "{", IF Tok = "{" THEN 1 ELSE 0)

\* ParseLiteralInitializer.  At run time only the outermost caller keeps the
\* pointer it returns, which is copied from; a literal shorter than the array
\* is a constant of another type, or is read past its end.
ParseLiteral ==
  /\ Running("init", "literal")
  /\ LET n == toks[at].n
     IN  CASE Tok # "str" -> BeginList("array", Top.brace, 0)
           [] Tok = "str" /\ (Top.ty.of.size # 1 \/ (IsComplete(Top.ty) /\ n > Top.ty.n)) ->
                Stop("error")
           [] Tok = "str" /\ IsComplete(Top.ty) /\ n < Top.ty.n /\ (static \/ Outermost) ->
                Stop("crash")
           [] OTHER -> /\ Take(1)
                       /\ Store(at, n, Outermost)
                       /\ length' = IF IsComplete(Top.ty) THEN length ELSE n

\* At run time an expression may be the whole of the struct.
ParseRecord ==
  /\ Running("init", "kind") /\ IsRecordTy(Top.ty)
  /\ CASE Tok = "{" -> BeginList("struct", TRUE, 1)
       [] Tok = "obj" /\ ~static /\ Objects[toks[at].n] = Top.ty ->
            Take(1) /\ Store(at, Top.ty.size, TRUE) /\ UNCHANGED length
       [] ~static /\ Tok \notin {"{", ".", "val", "obj", "str"} -> Stop("error")
       [] OTHER -> BeginList("struct", FALSE, 0)

(***************************************************************************)
(* The lists.                                                              *)
(***************************************************************************)
CloseList ==
  /\ Running("array", "loop") \/ Running("struct", "loop")
  /\ Tok = "}"
  /\ Take(IF Top.brace THEN 1 ELSE 0) /\ Return /\ UNCHANGED length

\* A designator that is not for this array: the comma before it goes back.
PutBackComma ==
  /\ Running("array", "loop")
  /\ Tok \in {"[", "."} /\ ~Top.designated /\ ~Top.brace
  /\ Take(-1) /\ Return /\ UNCHANGED length

\* Mutant: a designator is taken without a look at the bound.
ParseElementAnywhere ==
  /\ Running("array", "loop")
  /\ Tok # "}" /\ (Tok \in {"[", "."} => Top.designated \/ Top.brace)
  /\ LET designated == Tok = "["
         index == IF designated THEN toks[at].n ELSE Top.index
     IN  /\ Take(IF designated THEN 1 ELSE 0)
         /\ Call([Top EXCEPT !.index = index, !.designated = designated],
                 Top.ty.of, Top.off + index * Top.ty.of.size)
         /\ UNCHANGED length

\* Mutant: a designator is looked at and not taken.
ParseElementLooking ==
  /\ Running("array", "loop")
  /\ Tok # "}" /\ (Tok \in {"[", "."} => Top.designated \/ Top.brace)
  /\ LET index == IF Tok = "[" THEN toks[at].n ELSE Top.index
     IN  IF Tok = "[" /\ IsComplete(Top.ty) /\ index >= Top.ty.n
         THEN Stop("error")
         ELSE /\ Take(0)
              /\ Call([Top EXCEPT !.index = index, !.designated = FALSE],
                      Top.ty.of, Top.off + index * Top.ty.of.size)
              /\ UNCHANGED length

ParseElement ==
  /\ Running("array", "loop")
  /\ Tok # "}" /\ (Tok \in {"[", "."} => Top.designated \/ Top.brace)
  /\ LET designated == Tok = "["
         index == IF designated THEN toks[at].n ELSE Top.index
     IN  IF designated /\ IsComplete(Top.ty) /\ index >= Top.ty.n
         THEN Stop("error")
         ELSE /\ Take(IF designated THEN 1 ELSE 0)
              /\ Call([Top EXCEPT !.index = index, !.designated = designated],
                      Top.ty.of, Top.off + index * Top.ty.of.size)
              /\ UNCHANGED length

\* Behind an element or a member.
Continue(f) ==
  CASE Tok = "," -> Take(1) /\ In([f EXCEPT !.pc = "loop"])
    [] Tok # "," /\ ~f.brace -> Take(0) /\ Return
    [] Tok = "}" /\ f.brace -> Take(1) /\ Return
    [] OTHER -> verdict' = "error" /\ UNCHANGED <<at, frames, mem>>

\* No more of them: nothing may follow but one comma.
Full(f) == Take(0) /\ IF f.brace THEN In([f EXCEPT !.pc = "close"]) ELSE Return

\* Mutant: the array is as long as the last initialiser says.
AfterElementLast ==
  /\ Running("array", "after")
  /\ LET f == [Top EXCEPT !.index = @ + 1, !.designated = FALSE]
     IN  /\ IF static /\ IsComplete(Top.ty) /\ f.index >= Top.ty.n THEN Full(f) ELSE Continue(f)
         /\ length' = IF IsComplete(Top.ty) THEN length ELSE f.index

\* Only constants end where the array does.
AfterElement ==
  /\ Running("array", "after")
  /\ LET f == [Top EXCEPT !.index = @ + 1, !.designated = FALSE]
     IN  /\ IF static /\ IsComplete(Top.ty) /\ f.index >= Top.ty.n THEN Full(f) ELSE Continue(f)
         /\ length' = IF IsComplete(Top.ty) THEN length ELSE Max({length, f.index})

\* An anonymous member reads the designator again.
ParseMember ==
  /\ Running("struct", "loop") /\ Tok # "}"
  /\ LET designated == Tok = "."
         known == ~designated \/ toks[at].n \in Top.ty.names
         index == IF designated THEN Designated(Top.ty, toks[at].n) ELSE Top.index
         m == Top.ty.members[index]
     IN  CASE ~known -> Stop("error")
           [] known /\ index > Len(Top.ty.members) -> Full(Top) /\ UNCHANGED length
           [] OTHER ->
                /\ Take(IF designated /\ m.name # 0 THEN 1 ELSE 0)
                /\ Call([Top EXCEPT !.index = index, !.designated = designated],
                        m.ty, Top.off + m.off)
                /\ UNCHANGED length

\* Mutant: in braces too the last member is the end.
AfterMemberLast ==
  /\ Running("struct", "after")
  /\ LET f == [Top EXCEPT !.index = @ + 1, !.designated = FALSE]
     IN  /\ IF Top.ty.k = "union" \/ f.index > Len(Top.ty.members) THEN Full(f) ELSE Continue(f)
         /\ UNCHANGED length

\* The constant of a union has one element, of one type.
AfterMember ==
  /\ Running("struct", "after")
  /\ LET f == [Top EXCEPT !.index = @ + 1, !.designated = FALSE]
         n == Len(Top.ty.members)
     IN  CASE /\ Top.ty.k = "union" /\ static
              /\ Top.ty.members[Top.index].ty # Top.ty.members[Represents(Top.ty)].ty ->
                Stop("crash")
           [] Top.ty.k = "union" \/ (f.index > n /\ ~f.brace) -> Full(f) /\ UNCHANGED length
           [] OTHER -> Continue(f) /\ UNCHANGED length

\* A comma, perhaps, and the brace.
CloseBrace ==
  /\ Reading /\ frames # <<>> /\ Top.pc \in {"close", "closing"}
  /\ CASE Tok = "}" -> Take(1) /\ Return /\ UNCHANGED length
       [] Tok = "," /\ Top.pc = "close" ->
            Take(1) /\ In([Top EXCEPT !.pc = "closing"]) /\ UNCHANGED length
       [] OTHER -> Stop("error")

EndDeclaration ==
  /\ Reading /\ frames = <<>>
  /\ verdict' = IF Tok = ";" THEN "done" ELSE "error"
  /\ UNCHANGED <<at, frames, mem, length>>

ParseStep ==
  /\ \/ Assigns \/ ParseScalar \/ ParseValue \/ ParseArray \/ ParseLiteral \/ ParseRecord
     \/ CloseList \/ PutBackComma \/ ParseElement \/ AfterElement
     \/ ParseMember \/ AfterMember \/ CloseBrace \/ EndDeclaration
  /\ UNCHANGED <<declared, static, toks>>

InitializersInit(ty, const) ==
  /\ declared = ty /\ static = const
  /\ toks = <<>> /\ at = 1 /\ mem = Zero(Space) /\ length = 0 /\ verdict = "ok"
  /\ frames = <<Frame(ty, 0, FALSE)>>

\* The parser has read every token and wants another, or has ended.
Waits == verdict # "ok" \/ at > Len(toks)
=============================================================================
