--------------------------- MODULE CInitializers ---------------------------
(***************************************************************************)
(* What C says an initialiser does (C11 6.7.9), read token by token.  It   *)
(* does not look at the code.                                              *)
(*                                                                         *)
(* levels is the list of objects whose parts are being initialised,        *)
(* innermost first; the last stands for the declaration, whose one part is *)
(* what is declared.  now is the part that is or was initialised last and  *)
(* next the one after, from 1.  A level with a brace ends at the brace     *)
(* that closes it, another with its last part.                             *)
(***************************************************************************)
EXTENDS Aggregates

VARIABLES
  levels,
  want,      \* where in the grammar the text is
  cmem,
  clength,   \* the elements an array without a bound has
  cverdict   \* "invalid": it breaks one of the rules of 6.7.9

cvars == <<levels, want, cmem, clength, cverdict>>

Level(ty, off, brace) == [ty |-> ty, off |-> off, brace |-> brace, now |-> 0, next |-> 1]

Parts(ty) ==
  CASE ty.k = "scalar" -> 1
    [] ty.k = "array"  -> ty.n
    [] OTHER           -> Len(ty.members)
IsFull(l) == IsComplete(l.ty) /\ l.next > Parts(l.ty)

Part(l) ==
  CASE l.ty.k = "scalar" -> [ty |-> l.ty, off |-> l.off]
    [] l.ty.k = "array"  -> [ty |-> l.ty.of, off |-> l.off + (l.next - 1) * l.ty.of.size]
    [] OTHER -> [ty |-> l.ty.members[l.next].ty, off |-> l.off + l.ty.members[l.next].off]

\* Only one member of a union is initialised.
Past(l) ==
  [l EXCEPT !.now = l.next, !.next = IF l.ty.k = "union" THEN Parts(l.ty) + 1 ELSE @ + 1]
Enter(s, brace) ==
  LET p == Part(s[1]) IN <<Level(p.ty, p.off, brace), Past(s[1])>> \o Tail(s)

\* The levels from the first that has a brace, and without those that end.
From(s, Stays(_)) == SubSeq(s, Min({i \in DOMAIN s : Stays(s[i])}), Len(s))
Braced(s) == From(s, LAMBDA l : l.brace)
Leave(s) == From(s, LAMBDA l : l.brace \/ ~IsFull(l))

(***************************************************************************)
(* Initialisers.                                                           *)
(***************************************************************************)
Initializes(t, ty) ==
  CASE t.t = "val" -> ty.k = "scalar"
    [] t.t = "obj" -> ty = Objects[t.n]
    [] t.t = "str" -> IsCharArray(ty)
    [] t.t = "{"   -> TRUE

\* Without a brace the parts are taken from the list (p20).
RECURSIVE Descend(_, _)
Descend(s, t) ==
  LET ty == Part(s[1]).ty
  IN  IF Initializes(t, ty) \/ ty.k = "scalar" THEN s ELSE Descend(Enter(s, FALSE), t)

\* Alone in braces, a string literal is the whole of the array around it (p14).
IsWhole(t) == t.t = "str" /\ want = "first" /\ IsCharArray(levels[1].ty)
LevelFor(t) == IF IsWhole(t) THEN levels ELSE Descend(levels, t)
Target(t) ==
  IF IsWhole(t) THEN [ty |-> levels[1].ty, off |-> levels[1].off]
  ELSE Part(LevelFor(t)[1])

IsDeclaration(s) == Len(s) = 1
Excess == IsFull(levels[1])

\* What is declared, if an array or a struct, is initialised by a list (p16).
Bare(t) == IsDeclaration(levels) /\ ~Initializes(t, Part(levels[1]).ty)

\* A literal's terminator may be left out; nothing else may (p2, p14).
TooLong(t) ==
  t.t = "str" /\ IsComplete(Target(t).ty) /\ t.n > Target(t).ty.n + 1

\* The array a list without a bound is for has as many elements as it counts.
Counted(s) == Max({clength, IF IsDeclaration(s) THEN 0 ELSE s[Len(s) - 1].next - 1})

Breaks == cverdict' = "invalid" /\ UNCHANGED <<cmem, clength>>
After(s) == want' = IF IsDeclaration(s) THEN "end" ELSE "after"

\* v is what t is known by; const, whether the object is static (p4).
CInitialize(t, v, const) ==
  /\ t.t \in {"val", "obj", "str"} /\ want \in {"init", "first", "item"}
  /\ IF cverdict # "ok" \/ Excess \/ Bare(t) \/ (const /\ t.t = "obj") \/ TooLong(t)
     THEN Breaks /\ After(levels) /\ UNCHANGED levels
     ELSE LET s == LevelFor(t)
              o == Target(t)
              size == IF t.t = "str" THEN t.n ELSE o.ty.size
              n == IF IsComplete(o.ty) THEN o.ty.size ELSE size
              l == IF IsWhole(t)
                   THEN Past(Level(Scalar(n), o.off, TRUE))
                   ELSE Past(s[1])
          IN  /\ levels' = Leave(<<l>> \o Tail(s))
              /\ After(levels')
              /\ cmem' = Fill(Fill(cmem, o.off, n, 0), o.off, Min({size, n}), v)
              /\ clength' = IF IsComplete(o.ty) THEN Counted(levels') ELSE size
              /\ UNCHANGED cverdict

\* What a list says nothing of is zero, whatever came before (p19, p21).
COpen(t) ==
  /\ t.t = "{" /\ want \in {"init", "first", "item"}
  /\ want' = "first"
  /\ IF cverdict # "ok" \/ Excess
     THEN Breaks /\ levels' = <<Level(Scalar(1), 0, TRUE)>> \o levels
     ELSE LET o == Part(levels[1])
          IN  /\ levels' = Enter(levels, TRUE)
              /\ cmem' = Fill(cmem, o.off, o.ty.size, 0)
              /\ clength' = Counted(levels')
              /\ UNCHANGED cverdict

(***************************************************************************)
(* Designators (p6, p7, p17, p18, p13 for those of anonymous members).     *)
(***************************************************************************)
Designates(t, ty) ==
  CASE t.t = "[" -> ty.k = "array" /\ (IsComplete(ty) => t.n < ty.n)
    [] t.t = "." -> IsRecordTy(ty) /\ t.n \in ty.names

RECURSIVE Designate(_, _)
Designate(s, t) ==
  LET l == s[1]
      i == IF t.t = "[" THEN t.n + 1 ELSE Designated(l.ty, t.n)
      d == <<[l EXCEPT !.next = i]>> \o Tail(s)
  IN  IF t.t = "." /\ l.ty.members[i].name = 0 THEN Designate(Enter(d, FALSE), t) ELSE d

\* A list of designators begins with the object of the braces.
DesignatedIn == IF want = "path" THEN Enter(levels, FALSE) ELSE Braced(levels)

CDesignate(t) ==
  /\ t.t \in {"[", "."} /\ want \in {"first", "item", "path"}
  /\ want' = "path"
  /\ IF cverdict = "ok" /\ Designates(t, DesignatedIn[1].ty)
     THEN levels' = Designate(DesignatedIn, t) /\ UNCHANGED <<cmem, clength, cverdict>>
     ELSE Breaks /\ UNCHANGED levels

(***************************************************************************)
(* The rest of the grammar.                                                *)
(***************************************************************************)
Mark(t, wanted, then) ==
  t.t = wanted[1] /\ want \in wanted[2] /\ want' = then
  /\ UNCHANGED <<levels, cmem, clength, cverdict>>

CEqual(t) == Mark(t, <<"=", {"path"}>>, "init")
CComma(t) == Mark(t, <<",", {"after"}>>, "item")
CEnd(t)   == Mark(t, <<";", {"end"}>>, "")

CClose(t) ==
  /\ t.t = "}" /\ want \in {"after", "item"}
  /\ levels' = Leave(Tail(Braced(levels)))
  /\ After(levels')
  /\ UNCHANGED <<cmem, clength, cverdict>>

CRead(t, v, const) ==
  \/ CInitialize(t, v, const) \/ COpen(t) \/ CDesignate(t)
  \/ CEqual(t) \/ CComma(t) \/ CClose(t) \/ CEnd(t)

CInit(ty) ==
  /\ levels = <<Level(Struct(<<M(1, ty)>>), 0, TRUE)>>
  /\ want = "init" /\ cmem = Zero(Space) /\ clength = 0 /\ cverdict = "ok"
=============================================================================
