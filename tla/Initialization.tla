--------------------------- MODULE Initialization ---------------------------
(***************************************************************************)
(* An initialiser, written one token at a time and read by kcc             *)
(* (Initializers) and by C (CInitializers).  The parser of kcc reads on    *)
(* until it wants another token; C takes each as it is written.  Nothing   *)
(* is said of a text after it meets one of the differences that are known. *)
(***************************************************************************)
EXTENDS Initializers, CInitializers

CONSTANT Kits   \* what the texts of a run are made of, a set of
                \*   ty      the type that is declared
                \*   static  what is declared may be static, automatic
                \*   more    the tokens there are beside those of every list
                \*   tokens  bound: the tokens of a text before what it needs to end

VARIABLES kit, known

vars == <<ivars, cvars, kit, known>>

(***************************************************************************)
(* Where kcc and C are known to part; README.md has each.                  *)
(***************************************************************************)
Known(what, holds) == IF holds THEN {what} ELSE {}

IsDesignator(t) == t.t \in {"[", "."}
Touched(off, size) == \E u \in Units(off, size) \cap DOMAIN cmem : cmem[u] # 0

RunsOn == \E i \in DOMAIN frames :
  /\ frames[i].fn = "array" /\ ~static /\ IsComplete(frames[i].ty)
  /\ frames[i].index >= frames[i].ty.n
\* The scalar an object of the type begins with.
RECURSIVE FirstScalar(_)
FirstScalar(ty) ==
  CASE ty.k = "scalar" -> ty
    [] ty.k = "array"  -> FirstScalar(ty.of)
    [] OTHER           -> FirstScalar(ty.members[1].ty)
PlaceOf(f) ==
  IF f.fn = "array"
  THEN [ty |-> FirstScalar(f.ty.of), off |-> f.off + f.index * f.ty.of.size]
  ELSE [ty |-> FirstScalar(f.ty.members[f.index].ty), off |-> f.off + f.ty.members[f.index].off]

\* An array at run time goes on behind its last element, and is not counted
\* as more than one: a value may only follow if it is of what is there.
ArrayRunsOn(t) ==
  /\ RunsOn /\ ~IsDesignator(t) /\ want = "item" /\ t.t # "}"
  /\ t.t = "val" => Excess \/ ~IsComplete(declared) \/ PlaceOf(Top) # Target(t)

\* A struct that has no brace takes a designator for its own.
OpenRecords ==
  {i \in DOMAIN frames : frames[i].fn = "struct" /\ \A j \in 1 .. i : ~frames[j].brace}
OwnPart(t) ==
  LET f == frames[Min(OpenRecords)]
  IN  Part(Designate(<<Level(f.ty, f.off, FALSE)>>, t)[1])
Misplaced(t) ==
  /\ IsDesignator(t) /\ want # "path" /\ OpenRecords # {}
  /\ ~ /\ Designates(t, frames[Min(OpenRecords)].ty)
       /\ Designates(t, DesignatedIn[1].ty)
       /\ OwnPart(t) = Part(Designate(DesignatedIn, t)[1])
Stays(t) == IsDesignator(t) /\ want # "path" /\ OpenRecords # {} /\ ~Misplaced(t)

\* In braces, a union ends with its member and a constant array with its
\* last element: what is still open in them ends, and then they do.
BehindLast(t) ==
  /\ IsDesignator(t) /\ want # "path"
  /\ LET i == Min({j \in DOMAIN frames : frames[j].brace})
         f == frames[i]
     IN  \/ f.ty.k = "union"
         \/ f.fn = "array" /\ f.pc \in {"close", "closing"}
         \/ i > 1 /\ static /\ f.ty.k = "array" /\ IsComplete(f.ty) /\ f.index + 1 >= f.ty.n

\* The levels that a token enters, and all there are then.
Reached(t) ==
  CASE IsDesignator(t) -> IF Designates(t, DesignatedIn[1].ty) THEN Designate(DesignatedIn, t) ELSE <<>>
    [] t.t \in {"val", "obj", "str"} ->
         IF Excess \/ Bare(t) THEN <<>>
         ELSE <<Past(LevelFor(t)[1])>> \o Tail(LevelFor(t))
    [] t.t = "{" -> IF Excess THEN <<>> ELSE Enter(levels, TRUE)
    [] OTHER -> <<>>
Entered(t) ==
  LET before == IF IsDesignator(t) /\ want # "path" THEN Braced(levels) ELSE levels
      s == Reached(t)
  IN  {s[i] : i \in 1 .. Len(s) - Len(before)}

\* Constants are made anew, stores only add to what there is.
Again(t) ==
  \/ ~Stays(t) /\ t.t # "{" /\ \E l \in Entered(t) :
       (static \/ l.ty.k = "union") /\ Touched(l.off, l.ty.size)
  \/ /\ t.t = "{" \/ t.t = "str"
     /\ ~static /\ ~Excess /\ ~Bare(t)
     /\ LET o == Part(levels[1]) IN Touched(o.off, o.ty.size)

IsString(t) == t.t = "str" /\ ~Excess /\ ~Bare(t) /\ IsComplete(Target(t).ty)

Departs(t) ==
  Known("array runs on", ArrayRunsOn(t))
  \cup Known("designator in a struct without braces", Misplaced(t))
  \cup Known("designator behind the last part", BehindLast(t))
  \cup Known("member designator in an array", t.t = "." /\ DesignatedIn[1].ty.k = "array")
  \cup Known("initialised again", Again(t))
  \cup Known("constant of another member", static /\ \E i \in DOMAIN Reached(t) :
         LET l == Reached(t)[i]
         IN  /\ l.ty.k = "union" /\ l.now # 0
             /\ l.ty.members[l.now].ty # l.ty.members[Represents(l.ty)].ty)
  \cup Known("string of another length",
         IsString(t) /\ t.n # Target(t).ty.n /\ ~TooLong(t))
  \cup Known("string in a list", t.t = "str" /\ ~static /\ ~IsCharArray(declared))
  \cup Known("struct without braces", t.t = "val" /\ Bare(t) /\ IsRecordTy(declared))

(***************************************************************************)
(* Steps.                                                                  *)
(***************************************************************************)
Token(t, n) == [t |-> t, n |-> n]
Marks == {Token(t, 0) : t \in {"val", "{", "}", ",", "=", ";"}}

\* An expression has the type of what it is for, and a scalar one brace.
Written(t) ==
  /\ t.t \in {"obj", "str"} => ~Excess /\ ~Bare(t) /\ Initializes(t, Target(t).ty)
  /\ t.t = "{" => levels[1].ty.k # "scalar"

\* What a text needs to end.
Closes(t) == t.t \in {"val", "}", "=", ";"}

Write(t) ==
  /\ verdict = "ok" /\ Waits /\ known = {}
  /\ (Len(toks) < kit.tokens /\ cverdict = "ok") \/ Closes(t)
  /\ Written(t)
  /\ CRead(t, Len(toks) + 1, static)
  /\ toks' = Append(toks, t)
  /\ known' = Departs(t)
  /\ UNCHANGED <<declared, static, at, frames, mem, length, verdict, kit>>

Read == known = {} /\ ParseStep /\ UNCHANGED <<cvars, kit, known>>

Init ==
  /\ kit \in Kits
  /\ \E const \in kit.static : InitializersInit(kit.ty, const)
  /\ CInit(kit.ty) /\ known = {}

Next == Read \/ \E t \in Marks \cup kit.more : Write(t)

Spec == Init /\ [][Next]_vars
FairSpec == Spec /\ WF_vars(Read)

(***************************************************************************)
(* Properties.                                                             *)
(***************************************************************************)
(* Whatever the text names, in whatever order and depth of braces: at its  *)
(* end each unit of memory holds what C initialises it with, and an array  *)
(* without a bound has C's number of elements.                             *)
Initialised ==
  verdict = "done" /\ cverdict = "ok" /\ known = {} =>
    /\ mem = cmem
    /\ IsComplete(declared) \/ length = clength

(* An initialiser that keeps the rules of C is accepted.                   *)
AcceptsValid == cverdict = "ok" /\ known = {} => verdict \in {"ok", "done"}

(* One that does not is never accepted.                                    *)
Diagnosed == cverdict = "invalid" /\ known = {} => verdict # "done"

(* The parser comes to its next token: what it puts back it does not meet  *)
(* again for ever.                                                         *)
ReadsOn == ~Waits /\ known = {} ~> Waits
=============================================================================
